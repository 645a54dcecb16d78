---------------------------- MODULE MCTableSync -----------------------------
(* Kinds for the tables that TLC checks: at most two entities, one of      *)
(* which holds one of many things.                                         *)
EXTENDS TableSync

Underscored ==
  [n \in Column |-> CASE n = "a-b"           -> "a_b"
                       [] n = "--key--"       -> "__key__"
                       [] n = "--timestamp--" -> "__timestamp__"
                       [] OTHER               -> n]

Of(type, text, noIndex, multiple) ==
  [value |-> [type |-> type, text |-> text], noIndex |-> noIndex, multiple |-> multiple]

(* One value of each type, and those that are treated apart.               *)
SomeValues ==
  {[type |-> "int", text |-> "7"], [type |-> "float", text |-> "2.5"],
   [type |-> "float", text |-> "NaN"], [type |-> "string", text |-> "some"],
   [type |-> "bool", text |-> "some"], [type |-> "nil", text |-> "null"],
   [type |-> "key", text |-> "Kind,1"], [type |-> "blobkey", text |-> "some"],
   [type |-> "date", text |-> "12:00:00Z"], [type |-> "date", text |-> "year 10000"],
   [type |-> "blob", text |-> "bytes"], [type |-> "geo", text |-> "some"]}

One(multiple) ==
  {<<[value |-> v, noIndex |-> x, multiple |-> multiple]>> : v \in SomeValues, x \in BOOLEAN}

Several(v, w) ==
  <<[value |-> v, noIndex |-> FALSE, multiple |-> TRUE],
    [value |-> w, noIndex |-> FALSE, multiple |-> TRUE]>>

(* Lists of one type, of that and null, and of two types; and a list that  *)
(* begins behind a single value.                                           *)
Two ==
  {Several(v, v) : v \in SomeValues} \cup
  {Several(v, [type |-> "nil", text |-> "null"]) : v \in SomeValues} \cup
  {Several([type |-> "int", text |-> "7"], v) : v \in SomeValues} \cup
  {[Several([type |-> "int", text |-> "7"], [type |-> "int", text |-> "7"]) EXCEPT ![1].multiple = FALSE]}

Int7  == <<Of("int", "7", FALSE, FALSE)>>
Empty == [n \in Name |-> <<>>]
Put(n, ps) == [Empty EXCEPT ![n] = ps]

(* A name that is valid or not, alone and beside the same property of the  *)
(* other entity; two names that go to one column; and those that go to the *)
(* columns of the key and of the time.                                     *)
Own == {"a-b", "a_b"}
Taken == {"--key--", "--timestamp--"}

Kinds ==
  {<<>>} \cup
  {<<Put(n, ps)>> : n \in Own, ps \in One(FALSE) \cup One(TRUE) \cup Two} \cup
  {<<Put(n, ps), Put(n, ps)>> : n \in Own, ps \in One(FALSE) \cup Two} \cup
  {<<Put(n, ps)>> : n \in Taken, ps \in One(FALSE) \cup One(TRUE) \cup Two} \cup
  {<<Put(n, ps), Put(n, Int7)>> : n \in Taken, ps \in One(FALSE)} \cup
  {<<[Put("--key--", ps) EXCEPT !["--timestamp--"] = ps, !["a-b"] = Int7]>> : ps \in One(FALSE)} \cup
  {<<Put("a-b", ps), Put("a-b", Int7)>> : ps \in One(FALSE)} \cup
  {<<[Put("a_b", Int7) EXCEPT !["a-b"] = ps]>> : ps \in One(FALSE) \cup Two} \cup
  {<<[Put("a-b", Int7) EXCEPT !["a_b"] = ps], Empty>> : ps \in One(FALSE)}

NamesExcluded ==
  {{}, {"a-b", "--key--"}, {"a_b", "--timestamp--"}, {"__key__"}, {"__key__", "__timestamp__"}}

=============================================================================

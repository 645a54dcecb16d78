------------------------------ MODULE MCBackup ------------------------------
(* Contents for the backups that TLC checks.  One entity holds one of many *)
(* things, so that the others are exported and loaded around it.           *)
EXTENDS Backup

Of(type, text, noIndex, multiple) ==
  [value |-> [type |-> type, text |-> text], noIndex |-> noIndex, multiple |-> multiple]

(* Every value, alone: indexed or not, single or multiple. *)
Alone == {<<p>> : p \in Property}

(* Some lists of two, of the same type or not, indexed or not. *)
SomeValues ==
  {Of("int", "7", FALSE, TRUE), Of("float", "2.5", TRUE, TRUE), Of("float", "1e+07", FALSE, TRUE),
   Of("date", "12:00:00.5Z", FALSE, TRUE), Of("date", "year 10000", TRUE, TRUE),
   Of("nil", "null", TRUE, TRUE), Of("geo", "some", FALSE, TRUE)}
Lists == {<<p, q>> : p, q \in SomeValues}

Usual == [a |-> <<Of("int", "8", FALSE, FALSE)>>, b |-> <<>>]

Special ==
  [a : Alone \cup Lists \cup {<<>>}, b : {<<>>}] \cup
  [a : {<<p>> : p \in SomeValues}, b : {<<Of("string", "some", FALSE, FALSE)>>}]

SpecialContents ==
  {[k \in Key |-> IF k = 3 THEN s ELSE Usual] : s \in Special}

=============================================================================

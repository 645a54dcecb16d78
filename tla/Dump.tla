-------------------------------- MODULE Dump --------------------------------
(***************************************************************************)
(* aetools.Dump and DumpEntity: export the entities of a kind, or the one  *)
(* with a given key, as a JSON array.  Dump reads with queries limited to  *)
(* a batch, each continuing at the cursor of the one before, until a query *)
(* brings back less than a batch.                                          *)
(***************************************************************************)
EXTENDS KeySpace, Codec

CONSTANTS
  DumpBatch,      \* Options.BatchSize, or its default (100)
  WriterMayFail,  \* whether a call of the io.Writer may fail, and the next work
  Contents        \* what the entities may hold: for each key, its properties

ASSUME DumpAssumption == DumpBatch \in Nat \ {0} /\ WriterMayFail \in BOOLEAN

ASSUME ContentsAssumption ==
  \A c \in Contents : \A k \in Key : \A n \in DOMAIN c[k] :
    c[k][n] \in Seq(Property) /\ Consistent(c[k][n])

VARIABLES
  content, \* the properties of each entity, which stay as they are
  only,    \* the key that DumpEntity was called with, Nil for Dump
  dump,    \* "running", or what the function returned: "ok" or "error"
  at,      \* key behind which the iterator stands
  left,    \* what the limit of the running query still allows
  count, mark,   \* the variables count and last
  out,     \* the entities that the io.Writer took whole
  array,   \* where a parser of the output stands: see Parse
  failed,  \* auxiliary: whether a call of the io.Writer failed
  dropped  \* auxiliary: the entities of which it took nothing

dumped   == <<content, only>>
output  == <<out, array, failed, dropped>>
dumpVars == <<dumped, dump, at, left, count, mark, output>>

Export(k) == [key |-> k, object |-> MarshalJSON(content[k])]

(* The output is parsed token by token.  What is lost goes by unnoticed    *)
(* where the rest is an array all the same.                                *)
ArrayState == {"open", "entity", "comma", "closed", "bad"}
Parse(t, token) ==
  CASE t \in {"open", "comma"} /\ token = "entity"   -> "entity"
    [] t = "entity" /\ token = "comma"               -> "comma"
    [] t \in {"open", "entity"} /\ token = "bracket" -> "closed"
    [] OTHER                                         -> "bad"

(* Whether a call of w.Write fails.  Its result is never looked at.        *)
Fails == IF WriterMayFail THEN BOOLEAN ELSE {FALSE}

DumpTypeOK ==
  /\ content \in Contents
  /\ only \in Key \cup {Nil}
  /\ dump \in {"running", "ok", "error"}
  /\ at \in Key \cup {Nil}
  /\ left \in 0..DumpBatch
  /\ count \in Nat /\ mark \in Nat
  /\ out \in Seq({Export(k) : k \in Key})
  /\ array \in ArrayState /\ failed \in BOOLEAN /\ dropped \in SUBSET Key

DumpInit ==
  /\ content \in Contents
  /\ only \in Key \cup {Nil}
  /\ dump = "running"
  /\ at = Nil
  /\ left = DumpBatch
  /\ count = 0
  /\ mark = 0
  /\ out = <<>>
  /\ failed \in Fails
  /\ array = IF failed THEN "bad" ELSE "open"
  /\ dropped = {}

Ahead == {k \in Key : at = Nil \/ at < k}

(* The next entity of the running query.  Those that come and go may be    *)
(* there or not.                                                           *)
NextInQuery(k) == k \in Ahead /\ \A r \in Resident \cap Ahead : k <= r

-----------------------------------------------------------------------------
(* The comma; the line feed behind it is white space to the parser.        *)
Separated(fails) == IF count = 0 \/ fails THEN array ELSE Parse(array, "comma")

(* An entity that cannot be encoded ends the export behind the comma, else *)
(* it is written: whole, not at all, or cut short, which no later token    *)
(* makes good.                                                             *)
Write(k, before, fails) ==
  \/ /\ ~Marshals(content[k])
     /\ dump' = "error"
     /\ array' = before /\ failed' = fails
     /\ UNCHANGED <<out, dropped>>
  \/ /\ Marshals(content[k])
     /\ dump' = dump
     /\ \/ /\ out' = Append(out, Export(k))
           /\ array' = Parse(before, "entity") /\ failed' = fails
           /\ UNCHANGED dropped
        \/ /\ WriterMayFail
           /\ array' = before /\ failed' = TRUE
           /\ dropped' = dropped \cup {k}
           /\ UNCHANGED out
        \/ /\ WriterMayFail
           /\ array' = "bad" /\ failed' = TRUE
           /\ UNCHANGED <<out, dropped>>

DumpNext ==
  /\ dump = "running" /\ only = Nil
  /\ left > 0
  /\ \E k \in Ahead, f \in Fails :
       NextInQuery(k) /\ at' = k /\ Write(k, Separated(f), failed \/ (f /\ count > 0))
  /\ left' = left - 1
  /\ count' = count + 1
  /\ UNCHANGED <<dumped, mark>>

(* The closing bracket. *)
Close ==
  /\ dump' = "ok"
  /\ \E f \in Fails : /\ array' = IF f THEN array ELSE Parse(array, "bracket")
                      /\ failed' = (failed \/ f)
  /\ UNCHANGED <<dumped, at, left, count, mark, out, dropped>>

QueryDone ==
  /\ dump = "running" /\ only = Nil
  /\ left = 0 \/ Resident \cap Ahead = {}

(* Mutant: a full batch is taken for the last one.                         *)
LastQueryOff == mark = count \/ count - mark <= DumpBatch
LastQuery == mark = count \/ count - mark < DumpBatch

DumpEnd ==
  /\ QueryDone
  /\ LastQuery
  /\ Close

(* Mutant: the count of the batches before is lost.                        *)
DumpRestartUnmarked ==
  /\ QueryDone
  /\ ~LastQuery
  /\ left' = DumpBatch
  /\ UNCHANGED <<dumped, dump, at, count, mark, output>>

(* The cursor stands behind the last entity of the query. *)
DumpRestart ==
  /\ QueryDone
  /\ ~LastQuery
  /\ mark' = count
  /\ left' = DumpBatch
  /\ UNCHANGED <<dumped, dump, at, count, output>>

-----------------------------------------------------------------------------
(* DumpEntity: datastore.Get, which fails when the entity is not there. *)
DumpEntity ==
  /\ dump = "running" /\ only # Nil
  /\ at = Nil
  /\ at' = only
  /\ \/ Write(only, array, failed)
     \/ only \notin Resident /\ dump' = "error" /\ UNCHANGED output
  /\ UNCHANGED <<dumped, left, count, mark>>

DumpEntityEnd ==
  /\ dump = "running" /\ only # Nil
  /\ at = only
  /\ Close

-----------------------------------------------------------------------------
(* Mutant: an error ends the loop like the end of the query.               *)
DumpErrorIgnored ==
  /\ dump = "running"
  /\ Close

(* An error of the query or of its cursor, or of datastore.Get.  All come  *)
(* before an entity is written or between two of them.                     *)
DumpError ==
  /\ dump = "running"
  /\ only # Nil => at = Nil
  /\ dump' = "error"
  /\ UNCHANGED <<dumped, at, left, count, mark, output>>

DumpStep    == DumpNext \/ DumpEnd \/ DumpRestart \/ DumpEntity \/ DumpEntityEnd
DumpActions == DumpStep \/ DumpError

-----------------------------------------------------------------------------
(* What the export is asked for, and is sure to find.                      *)
Asked == IF only = Nil THEN Resident ELSE {only}

(* An export that ended well, and whose writes all worked, is an array of  *)
(* every entity it was asked for that was there throughout, across any     *)
(* number of restarted queries, none twice, and none was left out because  *)
(* it has no JSON form.                                                    *)
DumpIsComplete ==
  dump = "ok" /\ ~failed =>
    /\ array = "closed"
    /\ \A k \in Asked : \E n \in 1..Len(out) : out[n] = Export(k)
    /\ \A m, n \in 1..Len(out) : m < n => out[m].key < out[n].key

=============================================================================

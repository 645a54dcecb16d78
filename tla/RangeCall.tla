----------------------------- MODULE RangeCall ------------------------------
(***************************************************************************)
(* What a call of SyncKeyRange(start, end) promises to its caller,         *)
(* whatever its loop, cursors and chunks do: an answer without error names *)
(* the key up to which every resident entity of the range is in the table. *)
(* SyncKeyRange is shown to implement it, and SyncPipeline's workers are   *)
(* modelled after it.                                                      *)
(***************************************************************************)
EXTENDS KeyBatches

VARIABLES
  start, end,  \* the parameters
  phase,       \* "fetch", "post", "failed" or "returned"
  todo,        \* entities of the batch that are not ingested yet
  last,        \* the key the answer will carry
  reply,       \* "none", then "ok", "error" or "rejected"
  table        \* keys that have at least one row in BigQuery

callVars == <<start, end, phase, todo, last, reply, table>>

CallInit ==
  /\ start \in Key \cup {Nil}
  /\ end \in Key \cup {Nil}
  /\ phase = "fetch"
  /\ todo = {}
  /\ last = Nil
  /\ reply = "none"
  /\ table = {}

Reject ==
  /\ phase = "fetch"
  /\ start = Nil
  /\ phase' = "returned"
  /\ reply' = "rejected"
  /\ UNCHANGED <<start, end, todo, last, table>>

(* A pass over the range that meets no error: a full batch, or the end.    *)
Fetch ==
  /\ phase = "fetch"
  /\ start # Nil
  /\ phase' = "post"
  /\ \/ \E R \in FullBatches(start, end) :
          /\ todo' = R
          /\ last' \in R /\ \A r \in R : r <= last'
     \/ /\ todo' \in FinalBatches(start, end)
        /\ last' = end
  /\ UNCHANGED <<start, end, reply, table>>

Post ==
  /\ phase = "post"
  /\ \E C \in SUBSET todo :
       /\ table' = table \cup C
       /\ todo' = todo \ C
  /\ UNCHANGED <<start, end, phase, last, reply>>

(* Any error.  Rows may have been stored, and more may follow: the call    *)
(* still ingests what it holds before it returns.                          *)
Fail ==
  /\ phase \in {"fetch", "post", "failed"}
  /\ start # Nil
  /\ phase' = "failed"
  /\ \E C \in SUBSET Selected(start, end) : table' = table \cup C
  /\ todo' = {}
  /\ last' = Nil
  /\ UNCHANGED <<start, end, reply>>

Return ==
  /\ \/ /\ phase = "post"
        /\ todo = {}
        /\ reply' = "ok"
     \/ /\ phase = "failed"
        /\ reply' = "error"
  /\ phase' = "returned"
  /\ UNCHANGED <<start, end, todo, last, table>>

CallNext == Reject \/ Fetch \/ Post \/ Fail \/ Return

CallSafety == CallInit /\ [][CallNext]_callVars

CallSpec ==
  /\ CallSafety
  /\ WF_callVars(Reject \/ Fetch \/ (Post /\ todo' = {}) \/ Return)

=============================================================================

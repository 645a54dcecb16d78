-------------------------- MODULE AtLeastOnceSync ---------------------------
(***************************************************************************)
(* What the synchronisation of a kind promises: rows only get added, and   *)
(* the task queue falls silent only when every entity whose range it       *)
(* accepted is in the table.                                               *)
(***************************************************************************)
EXTENDS FiniteSets

CONSTANT Entity

VARIABLES
  wanted,  \* entities of the ranges the task queue accepted
  table,   \* entities that have a row in BigQuery
  busy     \* whether tasks are queued

syncVars == <<wanted, table, busy>>

SyncInit ==
  /\ wanted = {}
  /\ table = {}
  /\ busy = FALSE

(* A range is accepted, or more tasks are queued for what was. *)
Accept ==
  /\ wanted' \in {S \in SUBSET Entity : wanted \subseteq S}
  /\ busy' = TRUE
  /\ UNCHANGED table

(* Also without a queued task: a duplicate may outlive the one it repeats. *)
Ingest ==
  /\ table' \in {S \in SUBSET Entity : table \subseteq S}
  /\ UNCHANGED <<wanted, busy>>

Finish ==
  /\ busy
  /\ wanted \subseteq table
  /\ busy' = FALSE
  /\ UNCHANGED <<wanted, table>>

SyncNext == Accept \/ Ingest \/ Finish

SyncSpec == SyncInit /\ [][SyncNext]_syncVars

=============================================================================

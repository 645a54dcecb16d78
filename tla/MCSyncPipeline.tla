--------------------------- MODULE MCSyncPipeline ---------------------------
(***************************************************************************)
(* Instances of SyncPipeline for TLC, and what the documentation of        *)
(* SyncKindHandler says of it.                                             *)
(***************************************************************************)
EXTENDS SyncPipeline, MCKeyRanges, TLC

(* Entities that always fail: none, or one in the range of the last keys.  *)
NoPoison    == {{}}
PoisonOrNot == {{}, {3}}

(* No action tells instances apart; only runs without liveness use it.     *)
Symmetry == Permutations(Worker)

(* "SyncKindHandler spawn task queues for paralell synchronization of all  *)
(* entities in a specific Kind": when it answered 200 and the tasks have   *)
(* all been executed, every entity of the kind is in BigQuery.             *)
AnsweredMeansSynced ==
  reply = "200" /\ ranges # <<>> /\ queue = {} => Resident \subseteq table

=============================================================================

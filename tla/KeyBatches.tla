----------------------------- MODULE KeyBatches -----------------------------
(***************************************************************************)
(* What one batch read by a key-range query can hold.                      *)
(***************************************************************************)
EXTENDS KeySpace

CONSTANT BatchSize   \* bigquerysync.BatchSize: entities read by one call (81)

(* A batch of one would never get past the first key of its range.         *)
ASSUME BatchAssumption == BatchSize \in Nat /\ BatchSize > 1

-----------------------------------------------------------------------------
(* The entities one error-free pass over [s,e] can bring back.  The pass   *)
(* stops when the batch is full, and then it has seen every resident       *)
(* entity up to the last key it read; or at the end of the query, and then *)
(* it has seen them all.                                                   *)
FullBatches(s, e) ==
  {R \in SUBSET Selected(s, e) :
     /\ Cardinality(R) = BatchSize
     /\ \A k \in Resident \cap Selected(s, e) : k \in R \/ \A r \in R : r < k}

FinalBatches(s, e) ==
  {R \in SUBSET Selected(s, e) :
     /\ Cardinality(R) < BatchSize
     /\ Resident \cap Selected(s, e) \subseteq R}

=============================================================================

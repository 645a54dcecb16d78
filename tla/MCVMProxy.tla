----------------------------- MODULE MCVMProxy ------------------------------
(* Instances of VMProxy for TLC. *)
EXTENDS VMProxy, TLC

(* No action tells requests apart; only the runs of invariants use it.     *)
Symmetry == Permutations(Request)

=============================================================================

------------------------------ MODULE KeySpace ------------------------------
(***************************************************************************)
(* The datastore keys of one kind and the key-range queries of             *)
(* bigquerysync.                                                           *)
(*                                                                         *)
(* A key is an integer: its place in the datastore's key order.  The       *)
(* application keeps writing while a synchronisation runs.  The entities   *)
(* with a key in Resident are there all along; every other key of Key may  *)
(* be put or deleted at any moment, so that each read may or may not see   *)
(* it.                                                                     *)
(***************************************************************************)
EXTENDS Integers, FiniteSets

CONSTANTS
  Key,        \* the keys the kind can hold
  Resident,   \* the keys whose entities exist during the whole run
  Nil         \* the nil *datastore.Key, and the empty query cursor

ASSUME KeyAssumption ==
  /\ Key \subseteq Int
  /\ IsFiniteSet(Key)
  /\ Resident \subseteq Key
  /\ Nil \notin Key

-----------------------------------------------------------------------------
(* createQuery: [s,s] is one entity, [s,Nil] is open, else e is excluded.  *)
Selects(s, e, k) ==
  IF s = e THEN k = s ELSE s <= k /\ (e = Nil \/ k < e)

Selected(s, e) == {k \in Key : Selects(s, e, k)}

(* What a query has left to return after position p (Nil: its beginning).  *)
After(s, e, p) == {k \in Selected(s, e) : p = Nil \/ p < k}

=============================================================================

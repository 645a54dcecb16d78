------------------------------ MODULE KeyOrder ------------------------------
(***************************************************************************)
(* The order in which bigquerysync sorts keys: CompareKeys compares the    *)
(* key paths, from the root ancestor down, element by element with cmpKey. *)
(* Precedes is the order of the datastore's queries by __key__, to which   *)
(* it has to agree; KeyOrderProofs shows that it does.                     *)
(*                                                                         *)
(* A key is its path.  A string is the integer that tells its place in the *)
(* byte order, 0 the empty string.  An element has an id or a name.        *)
(***************************************************************************)
EXTENDS Integers, Sequences

Element ==
  [app : Int, kind : Int, id : Int \ {0}, name : {0}] \cup
  [app : Int, kind : Int, id : {0}, name : Int \ {0}]

Path == Seq(Element)

-----------------------------------------------------------------------------
(* cmpStr and cmpInt. *)
Cmp(i, other) == IF i < other THEN -1 ELSE IF i > other THEN 1 ELSE 0

(* Mutant: names come before ids.                                          *)
cmpKeyNamesFirst(k, other) ==
  IF k.name # other.name THEN -Cmp(k.name, other.name) ELSE Cmp(k.id, other.id)

cmpKey(k, other) ==
  IF k.app # other.app THEN Cmp(k.app, other.app)
  ELSE IF k.kind # other.kind THEN Cmp(k.kind, other.kind)
  ELSE IF k.id # 0 THEN IF other.id = 0 THEN -1 ELSE Cmp(k.id, other.id)
  ELSE IF other.id # 0 THEN 1
  ELSE Cmp(k.name, other.name)

(* The places at which the loop over thisPath finds its result ...         *)
Unequal(k, other) ==
  {i \in 1..Len(k) : i <= Len(other) /\ cmpKey(k[i], other[i]) # 0}

FirstUnequal(k, other) ==
  CHOOSE i \in Unequal(k, other) : \A j \in Unequal(k, other) : i <= j

(* ... and what it returns, there or behind the shorter path.              *)
CompareKeys(k, other) ==
  IF Unequal(k, other) # {}
    THEN LET i == FirstUnequal(k, other) IN cmpKey(k[i], other[i])
    ELSE Cmp(Len(k), Len(other))

(* byKey.Less *)
Less(k, other) == CompareKeys(k, other) = -1

-----------------------------------------------------------------------------
(* The datastore: ids before names, ancestors before their descendants.    *)
ElementBefore(a, b) ==
  \/ a.app < b.app
  \/ a.app = b.app /\ a.kind < b.kind
  \/ a.app = b.app /\ a.kind = b.kind /\ a.id # 0 /\ (b.id = 0 \/ a.id < b.id)
  \/ a.app = b.app /\ a.kind = b.kind /\ a.id = 0 /\ b.id = 0 /\ a.name < b.name

AgreeBefore(p, q, i) == \A j \in 1..(i - 1) : p[j] = q[j]

Precedes(p, q) ==
  \/ \E i \in 1..Len(p) :
       i <= Len(q) /\ AgreeBefore(p, q, i) /\ ElementBefore(p[i], q[i])
  \/ Len(p) < Len(q) /\ AgreeBefore(p, q, Len(p) + 1)

=============================================================================

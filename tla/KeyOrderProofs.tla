--------------------------- MODULE KeyOrderProofs ---------------------------
(***************************************************************************)
(* CompareKeys is the datastore's key order, for keys of any depth, and so *)
(* a strict total order: what sort.Sort needs of byKey.Less.               *)
(***************************************************************************)
EXTENDS KeyOrder, FiniteSetTheorems, TLAPS

(* One element of a path: cmpKey tells the datastore's order. *)
LEMMA CmpKeyIsElementOrder ==
  ASSUME NEW a \in Element, NEW b \in Element
  PROVE  /\ cmpKey(a, b) \in {-1, 0, 1}
         /\ cmpKey(a, b) = -1 <=> ElementBefore(a, b)
         /\ cmpKey(a, b) = 1 <=> ElementBefore(b, a)
         /\ cmpKey(a, b) = 0 <=> a = b
<1>1. /\ {a.app, a.kind, a.id, a.name, b.app, b.kind, b.id, b.name} \subseteq Int
      /\ a.id # 0 <=> a.name = 0
      /\ b.id # 0 <=> b.name = 0
  BY DEF Element
<1>2. a.app = b.app /\ a.kind = b.kind /\ a.id = b.id /\ a.name = b.name => a = b
  BY DEF Element
<1> QED
  BY <1>1, <1>2 DEF cmpKey, Cmp, ElementBefore

(* A set of indices that is not empty has a least one. *)
LEMMA LeastIndex ==
  ASSUME NEW n \in Nat, NEW D \in SUBSET (1..n), D # {}
  PROVE  \E i \in D : \A j \in D : i <= j
<1> DEFINE UpTo(i) == {j \in D : j <= i}
           T == {UpTo(i) : i \in D}
<1>1. IsFiniteSet(D)
  <2>1. IsFiniteSet(1..n)
    BY FS_Interval
  <2> QED
    BY <2>1, FS_Subset
<1>2. T \subseteq FiniteSubsetsOf(D)
  BY <1>1, FS_Subset DEF FiniteSubsetsOf
<1>3. PICK U \in T : \A V \in T : ~(<<V, U>> \in StrictSubsetOrdering(D))
  <2>1. IsWellFoundedOn(StrictSubsetOrdering(D), FiniteSubsetsOf(D))
    BY FS_StrictSubsetOrderingWellFounded
  <2>2. T # {}
    OBVIOUS
  <2> HIDE DEF T
  <2> QED
    BY <1>2, <2>1, <2>2, WFMin
<1>4. PICK i \in D : U = UpTo(i)
  OBVIOUS
<1>5. ASSUME NEW j \in D, j < i PROVE FALSE
  <2>1. D \subseteq Int
    OBVIOUS
  <2>2. UpTo(j) \subseteq UpTo(i)
    <3>1. \A m \in D : m <= j => m <= i
      BY <1>5, <2>1
    <3> QED
      BY <3>1
  <2>3. i \in UpTo(i) /\ i \notin UpTo(j)
    BY <1>5, <2>1
  <2>4. <<UpTo(j), UpTo(i)>> \in StrictSubsetOrdering(D)
    BY <2>2, <2>3 DEF StrictSubsetOrdering
  <2> QED
    BY <1>3, <1>4, <1>5, <2>4
<1> QED
  BY <1>5

-----------------------------------------------------------------------------
LEMMA PathElements ==
  ASSUME NEW p \in Path
  PROVE  Len(p) \in Nat /\ \A i \in 1..Len(p) : p[i] \in Element
  BY DEF Path

LEMMA FirstUnequalIsLeast ==
  ASSUME NEW p \in Path, NEW q \in Path, Unequal(p, q) # {}
  PROVE  LET i == FirstUnequal(p, q)
         IN  /\ i \in 1..Len(p) /\ i \in 1..Len(q)
             /\ p[i] # q[i]
             /\ AgreeBefore(p, q, i)
<1>1. \E i \in Unequal(p, q) : \A j \in Unequal(p, q) : i <= j
  BY LeastIndex, PathElements DEF Unequal
<1>2. /\ FirstUnequal(p, q) \in Unequal(p, q)
      /\ \A j \in Unequal(p, q) : FirstUnequal(p, q) <= j
  BY <1>1 DEF FirstUnequal
<1> QED
  BY <1>2, PathElements, CmpKeyIsElementOrder DEF Unequal, AgreeBefore

LEMMA NoneUnequal ==
  ASSUME NEW p \in Path, NEW q \in Path, Unequal(p, q) = {},
         NEW i \in 1..Len(p), i <= Len(q)
  PROVE  p[i] = q[i]
  BY PathElements, CmpKeyIsElementOrder DEF Unequal

(* Where two paths part, the elements there decide. *)
LEMMA PartingDecides ==
  ASSUME NEW p \in Path, NEW q \in Path, NEW i \in Nat,
         i \in 1..Len(p), i \in 1..Len(q), p[i] # q[i], AgreeBefore(p, q, i)
  PROVE  Precedes(p, q) <=> ElementBefore(p[i], q[i])
<1>1. ElementBefore(p[i], q[i]) => Precedes(p, q)
  BY PathElements DEF Precedes
<1>2. ASSUME Precedes(p, q) PROVE ElementBefore(p[i], q[i])
  <2>1. CASE \E j \in 1..Len(p) : j <= Len(q) /\ AgreeBefore(p, q, j) /\ ElementBefore(p[j], q[j])
    <3>1. PICK j \in 1..Len(p) : j <= Len(q) /\ AgreeBefore(p, q, j) /\ ElementBefore(p[j], q[j])
      BY <2>1
    <3>2. p[j] # q[j]
      BY <3>1, PathElements, CmpKeyIsElementOrder
    <3>3. i = j
      BY <3>1, <3>2, PathElements DEF AgreeBefore
    <3> QED
      BY <3>1, <3>3
  <2>2. CASE Len(p) < Len(q) /\ AgreeBefore(p, q, Len(p) + 1)
    BY <2>2, PathElements DEF AgreeBefore
  <2> QED
    BY <1>2, <2>1, <2>2 DEF Precedes
<1> QED
  BY <1>1, <1>2

(* A path that agrees with another one as far as both go. *)
LEMMA PrefixDecides ==
  ASSUME NEW p \in Path, NEW q \in Path, Unequal(p, q) = {}
  PROVE  Precedes(p, q) <=> Len(p) < Len(q)
<1>1. Len(p) < Len(q) => Precedes(p, q)
  BY PathElements, NoneUnequal DEF Precedes, AgreeBefore
<1>2. ASSUME NEW i \in 1..Len(p), i <= Len(q), ElementBefore(p[i], q[i]) PROVE FALSE
  BY <1>2, PathElements, NoneUnequal, CmpKeyIsElementOrder
<1> QED
  BY <1>1, <1>2 DEF Precedes

LEMMA UnequalSymmetric ==
  ASSUME NEW p \in Path, NEW q \in Path
  PROVE  Unequal(p, q) = Unequal(q, p)
<1>1. \A i \in 1..Len(p) : i \in 1..Len(q) => (cmpKey(p[i], q[i]) = 0 <=> cmpKey(q[i], p[i]) = 0)
  BY PathElements, CmpKeyIsElementOrder
<1> QED
  BY <1>1, PathElements DEF Unequal

(* CompareKeys answers -1, 0 or 1 as the first key is before, equal to or  *)
(* behind the other in the order of the datastore's queries: the ranges    *)
(* built from sorted keys are ranges of those queries.                     *)
THEOREM CompareKeysIsKeyOrder ==
  ASSUME NEW p \in Path, NEW q \in Path
  PROVE  /\ CompareKeys(p, q) = -1 <=> Precedes(p, q)
         /\ CompareKeys(p, q) = 1 <=> Precedes(q, p)
         /\ CompareKeys(p, q) = 0 <=> p = q
<1>1. CASE Unequal(p, q) # {}
  <2> DEFINE i == FirstUnequal(p, q)
  <2>1. i \in 1..Len(p) /\ i \in 1..Len(q) /\ p[i] # q[i] /\ AgreeBefore(p, q, i)
    BY <1>1, FirstUnequalIsLeast
  <2>2. AgreeBefore(q, p, i)
    BY <2>1 DEF AgreeBefore
  <2>3. /\ Precedes(p, q) <=> ElementBefore(p[i], q[i])
        /\ Precedes(q, p) <=> ElementBefore(q[i], p[i])
    <3> HIDE DEF i
    <3> QED
      BY <2>1, <2>2, PathElements, PartingDecides
  <2>4. CompareKeys(p, q) = cmpKey(p[i], q[i])
    BY <1>1 DEF CompareKeys
  <2>5. p[i] \in Element /\ q[i] \in Element
    BY <2>1, PathElements
  <2> QED
    BY <2>1, <2>3, <2>4, <2>5, CmpKeyIsElementOrder
<1>2. CASE Unequal(p, q) = {}
  <2>1. CompareKeys(p, q) = Cmp(Len(p), Len(q))
    BY <1>2 DEF CompareKeys
  <2>2. /\ Precedes(p, q) <=> Len(p) < Len(q)
        /\ Precedes(q, p) <=> Len(q) < Len(p)
    BY <1>2, PrefixDecides, UnequalSymmetric
  <2>3. Len(p) = Len(q) => p = q
    BY <1>2, PathElements, NoneUnequal DEF Path
  <2> QED
    BY <2>1, <2>2, <2>3, PathElements DEF Cmp
<1> QED
  BY <1>1, <1>2

-----------------------------------------------------------------------------
LEMMA ElementBeforeTransitive ==
  ASSUME NEW a \in Element, NEW b \in Element, NEW c \in Element,
         ElementBefore(a, b), ElementBefore(b, c)
  PROVE  ElementBefore(a, c)
<1>1. {a.app, a.kind, a.id, a.name, b.app, b.kind, b.id, b.name,
       c.app, c.kind, c.id, c.name} \subseteq Int
  BY DEF Element
<1> QED
  BY <1>1 DEF ElementBefore

(* byKey.Less is transitive: with CompareKeysIsKeyOrder, a strict total    *)
(* order of the key paths, as sort.Sort in KeyRangesForKind requires.      *)
THEOREM LessIsTransitive ==
  ASSUME NEW p \in Path, NEW q \in Path, NEW r \in Path, Less(p, q), Less(q, r)
  PROVE  Less(p, r)
<1>1. Precedes(p, q) /\ Precedes(q, r)
  BY CompareKeysIsKeyOrder DEF Less
<1>2. SUFFICES Precedes(p, r)
  BY CompareKeysIsKeyOrder DEF Less
<1>3. CASE \E i \in 1..Len(p) : /\ i <= Len(q) /\ AgreeBefore(p, q, i)
                                /\ ElementBefore(p[i], q[i])
  <2>1. PICK i \in 1..Len(p) : /\ i <= Len(q) /\ AgreeBefore(p, q, i)
                               /\ ElementBefore(p[i], q[i])
    BY <1>3
  <2>2. CASE \E j \in 1..Len(q) : /\ j <= Len(r) /\ AgreeBefore(q, r, j)
                                  /\ ElementBefore(q[j], r[j])
    <3>1. PICK j \in 1..Len(q) : /\ j <= Len(r) /\ AgreeBefore(q, r, j)
                                 /\ ElementBefore(q[j], r[j])
      BY <2>2
    <3>2. CASE i < j
      <4>1. i <= Len(r) /\ q[i] = r[i] /\ AgreeBefore(p, r, i)
        BY <2>1, <3>1, <3>2, PathElements DEF AgreeBefore
      <4> QED
        BY <2>1, <4>1 DEF Precedes
    <3>3. CASE j < i
      <4>1. j \in 1..Len(p) /\ p[j] = q[j] /\ AgreeBefore(p, r, j)
        BY <2>1, <3>1, <3>3, PathElements DEF AgreeBefore
      <4> QED
        BY <3>1, <4>1 DEF Precedes
    <3>4. CASE i = j
      <4>1. ElementBefore(p[i], r[i])
        BY <2>1, <3>1, <3>4, PathElements, ElementBeforeTransitive
      <4>2. AgreeBefore(p, r, i)
        BY <2>1, <3>1, <3>4 DEF AgreeBefore
      <4> QED
        BY <2>1, <3>1, <3>4, <4>1, <4>2 DEF Precedes
    <3> QED
      BY <2>1, <3>1, <3>2, <3>3, <3>4, PathElements
  <2>3. CASE Len(q) < Len(r) /\ AgreeBefore(q, r, Len(q) + 1)
    <3>1. i <= Len(r) /\ q[i] = r[i] /\ AgreeBefore(p, r, i)
      BY <2>1, <2>3, PathElements DEF AgreeBefore
    <3> QED
      BY <2>1, <3>1 DEF Precedes
  <2> QED
    BY <1>1, <2>2, <2>3 DEF Precedes
<1>4. CASE Len(p) < Len(q) /\ AgreeBefore(p, q, Len(p) + 1)
  <2>1. CASE \E j \in 1..Len(q) : /\ j <= Len(r) /\ AgreeBefore(q, r, j)
                                  /\ ElementBefore(q[j], r[j])
    <3>1. PICK j \in 1..Len(q) : /\ j <= Len(r) /\ AgreeBefore(q, r, j)
                                 /\ ElementBefore(q[j], r[j])
      BY <2>1
    <3>2. CASE j <= Len(p)
      <4>1. p[j] = q[j] /\ AgreeBefore(p, r, j)
        BY <1>4, <3>1, <3>2, PathElements DEF AgreeBefore
      <4> QED
        BY <3>1, <3>2, <4>1, PathElements DEF Precedes
    <3>3. CASE Len(p) < j
      <4>1. Len(p) < Len(r) /\ AgreeBefore(p, r, Len(p) + 1)
        BY <1>4, <3>1, <3>3, PathElements DEF AgreeBefore
      <4> QED
        BY <4>1 DEF Precedes
    <3> QED
      BY <3>1, <3>2, <3>3, PathElements
  <2>2. CASE Len(q) < Len(r) /\ AgreeBefore(q, r, Len(q) + 1)
    <3>1. Len(p) < Len(r) /\ AgreeBefore(p, r, Len(p) + 1)
      BY <1>4, <2>2, PathElements DEF AgreeBefore
    <3> QED
      BY <3>1 DEF Precedes
  <2> QED
    BY <1>1, <2>1, <2>2 DEF Precedes
<1> QED
  BY <1>1, <1>3, <1>4 DEF Precedes

=============================================================================

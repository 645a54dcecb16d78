--------------------------- MODULE KeyRangesProofs --------------------------
(***************************************************************************)
(* Proofs about KeyRangesForKind, for any set of keys, any set of resident *)
(* entities and any limit of the scatter query.                            *)
(***************************************************************************)
EXTENDS KeyRanges, KeyOrderProofs, SequenceTheorems, TLAPS

(* Adding a range keeps the others where they are. *)
LEMMA AppendRange ==
  ASSUME NEW S \in Seq(KeyRange), NEW r \in KeyRange
  PROVE  /\ Append(S, r) \in Seq(KeyRange)
         /\ Len(S) \in Nat
         /\ Len(Append(S, r)) = Len(S) + 1
         /\ \A i \in 1..Len(S) : Append(S, r)[i] = S[i]
         /\ Append(S, r)[Len(S) + 1] = r
  BY AppendProperties, LenProperties

(* The value of start once the first query has brought a key back. *)
Started == scan \in {"scatter", "build"} => start \in Key

LEMMA TypeInit == KeyRangesInit => KeyRangesTypeOK /\ Started
  BY EmptySeq DEF KeyRangesInit, KeyRangesTypeOK, Started, Scan

LEMMA TypeStep ==
  KeyRangesTypeOK /\ Started /\ [KeyRangesNext]_keyRangesVars
    => KeyRangesTypeOK' /\ Started'
<1> SUFFICES ASSUME KeyRangesTypeOK, Started, [KeyRangesNext]_keyRangesVars
             PROVE  KeyRangesTypeOK' /\ Started'
  OBVIOUS
<1> USE DEF KeyRangesTypeOK, Started, Scan
<1>1. CASE FirstKey
  BY <1>1 DEF FirstKey
<1>2. CASE NoFirstKey
  BY <1>2 DEF NoFirstKey
<1>3. CASE ScatterKey
  BY <1>3 DEF ScatterKey
<1>4. CASE ScatterEnd
  <2>1. CASE scatter = {}
    <3> DEFINE r == [start |-> start, end |-> Nil]
    <3>1. r \in KeyRange
      BY <1>4 DEF ScatterEnd, KeyRange
    <3>2. <<r>> \in Seq(KeyRange)
      BY <3>1
    <3> QED
      BY <1>4, <2>1, <3>2 DEF ScatterEnd
  <2>2. CASE scatter # {}
    BY <1>4, <2>2 DEF ScatterEnd
  <2> QED
    BY <2>1, <2>2
<1>5. CASE BuildRange
  <2>1. PICK k \in scatter : /\ ranges' = Append(ranges, [start |-> start, end |-> k])
                             /\ start' = k
                             /\ scatter' = scatter \ {k}
    BY <1>5 DEF BuildRange
  <2>2. [start |-> start, end |-> k] \in KeyRange
    BY <1>5, <2>1 DEF BuildRange, KeyRange
  <2>3. ranges' \in Seq(KeyRange)
    BY <2>1, <2>2, AppendRange
  <2> QED
    BY <1>5, <2>1, <2>3 DEF BuildRange
<1>6. CASE LastRange
  <2>1. [start |-> start, end |-> Nil] \in KeyRange
    BY <1>6 DEF LastRange, KeyRange
  <2>2. ranges' \in Seq(KeyRange)
    BY <1>6, <2>1, AppendRange DEF LastRange
  <2> QED
    BY <1>6, <2>2 DEF LastRange
<1>7. CASE UNCHANGED keyRangesVars
  BY <1>7 DEF keyRangesVars
<1> QED
  BY <1>1, <1>2, <1>3, <1>4, <1>5, <1>6, <1>7 DEF KeyRangesNext

(* Every state of KeyRangesForKind is well typed: whatever the scatter     *)
(* query brings, the ranges it returns start at a key of the kind.         *)
THEOREM KeyRangesTypeCorrect == KeyRangesSpec => []KeyRangesTypeOK
<1>1. KeyRangesInit => KeyRangesTypeOK /\ Started
  BY TypeInit
<1>2. KeyRangesTypeOK /\ Started /\ [KeyRangesNext]_keyRangesVars
        => (KeyRangesTypeOK /\ Started)'
  BY TypeStep
<1> QED
  BY <1>1, <1>2, PTL DEF KeyRangesSpec

-----------------------------------------------------------------------------
(* The loop invariant behind the coverage: what no range covers yet is     *)
(* still ahead of start.                                                   *)
AheadOrCovered ==
  scan \in {"scatter", "build"} => \A k \in Resident : start <= k \/ Covered(k)

(* The inductive invariant of the coverage; there is no range before the   *)
(* loop that builds them.                                                  *)
CoverInv ==
  /\ KeyRangesTypeOK
  /\ Started
  /\ scan \in {"first", "scatter"} => ranges = <<>>
  /\ AheadOrCovered
  /\ RangesCoverKind

(* What was covered stays covered when a range is added. *)
LEMMA CoveredStays ==
  ASSUME NEW r \in KeyRange, ranges \in Seq(KeyRange), ranges' = Append(ranges, r),
         NEW k
  PROVE  /\ Covered(k) => Covered(k)'
         /\ Covers(r, k) => Covered(k)'
<1>1. /\ Len(ranges) \in Nat
      /\ Len(ranges') = Len(ranges) + 1
      /\ \A i \in 1..Len(ranges) : ranges'[i] = ranges[i]
      /\ ranges'[Len(ranges) + 1] = r
  BY AppendRange
<1>2. 1..Len(ranges) \subseteq 1..Len(ranges')
  BY <1>1
<1>3. Len(ranges) + 1 \in 1..Len(ranges')
  BY <1>1
<1> QED
  BY <1>1, <1>2, <1>3 DEF Covered

LEMMA CoverStep == CoverInv /\ [KeyRangesNext]_keyRangesVars => CoverInv'
<1> SUFFICES ASSUME CoverInv, [KeyRangesNext]_keyRangesVars
             PROVE  CoverInv'
  OBVIOUS
<1>0. KeyRangesTypeOK' /\ Started'
  BY TypeStep DEF CoverInv
<1> USE KeyAssumption DEF CoverInv
<1>1. CASE FirstKey
  BY <1>0, <1>1 DEF FirstKey, AheadOrCovered, RangesCoverKind
<1>2. CASE NoFirstKey
  BY <1>0, <1>2 DEF NoFirstKey, AheadOrCovered, RangesCoverKind
<1>3. CASE ScatterKey
  BY <1>0, <1>3 DEF ScatterKey, AheadOrCovered, RangesCoverKind, Covered
<1>4. CASE ScatterEnd
  <2>1. CASE scatter = {}
    <3> DEFINE r == [start |-> start, end |-> Nil]
    <3>1. start \in Key
      BY <1>4 DEF ScatterEnd, Started
    <3>2. ranges' = <<r>>
      BY <1>4, <2>1 DEF ScatterEnd
    <3>3. Len(ranges') = 1 /\ ranges'[1] = r
      BY <3>2
    <3>4. \A k \in Resident : start <= k
      <4>1. ranges = <<>>
        BY <1>4 DEF ScatterEnd
      <4>2. Len(ranges) = 0
        BY <4>1
      <4>3. \A k \in Resident : ~Covered(k)
        BY <4>2 DEF Covered
      <4> QED
        BY <1>4, <4>3 DEF ScatterEnd, AheadOrCovered
    <3>5. \A k \in Resident : Covers(r, k)
      BY <3>1, <3>4 DEF Covers, Selects
    <3>6. \A k \in Resident : Covered(k)'
      BY <3>3, <3>5 DEF Covered
    <3> QED
      BY <1>0, <1>4, <2>1, <3>6 DEF ScatterEnd, AheadOrCovered, RangesCoverKind
  <2>2. CASE scatter # {}
    BY <1>0, <1>4, <2>2 DEF ScatterEnd, AheadOrCovered, RangesCoverKind, Covered
  <2> QED
    BY <2>1, <2>2
<1>5. CASE BuildRange
  <2>1. PICK b \in scatter : /\ ranges' = Append(ranges, [start |-> start, end |-> b])
                             /\ start' = b
    BY <1>5 DEF BuildRange
  <2> DEFINE r == [start |-> start, end |-> b]
  <2>2. start \in Key /\ b \in Key
    BY <1>5 DEF BuildRange, Started, KeyRangesTypeOK
  <2>3. r \in KeyRange
    BY <2>2 DEF KeyRange
  <2>4. ASSUME NEW k \in Resident PROVE b <= k \/ Covered(k)'
    <3>1. CASE Covered(k)
      BY <2>1, <2>3, <3>1, CoveredStays DEF KeyRangesTypeOK
    <3>2. CASE start <= k /\ k < b
      <4>1. Covers(r, k)
        BY <2>2, <3>2 DEF Covers, Selects
      <4> QED
        BY <2>1, <2>3, <4>1, CoveredStays DEF KeyRangesTypeOK
    <3>3. start <= k \/ Covered(k)
      BY <1>5 DEF BuildRange, AheadOrCovered
    <3> QED
      BY <2>2, <3>1, <3>2, <3>3
  <2> QED
    BY <1>0, <1>5, <2>1, <2>4 DEF BuildRange, AheadOrCovered, RangesCoverKind
<1>6. CASE LastRange
  <2> DEFINE r == [start |-> start, end |-> Nil]
  <2>1. start \in Key
    BY <1>6 DEF LastRange, Started
  <2>2. r \in KeyRange /\ ranges' = Append(ranges, r)
    BY <1>6, <2>1 DEF LastRange, KeyRange
  <2>3. ASSUME NEW k \in Resident PROVE Covered(k)'
    <3>1. CASE Covered(k)
      BY <2>2, <3>1, CoveredStays DEF KeyRangesTypeOK
    <3>2. CASE start <= k
      <4>1. Covers(r, k)
        BY <2>1, <3>2 DEF Covers, Selects
      <4> QED
        BY <2>2, <4>1, CoveredStays DEF KeyRangesTypeOK
    <3> QED
      BY <1>6, <3>1, <3>2 DEF LastRange, AheadOrCovered
  <2> QED
    BY <1>0, <1>6, <2>3 DEF LastRange, AheadOrCovered, RangesCoverKind
<1>7. CASE UNCHANGED keyRangesVars
  BY <1>0, <1>7 DEF keyRangesVars, AheadOrCovered, RangesCoverKind, Covered
<1> QED
  BY <1>1, <1>2, <1>3, <1>4, <1>5, <1>6, <1>7 DEF KeyRangesNext

LEMMA CoverInit == KeyRangesInit => CoverInv
<1> SUFFICES ASSUME KeyRangesInit PROVE CoverInv
  OBVIOUS
<1> QED
  BY TypeInit DEF KeyRangesInit, CoverInv, AheadOrCovered, RangesCoverKind

(* Whatever keys the scatter query brings back, the ranges returned by     *)
(* KeyRangesForKind hold every entity that is there throughout.            *)
THEOREM RangesCoverTheKind == KeyRangesSpec => []RangesCoverKind
<1>1. KeyRangesInit => CoverInv
  BY CoverInit
<1>2. CoverInv /\ [KeyRangesNext]_keyRangesVars => CoverInv'
  BY CoverStep
<1>3. CoverInv => RangesCoverKind
  BY DEF CoverInv
<1> QED
  BY <1>1, <1>2, <1>3, PTL DEF KeyRangesSpec

(* No entity that is there throughout is left behind while the ranges are  *)
(* built: it is in a range already, or not below start.                    *)
THEOREM StartLeavesNoneBehind == KeyRangesSpec => []AheadOrCovered
<1>1. KeyRangesInit => CoverInv
  BY CoverInit
<1>2. CoverInv /\ [KeyRangesNext]_keyRangesVars => CoverInv'
  BY CoverStep
<1>3. CoverInv => AheadOrCovered
  BY DEF CoverInv
<1> QED
  BY <1>1, <1>2, <1>3, PTL DEF KeyRangesSpec

-----------------------------------------------------------------------------
(* Behind the disjointness of the ranges: the keys are used in order, so   *)
(* that everything covered so far lies below start, but for the key of a   *)
(* one-entity range at the beginning.                                      *)
BelowStart ==
  scan = "build" =>
    \A i \in 1..Len(ranges) : \A k \in Key :
      Covers(ranges[i], k) => k < start \/ (i = 1 /\ k = ranges[1].start /\ k = start)

BoundsAhead ==
  scan = "build" /\ ranges # <<>> => \A b \in scatter : start < b

OverlapInv ==
  /\ KeyRangesTypeOK
  /\ Started
  /\ scan \in {"first", "scatter"} => ranges = <<>>
  /\ BelowStart
  /\ BoundsAhead
  /\ RangesOverlapOnlyAtFirst

(* The new range starts at start, hence above all that BelowStart is about. *)
LEMMA NoNewOverlap ==
  ASSUME OverlapInv, scan = "build",
         NEW r \in KeyRange, r.start = start,
         ranges' = Append(ranges, r)
  PROVE  RangesOverlapOnlyAtFirst'
<1>1. /\ Len(ranges) \in Nat
      /\ Len(ranges') = Len(ranges) + 1
      /\ \A i \in 1..Len(ranges) : ranges'[i] = ranges[i]
      /\ ranges'[Len(ranges) + 1] = r
  BY AppendRange DEF OverlapInv, KeyRangesTypeOK
<1>2. SUFFICES ASSUME NEW i \in 1..Len(ranges'), NEW j \in 1..Len(ranges'), i < j,
                      NEW k \in Key, Covers(ranges'[i], k), Covers(ranges'[j], k)
               PROVE  i = 1 /\ k = ranges'[1].start /\ k = ranges'[j].start
  BY DEF RangesOverlapOnlyAtFirst
<1>3. i \in 1..Len(ranges) /\ ranges'[i] = ranges[i] /\ ranges'[1] = ranges[1]
  BY <1>1, <1>2
<1>4. CASE j \in 1..Len(ranges)
  <2>1. ranges'[j] = ranges[j]
    BY <1>1, <1>4
  <2> QED
    BY <1>2, <1>3, <1>4, <2>1 DEF OverlapInv, RangesOverlapOnlyAtFirst
<1>5. CASE j = Len(ranges) + 1
  <2>1. Covers(r, k)
    BY <1>1, <1>2, <1>5
  <2>2. start \in Int /\ k \in Int
    BY KeyAssumption DEF OverlapInv, Started
  <2>3. start <= k
    BY <2>1, <2>2 DEF Covers, Selects
  <2>4. k < start \/ (i = 1 /\ k = ranges[1].start /\ k = start)
    BY <1>2, <1>3 DEF OverlapInv, BelowStart
  <2>5. ranges'[j].start = start
    BY <1>1, <1>5
  <2> QED
    BY <1>3, <2>2, <2>3, <2>4, <2>5
<1> QED
  BY <1>1, <1>4, <1>5

(* The sort of the scatter keys is by the order of the queries. *)
LEMMA NextBoundIsLeast ==
  ASSUME scatter \in SUBSET Key, NEW b \in scatter, NextBound(b)
  PROVE  \A c \in scatter \ {b} : b < c
<1> SUFFICES ASSUME NEW c \in scatter, c # b PROVE b < c
  OBVIOUS
<1>1. PathOf[b] \in Path /\ PathOf[c] \in Path
  BY PathAssumption
<1>2. ~Precedes(PathOf[c], PathOf[b])
  BY <1>1, CompareKeysIsKeyOrder DEF NextBound, Less
<1>3. ~(c < b)
  BY <1>2, PathAssumption
<1> QED
  BY <1>3, KeyAssumption

LEMMA OverlapStep == OverlapInv /\ [KeyRangesNext]_keyRangesVars => OverlapInv'
<1> SUFFICES ASSUME OverlapInv, [KeyRangesNext]_keyRangesVars
             PROVE  OverlapInv'
  OBVIOUS
<1>0. KeyRangesTypeOK' /\ Started'
  BY TypeStep DEF OverlapInv
<1> USE KeyAssumption DEF OverlapInv
<1>1. CASE FirstKey
  BY <1>0, <1>1 DEF FirstKey, BelowStart, BoundsAhead, RangesOverlapOnlyAtFirst
<1>2. CASE NoFirstKey
  BY <1>0, <1>2 DEF NoFirstKey, BelowStart, BoundsAhead, RangesOverlapOnlyAtFirst
<1>3. CASE ScatterKey
  BY <1>0, <1>3 DEF ScatterKey, BelowStart, BoundsAhead, RangesOverlapOnlyAtFirst
<1>4. CASE ScatterEnd
  <2>1. CASE scatter = {}
    <3>1. Len(ranges') = 1 /\ scan' = "done"
      BY <1>4, <2>1 DEF ScatterEnd
    <3>2. RangesOverlapOnlyAtFirst'
      BY <3>1 DEF RangesOverlapOnlyAtFirst
    <3> QED
      BY <1>0, <3>1, <3>2 DEF BelowStart, BoundsAhead
  <2>2. CASE scatter # {}
    <3>1. ranges' = <<>> /\ Len(ranges') = 0
      BY <1>4, <2>2 DEF ScatterEnd
    <3> QED
      BY <1>0, <1>4, <2>2, <3>1
      DEF ScatterEnd, BelowStart, BoundsAhead, RangesOverlapOnlyAtFirst
  <2> QED
    BY <2>1, <2>2
<1>5. CASE BuildRange
  <2>1. PICK b \in scatter : /\ NextBound(b)
                             /\ ranges' = Append(ranges, [start |-> start, end |-> b])
                             /\ start' = b
                             /\ scatter' = scatter \ {b}
    BY <1>5 DEF BuildRange
  <2> DEFINE r == [start |-> start, end |-> b]
  <2>2. scan = "build" /\ scan' = "build" /\ start \in Key /\ b \in Key
    BY <1>5 DEF BuildRange, Started, KeyRangesTypeOK
  <2>3. r \in KeyRange
    BY <2>2 DEF KeyRange
  <2>4. /\ Len(ranges) \in Nat
        /\ Len(ranges') = Len(ranges) + 1
        /\ \A i \in 1..Len(ranges) : ranges'[i] = ranges[i]
        /\ ranges'[Len(ranges) + 1] = r
    BY <2>1, <2>3, AppendRange DEF KeyRangesTypeOK
  <2>5. RangesOverlapOnlyAtFirst'
    BY <2>1, <2>2, <2>3, NoNewOverlap
  <2>6. BoundsAhead'
    <3>1. \A c \in scatter \ {b} : b < c
      BY <2>1, NextBoundIsLeast DEF KeyRangesTypeOK
    <3> QED
      BY <2>1, <3>1 DEF BoundsAhead
  <2>7. ASSUME NEW i \in 1..Len(ranges'), NEW k \in Key, Covers(ranges'[i], k)
        PROVE  k < b \/ (i = 1 /\ k = ranges'[1].start /\ k = b)
    <3>1. b \in Int /\ start \in Int /\ k \in Int
      BY <2>2
    <3>2. CASE i \in 1..Len(ranges)
      <4>1. ranges'[i] = ranges[i] /\ ranges'[1] = ranges[1] /\ ranges # <<>>
        BY <2>4, <3>2
      <4>2. k < start \/ (i = 1 /\ k = ranges[1].start /\ k = start)
        BY <2>2, <2>7, <3>2, <4>1 DEF BelowStart
      <4>3. start < b
        BY <2>1, <2>2, <4>1 DEF BoundsAhead
      <4> QED
        BY <3>1, <4>1, <4>2, <4>3
    <3>3. CASE i = Len(ranges) + 1
      <4>1. Covers(r, k)
        BY <2>4, <2>7, <3>3
      <4>2. CASE start = b
        <5>1. ranges = <<>>
          BY <2>1, <2>2, <3>1, <4>2 DEF BoundsAhead
        <5>2. Len(ranges) = 0
          BY <5>1
        <5>3. i = 1 /\ ranges'[1] = r
          BY <2>4, <3>3, <5>2
        <5>4. k = start
          BY <4>1, <4>2 DEF Covers, Selects
        <5> QED
          BY <4>2, <5>3, <5>4
      <4>3. CASE start # b
        BY <2>2, <4>1, <4>3 DEF Covers, Selects
      <4> QED
        BY <4>2, <4>3
    <3> QED
      BY <2>4, <3>2, <3>3
  <2>8. BelowStart'
    BY <2>1, <2>7 DEF BelowStart
  <2> QED
    BY <1>0, <2>2, <2>5, <2>6, <2>8
<1>6. CASE LastRange
  <2> DEFINE r == [start |-> start, end |-> Nil]
  <2>1. start \in Key
    BY <1>6 DEF LastRange, Started
  <2>2. r \in KeyRange /\ ranges' = Append(ranges, r)
    BY <1>6, <2>1 DEF LastRange, KeyRange
  <2>3. RangesOverlapOnlyAtFirst'
    BY <1>6, <2>2, NoNewOverlap DEF LastRange
  <2> QED
    BY <1>0, <1>6, <2>3 DEF LastRange, BelowStart, BoundsAhead
<1>7. CASE UNCHANGED keyRangesVars
  BY <1>0, <1>7
  DEF keyRangesVars, BelowStart, BoundsAhead, RangesOverlapOnlyAtFirst
<1> QED
  BY <1>1, <1>2, <1>3, <1>4, <1>5, <1>6, <1>7 DEF KeyRangesNext

(* Two ranges never share an entity, but for the key of a one-entity range *)
(* at the beginning: the tasks of a kind do not sync the same rows twice.  *)
THEOREM RangesAreDisjoint == KeyRangesSpec => []RangesOverlapOnlyAtFirst
<1>1. KeyRangesInit => OverlapInv
  <2> SUFFICES ASSUME KeyRangesInit PROVE OverlapInv
    OBVIOUS
  <2>1. ranges = <<>> /\ Len(ranges) = 0 /\ scan = "first"
    BY DEF KeyRangesInit
  <2> QED
    BY <2>1, TypeInit
    DEF OverlapInv, BelowStart, BoundsAhead, RangesOverlapOnlyAtFirst
<1>2. OverlapInv /\ [KeyRangesNext]_keyRangesVars => OverlapInv'
  BY OverlapStep
<1>3. OverlapInv => RangesOverlapOnlyAtFirst
  BY DEF OverlapInv
<1> QED
  BY <1>1, <1>2, <1>3, PTL DEF KeyRangesSpec

=============================================================================

----------------------------- MODULE KeyRanges ------------------------------
(***************************************************************************)
(* bigquerysync.KeyRangesForKind: splits a kind into key ranges at the     *)
(* keys that carry the __scatter__ property.  One query finds the first    *)
(* key, a second one collects scatter keys, and a loop over the sorted     *)
(* keys closes one range at each of them, leaving the last range open.     *)
(* Nothing ties the two queries together: the application may put and      *)
(* delete entities between them.                                           *)
(***************************************************************************)
EXTENDS KeySpace, KeyOrder

CONSTANTS
  PathOf,      \* the path of each key
  RangeLen,    \* limit of the scatter query (64)
  MayFail      \* whether a datastore query may return an error

ASSUME RangeAssumption == RangeLen \in Nat /\ MayFail \in BOOLEAN

(* Keys are numbered in the order in which queries return them.            *)
ASSUME PathAssumption ==
  /\ PathOf \in [Key -> Path]
  /\ \A j, k \in Key : j < k <=> Precedes(PathOf[j], PathOf[k])

VARIABLES
  scan,        \* where KeyRangesForKind is: see Scan
  start,       \* its variable start, Nil before the first query
  scatter,     \* scatter keys not yet used as a bound; the sort is in BuildRange
  ranges       \* the ranges built so far, in order

keyRangesVars == <<scan, start, scatter, ranges>>

Scan     == {"first", "scatter", "build", "done"}
KeyRange == [start : Key, end : Key \cup {Nil}]

Covers(r, k) == Selects(r.start, r.end, k)

KeyRangesTypeOK ==
  /\ scan \in Scan
  /\ start \in Key \cup {Nil}
  /\ scatter \in SUBSET Key
  /\ ranges \in Seq(KeyRange)

KeyRangesInit ==
  /\ scan = "first"
  /\ start = Nil
  /\ scatter = {}
  /\ ranges = <<>>

-----------------------------------------------------------------------------
(* The first key of the kind, at the time of the query. *)
FirstKey ==
  /\ scan = "first"
  /\ \E k \in Key : /\ \A r \in Resident : k <= r
                    /\ start' = k
  /\ scan' = "scatter"
  /\ UNCHANGED <<scatter, ranges>>

(* No entity, or an error of the query: both return no range at all. *)
NoFirstKey ==
  /\ scan = "first"
  /\ Resident = {} \/ MayFail
  /\ scan' = "done"
  /\ UNCHANGED <<start, scatter, ranges>>

ScatterKey ==
  /\ scan = "scatter"
  /\ Cardinality(scatter) < RangeLen
  /\ \E k \in Key \ scatter : scatter' = scatter \cup {k}
  /\ UNCHANGED <<scan, start, ranges>>

(* The end of the scatter query, or an error, which only ends the loop. *)
ScatterEnd ==
  /\ scan = "scatter"
  /\ IF scatter = {}
       THEN /\ ranges' = <<[start |-> start, end |-> Nil]>>
            /\ scan' = "done"
       ELSE /\ scan' = "build"
            /\ UNCHANGED ranges
  /\ UNCHANGED <<start, scatter>>

(* The first scatter key left: the keys were sorted before the loop. *)
NextBound(k) ==
  k \in scatter /\ \A j \in scatter : ~Less(PathOf[j], PathOf[k])

BuildRange ==
  /\ scan = "build"
  /\ \E k \in scatter :
       /\ NextBound(k)
       /\ ranges' = Append(ranges, [start |-> start, end |-> k])
       /\ start' = k
       /\ scatter' = scatter \ {k}
  /\ UNCHANGED scan

(* Mutants: no open range at the end; the end of the loop is missed when   *)
(* there were fewer keys than the limit.                                   *)
LastRangeForgotten ==
  /\ scan = "build"
  /\ scatter = {}
  /\ scan' = "done"
  /\ UNCHANGED <<start, scatter, ranges>>

LastRangeWaits ==
  /\ scan = "build"
  /\ scatter = {} /\ Len(ranges) = RangeLen
  /\ ranges' = Append(ranges, [start |-> start, end |-> Nil])
  /\ scan' = "done"
  /\ UNCHANGED <<start, scatter>>

(* The open range starts at the last scatter key, which start now holds. *)
LastRange ==
  /\ scan = "build"
  /\ scatter = {}
  /\ ranges' = Append(ranges, [start |-> start, end |-> Nil])
  /\ scan' = "done"
  /\ UNCHANGED <<start, scatter>>

KeyRangesNext ==
  \/ FirstKey
  \/ NoFirstKey
  \/ ScatterKey
  \/ ScatterEnd
  \/ BuildRange
  \/ LastRange

KeyRangesSpec ==
  /\ KeyRangesInit
  /\ [][KeyRangesNext]_keyRangesVars
  /\ WF_keyRangesVars(KeyRangesNext)

-----------------------------------------------------------------------------
Covered(k) == \E i \in 1..Len(ranges) : Covers(ranges[i], k)

(* Every entity that is there throughout falls in one of the ranges that   *)
(* KeyRangesForKind returns, wherever the scatter keys lie: below the      *)
(* first key, on it, on deleted entities, or cut short by an error.        *)
RangesCoverKind ==
  scan = "done" /\ ranges # <<>> => \A k \in Resident : Covered(k)

(* No two ranges send the same entity to parallel tasks, but for the key   *)
(* where a one-entity range stands and the next one starts: that is what   *)
(* the sort is for.                                                        *)
RangesOverlapOnlyAtFirst ==
  \A i, j \in 1..Len(ranges) : i < j =>
    \A k \in Key : Covers(ranges[i], k) /\ Covers(ranges[j], k)
                     => i = 1 /\ k = ranges[1].start /\ k = ranges[j].start

(* KeyRangesForKind returns. *)
KeyRangesReturns == <>(scan = "done")

=============================================================================

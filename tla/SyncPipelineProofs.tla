------------------------- MODULE SyncPipelineProofs -------------------------
(***************************************************************************)
(* Proofs about the synchronisation of a kind, for any kind, any number of *)
(* instances, any batch size above one and any number of failures.         *)
(***************************************************************************)
EXTENDS SyncPipeline, KeyRangesProofs, FiniteSetTheorems

Busy == [phase : Phase, task : Task, todo : SUBSET Key, last : Key \cup {Nil}]

(* An instance that does something knows its task. *)
LEMMA BusyWorker ==
  ASSUME TypeOK, NEW w \in Worker, worker[w].phase # "idle"
  PROVE  worker[w] \in Busy
<1>1. worker[w] \in WorkerState
  BY DEF TypeOK
<1> QED
  BY <1>1 DEF WorkerState, Busy

LEMMA TaskAdded ==
  ASSUME TypeOK, NEW s \in Key, NEW e \in Key \cup {Nil}, AddTask(s, e)
  PROVE  queue' \subseteq Task /\ nextId' \in Nat
<1>1. [id |-> nextId, start |-> s, end |-> e] \in Task
  BY DEF TypeOK, Task
<1> QED
  BY <1>1 DEF TypeOK, AddTask

LEMMA TaskMaybeAdded ==
  ASSUME TypeOK, NEW s \in Key, NEW e \in Key \cup {Nil}, AddFails(s, e)
  PROVE  queue' \subseteq Task /\ nextId' \in Nat /\ faults' \in Nat
<1>1. faults' \in Nat
  BY DEF AddFails, Fault, TypeOK
<1>2. CASE AddTask(s, e)
  BY <1>1, <1>2, TaskAdded
<1>3. CASE UNCHANGED <<queue, nextId>>
  BY <1>1, <1>3 DEF TypeOK
<1> QED
  BY <1>2, <1>3 DEF AddFails

(* The range that is scheduled next is one of the ranges. *)
LEMMA NextRange ==
  ASSUME TypeOK, Scheduling
  PROVE  /\ ranges[next] \in KeyRange
         /\ ranges[next].start \in Key
         /\ ranges[next].end \in Key \cup {Nil}
<1>1. next \in 1..Len(ranges)
  BY LenProperties DEF TypeOK, KeyRangesTypeOK, Scheduling
<1>2. ranges[next] \in KeyRange
  BY <1>1, ElementOfSeq DEF TypeOK, KeyRangesTypeOK
<1> QED
  BY <1>2 DEF KeyRange

-----------------------------------------------------------------------------
(* The types, with what they rest on: KeyRangesForKind has found a start   *)
(* key when it builds ranges, and an instance has a key to go on from when *)
(* it reschedules.                                                         *)
NamesKey(s) ==
  /\ s.phase = "resched" => s.last \in Key
  /\ s.phase = "ingest" /\ s.last # s.task.end => s.last \in Key

SoundState == {s \in WorkerState : NamesKey(s)}

Typed == TypeOK /\ Started /\ worker \in [Worker -> SoundState]

LEMMA SoundWorker ==
  ASSUME Typed, NEW w \in Worker, worker[w].phase # "idle"
  PROVE  worker[w] \in Busy /\ NamesKey(worker[w])
  BY BusyWorker DEF Typed, SoundState

LEMMA ReleaseTyped ==
  ASSUME Typed, NEW w \in Worker, Release(w)
  PROVE  worker' \in [Worker -> SoundState]
<1>1. Idle \in SoundState
  BY DEF Idle, WorkerState, SoundState, NamesKey
<1> QED
  BY <1>1 DEF Release, Typed

LEMMA TakeTyped ==
  ASSUME Typed, NEW w \in Worker, NEW t \in queue, Take(w, t)
  PROVE  worker' \in [Worker -> SoundState]
<1>1. [phase |-> "fetch", task |-> t, todo |-> {}, last |-> Nil] \in SoundState
  BY DEF Typed, TypeOK, WorkerState, Phase, SoundState, NamesKey
<1> QED
  BY <1>1 DEF Take, Typed

LEMMA PhaseTyped ==
  ASSUME Typed, NEW w \in Worker, worker[w] \in Busy,
         NEW p \in {"ack", "resched"}, p = "resched" => worker[w].last \in Key,
         worker' = [worker EXCEPT ![w].phase = p]
  PROVE  worker' \in [Worker -> SoundState]
<1>1. [worker[w] EXCEPT !.phase = p] \in SoundState
  BY DEF Busy, Phase, WorkerState, SoundState, NamesKey
<1> QED
  BY <1>1 DEF Typed

LEMMA StartPostingTyped ==
  ASSUME Typed, NEW w \in Worker, worker[w] \in Busy,
         NEW R \in SUBSET Key, NEW l \in Key \cup {Nil},
         l \in Key \/ l = worker[w].task.end, StartPosting(w, R, l)
  PROVE  worker' \in [Worker -> SoundState]
<1>1. [worker[w] EXCEPT !.phase = "ingest", !.todo = R, !.last = l] \in SoundState
  BY DEF Busy, WorkerState, Phase, SoundState, NamesKey
<1> QED
  BY <1>1 DEF Typed, StartPosting

LEMMA TypedInit == Init => Typed
<1> SUFFICES ASSUME Init PROVE Typed
  OBVIOUS
<1>1. KeyRangesTypeOK /\ Started
  BY TypeInit DEF Init
<1>2. worker \in [Worker -> WorkerState] /\ worker \in [Worker -> SoundState]
  BY DEF Init, Idle, WorkerState, SoundState, NamesKey
<1> QED
  BY <1>1, <1>2, PipelineAssumption DEF Init, Typed, TypeOK

LEMMA KindTyped ==
  ASSUME Typed, SyncKindHandler \/ ScheduleFails \/ KindCrash
  PROVE  Typed'
<1> USE DEF Typed
<1>1. CASE SplitKind
  <2>1. KeyRangesTypeOK' /\ Started'
    BY <1>1, TypeStep DEF SplitKind, TypeOK
  <2> QED
    BY <1>1, <2>1 DEF SplitKind, kindVars, TypeOK
<1>2. CASE ScheduleRange
  <2>1. /\ ranges[next] \in KeyRange
        /\ ranges[next].start \in Key
        /\ ranges[next].end \in Key \cup {Nil}
    BY <1>2, NextRange DEF ScheduleRange
  <2>2. queue' \subseteq Task /\ nextId' \in Nat
    BY <1>2, <2>1, TaskAdded DEF ScheduleRange
  <2>3. accepted' \subseteq KeyRange /\ next' \in Nat \ {0}
    BY <1>2, <2>1 DEF ScheduleRange, TypeOK
  <2> QED
    BY <1>2, <2>2, <2>3
    DEF ScheduleRange, keyRangesVars, TypeOK, KeyRangesTypeOK, Started
<1>3. CASE ScheduleFails
  <2>1. /\ ranges[next].start \in Key
        /\ ranges[next].end \in Key \cup {Nil}
    BY <1>3, NextRange DEF ScheduleFails
  <2>2. queue' \subseteq Task /\ nextId' \in Nat /\ faults' \in Nat
    BY <1>3, <2>1, TaskMaybeAdded DEF ScheduleFails
  <2>3. next' \in Nat \ {0}
    BY <1>3 DEF ScheduleFails, TypeOK
  <2> QED
    BY <1>3, <2>2, <2>3
    DEF ScheduleFails, keyRangesVars, TypeOK, KeyRangesTypeOK, Started
<1>4. CASE KindReply
  BY <1>4 DEF KindReply, keyRangesVars, TypeOK, KeyRangesTypeOK, Started
<1>5. CASE KindCrash
  BY <1>5 DEF KindCrash, Fault, keyRangesVars, TypeOK, KeyRangesTypeOK, Started
<1> QED
  BY <1>1, <1>2, <1>3, <1>4, <1>5 DEF SyncKindHandler

(* What is left to show of a step on an instance. *)
LEMMA InstanceTyped ==
  ASSUME Typed, UNCHANGED <<keyRangesVars, kindVars>>,
         queue' \subseteq Task, nextId' \in Nat, table' \subseteq Key, faults' \in Nat,
         worker' \in [Worker -> SoundState]
  PROVE  Typed'
  BY DEF Typed, TypeOK, SoundState, KeyRangesTypeOK, Started, keyRangesVars, kindVars

LEMMA WorkerStepTyped ==
  ASSUME Typed, NEW w \in Worker,
         \/ SyncEntityHandler(w) \/ Deliver(w) \/ DeliverAgain(w)
         \/ SyncFails(w) \/ RescheduleFails(w) \/ AckLost(w)
  PROVE  Typed'
<1>0. /\ TypeOK
      /\ queue \subseteq Task /\ nextId \in Nat /\ table \subseteq Key /\ faults \in Nat
  BY DEF Typed, TypeOK
<1>1. CASE Reject(w)
  BY <1>0, <1>1, ReleaseTyped, InstanceTyped DEF Reject
<1>2. CASE FetchBatch(w)
  <2>1. worker[w] \in Busy /\ NamesKey(worker[w])
    BY <1>2, SoundWorker DEF FetchBatch
  <2>2. worker' \in [Worker -> SoundState]
    <3> DEFINE t == worker[w].task
    <3>1. t.end \in Key \cup {Nil}
      BY <2>1 DEF Busy, Task
    <3>2. CASE \E R \in FullBatches(t.start, t.end) : \E l \in R :
                 LastOf(R, l) /\ StartPosting(w, R, l)
      BY <1>0, <2>1, <3>2, StartPostingTyped DEF FullBatches, Selected
    <3>3. CASE \E R \in FinalBatches(t.start, t.end) : StartPosting(w, R, t.end)
      BY <1>0, <2>1, <3>1, <3>3, StartPostingTyped DEF FinalBatches, Selected
    <3> QED
      BY <1>2, <3>2, <3>3 DEF FetchBatch
  <2> QED
    BY <1>0, <1>2, <2>2, InstanceTyped DEF FetchBatch
<1>3. CASE Post(w)
  <2>1. worker[w] \in Busy /\ NamesKey(worker[w])
    BY <1>3, SoundWorker DEF Post
  <2>2. PICK C \in SUBSET (worker[w].todo \ poison) :
          /\ table' = table \cup C
          /\ worker' = [worker EXCEPT ![w].todo = @ \ C]
    BY <1>3 DEF Post
  <2>3. [worker[w] EXCEPT !.todo = @ \ C] \in SoundState
    BY <2>1 DEF Busy, WorkerState, SoundState, NamesKey
  <2>4. worker' \in [Worker -> SoundState]
    BY <2>2, <2>3 DEF Typed
  <2>5. table' \subseteq Key
    BY <1>0, <2>1, <2>2 DEF Busy
  <2> QED
    BY <1>0, <1>3, <2>4, <2>5, InstanceTyped DEF Post
<1>4. CASE Posted(w)
  <2>1. worker[w] \in Busy /\ NamesKey(worker[w])
    BY <1>4, SoundWorker DEF Posted
  <2>2. worker' \in [Worker -> SoundState]
    BY <1>4, <2>1, PhaseTyped DEF Posted, NamesKey
  <2> QED
    BY <1>0, <1>4, <2>2, InstanceTyped DEF Posted
<1>5. CASE Reschedule(w)
  <2>1. worker[w] \in Busy /\ NamesKey(worker[w])
    BY <1>5, SoundWorker DEF Reschedule
  <2>2. worker' \in [Worker -> SoundState]
    BY <1>5, <2>1, PhaseTyped DEF Reschedule
  <2>3. worker[w].last \in Key /\ worker[w].task.end \in Key \cup {Nil}
    BY <1>5, <2>1 DEF Reschedule, Busy, Task, NamesKey
  <2> QED
    BY <1>0, <1>5, <2>2, <2>3, TaskAdded, InstanceTyped DEF Reschedule
<1>6. CASE Ack(w)
  <2>1. queue' \subseteq Task
    BY <1>0, <1>6 DEF Ack
  <2> QED
    BY <1>0, <1>6, <2>1, ReleaseTyped, InstanceTyped DEF Ack
<1>7. CASE Deliver(w)
  BY <1>0, <1>7, TakeTyped, InstanceTyped DEF Deliver, DeliverTask
<1>8. CASE DeliverAgain(w)
  BY <1>0, <1>8, TakeTyped, InstanceTyped DEF DeliverAgain, Fault
<1>9. CASE SyncFails(w)
  <2>1. worker[w] \in Busy /\ NamesKey(worker[w])
    BY <1>9, SoundWorker DEF SyncFails
  <2>2. table' \subseteq Key
    BY <1>0, <1>9, <2>1 DEF SyncFails, Selected, Busy
  <2> QED
    BY <1>0, <1>9, <2>2, ReleaseTyped, InstanceTyped DEF SyncFails, Fault
<1>10. CASE RescheduleFails(w)
  <2>1. worker[w] \in Busy /\ NamesKey(worker[w])
    BY <1>10, SoundWorker DEF RescheduleFails
  <2>3. worker[w].last \in Key /\ worker[w].task.end \in Key \cup {Nil}
    BY <1>10, <2>1 DEF RescheduleFails, Busy, Task, NamesKey
  <2> QED
    BY <1>0, <1>10, <2>3, TaskMaybeAdded, ReleaseTyped, InstanceTyped
    DEF RescheduleFails
<1>11. CASE AckLost(w)
  BY <1>0, <1>11, ReleaseTyped, InstanceTyped DEF AckLost, Fault
<1>12. CASE PoisonFails(w)
  <2>1. worker[w] \in Busy
    BY <1>12, SoundWorker DEF PoisonFails
  <2>2. table' \subseteq Key
    BY <1>0, <1>12, <2>1 DEF PoisonFails, Busy
  <2> QED
    BY <1>0, <1>12, <2>2, ReleaseTyped, InstanceTyped DEF PoisonFails
<1> QED
  BY <1>1, <1>2, <1>3, <1>4, <1>5, <1>6, <1>7, <1>8, <1>9, <1>10, <1>11, <1>12
  DEF SyncEntityHandler

LEMMA TypedStep == Typed /\ [Next]_vars => Typed'
<1> SUFFICES ASSUME Typed, [Next]_vars PROVE Typed'
  OBVIOUS
<1>1. CASE SyncKindHandler \/ ScheduleFails \/ KindCrash
  BY <1>1, KindTyped
<1>2. ASSUME NEW w \in Worker,
             \/ SyncEntityHandler(w) \/ Deliver(w) \/ DeliverAgain(w)
             \/ SyncFails(w) \/ RescheduleFails(w) \/ AckLost(w)
      PROVE  Typed'
  BY <1>2, WorkerStepTyped
<1>3. CASE UNCHANGED vars
  BY <1>3
  DEF vars, keyRangesVars, kindVars, Typed, TypeOK, KeyRangesTypeOK, Started
<1> QED
  BY <1>1, <1>2, <1>3 DEF Next

(* Every state of the pipeline is well typed: tasks have a start key, and  *)
(* an instance that reschedules has a key to go on from.                   *)
THEOREM PipelineTypeCorrect == Spec => []TypeOK
<1>1. Init => Typed
  BY TypedInit
<1>2. Typed /\ [Next]_vars => Typed'
  BY TypedStep
<1>3. Typed => TypeOK
  BY DEF Typed
<1> QED
  BY <1>1, <1>2, <1>3, PTL DEF Spec

-----------------------------------------------------------------------------
(* The progress of a full batch: it ends behind the start of its range and *)
(* before its end, because the start alone does not fill it.               *)
LEMMA FullBatchAdvances ==
  ASSUME NEW s \in Key, NEW e \in Key \cup {Nil},
         NEW R \in FullBatches(s, e), NEW l \in R, LastOf(R, l)
  PROVE  l \in Key /\ s < l /\ l # e /\ s # e
<1>1. R \subseteq Selected(s, e) /\ Cardinality(R) = BatchSize
  BY DEF FullBatches
<1>2. s \in Int /\ \A k \in Key : k \in Int
  BY KeyAssumption
<1>3. \A r \in R : r \in Key /\ r \in Int /\ Selects(s, e, r)
  BY <1>1, <1>2 DEF Selected
<1>4. \E r \in R : r # s
  <2> SUFFICES ASSUME \A r \in R : r = s PROVE FALSE
    OBVIOUS
  <2>1. R = {s}
    OBVIOUS
  <2>2. Cardinality(R) = 1
    BY <2>1, FS_Singleton
  <2> QED
    BY <1>1, <2>2, BatchAssumption
<1>5. s # e
  BY <1>3, <1>4 DEF Selects
<1>6. \A r \in R : s <= r
  BY <1>2, <1>3, <1>5 DEF Selects
<1>7. s < l
  BY <1>2, <1>3, <1>4, <1>6 DEF LastOf
<1>8. l # e
  BY <1>3, <1>5, KeyAssumption DEF Selects
<1> QED
  BY <1>3, <1>5, <1>7, <1>8

(* A full batch passes by no resident entity up to its last key.           *)
LEMMA FullBatchIsGapless ==
  ASSUME NEW s \in Key, NEW e \in Key \cup {Nil},
         NEW R \in FullBatches(s, e), NEW l \in R, LastOf(R, l),
         NEW k \in Resident, Selects(s, e, k), k <= l
  PROVE  k \in R
<1>1. k \in Key /\ k \in Int /\ l \in Int
  BY KeyAssumption DEF FullBatches, Selected
<1>2. k \in R \/ \A r \in R : r < k
  BY <1>1 DEF FullBatches, Selected
<1> QED
  BY <1>1, <1>2

-----------------------------------------------------------------------------
(* Whether k is in the table tb, or covered by a task of q that is younger *)
(* than the one named id: what an instance must have seen to before it     *)
(* answers 200 for task id.  The names decide that the task itself, and    *)
(* those it replaced, do not count.                                        *)
Handed(tb, q, id, k) ==
  k \in tb \/ \E t \in q : id < t.id /\ Selects(t.start, t.end, k)

InTask(t, k) == Selects(t.start, t.end, k)

(* What holds of an instance in state s, beside the table and the queue.   *)
Advances(s) ==
  s.phase \in {"ingest", "resched"} /\ s.last # s.task.end
    => s.task.start < s.last /\ s.task.start # s.task.end

ReadAll(tb, s) ==
  s.phase = "ingest" =>
    \A k \in Resident : InTask(s.task, k) /\ (s.last = s.task.end \/ k <= s.last)
      => k \in tb \cup s.todo

PostedAll(tb, s) ==
  s.phase = "resched" =>
    /\ s.last # s.task.end
    /\ \A k \in Resident : InTask(s.task, k) /\ k <= s.last => k \in tb

HandedAll(tb, q, s) ==
  s.phase = "ack" => \A k \in Resident : InTask(s.task, k) => Handed(tb, q, s.task.id, k)

HandlerInv(tb, q, n, s) ==
  /\ s.phase # "idle" => s.task.id < n
  /\ Advances(s)
  /\ ReadAll(tb, s)
  /\ PostedAll(tb, s)
  /\ HandedAll(tb, q, s)

(* The inductive invariant behind NoEntityLost.                            *)
PipelineInv ==
  /\ Typed
  /\ \A t \in queue : t.id < nextId
  /\ \A w \in Worker : HandlerInv(table, queue, nextId, worker[w])
  /\ NoEntityLost

(* More rows and more tasks do no harm to an instance ...                  *)
LEMMA MoreIsFine ==
  ASSUME NEW tb, NEW tb2, tb \subseteq tb2, NEW q, NEW q2, q \subseteq q2,
         NEW n \in Nat, NEW n2 \in Nat, n <= n2,
         NEW s \in WorkerState, HandlerInv(tb, q, n, s)
  PROVE  HandlerInv(tb2, q2, n2, s)
<1>1. s.phase # "idle" => s.task.id \in Nat
  BY DEF WorkerState, Task
<1> QED
  BY <1>1 DEF HandlerInv, Advances, ReadAll, PostedAll, HandedAll, Handed

(* ... and neither does the end of a task that is handed over.             *)
LEMMA DoneIsFine ==
  ASSUME NEW tb, NEW q \in SUBSET Task, NEW n \in Nat, NEW u \in Task,
         \A k \in Resident : InTask(u, k) => Handed(tb, q, u.id, k),
         NEW s \in WorkerState, HandlerInv(tb, q, n, s)
  PROVE  HandlerInv(tb, q \ {u}, n, s)
<1>1. ASSUME NEW id \in Nat, NEW k \in Resident, Handed(tb, q, id, k)
      PROVE  Handed(tb, q \ {u}, id, k)
  <2>1. CASE k \in tb
    BY <2>1 DEF Handed
  <2>2. CASE \E t \in q : id < t.id /\ Selects(t.start, t.end, k)
    <3>1. PICK t \in q : id < t.id /\ Selects(t.start, t.end, k)
      BY <2>2
    <3>2. CASE t # u
      BY <3>1, <3>2 DEF Handed
    <3>3. CASE t = u
      <4>1. CASE k \in tb
        BY <4>1 DEF Handed
      <4>2. CASE k \notin tb
        <5>1. PICK v \in q : u.id < v.id /\ Selects(v.start, v.end, k)
          BY <3>1, <3>3, <4>2 DEF Handed, InTask
        <5>2. u.id \in Nat /\ v.id \in Nat
          BY DEF Task
        <5>3. id < v.id /\ v # u
          BY <3>1, <3>3, <5>1, <5>2
        <5> QED
          BY <5>1, <5>3 DEF Handed
      <4> QED
        BY <4>1, <4>2
    <3> QED
      BY <3>2, <3>3
  <2> QED
    BY <1>1, <2>1, <2>2 DEF Handed
<1>2. s.phase # "idle" => s.task.id \in Nat
  BY DEF WorkerState, Task
<1>3. HandedAll(tb, q \ {u}, s)
  BY <1>1, <1>2 DEF HandlerInv, HandedAll
<1> QED
  BY <1>3 DEF HandlerInv

-----------------------------------------------------------------------------
(* The obligations of a step, by what it does to the queue.  A step that   *)
(* takes no task away leaves the other instances and the accepted ranges   *)
(* as they are; only the instance it belongs to is to be looked at.        *)
LEMMA GrowingStep ==
  ASSUME PipelineInv, Typed', accepted' = accepted,
         queue \subseteq queue', table \subseteq table', nextId <= nextId',
         \A t \in queue' : t.id < nextId',
         NEW w \in Worker, HandlerInv(table', queue', nextId', worker'[w]),
         \A v \in Worker \ {w} : worker'[v] = worker[v]
  PROVE  PipelineInv'
<1>1. ASSUME NEW v \in Worker \ {w}
      PROVE  HandlerInv(table', queue', nextId', worker'[v])
  <2>1. worker[v] \in WorkerState /\ HandlerInv(table, queue, nextId, worker[v])
    BY DEF PipelineInv, Typed, TypeOK
  <2>2. nextId \in Nat /\ nextId' \in Nat
    BY DEF PipelineInv, Typed, TypeOK
  <2>3. HandlerInv(table', queue', nextId', worker[v])
    BY <2>1, <2>2, MoreIsFine
  <2> QED
    BY <2>3
<1>2. NoEntityLost'
  BY DEF PipelineInv, NoEntityLost, Safe
<1> QED
  BY <1>1, <1>2 DEF PipelineInv

(* Steps that only SyncKindHandler takes. *)
LEMMA KindStep ==
  ASSUME PipelineInv, Typed', SyncKindHandler \/ ScheduleFails \/ KindCrash
  PROVE  PipelineInv'
<1>0. nextId \in Nat /\ worker \in [Worker -> WorkerState]
  BY DEF PipelineInv, Typed, TypeOK
<1>1. /\ queue \subseteq queue' /\ nextId <= nextId' /\ nextId' \in Nat
      /\ \A t \in queue' : t.id < nextId'
  <2>1. ASSUME NEW k, NEW e, AddTask(k, e)
        PROVE  /\ queue \subseteq queue' /\ nextId <= nextId' /\ nextId' \in Nat
               /\ \A t \in queue' : t.id < nextId'
    <3>1. \A t \in queue : t.id \in Nat /\ t.id < nextId
      BY DEF PipelineInv, Typed, TypeOK, Task
    <3> QED
      BY <1>0, <2>1, <3>1 DEF AddTask
  <2>2. (\E k, e : AddTask(k, e)) \/ UNCHANGED <<queue, nextId>>
    BY DEF SyncKindHandler, SplitKind, ScheduleRange, ScheduleFails,
           KindReply, KindCrash, AddFails
  <2> QED
    BY <1>0, <2>1, <2>2 DEF PipelineInv
<1>2. worker' = worker /\ table' = table
  BY DEF SyncKindHandler, SplitKind, ScheduleRange, ScheduleFails, KindReply, KindCrash
<1>3. ASSUME NEW v \in Worker
      PROVE  HandlerInv(table', queue', nextId', worker'[v])
  <2>1. worker[v] \in WorkerState /\ HandlerInv(table, queue, nextId, worker[v])
    BY <1>0 DEF PipelineInv
  <2>2. HandlerInv(table', queue', nextId', worker[v])
    BY <1>0, <1>1, <1>2, <2>1, MoreIsFine
  <2> QED
    BY <1>2, <2>2
<1>4. NoEntityLost'
  <2>1. CASE ScheduleRange
    <3> DEFINE r == ranges[next]
               t == [id |-> nextId, start |-> r.start, end |-> r.end]
    <3>1. accepted' = accepted \cup {r} /\ t \in queue'
      BY <2>1 DEF ScheduleRange, AddTask
    <3>2. \A k \in Resident : Covers(r, k) => Safe(k)'
      BY <3>1 DEF Covers, Safe
    <3>3. \A k \in Resident : Safe(k) => Safe(k)'
      BY <1>1, <1>2 DEF Safe
    <3> QED
      BY <3>1, <3>2, <3>3 DEF PipelineInv, NoEntityLost
  <2>2. CASE ~ScheduleRange
    <3>1. accepted' = accepted
      BY <2>2 DEF SyncKindHandler, SplitKind, kindVars, ScheduleFails, KindReply, KindCrash
    <3> QED
      BY <1>1, <1>2, <3>1 DEF PipelineInv, NoEntityLost, Safe
  <2> QED
    BY <2>1, <2>2
<1> QED
  BY <1>1, <1>3, <1>4 DEF PipelineInv

(* Steps that end the run of a handler without touching the queue, and     *)
(* those that start one.                                                   *)
LEMMA IdleIsFine ==
  ASSUME NEW tb, NEW q, NEW n PROVE HandlerInv(tb, q, n, Idle)
  BY DEF HandlerInv, Advances, ReadAll, PostedAll, HandedAll, Idle

LEMMA TakenIsFine ==
  ASSUME NEW tb, NEW q, NEW n, NEW t \in Task, t.id < n
  PROVE  HandlerInv(tb, q, n, [phase |-> "fetch", task |-> t, todo |-> {}, last |-> Nil])
  BY DEF HandlerInv, Advances, ReadAll, PostedAll, HandedAll

LEMMA ReleaseStep ==
  ASSUME PipelineInv, Typed', NEW w \in Worker, Release(w), accepted' = accepted,
         queue \subseteq queue', table \subseteq table', nextId <= nextId',
         \A t \in queue' : t.id < nextId'
  PROVE  PipelineInv'
<1>1. worker'[w] = Idle /\ \A v \in Worker \ {w} : worker'[v] = worker[v]
  BY DEF Release, PipelineInv, Typed, TypeOK
<1> QED
  BY <1>1, IdleIsFine, GrowingStep

LEMMA TakeStep ==
  ASSUME PipelineInv, Typed', NEW w \in Worker, NEW t \in queue, Take(w, t),
         accepted' = accepted, queue' = queue, table' = table, nextId' = nextId
  PROVE  PipelineInv'
<1>1. /\ worker'[w] = [phase |-> "fetch", task |-> t, todo |-> {}, last |-> Nil]
      /\ \A v \in Worker \ {w} : worker'[v] = worker[v]
  BY DEF Take, PipelineInv, Typed, TypeOK
<1>2. t \in Task /\ t.id < nextId /\ nextId \in Nat
  BY DEF PipelineInv, Typed, TypeOK
<1>3. HandlerInv(table', queue', nextId', worker'[w])
  BY <1>1, <1>2, TakenIsFine
<1>4. \A u \in queue' : u.id < nextId'
  BY DEF PipelineInv
<1> QED
  BY <1>1, <1>2, <1>3, <1>4, GrowingStep

(* The batch that was read, and the chunks that are posted.                *)
LEMMA FetchStep ==
  ASSUME PipelineInv, Typed', NEW w \in Worker, FetchBatch(w)
  PROVE  PipelineInv'
<1>0. worker[w] \in Busy /\ nextId \in Nat
  BY SoundWorker DEF PipelineInv, FetchBatch, Typed, TypeOK
<1> DEFINE t == worker[w].task
           s == worker'[w]
<1>1. t.start \in Key /\ t.end \in Key \cup {Nil} /\ t.id < nextId
  BY <1>0 DEF Busy, Task, PipelineInv, HandlerInv, FetchBatch
<1>2. UNCHANGED <<accepted, queue, nextId, table>>
  BY DEF FetchBatch, kindVars
<1>3. ASSUME NEW R, NEW l, StartPosting(w, R, l)
      PROVE  /\ s.phase = "ingest" /\ s.task = t /\ s.todo = R /\ s.last = l
             /\ \A v \in Worker \ {w} : worker'[v] = worker[v]
  BY <1>0, <1>3 DEF StartPosting, PipelineInv, Typed, TypeOK, Busy
<1>4. CASE \E R \in FullBatches(t.start, t.end) : \E l \in R :
             LastOf(R, l) /\ StartPosting(w, R, l)
  <2>1. PICK R \in FullBatches(t.start, t.end) : \E l \in R :
               LastOf(R, l) /\ StartPosting(w, R, l)
    BY <1>4
  <2>2. PICK l \in R : LastOf(R, l) /\ StartPosting(w, R, l)
    BY <2>1
  <2>3. t.start < l /\ l # t.end /\ t.start # t.end
    BY <1>1, <2>2, FullBatchAdvances
  <2>4. \A k \in Resident : InTask(t, k) /\ k <= l => k \in R
    BY <1>1, <2>2, FullBatchIsGapless DEF InTask
  <2>5. s.phase = "ingest" /\ s.task = t /\ s.todo = R /\ s.last = l
    BY <1>3, <2>2
  <2>6. HandlerInv(table', queue', nextId', s)
    BY <1>1, <1>2, <2>3, <2>4, <2>5
    DEF HandlerInv, Advances, ReadAll, PostedAll, HandedAll
  <2> QED
    BY <1>0, <1>2, <1>3, <2>2, <2>6, GrowingStep DEF PipelineInv
<1>5. CASE \E R \in FinalBatches(t.start, t.end) : StartPosting(w, R, t.end)
  <2>1. PICK R \in FinalBatches(t.start, t.end) : StartPosting(w, R, t.end)
    BY <1>5
  <2>2. \A k \in Resident : InTask(t, k) => k \in R
    BY <2>1, KeyAssumption DEF FinalBatches, Selected, InTask
  <2>3. s.phase = "ingest" /\ s.task = t /\ s.todo = R /\ s.last = t.end
    BY <1>3, <2>1
  <2>4. HandlerInv(table', queue', nextId', s)
    BY <1>1, <1>2, <2>2, <2>3
    DEF HandlerInv, Advances, ReadAll, PostedAll, HandedAll
  <2> QED
    BY <1>0, <1>2, <1>3, <2>1, <2>4, GrowingStep DEF PipelineInv
<1> QED
  BY <1>4, <1>5 DEF FetchBatch

LEMMA PostStep ==
  ASSUME PipelineInv, Typed', NEW w \in Worker, Post(w)
  PROVE  PipelineInv'
<1>0. worker[w] \in Busy /\ nextId \in Nat
  BY SoundWorker DEF PipelineInv, Post, Typed, TypeOK
<1> DEFINE o == worker[w]
           s == worker'[w]
<1>1. PICK C \in SUBSET (o.todo \ poison) :
        /\ table' = table \cup C
        /\ worker' = [worker EXCEPT ![w].todo = @ \ C]
  BY DEF Post
<1>2. /\ s.phase = "ingest" /\ s.task = o.task /\ s.last = o.last /\ s.todo = o.todo \ C
      /\ \A v \in Worker \ {w} : worker'[v] = worker[v]
  BY <1>0, <1>1 DEF Post, PipelineInv, Typed, TypeOK, Busy
<1>3. HandlerInv(table, queue, nextId, o) /\ o.phase = "ingest"
  BY DEF PipelineInv, Post
<1>4. table' \cup s.todo = table \cup o.todo
  BY <1>1, <1>2
<1>5. HandlerInv(table', queue', nextId', s)
  <2>1. queue' = queue /\ nextId' = nextId
    BY DEF Post
  <2>2. o.task.id < nextId /\ Advances(s)
    BY <1>2, <1>3 DEF HandlerInv, Advances
  <2>3. ReadAll(table', s)
    BY <1>2, <1>3, <1>4 DEF HandlerInv, ReadAll
  <2> QED
    BY <1>2, <2>1, <2>2, <2>3 DEF HandlerInv, PostedAll, HandedAll
<1>6. /\ UNCHANGED <<accepted, queue, nextId>>
      /\ table \subseteq table' /\ nextId <= nextId'
      /\ \A t \in queue' : t.id < nextId'
  BY <1>0, <1>1 DEF PipelineInv, Post, kindVars
<1> QED
  BY <1>2, <1>5, <1>6, GrowingStep

LEMMA PostedStep ==
  ASSUME PipelineInv, Typed', NEW w \in Worker, Posted(w)
  PROVE  PipelineInv'
<1>0. worker[w] \in Busy /\ nextId \in Nat
  BY SoundWorker DEF PipelineInv, Posted, Typed, TypeOK
<1> DEFINE o == worker[w]
           s == worker'[w]
<1>1. /\ s.phase = (IF o.last = o.task.end THEN "ack" ELSE "resched")
      /\ s.task = o.task /\ s.last = o.last
      /\ \A v \in Worker \ {w} : worker'[v] = worker[v]
  BY <1>0 DEF Posted, PipelineInv, Typed, TypeOK, Busy
<1>2. HandlerInv(table, queue, nextId, o) /\ o.phase = "ingest" /\ o.todo = {}
  BY DEF PipelineInv, Posted
<1>3. \A k \in Resident : InTask(o.task, k) /\ (o.last = o.task.end \/ k <= o.last)
        => k \in table
  BY <1>2 DEF HandlerInv, ReadAll
<1>4. HandlerInv(table', queue', nextId', s)
  <2>1. queue' = queue /\ nextId' = nextId /\ table' = table
    BY DEF Posted
  <2>2. o.task.id < nextId /\ Advances(s)
    BY <1>1, <1>2 DEF HandlerInv, Advances
  <2>3. PostedAll(table, s) /\ HandedAll(table, queue, s) /\ ReadAll(table, s)
    BY <1>1, <1>3 DEF PostedAll, HandedAll, Handed, ReadAll
  <2> QED
    BY <1>1, <2>1, <2>2, <2>3 DEF HandlerInv
<1> QED
  BY <1>0, <1>1, <1>4, GrowingStep DEF PipelineInv, Posted, kindVars

LEMMA RescheduleStep ==
  ASSUME PipelineInv, Typed', NEW w \in Worker, Reschedule(w)
  PROVE  PipelineInv'
<1>0. worker[w] \in Busy /\ NamesKey(worker[w]) /\ nextId \in Nat
  BY SoundWorker DEF PipelineInv, Reschedule, Typed, TypeOK
<1> DEFINE o == worker[w]
           s == worker'[w]
           n == [id |-> nextId, start |-> o.last, end |-> o.task.end]
<1>1. queue' = queue \cup {n} /\ nextId' = nextId + 1 /\ table' = table
  BY DEF Reschedule, AddTask
<1>2. /\ s.phase = "ack" /\ s.task = o.task
      /\ \A v \in Worker \ {w} : worker'[v] = worker[v]
  BY <1>0 DEF Reschedule, PipelineInv, Typed, TypeOK, Busy
<1>3. HandlerInv(table, queue, nextId, o) /\ o.phase = "resched"
  BY DEF PipelineInv, Reschedule
<1>4. /\ o.last \in Key /\ o.task.start \in Key /\ o.task.end \in Key \cup {Nil}
      /\ o.last # o.task.end /\ o.task.start # o.task.end
      /\ \A k \in Resident : InTask(o.task, k) /\ k <= o.last => k \in table
  BY <1>0, <1>3 DEF NamesKey, Busy, Task, HandlerInv, Advances, PostedAll
<1>5. o.task.id \in Nat /\ o.task.id < nextId
  BY <1>0, <1>3 DEF Busy, Task, HandlerInv
<1>6. ASSUME NEW k \in Resident, InTask(o.task, k)
      PROVE  Handed(table', queue', o.task.id, k)
  <2>1. k \in Int /\ o.last \in Int
    BY <1>4, KeyAssumption
  <2>2. CASE k <= o.last
    BY <1>1, <1>4, <1>6, <2>2 DEF Handed
  <2>3. CASE o.last < k
    <3>1. Selects(n.start, n.end, k)
      BY <1>4, <1>6, <2>1, <2>3 DEF InTask, Selects
    <3>2. o.task.id < n.id /\ n \in queue'
      BY <1>1, <1>5
    <3> QED
      BY <3>1, <3>2 DEF Handed
  <2> QED
    BY <2>1, <2>2, <2>3
<1>7. HandlerInv(table', queue', nextId', s)
  <2>1. s.task.id < nextId'
    BY <1>0, <1>1, <1>2, <1>5
  <2>2. HandedAll(table', queue', s)
    BY <1>2, <1>6 DEF HandedAll
  <2>3. s.phase = "ack"
    BY <1>2
  <2>4. Advances(s) /\ ReadAll(table', s) /\ PostedAll(table', s)
    BY <2>3 DEF Advances, ReadAll, PostedAll
  <2> HIDE DEF s
  <2> QED
    BY <2>1, <2>2, <2>3, <2>4 DEF HandlerInv
<1>8. /\ queue \subseteq queue' /\ table \subseteq table' /\ nextId <= nextId'
      /\ accepted' = accepted
  BY <1>0, <1>1 DEF Reschedule, kindVars
<1>9. \A t \in queue' : t.id < nextId'
  <2>1. \A t \in queue : t.id \in Nat /\ t.id < nextId
    BY DEF PipelineInv, Typed, TypeOK, Task
  <2> QED
    BY <1>0, <1>1, <2>1
<1> QED
  BY <1>2, <1>7, <1>8, <1>9, GrowingStep

(* The task that an instance acknowledges is handed over.                  *)
LEMMA AckStep ==
  ASSUME PipelineInv, Typed', NEW w \in Worker, Ack(w)
  PROVE  PipelineInv'
<1>0. worker[w] \in Busy
  BY SoundWorker DEF PipelineInv, Ack
<1> DEFINE u == worker[w].task
<1>1. /\ queue' = queue \ {u} /\ nextId' = nextId /\ table' = table
      /\ accepted' = accepted /\ u \in Task
  BY <1>0 DEF Ack, kindVars, Busy
<1>2. worker'[w] = Idle /\ \A v \in Worker \ {w} : worker'[v] = worker[v]
  BY DEF Ack, Release, PipelineInv, Typed, TypeOK
<1>3. \A k \in Resident : InTask(u, k) => Handed(table, queue, u.id, k)
  BY DEF PipelineInv, HandlerInv, HandedAll, Ack
<1>4. ASSUME NEW v \in Worker
      PROVE  HandlerInv(table', queue', nextId', worker'[v])
  <2>1. CASE v = w
    BY <1>2, <2>1, IdleIsFine
  <2>2. CASE v # w
    <3>1. /\ worker[v] \in WorkerState /\ HandlerInv(table, queue, nextId, worker[v])
          /\ queue \in SUBSET Task /\ nextId \in Nat
      BY DEF PipelineInv, Typed, TypeOK
    <3>2. HandlerInv(table, queue \ {u}, nextId, worker[v])
      BY <1>1, <1>3, <3>1, DoneIsFine
    <3> QED
      BY <1>1, <1>2, <2>2, <3>2
  <2> QED
    BY <2>1, <2>2
<1>5. NoEntityLost'
  <2>1. ASSUME NEW k \in Resident, Safe(k)
        PROVE  Safe(k)'
    <3>1. CASE InTask(u, k)
      <4>1. k \in table \/ \E t \in queue : u.id < t.id /\ Selects(t.start, t.end, k)
        BY <1>3, <3>1 DEF Handed
      <4>2. ASSUME NEW t \in queue, u.id < t.id PROVE t # u
        BY <1>1, <4>2 DEF Task
      <4> QED
        BY <1>1, <4>1, <4>2 DEF Safe
    <3>2. CASE ~InTask(u, k)
      BY <1>1, <2>1, <3>2 DEF InTask, Safe
    <3> QED
      BY <3>1, <3>2
  <2> QED
    BY <1>1, <2>1 DEF PipelineInv, NoEntityLost
<1> QED
  BY <1>1, <1>4, <1>5 DEF PipelineInv

LEMMA WorkerStep ==
  ASSUME PipelineInv, Typed', NEW w \in Worker,
         \/ SyncEntityHandler(w) \/ Deliver(w) \/ DeliverAgain(w)
         \/ SyncFails(w) \/ RescheduleFails(w) \/ AckLost(w)
  PROVE  PipelineInv'
<1>0. /\ nextId \in Nat
      /\ \A t \in queue : t.id \in Nat /\ t.id < nextId
  BY DEF PipelineInv, Typed, TypeOK, Task
<1>1. CASE Reject(w)
  BY <1>0, <1>1, ReleaseStep DEF Reject, kindVars
<1>2. CASE FetchBatch(w)
  BY <1>2, FetchStep
<1>3. CASE Post(w)
  BY <1>3, PostStep
<1>4. CASE Posted(w)
  BY <1>4, PostedStep
<1>5. CASE Reschedule(w)
  BY <1>5, RescheduleStep
<1>6. CASE Ack(w)
  BY <1>6, AckStep
<1>7. CASE Deliver(w)
  BY <1>7, TakeStep DEF Deliver, DeliverTask, kindVars
<1>8. CASE DeliverAgain(w)
  BY <1>8, TakeStep DEF DeliverAgain, kindVars
<1>9. CASE SyncFails(w)
  BY <1>0, <1>9, ReleaseStep DEF SyncFails, kindVars
<1>10. CASE RescheduleFails(w)
  <2>1. /\ queue \subseteq queue' /\ nextId <= nextId'
        /\ \A t \in queue' : t.id < nextId'
    <3>1. CASE AddTask(worker[w].last, worker[w].task.end)
      BY <1>0, <3>1 DEF AddTask
    <3>2. CASE UNCHANGED <<queue, nextId>>
      BY <1>0, <3>2
    <3> QED
      BY <1>10, <3>1, <3>2 DEF RescheduleFails, AddFails
  <2> QED
    BY <1>10, <2>1, ReleaseStep DEF RescheduleFails, kindVars
<1>11. CASE AckLost(w)
  BY <1>0, <1>11, ReleaseStep DEF AckLost, kindVars
<1>12. CASE PoisonFails(w)
  BY <1>0, <1>12, ReleaseStep DEF PoisonFails, kindVars
<1> QED
  BY <1>1, <1>2, <1>3, <1>4, <1>5, <1>6, <1>7, <1>8, <1>9, <1>10, <1>11, <1>12
  DEF SyncEntityHandler

LEMMA PipelineInvInit == Init => PipelineInv
<1> SUFFICES ASSUME Init PROVE PipelineInv
  OBVIOUS
<1>1. \A w \in Worker : worker[w] = Idle
  BY DEF Init
<1>2. \A w \in Worker : HandlerInv(table, queue, nextId, worker[w])
  BY <1>1, IdleIsFine
<1> QED
  BY <1>2, TypedInit DEF Init, PipelineInv, NoEntityLost

LEMMA PipelineInvStep == PipelineInv /\ [Next]_vars => PipelineInv'
<1> SUFFICES ASSUME PipelineInv, [Next]_vars PROVE PipelineInv'
  OBVIOUS
<1>0. Typed'
  BY TypedStep DEF PipelineInv
<1>1. CASE SyncKindHandler \/ ScheduleFails \/ KindCrash
  BY <1>0, <1>1, KindStep
<1>2. ASSUME NEW w \in Worker,
             \/ SyncEntityHandler(w) \/ Deliver(w) \/ DeliverAgain(w)
             \/ SyncFails(w) \/ RescheduleFails(w) \/ AckLost(w)
      PROVE  PipelineInv'
  BY <1>0, <1>2, WorkerStep
<1>3. CASE UNCHANGED vars
  BY <1>0, <1>3
  DEF vars, kindVars, PipelineInv, NoEntityLost, Safe
<1> QED
  BY <1>1, <1>2, <1>3 DEF Next

(* No entity of an accepted range is lost on its way to BigQuery: at any   *)
(* moment, whatever failed, was retried or ran twice, it is in the table   *)
(* or in the range of a queued task.                                       *)
THEOREM NothingIsLost == Spec => []NoEntityLost
<1>1. Init => PipelineInv
  BY PipelineInvInit
<1>2. PipelineInv /\ [Next]_vars => PipelineInv'
  BY PipelineInvStep
<1>3. PipelineInv => NoEntityLost
  BY DEF PipelineInv
<1> QED
  BY <1>1, <1>2, <1>3, PTL DEF Spec

-----------------------------------------------------------------------------
(* A step that adds a task while instance w moves on from "resched" adds   *)
(* the rest of the range of w, which Advances makes shorter.               *)
LEMMA FollowUpStep ==
  ASSUME PipelineInv, [Next]_vars,
         NEW w \in Worker, worker[w].phase = "resched", worker'[w] # worker[w],
         NEW t \in NewTasks
  PROVE  t.end = worker[w].task.end /\ worker[w].task.start < t.start
<1>1. Reschedule(w) \/ RescheduleFails(w)
  <2>1. ~(SyncKindHandler \/ ScheduleFails \/ KindCrash) /\ ~UNCHANGED vars
    BY DEF SyncKindHandler, SplitKind, ScheduleRange, KindReply, ScheduleFails,
           KindCrash, vars
  <2>2. PICK v \in Worker : \/ SyncEntityHandler(v) \/ Deliver(v) \/ DeliverAgain(v)
                            \/ SyncFails(v) \/ RescheduleFails(v) \/ AckLost(v)
    BY <2>1 DEF Next
  <2>3. worker'[w] = worker[w] \/ v = w
    BY <2>2
    DEF SyncEntityHandler, Reject, FetchBatch, StartPosting, Post, PoisonFails,
        Posted, Reschedule, Ack, Deliver, DeliverTask, DeliverAgain, Take, SyncFails,
        RescheduleFails, AckLost, Release, PipelineInv, Typed, TypeOK
  <2>4. v = w
    BY <2>3
  <2> QED
    BY <2>2, <2>4
    DEF SyncEntityHandler, Reject, FetchBatch, Post, PoisonFails, Posted, Ack,
        Deliver, DeliverTask, DeliverAgain, SyncFails, AckLost
<1>2. t = [id |-> nextId, start |-> worker[w].last, end |-> worker[w].task.end]
  BY <1>1 DEF Reschedule, RescheduleFails, AddFails, AddTask, NewTasks
<1>3. worker[w].task.start < worker[w].last
  BY DEF PipelineInv, HandlerInv, Advances, PostedAll
<1> QED
  BY <1>2, <1>3

(* Every follow-up task that SyncEntityHandler adds is a strictly shorter  *)
(* piece of the range it was given, with the same end: the reason why a    *)
(* range comes to an end.                                                  *)
THEOREM FollowUpsAreShorter == Spec => FollowUpsShrink
<1>1. Init => PipelineInv
  BY PipelineInvInit
<1>2. PipelineInv /\ [Next]_vars => PipelineInv'
  BY PipelineInvStep
<1>3. PipelineInv /\ [Next]_vars =>
        [\A w \in Worker : worker[w].phase = "resched" /\ worker'[w] # worker[w] =>
           \A t \in NewTasks : /\ t.end = worker[w].task.end
                               /\ worker[w].task.start < t.start]_vars
  BY FollowUpStep
<1> QED
  BY <1>1, <1>2, <1>3, PTL DEF Spec, FollowUpsShrink

-----------------------------------------------------------------------------
(* An empty queue is only as good as the ranges: the invariant of          *)
(* KeyRangesForKind, carried along with that of the tasks.                 *)
DrainedInv ==
  /\ PipelineInv
  /\ CoverInv
  /\ reply = "200" => scan = "done"

LEMMA DrainedStep == DrainedInv /\ [Next]_vars => DrainedInv'
<1> SUFFICES ASSUME DrainedInv, [Next]_vars PROVE DrainedInv'
  OBVIOUS
<1>1. PipelineInv'
  BY PipelineInvStep DEF DrainedInv
<1>2. /\ [KeyRangesNext]_keyRangesVars
      /\ reply' = reply \/ scan' = "done" \/ reply' = "lost"
  <2>1. CASE SyncKindHandler \/ ScheduleFails \/ KindCrash
    <3>1. KeyRangesNext \/ UNCHANGED keyRangesVars
      BY <2>1
      DEF SyncKindHandler, SplitKind, ScheduleRange, KindReply, ScheduleFails,
          KindCrash
    <3>2. reply' = reply \/ scan' = "done" \/ reply' = "lost"
      BY <2>1
      DEF SyncKindHandler, SplitKind, ScheduleRange, KindReply, ScheduleFails,
          KindCrash, kindVars, keyRangesVars
    <3> QED
      BY <3>1, <3>2
  <2>2. CASE \E w \in Worker : \/ SyncEntityHandler(w) \/ Deliver(w) \/ DeliverAgain(w)
                               \/ SyncFails(w) \/ RescheduleFails(w) \/ AckLost(w)
    BY <2>2
    DEF SyncEntityHandler, Reject, FetchBatch, Post, PoisonFails, Posted, Reschedule,
        Ack, Deliver, DeliverTask, DeliverAgain, SyncFails, RescheduleFails, AckLost, kindVars
  <2>3. CASE UNCHANGED vars
    BY <2>3 DEF vars, kindVars
  <2> QED
    BY <2>1, <2>2, <2>3 DEF Next
<1>3. CoverInv'
  BY <1>2, CoverStep DEF DrainedInv
<1>4. reply' = "200" => scan' = "done"
  <2>1. scan = "done" => scan' = "done"
    BY <1>2
    DEF KeyRangesNext, FirstKey, NoFirstKey, ScatterKey, ScatterEnd, BuildRange,
        LastRange, keyRangesVars
  <2> QED
    BY <1>2, <2>1 DEF DrainedInv
<1> QED
  BY <1>1, <1>3, <1>4 DEF DrainedInv

(* Once SyncKindHandler has answered, every range was accepted and the     *)
(* queue is empty, the whole kind is in BigQuery: the ranges leave no gap, *)
(* and the tasks dropped nothing.                                          *)
THEOREM DrainedKindIsSynced == Spec => []DrainedMeansSynced
<1>1. Init => DrainedInv
  <2>1. Init => CoverInv
    BY CoverInit DEF Init
  <2> QED
    BY <2>1, PipelineInvInit DEF Init, DrainedInv
<1>2. DrainedInv /\ [Next]_vars => DrainedInv'
  BY DrainedStep
<1>3. DrainedInv => DrainedMeansSynced
  <2> SUFFICES ASSUME DrainedInv, reply = "200", ranges # <<>>, AllAccepted,
                      queue = {}, NEW k \in Resident
               PROVE  k \in table
    BY DEF DrainedMeansSynced
  <2>1. PICK n \in 1..Len(ranges) : Covers(ranges[n], k)
    BY DEF DrainedInv, CoverInv, RangesCoverKind, Covered
  <2>2. Safe(k)
    BY <2>1 DEF AllAccepted, DrainedInv, PipelineInv, NoEntityLost
  <2> QED
    BY <2>2 DEF Safe
<1> QED
  BY <1>1, <1>2, <1>3, PTL DEF Spec

-----------------------------------------------------------------------------
(* The steps of the pipeline, as AtLeastOnceSync sees them: tasks come     *)
(* (Accept), rows come (Ingest), or the last task goes (Finish).           *)
LEMMA AcceptedMap ==
  ASSUME accepted \subseteq accepted', queue' # {}, table' = table
  PROVE  AtLeastOnce!Accept
<1>1. Wanted \subseteq Wanted' /\ Wanted' \in SUBSET Key
  BY KeyAssumption DEF Wanted
<1> QED
  BY <1>1 DEF AtLeastOnce!Accept

LEMMA IngestMap ==
  ASSUME table \subseteq table', table' \subseteq Key,
         accepted' = accepted, queue' = queue
  PROVE  AtLeastOnce!Ingest
<1>1. Wanted' = Wanted
  BY DEF Wanted
<1> QED
  BY <1>1 DEF AtLeastOnce!Ingest

LEMMA QuietMap ==
  ASSUME accepted' = accepted, table' = table, queue' = queue
  PROVE  UNCHANGED AtLeastOnce!syncVars
<1>1. Wanted' = Wanted
  BY DEF Wanted
<1> QED
  BY <1>1 DEF AtLeastOnce!syncVars

LEMMA FinishMap ==
  ASSUME PipelineInv', accepted' = accepted, table' = table, queue' \subseteq queue
  PROVE  AtLeastOnce!Finish \/ UNCHANGED AtLeastOnce!syncVars
<1>1. Wanted' = Wanted
  BY DEF Wanted
<1>2. CASE (queue # {}) = (queue' # {})
  BY <1>1, <1>2 DEF AtLeastOnce!syncVars
<1>3. CASE queue # {} /\ queue' = {}
  <2>1. Wanted \subseteq table
    BY <1>3 DEF PipelineInv, NoEntityLost, Safe, Wanted
  <2> QED
    BY <1>1, <1>3, <2>1 DEF AtLeastOnce!Finish
<1> QED
  BY <1>2, <1>3

LEMMA StepMap ==
  ASSUME PipelineInv, PipelineInv', [Next]_vars
  PROVE  [AtLeastOnce!SyncNext]_(AtLeastOnce!syncVars)
<1>0. table' \subseteq Key
  BY DEF PipelineInv, Typed, TypeOK
<1> USE DEF AtLeastOnce!SyncNext, AddTask, kindVars
<1>1. CASE SplitKind \/ KindReply \/ KindCrash
  BY <1>1, QuietMap DEF SplitKind, KindReply, KindCrash
<1>2. CASE ScheduleRange
  BY <1>2, AcceptedMap DEF ScheduleRange
<1>3. CASE ScheduleFails
  BY <1>3, AcceptedMap, QuietMap DEF ScheduleFails, AddFails
<1>4. ASSUME NEW w \in Worker,
             Reject(w) \/ FetchBatch(w) \/ Posted(w) \/ Deliver(w) \/ DeliverAgain(w)
               \/ AckLost(w)
      PROVE  UNCHANGED AtLeastOnce!syncVars
  BY <1>4, QuietMap
  DEF Reject, FetchBatch, Posted, Deliver, DeliverTask, DeliverAgain, AckLost
<1>5. ASSUME NEW w \in Worker, Post(w) \/ PoisonFails(w) \/ SyncFails(w)
      PROVE  AtLeastOnce!Ingest
  BY <1>0, <1>5, IngestMap DEF Post, PoisonFails, SyncFails
<1>6. ASSUME NEW w \in Worker, Reschedule(w)
      PROVE  AtLeastOnce!Accept
  BY <1>6, AcceptedMap DEF Reschedule
<1>7. ASSUME NEW w \in Worker, RescheduleFails(w)
      PROVE  AtLeastOnce!Accept \/ UNCHANGED AtLeastOnce!syncVars
  BY <1>7, AcceptedMap, QuietMap DEF RescheduleFails, AddFails
<1>8. ASSUME NEW w \in Worker, Ack(w)
      PROVE  AtLeastOnce!Finish \/ UNCHANGED AtLeastOnce!syncVars
  BY <1>8, FinishMap DEF Ack
<1>9. CASE UNCHANGED vars
  BY <1>9, QuietMap DEF vars
<1> QED
  BY <1>1, <1>2, <1>3, <1>4, <1>5, <1>6, <1>7, <1>8, <1>9
  DEF Next, SyncKindHandler, SyncEntityHandler

(* The pipeline implements AtLeastOnceSync: rows are only added, and the   *)
(* queue falls silent only when all that it accepted is in BigQuery.       *)
THEOREM SyncsAtLeastOnce == Spec => ImplementsAtLeastOnce
<1>1. Init => PipelineInv /\ AtLeastOnce!SyncInit
  <2>1. Init => AtLeastOnce!SyncInit
    BY DEF Init, AtLeastOnce!SyncInit, Wanted
  <2> QED
    BY <2>1, PipelineInvInit
<1>2. PipelineInv /\ [Next]_vars => PipelineInv'
  BY PipelineInvStep
<1>3. PipelineInv /\ PipelineInv' /\ [Next]_vars
        => [AtLeastOnce!SyncNext]_(AtLeastOnce!syncVars)
  BY StepMap
<1> QED
  BY <1>1, <1>2, <1>3, PTL DEF Spec, ImplementsAtLeastOnce, AtLeastOnce!SyncSpec

-----------------------------------------------------------------------------
(* Behind NoDoubleWork: the tasks that are queued and not dealt with yet   *)
(* are apart from each other and from the ranges still to be scheduled.    *)
(* A task whose instance is about to answer 200 is dealt with, and its     *)
(* follow-up has taken its place.                                          *)
DealtWith(t) == \E w \in Worker : worker[w].phase = "ack" /\ worker[w].task = t

OneEach ==
  /\ \A w \in Worker : worker[w].phase # "idle" => worker[w].task \in queue
  /\ \A v, w \in Worker : v # w /\ worker[v].phase # "idle" /\ worker[w].phase # "idle"
       => worker[v].task # worker[w].task

TasksApart ==
  /\ \A t, u \in queue : t # u /\ ~DealtWith(t) /\ ~DealtWith(u) => Apart(t, u)
  /\ \A t \in queue : ~DealtWith(t) =>
       \A n \in 1..Len(ranges) : next <= n => Apart(t, ranges[n])

Faultless ==
  /\ scan # "done" => queue = {}
  /\ OneEach
  /\ TasksApart

ApartInv == PipelineInv /\ OverlapInv /\ (faults = 0 => Faultless)

LEMMA ApartSmaller ==
  ASSUME NEW s, NEW t, s.start \in Key, t.start \in Key, t.start <= s.start,
         \A k \in Key : Covers(s, k) => Covers(t, k), NEW u, Apart(t, u)
  PROVE  Apart(s, u)
<1> SUFFICES ASSUME NEW k \in Key, Covers(s, k), Covers(u, k)
             PROVE  k = s.start /\ k = u.start
  BY DEF Apart
<1>1. k = t.start /\ k = u.start
  BY DEF Apart
<1>2. s.start <= k \/ k = s.start
  BY DEF Covers, Selects
<1> QED
  BY <1>1, <1>2, KeyAssumption

LEMMA ApartBothWays == \A t, u : Apart(t, u) => Apart(u, t)
BY DEF Apart

LEMMA WorkerSet ==
  ASSUME TypeOK, NEW w \in Worker, NEW s, worker' = [worker EXCEPT ![w] = s]
  PROVE  worker'[w] = s /\ \A v \in Worker \ {w} : worker'[v] = worker[v]
BY DEF TypeOK

(* Nothing is added to the queue, and more may be dealt with.              *)
LEMMA QuietApart ==
  ASSUME Faultless, UNCHANGED <<keyRangesVars, next>>, queue' \subseteq queue,
         OneEach', \A t \in queue' : DealtWith(t) => DealtWith(t)'
  PROVE  Faultless'
<1>1. \A t, u : Apart(t, u)' <=> Apart(t, u)
  BY DEF Apart, keyRangesVars
<1> QED
  BY <1>1 DEF Faultless, TasksApart, keyRangesVars

(* A step of one instance, which keeps its task or gets rid of it.         *)
LEMMA KeepsTask ==
  ASSUME Faultless, NEW w \in Worker, worker[w].phase \notin {"idle", "ack"},
         UNCHANGED <<keyRangesVars, next, queue>>,
         \A v \in Worker \ {w} : worker'[v] = worker[v],
         worker'[w].phase # "idle" => worker'[w].task = worker[w].task
  PROVE  Faultless'
<1>1. OneEach'
  BY DEF OneEach, Faultless
<1>2. \A t \in queue : DealtWith(t) => DealtWith(t)'
  BY DEF DealtWith
<1> QED
  BY <1>1, <1>2, QuietApart

(* The steps that only take an instance through its phases.                *)
LEMMA PhaseApart ==
  ASSUME Typed, Faultless, NEW w \in Worker,
         Reject(w) \/ FetchBatch(w) \/ Post(w) \/ PoisonFails(w) \/ Posted(w)
  PROVE  Faultless'
<1>1. /\ worker[w].phase \notin {"idle", "ack"} /\ worker[w] \in Busy
      /\ UNCHANGED <<keyRangesVars, next, queue>>
  BY SoundWorker DEF Reject, FetchBatch, Post, PoisonFails, Posted, kindVars
<1>2. TypeOK
  BY DEF Typed
<1>3. CASE Reject(w) \/ PoisonFails(w)
  <2>1. worker' = [worker EXCEPT ![w] = Idle] /\ Idle.phase = "idle"
    BY <1>3 DEF Reject, PoisonFails, Release, Idle
  <2> QED
    BY <1>1, <1>2, <2>1, WorkerSet, KeepsTask
<1>4. CASE FetchBatch(w)
  <2>1. PICK R, l : StartPosting(w, R, l)
    BY <1>4 DEF FetchBatch
  <2> PICK s : s = [worker[w] EXCEPT !.phase = "ingest", !.todo = R, !.last = l]
    OBVIOUS
  <2>2. worker' = [worker EXCEPT ![w] = s] /\ s.task = worker[w].task
    BY <1>1, <1>2, <2>1 DEF StartPosting, Busy
  <2> QED
    BY <1>1, <1>2, <2>2, WorkerSet, KeepsTask
<1>5. CASE Post(w)
  <2>1. PICK C : worker' = [worker EXCEPT ![w].todo = @ \ C]
    BY <1>5 DEF Post
  <2> PICK s : s = [worker[w] EXCEPT !.todo = @ \ C]
    OBVIOUS
  <2>2. worker' = [worker EXCEPT ![w] = s] /\ s.task = worker[w].task
    BY <1>1, <2>1 DEF Busy
  <2> QED
    BY <1>1, <1>2, <2>2, WorkerSet, KeepsTask
<1>6. CASE Posted(w)
  <2>1. PICK p \in {"ack", "resched"} : worker' = [worker EXCEPT ![w].phase = p]
    BY <1>6 DEF Posted
  <2> PICK s : s = [worker[w] EXCEPT !.phase = p]
    OBVIOUS
  <2>2. worker' = [worker EXCEPT ![w] = s] /\ s.task = worker[w].task
    BY <1>1, <2>1 DEF Busy
  <2> QED
    BY <1>1, <1>2, <2>2, WorkerSet, KeepsTask
<1> QED
  BY <1>3, <1>4, <1>5, <1>6

LEMMA DeliverApart ==
  ASSUME Typed, Faultless, NEW w \in Worker, Deliver(w)
  PROVE  Faultless'
<1>1. PICK t \in queue : /\ worker[w].phase = "idle" /\ ~InHand(t) /\ Take(w, t)
                         /\ UNCHANGED <<keyRangesVars, next, queue>>
  BY DEF Deliver, DeliverTask, kindVars
<1>2. /\ worker'[w].phase = "fetch" /\ worker'[w].task = t
      /\ \A v \in Worker \ {w} : worker'[v] = worker[v]
  BY <1>1, WorkerSet DEF Take, Typed
<1>3. OneEach'
  BY <1>1, <1>2 DEF OneEach, InHand, Faultless
<1>4. \A u \in queue : DealtWith(u) => DealtWith(u)'
  BY <1>1, <1>2 DEF DealtWith
<1> QED
  BY <1>1, <1>3, <1>4, QuietApart

LEMMA AckApart ==
  ASSUME Typed, Faultless, NEW w \in Worker, Ack(w)
  PROVE  Faultless'
<1>1. /\ worker[w].phase = "ack" /\ queue' = queue \ {worker[w].task}
      /\ worker' = [worker EXCEPT ![w] = Idle]
      /\ UNCHANGED <<keyRangesVars, next>>
  BY DEF Ack, Release, kindVars
<1>2. /\ worker'[w].phase = "idle"
      /\ \A v \in Worker \ {w} : worker'[v] = worker[v]
  BY <1>1, WorkerSet DEF Idle, Typed
<1>3. OneEach'
  BY <1>1, <1>2 DEF OneEach, Faultless
<1>4. \A t \in queue' : DealtWith(t) => DealtWith(t)'
  BY <1>1, <1>2 DEF DealtWith
<1> QED
  BY <1>1, <1>3, <1>4, QuietApart

(* A task is added that is apart from all that is not dealt with.          *)
LEMMA AddedApart ==
  ASSUME Faultless, scan = "done", NEW t, queue' = queue \cup {t}, UNCHANGED keyRangesVars,
         \A n \in Nat : next' <= n => next <= n,
         OneEach', \A u \in queue : DealtWith(u) => DealtWith(u)',
         \A u \in queue : ~DealtWith(u)' => Apart(t, u),
         \A n \in 1..Len(ranges) : next' <= n => Apart(t, ranges[n])
  PROVE  Faultless'
<1>1. \A u, v : Apart(u, v)' <=> Apart(u, v)
  BY DEF Apart, keyRangesVars
<1>2. TasksApart
  BY DEF Faultless
<1>3. ASSUME NEW u \in queue', NEW v \in queue', u # v, ~DealtWith(u)', ~DealtWith(v)'
      PROVE  Apart(u, v)
  <2>1. CASE u \in queue /\ v \in queue
    BY <1>2, <1>3, <2>1 DEF TasksApart
  <2>2. CASE u = t
    BY <1>3, <2>2
  <2>3. CASE v = t
    BY <1>3, <2>3, ApartBothWays
  <2> QED
    BY <2>1, <2>2, <2>3
<1>4. ASSUME NEW u \in queue', ~DealtWith(u)', NEW n \in 1..Len(ranges), next' <= n
      PROVE  Apart(u, ranges[n])
  BY <1>2, <1>4 DEF TasksApart
<1>5. TasksApart'
  BY <1>1, <1>3, <1>4 DEF TasksApart, keyRangesVars
<1> QED
  BY <1>5 DEF Faultless, keyRangesVars

(* The follow-up covers nothing but what its task does.                    *)
LEMMA RescheduleApart ==
  ASSUME PipelineInv, Faultless, NEW w \in Worker, Reschedule(w)
  PROVE  Faultless'
<1> PICK s : s = worker[w]
  OBVIOUS
<1> PICK t : t = [id |-> nextId, start |-> s.last, end |-> s.task.end]
  OBVIOUS
<1>1. Typed /\ TypeOK /\ s \in Busy /\ s.phase = "resched" /\ s.last \in Key
  BY SoundWorker DEF PipelineInv, Typed, Reschedule, NamesKey
<1>2. /\ queue' = queue \cup {t} /\ UNCHANGED <<keyRangesVars, next>>
      /\ worker' = [worker EXCEPT ![w].phase = "ack"]
  BY DEF Reschedule, AddTask, kindVars
<1>3. /\ worker'[w].phase = "ack" /\ worker'[w].task = s.task
      /\ \A v \in Worker \ {w} : worker'[v] = worker[v]
  BY <1>1, <1>2 DEF Busy, TypeOK
<1>4. s.last # s.task.end /\ s.task.start < s.last /\ s.task.start # s.task.end
  BY <1>1 DEF PipelineInv, HandlerInv, PostedAll, Advances
<1>5. s.task.start \in Key /\ s.task.end \in Key \cup {Nil}
  BY <1>1 DEF Busy, Task
<1>6. \A k \in Key : Covers(t, k) => Covers(s.task, k)
  <2>1. t.start = s.last /\ t.end = s.task.end
    OBVIOUS
  <2> SUFFICES ASSUME NEW k \in Key, Selects(s.last, s.task.end, k)
               PROVE  Selects(s.task.start, s.task.end, k)
    BY <2>1 DEF Covers
  <2>2. s.task.start \in Int /\ s.last \in Int /\ k \in Int
    BY <1>1, <1>5, KeyAssumption
  <2>3. s.last <= k /\ (s.task.end = Nil \/ k < s.task.end)
    BY <1>4 DEF Selects
  <2>4. s.task.start <= k
    BY <1>4, <2>2, <2>3
  <2> QED
    BY <1>4, <2>3, <2>4 DEF Selects
<1>7. t.start \in Key /\ s.task.start \in Key /\ s.task.start <= t.start
  <2>1. t.start = s.last
    OBVIOUS
  <2>2. s.last \in Int /\ s.task.start \in Int
    BY <1>1, <1>5, KeyAssumption
  <2> QED
    BY <1>1, <1>4, <1>5, <2>1, <2>2
<1>8. OneEach /\ TasksApart /\ s.task \in queue /\ ~DealtWith(s.task)
  BY <1>1 DEF Faultless, OneEach, DealtWith
<1>9. OneEach'
  BY <1>1, <1>2, <1>3, <1>8 DEF OneEach
<1>10. \A u \in queue : DealtWith(u) => DealtWith(u)'
  BY <1>1, <1>3 DEF DealtWith
<1>11. ASSUME NEW u \in queue, ~DealtWith(u)' PROVE Apart(t, u)
  <2>1. DealtWith(s.task)'
    BY <1>3 DEF DealtWith
  <2>2. u # s.task /\ ~DealtWith(u)
    BY <1>10, <1>11, <2>1
  <2>3. Apart(s.task, u)
    BY <1>8, <2>2 DEF TasksApart
  <2> QED
    BY <1>6, <1>7, <2>3, ApartSmaller
<1>12. ASSUME NEW n \in 1..Len(ranges), next' <= n PROVE Apart(t, ranges[n])
  <2>1. Apart(s.task, ranges[n])
    BY <1>2, <1>8, <1>12 DEF TasksApart
  <2> QED
    BY <1>6, <1>7, <2>1, ApartSmaller
<1>13. scan = "done"
  BY <1>8 DEF Faultless
<1> QED
  BY <1>2, <1>9, <1>10, <1>11, <1>12, <1>13, AddedApart

LEMMA ScheduleApart ==
  ASSUME PipelineInv, OverlapInv, Faultless, ScheduleRange
  PROVE  Faultless'
<1> PICK t : t = [id |-> nextId, start |-> ranges[next].start, end |-> ranges[next].end]
  OBVIOUS
<1>1. /\ queue' = queue \cup {t} /\ UNCHANGED <<keyRangesVars, worker>> /\ next' = next + 1
      /\ scan = "done" /\ next <= Len(ranges)
  BY DEF ScheduleRange, Scheduling, AddTask
<1>2. Typed /\ TypeOK /\ next \in Nat \ {0} /\ Len(ranges) \in Nat
  BY LenProperties DEF PipelineInv, Typed, TypeOK, KeyRangesTypeOK
<1>3. next \in 1..Len(ranges)
  BY <1>1, <1>2
<1>4. \A k \in Key : Covers(t, k) => Covers(ranges[next], k)
  BY DEF Covers
<1>5. ranges[next] \in KeyRange
  BY <1>2, <1>3 DEF TypeOK, KeyRangesTypeOK
<1>6. t.start \in Key /\ ranges[next].start \in Key /\ ranges[next].start <= t.start
  <2>1. t.start = ranges[next].start
    OBVIOUS
  <2>2. ranges[next].start \in Key
    BY <1>5 DEF KeyRange
  <2>3. \A x \in Key : x <= x
    BY KeyAssumption
  <2> QED
    BY <2>1, <2>2, <2>3
<1>7. OneEach /\ TasksApart
  BY DEF Faultless
<1>8. OneEach'
  BY <1>1, <1>7 DEF OneEach
<1>9. \A u \in queue : DealtWith(u)' <=> DealtWith(u)
  BY <1>1 DEF DealtWith
<1>10. ASSUME NEW u \in queue, ~DealtWith(u)' PROVE Apart(t, u)
  <2>1. Apart(u, ranges[next])
    BY <1>2, <1>3, <1>7, <1>9, <1>10 DEF TasksApart
  <2> QED
    BY <1>4, <1>6, <2>1, ApartBothWays, ApartSmaller
<1>11. ASSUME NEW n \in 1..Len(ranges), next' <= n PROVE Apart(t, ranges[n])
  <2>1. next < n
    BY <1>1, <1>2, <1>11
  <2>2. Apart(ranges[next], ranges[n])
    BY <1>3, <2>1 DEF OverlapInv, RangesOverlapOnlyAtFirst, Apart
  <2> QED
    BY <1>4, <1>6, <2>2, ApartSmaller
<1>12. \A n \in Nat : next' <= n => next <= n
  BY <1>1, <1>2
<1> QED
  BY <1>1, <1>8, <1>9, <1>10, <1>11, <1>12, AddedApart

(* KeyRangesForKind ends before the first task is added.                   *)
LEMMA SplitApart ==
  ASSUME Faultless, SplitKind
  PROVE  Faultless'
<1>1. UNCHANGED <<queue, worker>>
  BY DEF SplitKind
<1>2. scan # "done"
  BY DEF SplitKind, KeyRangesNext, FirstKey, NoFirstKey, ScatterKey, ScatterEnd, BuildRange,
     LastRange
<1>3. queue = {}
  BY <1>2 DEF Faultless
<1> QED
  BY <1>1, <1>3 DEF Faultless, OneEach, TasksApart

LEMMA ApartStep == ApartInv /\ [Next]_vars => ApartInv'
<1> SUFFICES ASSUME ApartInv, [Next]_vars PROVE ApartInv'
  OBVIOUS
<1>1. PipelineInv'
  BY PipelineInvStep DEF ApartInv
<1>2. OverlapInv'
  <2>1. [KeyRangesNext]_keyRangesVars
    BY DEF Next, vars, SyncKindHandler, SplitKind, ScheduleRange, KindReply, ScheduleFails,
       KindCrash, SyncEntityHandler, Reject, FetchBatch, Post, PoisonFails, Posted, Reschedule, Ack,
       Deliver, DeliverTask, DeliverAgain, SyncFails, RescheduleFails, AckLost
  <2> QED
    BY <2>1, OverlapStep DEF ApartInv
<1>3. ASSUME faults' = 0
      PROVE  Faultless'
  <2>1. Typed /\ faults \in Nat
    BY DEF ApartInv, PipelineInv, Typed, TypeOK
  <2>2. ~Fault
    BY <1>3, <2>1 DEF Fault
  <2>3. faults = 0 /\ Faultless
    BY <1>3, <2>1
    DEF ApartInv, Next, vars, SyncKindHandler, SplitKind, ScheduleRange, KindReply, ScheduleFails,
       KindCrash, SyncEntityHandler, Reject, FetchBatch, Post, PoisonFails, Posted, Reschedule, Ack,
       Deliver, DeliverTask, DeliverAgain, SyncFails, RescheduleFails, AckLost, AddFails, Fault
  <2>4. CASE SplitKind
    BY <2>3, <2>4, SplitApart
  <2>5. CASE ScheduleRange
    BY <2>3, <2>5, ScheduleApart DEF ApartInv
  <2>6. CASE KindReply \/ UNCHANGED vars
    <3>1. UNCHANGED <<keyRangesVars, next, queue, worker>>
      BY <2>6 DEF KindReply, vars, kindVars
    <3>2. OneEach' /\ \A t \in queue : DealtWith(t) => DealtWith(t)'
      BY <2>3, <3>1 DEF OneEach, Faultless, DealtWith
    <3> QED
      BY <2>3, <3>1, <3>2, QuietApart
  <2>7. ASSUME NEW w \in Worker, SyncEntityHandler(w) \/ Deliver(w)
        PROVE  Faultless'
    BY <2>1, <2>3, <2>7, PhaseApart, DeliverApart, RescheduleApart, AckApart
    DEF SyncEntityHandler, ApartInv
  <2> QED
    BY <2>2, <2>4, <2>5, <2>6, <2>7
    DEF Next, SyncKindHandler, ScheduleFails, AddFails, KindCrash, DeliverAgain, SyncFails,
        RescheduleFails, AckLost
<1> QED
  BY <1>1, <1>2, <1>3 DEF ApartInv

LEMMA ApartInit == Init => ApartInv
<1> SUFFICES ASSUME Init PROVE ApartInv
  OBVIOUS
<1>1. ranges = <<>> /\ Len(ranges) = 0 /\ scan = "first"
  BY DEF Init, KeyRangesInit
<1>2. OverlapInv
  BY <1>1, TypeInit DEF Init, OverlapInv, BelowStart, BoundsAhead, RangesOverlapOnlyAtFirst
<1>3. Faultless
  BY DEF Init, Idle, Faultless, OneEach, TasksApart
<1> QED
  BY <1>2, <1>3, PipelineInvInit DEF ApartInv

(* As long as nothing fails and no task is delivered twice, no two         *)
(* instances send the same entity at one moment.                           *)
THEOREM TasksDoNotOverlap == Spec => []NoDoubleWork
<1>1. ApartInv => NoDoubleWork
  <2> SUFFICES ASSUME ApartInv, faults = 0, NEW v \in Worker, NEW w \in Worker, v # w,
                      AtWork(v), AtWork(w)
               PROVE  Apart(worker[v].task, worker[w].task)
    BY DEF NoDoubleWork
  <2>1. OneEach /\ TasksApart
    BY DEF ApartInv, Faultless
  <2>2. \A x \in {v, w} : worker[x].task \in queue /\ ~DealtWith(worker[x].task)
    BY <2>1 DEF OneEach, AtWork, DealtWith
  <2>3. worker[v].task # worker[w].task
    BY <2>1 DEF OneEach, AtWork
  <2> QED
    BY <2>1, <2>2, <2>3 DEF TasksApart
<1> QED
  BY <1>1, ApartInit, ApartStep, PTL DEF Spec

-----------------------------------------------------------------------------
(* Behind RowsSentOnce: of the range of a task that no instance has read   *)
(* yet, nothing is in BigQuery but its start; of one that is being sent,   *)
(* nothing beyond last, where its follow-up will start.                    *)
Read(t) ==
  \E w \in Worker : worker[w].phase \in {"ingest", "resched", "ack"} /\ worker[w].task = t

Unsent(t) == \A k \in table : Covers(t, k) => k = t.start

ToSend(s) ==
  s.phase = "ingest" =>
    /\ \A k \in s.todo : Covers(s.task, k) /\ (s.last # s.task.end => k <= s.last)
    /\ s.todo \cap table \subseteq {s.task.start}

UpToLast(s) ==
  s.phase \in {"ingest", "resched"} /\ s.last # s.task.end =>
    \A k \in table : Covers(s.task, k) => k <= s.last

Fresh ==
  /\ scan # "done" => table = {}
  /\ \A t \in queue : ~Read(t) => Unsent(t)
  /\ \A n \in 1..Len(ranges) : next <= n => Unsent(ranges[n])
  /\ \A w \in Worker : ToSend(worker[w]) /\ UpToLast(worker[w])

SentInv == ApartInv /\ (faults = 0 /\ poison = {} => Fresh)

LEMMA TableKeys == ASSUME TypeOK PROVE table \subseteq Key /\ table \subseteq Int
BY KeyAssumption DEF TypeOK

(* Nothing is sent, and no instance lets go of a range that it has read.   *)
LEMMA QuietFresh ==
  ASSUME Fresh, UNCHANGED <<keyRangesVars, next, table>>, queue' \subseteq queue,
         \A t \in queue' : Read(t) => Read(t)',
         \A w \in Worker : worker'[w] = worker[w] \/ (ToSend(worker'[w]) /\ UpToLast(worker'[w]))
  PROVE  Fresh'
<1>1. \A t : Unsent(t)' <=> Unsent(t)
  BY DEF Unsent
<1>2. \A w \in Worker : ToSend(worker'[w]) /\ UpToLast(worker'[w])
  BY DEF Fresh
<1>3. \A w \in Worker : (ToSend(worker[w]) /\ UpToLast(worker[w]))'
  BY <1>2 DEF ToSend, UpToLast
<1> QED
  BY <1>1, <1>3 DEF Fresh, keyRangesVars

(* An instance with no range, or with one that it has not read yet.        *)
LEMMA NothingToSend ==
  ASSUME NEW s, s.phase \in {"idle", "fetch", "ack"}
  PROVE  ToSend(s) /\ UpToLast(s)
BY DEF ToSend, UpToLast

LEMMA RejectFresh ==
  ASSUME Typed, Fresh, NEW w \in Worker, Reject(w)
  PROVE  Fresh'
<1>1. /\ worker[w].phase = "fetch" /\ worker' = [worker EXCEPT ![w] = Idle]
      /\ UNCHANGED <<keyRangesVars, next, table, queue>>
  BY DEF Reject, Release, kindVars
<1>2. worker'[w].phase = "idle" /\ \A v \in Worker \ {w} : worker'[v] = worker[v]
  BY <1>1, WorkerSet DEF Typed, Idle
<1>3. \A t \in queue : Read(t) => Read(t)'
  BY <1>1, <1>2 DEF Read
<1> QED
  BY <1>1, <1>2, <1>3, NothingToSend, QuietFresh

LEMMA DeliverFresh ==
  ASSUME Typed, Fresh, NEW w \in Worker, Deliver(w)
  PROVE  Fresh'
<1>1. PICK t \in queue : /\ worker[w].phase = "idle" /\ Take(w, t)
                         /\ UNCHANGED <<keyRangesVars, next, table, queue>>
  BY DEF Deliver, DeliverTask, kindVars
<1>2. worker'[w].phase = "fetch" /\ \A v \in Worker \ {w} : worker'[v] = worker[v]
  BY <1>1, WorkerSet DEF Take, Typed
<1>3. \A u \in queue : Read(u) => Read(u)'
  BY <1>1, <1>2 DEF Read
<1> QED
  BY <1>1, <1>2, <1>3, NothingToSend, QuietFresh

LEMMA AckFresh ==
  ASSUME Typed, OneEach, Fresh, NEW w \in Worker, Ack(w)
  PROVE  Fresh'
<1>1. /\ worker[w].phase = "ack" /\ queue' = queue \ {worker[w].task}
      /\ worker' = [worker EXCEPT ![w] = Idle]
      /\ UNCHANGED <<keyRangesVars, next, table>>
  BY DEF Ack, Release, kindVars
<1>2. worker'[w].phase = "idle" /\ \A v \in Worker \ {w} : worker'[v] = worker[v]
  BY <1>1, WorkerSet DEF Typed, Idle
<1>3. \A t \in queue' : Read(t) => Read(t)'
  BY <1>1, <1>2 DEF Read
<1> QED
  BY <1>1, <1>2, <1>3, NothingToSend, QuietFresh

(* What is read of a range was not sent before, but for its start.         *)
LEMMA FetchFresh ==
  ASSUME PipelineInv, OneEach, Fresh, NEW w \in Worker, FetchBatch(w), PipelineInv'
  PROVE  Fresh'
<1> PICK t : t = worker[w].task
  OBVIOUS
<1>1. /\ worker[w].phase = "fetch" /\ worker[w] \in Busy
      /\ UNCHANGED <<keyRangesVars, next, table, queue>>
  BY SoundWorker DEF PipelineInv, FetchBatch, kindVars
<1>2. PICK R, l : /\ StartPosting(w, R, l)
                  /\ R \subseteq Selected(t.start, t.end)
                  /\ l # t.end => l \in R /\ \A r \in R : r <= l
  BY DEF FetchBatch, FullBatches, FinalBatches, LastOf
<1> PICK s : s = [worker[w] EXCEPT !.phase = "ingest", !.todo = R, !.last = l]
  OBVIOUS
<1>3. /\ s.phase = "ingest" /\ s.task = t /\ s.todo = R /\ s.last = l
      /\ worker' = [worker EXCEPT ![w] = s]
  BY <1>1, <1>2 DEF StartPosting, Busy
<1>4. worker'[w] = s /\ \A v \in Worker \ {w} : worker'[v] = worker[v]
  BY <1>3, WorkerSet DEF PipelineInv, Typed
<1>5. Unsent(t)
  <2>1. t \in queue /\ ~Read(t)
    BY <1>1 DEF OneEach, Read
  <2> QED
    BY <2>1 DEF Fresh
<1>6. \A k \in R : Covers(t, k) /\ k \in Key
  BY <1>2 DEF Selected, Covers
<1>7. ToSend(s)
  BY <1>2, <1>3, <1>5, <1>6 DEF ToSend, Unsent
<1>8. UpToLast(s)
  <2> SUFFICES ASSUME l # t.end, NEW k \in table, Covers(t, k)
               PROVE  k <= l
    BY <1>3 DEF UpToLast
  <2>1. k = t.start
    BY <1>5 DEF Unsent
  <2>2. t.start < l
    BY <1>3, <1>4 DEF PipelineInv, HandlerInv, Advances
  <2>3. l \in Key /\ t.start \in Key
    BY <1>1, <1>2, <1>6 DEF Busy, Task
  <2> QED
    BY <2>1, <2>2, <2>3, KeyAssumption
<1>9. \A u \in queue : Read(u) => Read(u)'
  BY <1>1, <1>3, <1>4 DEF Read
<1> QED
  BY <1>1, <1>4, <1>7, <1>8, <1>9, QuietFresh

LEMMA PostedFresh ==
  ASSUME Typed, Fresh, NEW w \in Worker, Posted(w)
  PROVE  Fresh'
<1>1. /\ worker[w].phase = "ingest" /\ worker[w] \in Busy
      /\ UNCHANGED <<keyRangesVars, next, table, queue>>
  BY SoundWorker DEF Posted, kindVars
<1>2. PICK p \in {"ack", "resched"} : worker' = [worker EXCEPT ![w].phase = p]
  BY DEF Posted
<1> PICK s : s = [worker[w] EXCEPT !.phase = p]
  OBVIOUS
<1>3. /\ s.phase = p /\ s.task = worker[w].task /\ s.last = worker[w].last
      /\ worker' = [worker EXCEPT ![w] = s]
  BY <1>1, <1>2 DEF Busy
<1>4. worker'[w] = s /\ \A v \in Worker \ {w} : worker'[v] = worker[v]
  BY <1>3, WorkerSet DEF Typed
<1>5. UpToLast(worker[w])
  BY DEF Fresh
<1>6. ToSend(s) /\ UpToLast(s)
  BY <1>1, <1>3, <1>5 DEF ToSend, UpToLast
<1>7. \A u \in queue : Read(u) => Read(u)'
  BY <1>1, <1>3, <1>4 DEF Read
<1> QED
  BY <1>1, <1>4, <1>6, <1>7, QuietFresh

(* What is sent lies in no other task but for the start of it, by          *)
(* TasksApart, and before last in its own.                                 *)
LEMMA PostFresh ==
  ASSUME PipelineInv, Faultless, Fresh, NEW w \in Worker, Post(w)
  PROVE  Fresh'
<1> PICK t : t = worker[w].task
  OBVIOUS
<1>1. /\ worker[w].phase = "ingest" /\ worker[w] \in Busy
      /\ UNCHANGED <<keyRangesVars, next, queue>>
  BY SoundWorker DEF PipelineInv, Post, kindVars
<1>2. PICK C \in SUBSET (worker[w].todo \ poison) :
        table' = table \cup C /\ worker' = [worker EXCEPT ![w].todo = @ \ C]
  BY DEF Post
<1> PICK s : s = [worker[w] EXCEPT !.todo = @ \ C]
  OBVIOUS
<1>3. /\ s.phase = "ingest" /\ s.task = t /\ s.todo = worker[w].todo \ C
      /\ s.last = worker[w].last /\ worker' = [worker EXCEPT ![w] = s]
  BY <1>1, <1>2 DEF Busy
<1>4. worker'[w] = s /\ \A v \in Worker \ {w} : worker'[v] = worker[v]
  BY <1>3, WorkerSet DEF PipelineInv, Typed
<1>5. ToSend(worker[w]) /\ UpToLast(worker[w])
  BY DEF Fresh
<1>6. \A k \in C : Covers(t, k) /\ k \in Key /\ (s.last # t.end => k <= s.last)
  BY <1>1, <1>2, <1>3, <1>5 DEF ToSend, Busy
<1>7. t \in queue /\ ~DealtWith(t) /\ scan = "done"
  BY <1>1 DEF Faultless, OneEach, DealtWith
<1>8. ASSUME NEW u, Apart(t, u), NEW k \in C, Covers(u, k)
      PROVE  k = u.start
  BY <1>6, <1>8 DEF Apart
<1>9. ASSUME NEW u, Apart(t, u), Unsent(u)
      PROVE  Unsent(u)'
  BY <1>2, <1>8, <1>9 DEF Unsent
<1>10. ASSUME NEW u \in queue, ~Read(u)'
       PROVE  Unsent(u)'
  <2>1. ~Read(u) /\ u # t /\ ~DealtWith(u)
    BY <1>1, <1>3, <1>4, <1>10 DEF Read, DealtWith
  <2> QED
    BY <1>7, <1>9, <2>1 DEF Fresh, Faultless, TasksApart
<1>11. ASSUME NEW n \in 1..Len(ranges), next <= n
       PROVE  Unsent(ranges[n])'
  <2>1. Apart(t, ranges[n]) /\ Unsent(ranges[n])
    BY <1>7, <1>11 DEF Fresh, Faultless, TasksApart
  <2>2. PICK r : r = ranges[n] /\ r = ranges'[n]
    BY <1>1 DEF keyRangesVars
  <2> QED
    BY <1>9, <2>1, <2>2
<1>12. ASSUME NEW v \in Worker
       PROVE  (ToSend(worker[v]) /\ UpToLast(worker[v]))'
  <2> PICK z : z = worker'[v]
    OBVIOUS
  <2> SUFFICES (ToSend(z) /\ UpToLast(z))'
    OBVIOUS
  <2>1. CASE v = w
    <3>1. z = s
      BY <1>4, <2>1
    <3>2. ToSend(s)'
      BY <1>1, <1>2, <1>3, <1>5 DEF ToSend
    <3>3. UpToLast(s)'
      BY <1>1, <1>2, <1>3, <1>5, <1>6 DEF UpToLast
    <3> QED
      BY <3>1, <3>2, <3>3
  <2>2. CASE v # w /\ z.phase \in {"ingest", "resched"}
    <3>1. /\ z = worker[v] /\ z \in Busy
          /\ z.task \in queue /\ z.task # t /\ ~DealtWith(z.task)
      BY <1>1, <1>4, <2>2, SoundWorker DEF PipelineInv, Faultless, OneEach, DealtWith
    <3>2. Apart(t, z.task) /\ ToSend(z) /\ UpToLast(z)
      BY <1>7, <3>1 DEF Fresh, Faultless, TasksApart
    <3>3. \A k \in C : Covers(z.task, k) => k = z.task.start
      BY <1>8, <3>2
    <3>4. ToSend(z)'
      BY <1>2, <3>2, <3>3 DEF ToSend
    <3>5. UpToLast(z)'
      <4> SUFFICES ASSUME z.last # z.task.end, NEW k \in table', Covers(z.task, k)
                   PROVE  k <= z.last
        BY DEF UpToLast
      <4>1. z.task.start < z.last
        BY <2>2, <3>1 DEF PipelineInv, HandlerInv, Advances
      <4>2. z.last \in Key /\ z.task.start \in Key
        BY <2>2, <3>1, SoundWorker DEF PipelineInv, NamesKey, Busy, Task
      <4>3. CASE k \in table
        BY <2>2, <3>2, <4>3 DEF UpToLast
      <4>4. CASE k \in C
        BY <3>3, <4>1, <4>2, <4>4, KeyAssumption
      <4> QED
        BY <1>2, <4>3, <4>4
    <3> QED
      BY <3>4, <3>5
  <2>3. CASE z.phase \notin {"ingest", "resched"}
    BY <2>3 DEF ToSend, UpToLast
  <2> QED
    BY <2>1, <2>2, <2>3
<1> QED
  BY <1>1, <1>7, <1>10, <1>11, <1>12 DEF Fresh, keyRangesVars

(* The follow-up starts at the last entity that was sent.                  *)
LEMMA RescheduleFresh ==
  ASSUME PipelineInv, Fresh, NEW w \in Worker, Reschedule(w)
  PROVE  Fresh'
<1> PICK s : s = worker[w]
  OBVIOUS
<1> PICK t : t = [id |-> nextId, start |-> s.last, end |-> s.task.end]
  OBVIOUS
<1>1. TypeOK /\ s \in Busy /\ s.phase = "resched" /\ s.last \in Key
  BY SoundWorker DEF PipelineInv, Typed, Reschedule, NamesKey
<1>2. /\ queue' = queue \cup {t} /\ UNCHANGED <<keyRangesVars, next, table>>
      /\ worker' = [worker EXCEPT ![w].phase = "ack"]
  BY DEF Reschedule, AddTask, kindVars
<1>3. /\ worker'[w].phase = "ack" /\ worker'[w].task = s.task
      /\ \A v \in Worker \ {w} : worker'[v] = worker[v]
  BY <1>1, <1>2 DEF Busy, TypeOK
<1>4. s.last # s.task.end /\ s.task.start < s.last /\ s.task.start # s.task.end
  BY <1>1 DEF PipelineInv, HandlerInv, PostedAll, Advances
<1>5. Unsent(t)
  <2> SUFFICES ASSUME NEW k \in table, Covers(t, k) PROVE k = t.start
    BY DEF Unsent
  <2>1. t.start = s.last /\ t.end = s.task.end
    OBVIOUS
  <2>2. s.last <= k /\ (s.task.end = Nil \/ k < s.task.end)
    BY <1>4, <2>1 DEF Covers, Selects
  <2>3. s.task.start \in Int /\ s.last \in Int /\ k \in Int
    BY <1>1, TableKeys, KeyAssumption DEF Busy, Task
  <2>4. s.task.start <= k
    BY <1>4, <2>2, <2>3
  <2>5. Covers(s.task, k)
    BY <1>4, <2>2, <2>4 DEF Covers, Selects
  <2>6. k <= s.last
    BY <1>1, <1>4, <2>5 DEF Fresh, UpToLast
  <2> QED
    BY <2>1, <2>2, <2>3, <2>6
<1>6. \A u : Unsent(u)' <=> Unsent(u)
  BY <1>2 DEF Unsent
<1>7. \A u \in queue : Read(u) => Read(u)'
  BY <1>1, <1>3 DEF Read
<1>8. \A u \in queue' : ~Read(u)' => Unsent(u)'
  BY <1>2, <1>5, <1>6, <1>7 DEF Fresh
<1>9. \A v \in Worker : (ToSend(worker[v]) /\ UpToLast(worker[v]))'
  BY <1>2, <1>3 DEF Fresh, ToSend, UpToLast
<1> QED
  BY <1>2, <1>6, <1>8, <1>9 DEF Fresh, keyRangesVars

LEMMA ScheduleFresh ==
  ASSUME PipelineInv, Fresh, ScheduleRange
  PROVE  Fresh'
<1> PICK t : t = [id |-> nextId, start |-> ranges[next].start, end |-> ranges[next].end]
  OBVIOUS
<1>1. /\ queue' = queue \cup {t} /\ UNCHANGED <<keyRangesVars, worker, table>>
      /\ next' = next + 1 /\ scan = "done" /\ next <= Len(ranges)
  BY DEF ScheduleRange, Scheduling, AddTask
<1>2. next \in Nat \ {0} /\ Len(ranges) \in Nat /\ next \in 1..Len(ranges)
  BY <1>1, LenProperties DEF PipelineInv, Typed, TypeOK, KeyRangesTypeOK
<1>3. Unsent(ranges[next])
  BY <1>2 DEF Fresh
<1>4. Unsent(t)
  BY <1>3 DEF Unsent, Covers
<1>5. \A u : Unsent(u)' <=> Unsent(u)
  BY <1>1 DEF Unsent
<1>6. \A u : Read(u)' <=> Read(u)
  BY <1>1 DEF Read
<1>7. \A u \in queue' : ~Read(u)' => Unsent(u)'
  BY <1>1, <1>4, <1>5, <1>6 DEF Fresh
<1>8. \A n \in 1..Len(ranges) : next' <= n => Unsent(ranges[n])'
  BY <1>1, <1>2, <1>5 DEF Fresh, keyRangesVars
<1>9. \A v \in Worker : (ToSend(worker[v]) /\ UpToLast(worker[v]))'
  BY <1>1 DEF Fresh, ToSend, UpToLast
<1> QED
  BY <1>1, <1>7, <1>8, <1>9 DEF Fresh, keyRangesVars

(* Nothing can have been sent before there are tasks.                      *)
LEMMA SplitFresh ==
  ASSUME Faultless, Fresh, SplitKind
  PROVE  Fresh'
<1>1. UNCHANGED <<queue, worker, table, next>>
  BY DEF SplitKind, kindVars
<1>2. scan # "done"
  BY DEF SplitKind, KeyRangesNext, FirstKey, NoFirstKey, ScatterKey, ScatterEnd, BuildRange,
     LastRange
<1>3. table = {} /\ table' = {}
  BY <1>1, <1>2 DEF Fresh
<1>4. \A w \in Worker : (ToSend(worker[w]) /\ UpToLast(worker[w]))'
  BY <1>1 DEF Fresh, ToSend, UpToLast
<1>5. \A u : Unsent(u)'
  BY <1>3 DEF Unsent
<1> QED
  BY <1>3, <1>4, <1>5 DEF Fresh

LEMMA SentStep == SentInv /\ [Next]_vars => SentInv'
<1> SUFFICES ASSUME SentInv, [Next]_vars PROVE SentInv'
  OBVIOUS
<1>1. ApartInv' /\ ApartInv
  BY ApartStep DEF SentInv
<1>2. ASSUME faults' = 0, poison' = {}
      PROVE  Fresh'
  <2>1. /\ PipelineInv /\ PipelineInv' /\ Typed /\ faults \in Nat
    BY <1>1 DEF ApartInv, PipelineInv, Typed, TypeOK
  <2>2. ~Fault
    BY <1>2, <2>1 DEF Fault
  <2>3. faults = 0 /\ poison = {}
    <3>1. UNCHANGED poison
      BY DEF Next, vars, SyncKindHandler, SplitKind, ScheduleRange, KindReply, ScheduleFails,
         KindCrash, SyncEntityHandler, Reject, FetchBatch, Post, PoisonFails, Posted, Reschedule,
         Ack, Deliver, DeliverTask, DeliverAgain, SyncFails, RescheduleFails, AckLost, kindVars
    <3>2. UNCHANGED faults
      BY <2>2
      DEF Next, vars, SyncKindHandler, SplitKind, ScheduleRange, KindReply, ScheduleFails,
         KindCrash, SyncEntityHandler, Reject, FetchBatch, Post, PoisonFails, Posted, Reschedule,
         Ack, Deliver, DeliverTask, DeliverAgain, SyncFails, RescheduleFails, AckLost, AddFails
    <3> QED
      BY <1>2, <3>1, <3>2
  <2>4. Fresh /\ Faultless /\ OneEach
    BY <1>1, <2>3 DEF SentInv, ApartInv, Faultless
  <2>5. CASE SplitKind
    BY <2>4, <2>5, SplitFresh
  <2>6. CASE ScheduleRange
    BY <2>1, <2>4, <2>6, ScheduleFresh
  <2>7. CASE KindReply \/ UNCHANGED vars
    <3>1. UNCHANGED <<keyRangesVars, next, table, queue, worker>>
      BY <2>7 DEF KindReply, vars, kindVars
    <3>2. \A t \in queue : Read(t) => Read(t)'
      BY <3>1 DEF Read
    <3> QED
      BY <2>4, <3>1, <3>2, QuietFresh
  <2>8. ASSUME NEW w \in Worker, SyncEntityHandler(w) \/ Deliver(w)
        PROVE  Fresh'
    <3>1. ~PoisonFails(w)
      BY <2>3 DEF PoisonFails
    <3> QED
      BY <2>1, <2>4, <2>8, <3>1, RejectFresh, FetchFresh, PostFresh, PostedFresh,
         RescheduleFresh, AckFresh, DeliverFresh
      DEF SyncEntityHandler
  <2> QED
    BY <2>2, <2>5, <2>6, <2>7, <2>8
    DEF Next, SyncKindHandler, ScheduleFails, AddFails, KindCrash, DeliverAgain, SyncFails,
        RescheduleFails, AckLost
<1> QED
  BY <1>1, <1>2 DEF SentInv

(* As long as nothing fails, BigQuery gets each entity once, but for the   *)
(* last of each full batch, with which the follow-up starts.               *)
THEOREM EachRowIsSentOnce == Spec => []RowsSentOnce
<1>1. Init => SentInv
  <2> SUFFICES ASSUME Init PROVE SentInv
    OBVIOUS
  <2>1. Fresh
    BY DEF Init, Idle, Fresh, Unsent, ToSend, UpToLast
  <2> QED
    BY <2>1, ApartInit DEF SentInv
<1>2. SentInv => RowsSentOnce
  BY DEF SentInv, Fresh, ToSend, RowsSentOnce
<1> QED
  BY <1>1, <1>2, SentStep, PTL DEF Spec

=============================================================================

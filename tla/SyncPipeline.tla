---------------------------- MODULE SyncPipeline ----------------------------
(***************************************************************************)
(* The synchronisation of a kind: SyncKindHandler splits it into ranges    *)
(* and queues one task for each, and the instances that serve the task     *)
(* queue run SyncEntityHandler, which syncs a batch of the range and       *)
(* queues the rest of it as a new task.                                    *)
(*                                                                         *)
(* The App Engine task queue keeps a task until a handler answers 2xx, may *)
(* deliver one again while it runs, and delivers in any order.  Requests   *)
(* die at any point; so do calls of the queue, of the datastore and of     *)
(* BigQuery.  Each of these events costs one of MaxFaults.                 *)
(***************************************************************************)
EXTENDS KeyRanges, KeyBatches

CONSTANTS
  Worker,      \* instances that run SyncEntityHandler
  Valid,       \* values of: project and dataset are given (the kind always is)
  Poisons,     \* values of poison
  MaxFaults    \* bound on failures and duplicate deliveries

ASSUME PipelineAssumption ==
  /\ Valid \subseteq BOOLEAN
  /\ Poisons \subseteq SUBSET Key
  /\ MaxFaults \in Nat

VARIABLES
  valid,       \* whether project and dataset are given
  poison,      \* keys whose entities BigQuery or the conversion always refuses
  next,        \* index in ranges of the next one to schedule
  accepted,    \* ranges for which SyncKindHandler saw taskqueue.Add succeed
  reply,       \* of SyncKindHandler: "none", "200", "400" or "lost"
  queue,       \* tasks that were added and not yet acknowledged
  nextId,      \* of the next task: taskqueue.Add names tasks apart
  worker,      \* what each instance does: see WorkerState
  table,       \* keys that have at least one row in BigQuery
  faults

kindVars == <<valid, poison, next, accepted, reply>>
vars == <<keyRangesVars, kindVars, queue, nextId, worker, table, faults>>

Task == [id : Nat, start : Key, end : Key \cup {Nil}]

Phase == {"fetch", "ingest", "resched", "ack"}

(* task is only meaningful when the instance is not idle, todo (entities   *)
(* read and not ingested) and last only after "fetch".                     *)
WorkerState ==
  [phase : {"idle"}] \cup
  [phase : Phase, task : Task, todo : SUBSET Key, last : Key \cup {Nil}]

Idle == [phase |-> "idle"]

TypeOK ==
  /\ KeyRangesTypeOK
  /\ valid \in BOOLEAN
  /\ poison \subseteq Key
  /\ next \in Nat \ {0}
  /\ accepted \subseteq KeyRange
  /\ reply \in {"none", "200", "400", "lost"}
  /\ queue \subseteq Task
  /\ nextId \in Nat
  /\ worker \in [Worker -> WorkerState]
  /\ table \subseteq Key
  /\ faults \in Nat

Init ==
  /\ KeyRangesInit
  /\ valid \in Valid
  /\ poison \in Poisons
  /\ next = 1
  /\ accepted = {}
  /\ reply = "none"
  /\ queue = {}
  /\ nextId = 0
  /\ worker = [w \in Worker |-> Idle]
  /\ table = {}
  /\ faults = 0

Fault == faults < MaxFaults /\ faults' = faults + 1

-----------------------------------------------------------------------------
(* scheduleRangeSync when taskqueue.Add succeeds. *)
AddTask(s, e) ==
  /\ queue' = queue \cup {[id |-> nextId, start |-> s, end |-> e]}
  /\ nextId' = nextId + 1

(* ... and when it returns an error, with or without adding the task. *)
AddFails(s, e) ==
  /\ Fault
  /\ \/ AddTask(s, e)
     \/ UNCHANGED <<queue, nextId>>

-----------------------------------------------------------------------------
(* SyncKindHandler.  A missing project or dataset is answered with 400,    *)
(* and the handler goes on all the same.                                   *)
SplitKind ==
  /\ reply = "none"
  /\ KeyRangesNext
  /\ UNCHANGED <<kindVars, queue, nextId, worker, table, faults>>

Scheduling == reply = "none" /\ scan = "done" /\ next <= Len(ranges)

ScheduleRange ==
  /\ Scheduling
  /\ AddTask(ranges[next].start, ranges[next].end)
  /\ accepted' = accepted \cup {ranges[next]}
  /\ next' = next + 1
  /\ UNCHANGED <<keyRangesVars, valid, poison, reply, worker, table, faults>>

(* The error of scheduleRangeSync is not looked at. *)
ScheduleFails ==
  /\ Scheduling
  /\ AddFails(ranges[next].start, ranges[next].end)
  /\ next' = next + 1
  /\ UNCHANGED <<keyRangesVars, valid, poison, accepted, reply, worker, table>>

KindReply ==
  /\ reply = "none"
  /\ scan = "done"
  /\ next > Len(ranges)
  /\ reply' = IF valid THEN "200" ELSE "400"
  /\ UNCHANGED <<keyRangesVars, valid, poison, next, accepted, queue, nextId, worker,
                 table, faults>>

KindCrash ==
  /\ reply = "none"
  /\ Fault
  /\ reply' = "lost"
  /\ UNCHANGED <<keyRangesVars, valid, poison, next, accepted, queue, nextId, worker,
                 table>>

SyncKindHandler == SplitKind \/ ScheduleRange \/ KindReply

-----------------------------------------------------------------------------
(* The task queue hands a task to an instance. *)
InHand(t) == \E w \in Worker : worker[w].phase # "idle" /\ worker[w].task = t

Take(w, t) ==
  worker' = [worker EXCEPT ![w] =
               [phase |-> "fetch", task |-> t, todo |-> {}, last |-> Nil]]

DeliverTask(w, t) ==
  /\ worker[w].phase = "idle"
  /\ ~InHand(t)
  /\ Take(w, t)
  /\ UNCHANGED <<keyRangesVars, kindVars, queue, nextId, table, faults>>

Deliver(w) == \E t \in queue : DeliverTask(w, t)

DeliverAgain(w) ==
  /\ worker[w].phase = "idle"
  /\ Fault
  /\ \E t \in queue : InHand(t) /\ Take(w, t)
  /\ UNCHANGED <<keyRangesVars, kindVars, queue, nextId, table>>

-----------------------------------------------------------------------------
(* SyncEntityHandler on instance w.  First the early return for a missing  *)
(* project or dataset: 400, and the queue keeps the task.                  *)
Release(w) == worker' = [worker EXCEPT ![w] = Idle]

Reject(w) ==
  /\ worker[w].phase = "fetch"
  /\ ~valid
  /\ Release(w)
  /\ UNCHANGED <<keyRangesVars, kindVars, queue, nextId, table, faults>>

(* SyncKeyRange, as RangeCall promises it: its last is the end of the      *)
(* range, or the last key of a full batch.                                 *)
StartPosting(w, R, l) ==
  worker' = [worker EXCEPT ![w].phase = "ingest", ![w].todo = R, ![w].last = l]

LastOf(R, l) == l \in R /\ \A r \in R : r <= l

(* Mutant: the end of the range is taken for reached when a batch is full. *)
FetchBatchAlwaysDone(w) ==
  /\ worker[w].phase = "fetch"
  /\ valid
  /\ LET t == worker[w].task
     IN \E R \in FullBatches(t.start, t.end) \cup FinalBatches(t.start, t.end) :
          StartPosting(w, R, t.end)
  /\ UNCHANGED <<keyRangesVars, kindVars, queue, nextId, table, faults>>

FetchBatch(w) ==
  /\ worker[w].phase = "fetch"
  /\ valid
  /\ LET t == worker[w].task
     IN \/ \E R \in FullBatches(t.start, t.end) : \E l \in R :
             LastOf(R, l) /\ StartPosting(w, R, l)
        \/ \E R \in FinalBatches(t.start, t.end) : StartPosting(w, R, t.end)
  /\ UNCHANGED <<keyRangesVars, kindVars, queue, nextId, table, faults>>

Post(w) ==
  /\ worker[w].phase = "ingest"
  /\ \E C \in SUBSET (worker[w].todo \ poison) :
       /\ C # {}
       /\ table' = table \cup C
       /\ worker' = [worker EXCEPT ![w].todo = @ \ C]
  /\ UNCHANGED <<keyRangesVars, kindVars, queue, nextId, faults>>

(* One such entity is enough to fail its chunk, and with it the call: 500, *)
(* at every delivery.                                                      *)
PoisonFails(w) ==
  /\ worker[w].phase = "ingest"
  /\ worker[w].todo \cap poison # {}
  /\ \E C \in SUBSET (worker[w].todo \ poison) : table' = table \cup C
  /\ Release(w)
  /\ UNCHANGED <<keyRangesVars, kindVars, queue, nextId, faults>>

(* Mutants: the rest of the chunks is left out; the follow-up is.          *)
PostedEarly(w) ==
  /\ worker[w].phase = "ingest"
  /\ worker' = [worker EXCEPT ![w].phase =
                  IF worker[w].last = worker[w].task.end THEN "ack" ELSE "resched"]
  /\ UNCHANGED <<keyRangesVars, kindVars, queue, nextId, table, faults>>

PostedAlwaysAcks(w) ==
  /\ worker[w].phase = "ingest"
  /\ worker[w].todo = {}
  /\ worker' = [worker EXCEPT ![w].phase = "ack"]
  /\ UNCHANGED <<keyRangesVars, kindVars, queue, nextId, table, faults>>

Posted(w) ==
  /\ worker[w].phase = "ingest"
  /\ worker[w].todo = {}
  /\ worker' = [worker EXCEPT ![w].phase =
                  IF worker[w].last = worker[w].task.end THEN "ack" ELSE "resched"]
  /\ UNCHANGED <<keyRangesVars, kindVars, queue, nextId, table, faults>>

(* Mutant: the error is logged and not answered.                           *)
SyncFailsAcked(w) ==
  /\ worker[w].phase \in {"fetch", "ingest"}
  /\ Fault
  /\ queue' = queue \ {worker[w].task}
  /\ Release(w)
  /\ UNCHANGED <<keyRangesVars, kindVars, nextId, table>>

(* An error inside SyncKeyRange, with some of its rows stored: 500.  A     *)
(* request that dies is the same with nothing stored at that moment.       *)
SyncFails(w) ==
  /\ worker[w].phase \in {"fetch", "ingest"}
  /\ Fault
  /\ \E C \in SUBSET (IF worker[w].phase = "ingest" THEN worker[w].todo
                      ELSE Selected(worker[w].task.start, worker[w].task.end)) :
       table' = table \cup (C \ poison)
  /\ Release(w)
  /\ UNCHANGED <<keyRangesVars, kindVars, queue, nextId>>

(* Mutants: the bounds are swapped; the range is rescheduled as it was.    *)
RescheduleSwapped(w) ==
  /\ worker[w].phase = "resched"
  /\ AddTask(worker[w].task.end, worker[w].last)
  /\ worker' = [worker EXCEPT ![w].phase = "ack"]
  /\ UNCHANGED <<keyRangesVars, kindVars, table, faults>>

RescheduleWhole(w) ==
  /\ worker[w].phase = "resched"
  /\ AddTask(worker[w].task.start, worker[w].task.end)
  /\ worker' = [worker EXCEPT ![w].phase = "ack"]
  /\ UNCHANGED <<keyRangesVars, kindVars, table, faults>>

(* Mutant: the follow-up is an open range.                                 *)
RescheduleOpen(w) ==
  /\ worker[w].phase = "resched"
  /\ AddTask(worker[w].last, Nil)
  /\ worker' = [worker EXCEPT ![w].phase = "ack"]
  /\ UNCHANGED <<keyRangesVars, kindVars, table, faults>>

Reschedule(w) ==
  /\ worker[w].phase = "resched"
  /\ AddTask(worker[w].last, worker[w].task.end)
  /\ worker' = [worker EXCEPT ![w].phase = "ack"]
  /\ UNCHANGED <<keyRangesVars, kindVars, table, faults>>

(* taskqueue.Add fails, or the request dies around it: 500. *)
RescheduleFails(w) ==
  /\ worker[w].phase = "resched"
  /\ AddFails(worker[w].last, worker[w].task.end)
  /\ Release(w)
  /\ UNCHANGED <<keyRangesVars, kindVars, table>>

(* Mutant: a finished range is not answered with 2xx.                      *)
AckForgotten(w) ==
  /\ worker[w].phase = "ack"
  /\ Release(w)
  /\ UNCHANGED <<keyRangesVars, kindVars, queue, nextId, table, faults>>

(* The 200 reaches the task queue, and it forgets the task. *)
Ack(w) ==
  /\ worker[w].phase = "ack"
  /\ queue' = queue \ {worker[w].task}
  /\ Release(w)
  /\ UNCHANGED <<keyRangesVars, kindVars, nextId, table, faults>>

AckLost(w) ==
  /\ worker[w].phase = "ack"
  /\ Fault
  /\ Release(w)
  /\ UNCHANGED <<keyRangesVars, kindVars, queue, nextId, table>>

SyncEntityHandler(w) ==
  \/ Reject(w) \/ FetchBatch(w) \/ Post(w) \/ PoisonFails(w) \/ Posted(w)
  \/ Reschedule(w) \/ Ack(w)

Next ==
  \/ SyncKindHandler
  \/ ScheduleFails
  \/ KindCrash
  \/ \E w \in Worker :
       \/ SyncEntityHandler(w)
       \/ Deliver(w)
       \/ DeliverAgain(w)
       \/ SyncFails(w)
       \/ RescheduleFails(w)
       \/ AckLost(w)

(* A handler that started runs on, and the queue delivers while it has     *)
(* tasks; nothing is owed by the failures.  The queue waits longer after   *)
(* each failure of a task: tasks that always fail do not keep it from the  *)
(* others.                                                                 *)
Healthy(r) == \A p \in poison : ~Covers(r, p)

DeliverHealthy == \E w \in Worker : \E t \in queue : Healthy(t) /\ DeliverTask(w, t)

Fairness ==
  /\ WF_vars(SyncKindHandler)
  /\ \A w \in Worker : WF_vars(SyncEntityHandler(w)) /\ WF_vars(Deliver(w))
  /\ SF_vars(DeliverHealthy)

Spec == Init /\ [][Next]_vars /\ Fairness

-----------------------------------------------------------------------------
Safe(k) == k \in table \/ \E t \in queue : Selects(t.start, t.end, k)

(* Every entity of a range that the queue accepted is in BigQuery, or in   *)
(* the range of a task that is still queued: no failure, retry, duplicate  *)
(* or lost answer drops it between a batch and the next.                   *)
NoEntityLost ==
  \A r \in accepted : \A k \in Resident : Covers(r, k) => Safe(k)

(* When SyncKindHandler answered, every range was accepted and no task is  *)
(* left, the whole kind is in BigQuery.                                    *)
AllAccepted == \A n \in 1..Len(ranges) : ranges[n] \in accepted

DrainedMeansSynced ==
  /\ reply = "200" /\ ranges # <<>> /\ AllAccepted /\ queue = {}
  => Resident \subseteq table

(* A task that SyncEntityHandler adds is a strictly shorter piece, with    *)
(* the same end, of the task it runs.                                      *)
NewTasks == queue' \ queue
FollowUpsShrink ==
  [][\A w \in Worker : worker[w].phase = "resched" /\ worker'[w] # worker[w] =>
       \A t \in NewTasks : /\ t.end = worker[w].task.end
                           /\ worker[w].task.start < t.start]_vars

(* Unless something fails or a task is delivered twice, no two instances   *)
(* are sending the same entity at one moment: the ranges are disjoint, and *)
(* a follow-up, which may run beside the task that added it, repeats only  *)
(* what that one has posted.  A one-entity range and the range behind it,  *)
(* which starts at its entity, are the exception.                          *)
AtWork(w) == worker[w].phase \in {"fetch", "ingest"}

Apart(a, b) == \A k \in Key : Covers(a, k) /\ Covers(b, k) => k = a.start /\ k = b.start

NoDoubleWork ==
  faults = 0 =>
    \A v, w \in Worker : v # w /\ AtWork(v) /\ AtWork(w) => Apart(worker[v].task, worker[w].task)

(* The insert ids carry the time, so that BigQuery cannot tell a row that  *)
(* is sent again.  Unless something fails, only the entity at the start of *)
(* a task is: a follow-up repeats the last one of the batch before it.     *)
RowsSentOnce ==
  faults = 0 /\ poison = {} =>
    \A w \in Worker : worker[w].phase = "ingest" =>
      worker[w].todo \cap table \subseteq {worker[w].task.start}

(* With project and dataset, and without an entity that always fails, the  *)
(* tasks come to an end: failures stop, and the ranges shrink.             *)
QueueDrains == valid /\ poison = {} ~> [](queue = {})

(* Each entity of an accepted range reaches BigQuery, unless one that      *)
(* always fails is in the same range: that one holds up no other range.    *)
HealthyRangesGetSynced ==
  \A k \in Resident :
    valid /\ (\E r \in accepted : Covers(r, k) /\ Healthy(r)) ~> k \in table

(* The pipeline implements AtLeastOnceSync. *)
Wanted == {k \in Resident : \E r \in accepted : Covers(r, k)}

AtLeastOnce == INSTANCE AtLeastOnceSync WITH
  Entity <- Key, wanted <- Wanted, busy <- queue # {}

ImplementsAtLeastOnce == AtLeastOnce!SyncSpec

=============================================================================

------------------------- MODULE SyncKeyRangeProofs -------------------------
(***************************************************************************)
(* Proofs about one call of SyncKeyRange, for any kind, any batch size     *)
(* above one, any chunk size and any number of tolerated errors.           *)
(***************************************************************************)
EXTENDS SyncKeyRange, FiniteSetTheorems, SequenceTheorems, TLAPS

(* The number of errors is bounded by where the call is: the loop over the *)
(* query stops once there are too many, and each of its ends and the loop  *)
(* over the chunks add one at most.                                        *)
ErrorBound ==
  /\ pc = "next" => errs <= MaxErrors
  /\ pc = "ingest" => errs <= MaxErrors + 1

(* Where the call is, by its local variables.                              *)
Stage ==
  /\ pc = "next" => i = 0 /\ Len(buff) < BatchSize /\ done = FALSE
  /\ pc = "return" => errs > 0
  /\ pc \in {"ingest", "return"} => start # Nil
  /\ start = Nil => Len(buff) = 0 /\ errs = 0 /\ last = Nil
  /\ reply # "none" => pc = "returned"
  /\ reply = "ok" => errs = 0 /\ start # Nil /\ Len(buff) <= i

Typed == TypeOK /\ ErrorBound /\ Stage

(* While no error is counted, the cursor stands at the last entity that    *)
(* was read, so that a restart goes on exactly behind it.                  *)
AtLastRead(p) == IF buff = <<>> THEN p = Nil ELSE p = buff[Len(buff)]

Ordered == \A m, n \in 1..Len(buff) : m < n => buff[m] < buff[n]

InRange == \A n \in 1..Len(buff) : buff[n] \in Selected(start, end)

Counted == IsFiniteSet(Buffered) /\ Cardinality(Buffered) = Len(buff)

NonePassed == \A k \in Resident \cap Selected(start, end) :
                k \in Buffered \/ k \in After(start, end, pos)

(* What the call has read when no error was counted.                       *)
CleanRead ==
  start # Nil /\ errs = 0 =>
    /\ AtLastRead(pos) /\ AtLastRead(cur)
    /\ reply = "none" => AtLastRead(last)
    /\ Ordered /\ Counted /\ NonePassed
    /\ done => Resident \cap Selected(start, end) \subseteq Buffered
    /\ pc = "ingest" /\ ~done => Len(buff) = BatchSize
    /\ reply = "ok" /\ ~done => Len(buff) = BatchSize /\ last = buff[Len(buff)]
    /\ reply = "ok" /\ done => last = end

(* The chunks that the loop has passed are ingested.                       *)
Ingested == \A n \in 1..Len(buff) : n <= i => buff[n] \in table

CallInv == Typed /\ InRange /\ CleanRead /\ Ingested

-----------------------------------------------------------------------------
LEMMA TypedInit == Init => Typed
<1> SUFFICES ASSUME Init PROVE Typed
  OBVIOUS
<1>1. buff \in Seq(Key) /\ Len(buff) = 0
  BY DEF Init
<1>2. TypeOK
  <2>1. {start, end, pos, cur, last} \subseteq Key \cup {Nil}
    BY DEF Init
  <2>2. errs \in 0..(MaxErrors + 2) /\ Len(buff) <= BatchSize
    BY <1>1, BatchAssumption, CallAssumption DEF Init
  <2> QED
    BY <1>1, <2>1, <2>2 DEF Init, TypeOK
<1> QED
  BY <1>1, <1>2, BatchAssumption, CallAssumption DEF Init, Typed, ErrorBound, Stage

(* What one more entity does to the buffer. *)
LEMMA BuffGrows ==
  ASSUME TypeOK, NEW k \in Key, buff' = Append(buff, k)
  PROVE  /\ buff' \in Seq(Key) /\ Len(buff') = Len(buff) + 1
         /\ \A n \in 1..Len(buff) : buff'[n] = buff[n]
         /\ buff'[Len(buff')] = k
         /\ Buffered' = Buffered \cup {k}
<1>1. buff \in Seq(Key) /\ Len(buff) \in Nat
  BY LenProperties DEF TypeOK
<1>2. /\ buff' \in Seq(Key) /\ Len(buff') = Len(buff) + 1
      /\ \A n \in 1..Len(buff) : buff'[n] = buff[n]
      /\ buff'[Len(buff) + 1] = k
  BY <1>1, AppendProperties
<1>3. 1..Len(buff') = 1..Len(buff) \cup {Len(buff')}
  BY <1>1, <1>2
<1> QED
  BY <1>2, <1>3 DEF Buffered

LEMMA TypedStep == Typed /\ [Next]_vars => Typed'
<1> SUFFICES ASSUME Typed, [Next]_vars PROVE Typed'
  OBVIOUS
<1>0. Len(buff) \in Nat /\ BatchSize \in Nat /\ MaxErrors \in Nat /\ ChunkSize \in Nat
  BY LenProperties, BatchAssumption, CallAssumption DEF Typed, TypeOK
<1> USE DEF Typed, ErrorBound, Stage
<1>1. CASE RejectNilStart
  BY <1>0, <1>1 DEF RejectNilStart, TypeOK
<1>2. CASE NextEntity
  <2>1. PICK k \in Key : TakeEntity(k) /\ TakeCursor(k) /\ StopReading
    BY <1>2 DEF NextEntity
  <2>2. buff' \in Seq(Key) /\ Len(buff') = Len(buff) + 1
    BY <2>1, BuffGrows DEF TakeEntity
  <2>3. UNCHANGED <<start, end, i, reply, table>> /\ pc = "next" /\ start # Nil
    BY <1>2 DEF NextEntity, Reading
  <2>4. errs' \in {errs, errs + 1} /\ cur' \in {k, Nil} /\ pos' = k /\ last' = k
    BY <2>1 DEF TakeEntity, TakeCursor
  <2>5. TypeOK'
    <3>1. {start, end, pos, cur, last}' \subseteq Key \cup {Nil}
      BY <2>3, <2>4 DEF TypeOK
    <3>2. Len(buff') <= BatchSize
      BY <1>0, <2>2, <2>3
    <3>3. errs' \in 0..(MaxErrors + 2)
      BY <1>0, <2>3, <2>4 DEF TypeOK
    <3> QED
      BY <2>1, <2>2, <2>3, <3>1, <3>2, <3>3 DEF TypeOK, StopReading
  <2> QED
    BY <1>0, <2>1, <2>2, <2>3, <2>4, <2>5 DEF TypeOK, StopReading
<1>3. CASE NextDone
  BY <1>0, <1>3 DEF NextDone, Reading, TypeOK
<1>4. CASE NextTimeout
  BY <1>0, <1>4 DEF NextTimeout, Reading, TypeOK
<1>5. CASE NextError
  BY <1>0, <1>5 DEF NextError, Reading, TypeOK
<1>6. Chunk \subseteq Key
  BY LenProperties DEF Chunk, TypeOK
<1>7. CASE IngestChunk
  BY <1>0, <1>6, <1>7 DEF IngestChunk, TypeOK
<1>8. CASE IngestError
  BY <1>0, <1>6, <1>8 DEF IngestError, TypeOK
<1>9. CASE Return
  <2>1. last' \in Key \cup {Nil}
    BY <1>9 DEF Return, TypeOK
  <2> QED
    BY <1>0, <1>9, <2>1 DEF Return, TypeOK
<1>10. CASE UNCHANGED vars
  BY <1>10 DEF vars, TypeOK
<1> QED
  BY <1>1, <1>2, <1>3, <1>4, <1>5, <1>7, <1>8, <1>9, <1>10 DEF Next, Advance

(* The local variables of a call stay in their ranges: in particular the   *)
(* buffer never outgrows a batch, and errors stop the call before their    *)
(* number passes MaxErrors by more than two.                               *)
THEOREM CallTypeCorrect == Spec => []TypeOK
<1>1. Typed => TypeOK
  BY DEF Typed
<1> QED
  BY <1>1, TypedInit, TypedStep, PTL DEF Spec

-----------------------------------------------------------------------------
LEMMA CallInvInit == Init => CallInv
<1> SUFFICES ASSUME Init PROVE CallInv
  OBVIOUS
<1>1. Buffered = {}
  BY DEF Init, Buffered
<1>2. Counted
  BY <1>1, FS_EmptySet DEF Counted, Init
<1>3. NonePassed
  BY DEF NonePassed, After, Init
<1>4. Ordered /\ InRange /\ Ingested
  BY DEF Ordered, InRange, Ingested, Init
<1> QED
  BY <1>2, <1>3, <1>4, TypedInit DEF CallInv, CleanRead, AtLastRead, Init

(* A step that reads an entity.  The key that Readable picks is the next   *)
(* one: behind all that is in the buffer, and behind no resident entity    *)
(* that is not.                                                            *)
LEMMA EntityStep ==
  ASSUME CallInv, Typed', NextEntity
  PROVE  CleanRead' /\ Ingested' /\ InRange'
<1>0. Len(buff) \in Nat /\ errs \in Nat /\ MaxErrors \in Nat /\ BatchSize \in Nat \ {0}
  BY LenProperties, CallAssumption, BatchAssumption DEF CallInv, Typed, TypeOK
<1>1. PICK k \in Key : Readable(k) /\ TakeEntity(k) /\ TakeCursor(k) /\ StopReading
  BY DEF NextEntity
<1>2. /\ buff' \in Seq(Key) /\ Len(buff') = Len(buff) + 1
      /\ \A n \in 1..Len(buff) : buff'[n] = buff[n]
      /\ buff'[Len(buff')] = k
      /\ Buffered' = Buffered \cup {k}
  BY <1>1, BuffGrows DEF CallInv, Typed, TakeEntity
<1>3. /\ UNCHANGED <<start, end, i, reply, table>>
      /\ pc = "next" /\ i = 0 /\ done = FALSE /\ reply = "none"
  BY DEF CallInv, Typed, TypeOK, Stage, NextEntity, Reading
<1>4. Ingested'
  BY <1>3 DEF Ingested
<1>4a. InRange'
  <2>1. k \in Selected(start, end)
    BY <1>1 DEF Readable, After
  <2> QED
    BY <1>0, <1>2, <1>3, <2>1 DEF CallInv, InRange
<1>5. ASSUME start' # Nil, errs' = 0
      PROVE  CleanRead'
  <2>1. errs = 0 /\ start # Nil /\ cur' = k /\ pos' = k /\ last' = k
    BY <1>0, <1>1, <1>3, <1>5 DEF TakeCursor, TakeEntity
  <2>2. /\ AtLastRead(pos) /\ Ordered /\ Counted /\ NonePassed
    BY <2>1 DEF CallInv, CleanRead
  <2>3. k \in Selected(start, end) /\ (pos = Nil \/ pos < k)
    BY <1>1 DEF Readable, After
  <2>4. \A n \in 1..Len(buff) : buff[n] \in Key /\ buff[n] < k
    <3> SUFFICES ASSUME NEW n \in 1..Len(buff) PROVE buff[n] \in Key /\ buff[n] < k
      OBVIOUS
    <3>1. buff # <<>> /\ buff[Len(buff)] \in Key /\ buff[n] \in Key
      BY <1>0, LenProperties DEF CallInv, Typed, TypeOK
    <3>2. pos = buff[Len(buff)] /\ pos < k
      BY <2>2, <2>3, <3>1, KeyAssumption DEF AtLastRead
    <3>3. n = Len(buff) \/ buff[n] < buff[Len(buff)]
      BY <1>0, <2>2 DEF Ordered
    <3>4. buff[n] \in Int /\ buff[Len(buff)] \in Int /\ k \in Int
      BY <3>1, KeyAssumption
    <3> QED
      BY <3>1, <3>2, <3>3, <3>4
  <2>5. Ordered'
    BY <1>0, <1>2, <2>2, <2>4 DEF Ordered
  <2>6. Counted'
    <3>1. k \notin Buffered
      BY <2>4, KeyAssumption DEF Buffered
    <3> QED
      BY <1>2, <2>2, <3>1, FS_AddElement DEF Counted
  <2>7. NonePassed'
    <3> SUFFICES ASSUME NEW r \in Resident \cap Selected(start, end)
                 PROVE  r \in Buffered' \/ r \in After(start, end, k)
      BY <1>3, <2>1 DEF NonePassed
    <3>1. CASE r \in Buffered
      BY <1>2, <3>1
    <3>2. CASE r \in After(start, end, pos)
      <4>1. k <= r /\ r \in Int /\ k \in Int
        BY <1>1, <3>2, KeyAssumption DEF Readable
      <4> QED
        BY <1>2, <4>1 DEF After
    <3> QED
      BY <2>2, <3>1, <3>2 DEF NonePassed
  <2>8. buff' # <<>>
    BY <1>0, <1>2
  <2>9. AtLastRead(pos)' /\ AtLastRead(cur)' /\ AtLastRead(last)'
    BY <1>2, <2>1, <2>8 DEF AtLastRead
  <2>10. done' = FALSE /\ (pc' = "ingest" => Len(buff') = BatchSize)
    BY <1>0, <1>1, <1>3, <1>5 DEF StopReading
  <2>11. reply' # "ok"
    BY <1>3
  <2> QED
    BY <2>5, <2>6, <2>7, <2>9, <2>10, <2>11 DEF CleanRead
<1> QED
  BY <1>4, <1>4a, <1>5 DEF CleanRead

LEMMA CallInvStep == CallInv /\ [Next]_vars => CallInv'
<1> SUFFICES ASSUME CallInv, [Next]_vars PROVE CallInv'
  OBVIOUS
<1>0. /\ Typed' /\ Len(buff) \in Nat /\ errs \in Nat /\ i \in Nat
      /\ BatchSize \in Nat \ {0, 1} /\ ChunkSize \in Nat \ {0}
  BY TypedStep, LenProperties, BatchAssumption, CallAssumption
  DEF CallInv, Typed, TypeOK
<1>0a. InRange'
  <2>1. CASE NextEntity
    BY <1>0, <2>1, EntityStep
  <2>2. CASE ~NextEntity
    <3>1. UNCHANGED <<start, end, buff>>
      BY <2>2
      DEF Next, Advance, RejectNilStart, NextDone, NextTimeout, NextError,
          IngestChunk, IngestError, Return, vars
    <3> QED
      BY <3>1 DEF CallInv, InRange
  <2> QED
    BY <2>1, <2>2
<1> SUFFICES CleanRead' /\ Ingested'
  BY <1>0, <1>0a DEF CallInv
<1> USE DEF CallInv, Typed
(* Steps that read nothing, with the same table. *)
<1>1. ASSUME UNCHANGED <<start, end, buff, i, table>>
      PROVE  Ingested' /\ (Ordered' <=> Ordered) /\ (Counted' <=> Counted)
             /\ Buffered' = Buffered
  BY <1>1 DEF Ingested, Ordered, Counted, Buffered
<1>2. CASE RejectNilStart
  BY <1>1, <1>2 DEF RejectNilStart, CleanRead
<1>3. CASE NextEntity
  BY <1>0, <1>3, EntityStep
<1>4. CASE NextDone
  <2>1. start # Nil /\ reply = "none" /\ Resident \cap After(start, end, pos) = {}
    BY <1>4 DEF NextDone, Reading, Stage, TypeOK
  <2>2. NonePassed => NonePassed' /\ Resident \cap Selected(start, end) \subseteq Buffered
    BY <1>1, <1>4, <2>1 DEF NonePassed, NextDone
  <2> QED
    BY <1>1, <1>4, <2>1, <2>2 DEF NextDone, CleanRead, AtLastRead
<1>5. CASE NextTimeout
  <2>1. AtLastRead(pos) /\ AtLastRead(cur) => pos' = pos
    BY <1>5 DEF AtLastRead, NextTimeout
  <2> QED
    BY <1>1, <1>5, <2>1 DEF NextTimeout, CleanRead, AtLastRead, NonePassed, Reading, Stage
<1>6. CASE NextError
  BY <1>0, <1>1, <1>6 DEF NextError, CleanRead
<1>7. CASE IngestChunk
  <2>1. Ingested'
    BY <1>0, <1>7 DEF Ingested, IngestChunk, Chunk
  <2>2. CleanRead'
    BY <1>7
    DEF IngestChunk, CleanRead, AtLastRead, Ordered, Counted, NonePassed,
        Buffered, Stage
  <2> QED
    BY <2>1, <2>2
<1>8. CASE IngestError
  <2>1. Ingested'
    BY <1>8 DEF Ingested, IngestError
  <2> QED
    BY <1>0, <1>8, <2>1 DEF IngestError, CleanRead
<1>9. CASE Return
  <2>1. reply = "none" /\ start # Nil
    BY <1>9 DEF Return, Stage
  <2>2. Ingested' /\ (Ordered' <=> Ordered) /\ (Counted' <=> Counted)
        /\ Buffered' = Buffered
    BY <1>1, <1>9 DEF Return
  <2>3. UNCHANGED <<start, end, pos, cur, buff, done, i, errs, table>>
        /\ pc' = "returned" /\ reply' # "none"
    BY <1>9 DEF Return
  <2>4. ASSUME errs = 0
        PROVE  /\ ~done => Len(buff) = BatchSize /\ last' = buff[Len(buff)]
               /\ done => last' = end
    <3>1. pc = "ingest" /\ AtLastRead(last)
      BY <1>9, <2>1, <2>4 DEF Return, Stage, CleanRead
    <3>2. ~done => Len(buff) = BatchSize
      BY <2>1, <2>4, <3>1 DEF CleanRead
    <3>3. ~done => buff # <<>>
      BY <1>0, <3>2
    <3> QED
      BY <1>9, <3>1, <3>2, <3>3 DEF Return, AtLastRead
  <2> QED
    BY <2>1, <2>2, <2>3, <2>4 DEF CleanRead, AtLastRead, NonePassed
<1>10. CASE UNCHANGED vars
  BY <1>10
  DEF vars, CleanRead, Ingested, AtLastRead, Ordered, Counted, NonePassed,
      Buffered
<1> QED
  BY <1>2, <1>3, <1>4, <1>5, <1>6, <1>7, <1>8, <1>9, <1>10 DEF Next, Advance

LEMMA CallInvHolds == Spec => []CallInv
  BY CallInvInit, CallInvStep, PTL DEF Spec

(* The keys of a full clean batch: the last one is behind the first, and   *)
(* so it is not the end of the range.                                      *)
LEMMA FullBatchEnds ==
  ASSUME CallInv, start # Nil, errs = 0, Len(buff) = BatchSize
  PROVE  /\ buff[Len(buff)] \in Selected(start, end)
         /\ start < buff[Len(buff)]
         /\ buff[Len(buff)] # end
<1> DEFINE first == buff[1]
           final == buff[Len(buff)]
<1>1. 1 \in 1..Len(buff) /\ Len(buff) \in 1..Len(buff) /\ 1 < Len(buff)
  BY BatchAssumption
<1>2. first < final /\ first \in Selected(start, end) /\ final \in Selected(start, end)
  BY <1>1 DEF CallInv, CleanRead, Ordered, InRange
<1>3. start \in Key /\ end \in Key \cup {Nil}
  BY DEF CallInv, Typed, TypeOK
<1>4. first \in Int /\ final \in Int /\ start \in Int
  BY <1>2, <1>3, KeyAssumption DEF Selected
<1>5. start # end
  BY <1>2, <1>4 DEF Selected, Selects
<1> QED
  BY <1>2, <1>3, <1>4, <1>5, KeyAssumption DEF Selected, Selects

(* An answer without error tells the truth about the table: up to the key  *)
(* it carries, and to the end of the range when it carries that, every     *)
(* resident entity was read, in spite of the restarts, and ingested.       *)
THEOREM AnswerIsTrue == Spec => []OkMeansIngested
<1>1. CallInv => OkMeansIngested
  <2> SUFFICES ASSUME CallInv, reply = "ok",
                      NEW k \in Resident \cap Selected(start, end),
                      last = end \/ k <= last
               PROVE  k \in table
    BY DEF OkMeansIngested
  <2>1. start # Nil /\ errs = 0 /\ Len(buff) <= i /\ Len(buff) \in Nat /\ i \in Nat
    BY LenProperties DEF CallInv, Typed, TypeOK, Stage
  <2>2. Buffered \subseteq table
    BY <2>1 DEF CallInv, Ingested, Buffered
  <2>3. CASE done
    BY <2>1, <2>2, <2>3 DEF CallInv, CleanRead
  <2>4. CASE ~done
    <3>1. Len(buff) = BatchSize /\ last = buff[Len(buff)] /\ AtLastRead(pos) /\ NonePassed
      BY <2>1, <2>4 DEF CallInv, CleanRead
    <3>2. last # end /\ last \in Selected(start, end) /\ buff # <<>>
      BY <2>1, <3>1, FullBatchEnds, BatchAssumption
    <3>3. pos = last /\ k <= last /\ k \in Int /\ last \in Int /\ last # Nil
      BY <3>1, <3>2, KeyAssumption DEF AtLastRead, Selected
    <3>4. k \in Buffered
      BY <3>1, <3>3 DEF NonePassed, After
    <3> QED
      BY <2>2, <3>4
  <2> QED
    BY <2>3, <2>4
<1> QED
  BY <1>1, CallInvHolds, PTL

(* The key that an unfinished call answers with lies in its range, behind  *)
(* its start: the range that is left is strictly shorter.                  *)
THEOREM AnswerMovesOn == Spec => []FollowUpIsShorter
<1>1. CallInv => FollowUpIsShorter
  <2> SUFFICES ASSUME CallInv, reply = "ok", last # end
               PROVE  last \in Selected(start, end) /\ start < last
    BY DEF FollowUpIsShorter
  <2>1. start # Nil /\ errs = 0
    BY DEF CallInv, Typed, Stage
  <2>2. ~done /\ Len(buff) = BatchSize /\ last = buff[Len(buff)]
    BY <2>1 DEF CallInv, Typed, TypeOK, CleanRead
  <2> QED
    BY <2>1, <2>2, FullBatchEnds
<1> QED
  BY <1>1, CallInvHolds, PTL

(* However often the datastore times out, the restarts from the cursor     *)
(* neither repeat nor reorder an entity of a call without errors.          *)
THEOREM RestartsRepeatNothing == Spec => []NoRepeats
<1>1. CallInv => NoRepeats
  BY DEF CallInv, Typed, Stage, CleanRead, Ordered, NoRepeats
<1> QED
  BY <1>1, CallInvHolds, PTL

-----------------------------------------------------------------------------
(* The steps of the call, as RangeCall sees them: one Fetch at the end of  *)
(* the loop over the query, a Post for each chunk, and Fail for the first  *)
(* error and for each chunk after it.                                      *)
LEMMA SameRanges ==
  ASSUME NEW s, NEW e
  PROVE  /\ Promise!Selected(s, e) = Selected(s, e)
         /\ Promise!FullBatches(s, e) = FullBatches(s, e)
         /\ Promise!FinalBatches(s, e) = FinalBatches(s, e)
<1>1. Promise!Selected(s, e) = Selected(s, e)
  BY DEF Promise!Selected, Promise!Selects, Selected, Selects
<1>2. \A S : Promise!Cardinality(S) = Cardinality(S)
  BY Zenon
  DEF Promise!Cardinality, Cardinality, Promise!IsFiniteSet, IsFiniteSet
<1> QED
  BY <1>1, <1>2
  DEF Promise!FullBatches, Promise!FinalBatches, FullBatches, FinalBatches

LEMMA FailMap ==
  ASSUME pc # "returned", pc' # "returned", start # Nil, errs' # 0, Doomed',
         UNCHANGED <<start, end, reply>>,
         NEW C \in SUBSET Selected(start, end), table' = table \cup C
  PROVE  Promise!Fail
<1>1. AbstractPhase \in {"fetch", "post", "failed"} /\ AbstractPhase' = "failed"
  BY DEF AbstractPhase
<1>2. AbstractTodo' = {} /\ AbstractLast' = Nil
  BY DEF AbstractTodo, AbstractLast
<1> QED
  BY <1>1, <1>2, SameRanges DEF Promise!Fail

(* A first error while reading, or a further one.                          *)
LEMMA ReadErrorMap ==
  ASSUME start # Nil, pc = "next", pc' \in {"next", "ingest"}, errs' \in Nat \ {0},
         UNCHANGED <<start, end, reply, table>>
  PROVE  Promise!Fail
<1>1. Doomed'
  BY DEF Doomed
<1>2. {} \in SUBSET Selected(start, end) /\ table' = table \cup {}
  OBVIOUS
<1> QED
  BY <1>1, <1>2, FailMap

LEMMA EntityMap ==
  ASSUME CallInv, CallInv', NextEntity
  PROVE  [Promise!CallNext]_(Promise!callVars)
<1>0. errs \in Nat /\ errs' \in Nat /\ i \in Nat /\ Len(buff') \in Nat
  BY LenProperties DEF CallInv, Typed, TypeOK
<1>1. /\ UNCHANGED <<start, end, i, reply, table>>
      /\ pc = "next" /\ i = 0 /\ done = FALSE /\ start # Nil
      /\ pc' \in {"next", "ingest"}
  BY DEF NextEntity, StopReading, Reading, CallInv, Typed, Stage
<1>2. errs' \in {errs, errs + 1}
  BY DEF NextEntity, TakeCursor
<1>3. CASE errs' # 0
  BY <1>0, <1>1, <1>3, ReadErrorMap DEF Promise!CallNext
<1>4. CASE errs' = 0 /\ pc' = "next"
  <2>1. ~Doomed /\ ~Doomed'
    BY <1>0, <1>2, <1>4 DEF Doomed
  <2> QED
    BY <1>1, <1>4, <2>1
    DEF Promise!callVars, AbstractPhase, AbstractTodo, AbstractLast
<1>5. CASE errs' = 0 /\ pc' = "ingest"
  <2>1. ~Doomed /\ ~Doomed'
    BY <1>0, <1>2, <1>5 DEF Doomed
  <2>2. done' = FALSE
    BY <1>1, <1>5, CallAssumption DEF NextEntity, StopReading
  <2>3. /\ Len(buff') = BatchSize /\ buff' # <<>> /\ last' = buff'[Len(buff')]
        /\ Ordered' /\ InRange' /\ Counted' /\ NonePassed' /\ pos' = last'
    <3>1. Len(buff') = BatchSize
      BY <1>1, <1>5, <2>2 DEF CallInv, CleanRead
    <3>2. buff' # <<>>
      BY <3>1, BatchAssumption
    <3>3. reply' = "none"
      BY <1>1 DEF CallInv, Typed, TypeOK, Stage
    <3> QED
      BY <1>1, <1>5, <3>1, <3>2, <3>3 DEF CallInv, CleanRead, AtLastRead
  <2>4. Rest' = Buffered'
    BY <1>0, <1>1 DEF Rest, Buffered
  <2>5. AbstractPhase = "fetch" /\ AbstractPhase' = "post"
    BY <1>1, <1>5, <2>1 DEF AbstractPhase
  <2>6. last' \in Buffered' /\ \A r \in Buffered' : r <= last'
    <3>1. Len(buff') \in 1..Len(buff')
      BY <1>0, <2>3, BatchAssumption
    <3>2. \A n \in 1..Len(buff') : buff'[n] \in Int /\ buff'[n] <= buff'[Len(buff')]
      <4> SUFFICES ASSUME NEW n \in 1..Len(buff')
                   PROVE  buff'[n] \in Int /\ buff'[n] <= buff'[Len(buff')]
        OBVIOUS
      <4>1. buff'[n] \in Int /\ buff'[Len(buff')] \in Int
        BY <2>3, <3>1, KeyAssumption DEF InRange, Selected
      <4>2. n = Len(buff') \/ buff'[n] < buff'[Len(buff')]
        BY <1>0, <2>3, <3>1 DEF Ordered
      <4> QED
        BY <4>1, <4>2
    <3> QED
      BY <2>3, <3>1, <3>2 DEF Buffered
  <2>7. Buffered' \in FullBatches(start, end)
    <3>1. Buffered' \subseteq Selected(start, end) /\ Cardinality(Buffered') = BatchSize
      BY <1>1, <2>3 DEF InRange, Buffered, Counted
    <3>2. ASSUME NEW k \in Resident \cap Selected(start, end), k \notin Buffered'
          PROVE  \A r \in Buffered' : r < k
      <4>1. last' < k
        <5>1. k \in After(start, end, last')
          BY <1>1, <2>3, <3>2 DEF NonePassed
        <5>2. last' # Nil
          BY <2>6, <3>1, KeyAssumption DEF Selected
        <5> QED
          BY <5>1, <5>2 DEF After
      <4>2. k \in Int /\ \A r \in Buffered' : r \in Int
        BY <3>1, KeyAssumption DEF Selected
      <4> QED
        BY <2>6, <4>1, <4>2
    <3> QED
      BY <3>1, <3>2 DEF FullBatches
  <2>8. AbstractTodo' = Buffered' /\ AbstractLast' = last'
    BY <1>5, <2>1, <2>2, <2>4 DEF AbstractTodo, AbstractLast
  <2>9. Promise!Fetch
    BY <1>1, <2>5, <2>6, <2>7, <2>8, SameRanges
    DEF Promise!Fetch
  <2> QED
    BY <2>9 DEF Promise!CallNext
<1> QED
  BY <1>1, <1>3, <1>4, <1>5

LEMMA DoneMap ==
  ASSUME CallInv, CallInv', NextDone, errs = 0
  PROVE  Promise!Fetch
<1>1. /\ UNCHANGED <<start, end, buff, i, errs, reply, table>>
      /\ pc = "next" /\ pc' = "ingest" /\ i = 0 /\ done' = TRUE /\ start # Nil
      /\ Len(buff) < BatchSize /\ Len(buff) \in Nat
  BY LenProperties DEF NextDone, Reading, CallInv, Typed, TypeOK, Stage
<1>2. ~Doomed /\ ~Doomed'
  BY <1>1 DEF Doomed
<1>3. AbstractPhase = "fetch" /\ AbstractPhase' = "post"
  BY <1>1, <1>2 DEF AbstractPhase
<1>4. Rest' = Buffered
  BY <1>1 DEF Rest, Buffered
<1>5. AbstractTodo' = Buffered /\ AbstractLast' = end
  BY <1>1, <1>2, <1>4 DEF AbstractTodo, AbstractLast
<1>6. /\ InRange /\ Counted
      /\ Resident \cap Selected(start, end) \subseteq Buffered
  BY <1>1 DEF CallInv, CleanRead, Buffered
<1>7. Buffered \in FinalBatches(start, end)
  BY <1>1, <1>6 DEF FinalBatches, InRange, Counted, Buffered
<1> QED
  BY <1>1, <1>3, <1>5, <1>7, SameRanges DEF Promise!Fetch

LEMMA ChunkInRange ==
  ASSUME CallInv
  PROVE  Chunk \subseteq Selected(start, end)
  BY DEF Chunk, CallInv, InRange

LEMMA ChunkMap ==
  ASSUME CallInv, CallInv', IngestChunk
  PROVE  Promise!Post \/ Promise!Fail
<1>0. /\ Len(buff) \in Nat /\ i \in Nat /\ ChunkSize \in Nat \ {0} /\ errs \in Nat
  BY LenProperties, CallAssumption DEF CallInv, Typed, TypeOK
<1>1. /\ UNCHANGED <<start, end, pc, buff, last, done, errs, reply>>
      /\ pc = "ingest" /\ i' = i + ChunkSize /\ table' = table \cup Chunk
      /\ start # Nil
  BY DEF IngestChunk, CallInv, Typed, Stage
<1>2. CASE errs = 0
  <2>1. ~Doomed /\ ~Doomed' /\ Ordered
    BY <1>1, <1>2 DEF Doomed, CallInv, CleanRead
  <2>2. Rest' = Rest \ Chunk /\ Chunk \subseteq Rest
    <3>1. ASSUME NEW m \in 1..Len(buff), NEW n \in 1..Len(buff), buff[m] = buff[n]
          PROVE  m = n
      <4>1. buff[m] \in Int /\ buff[n] \in Int
        BY KeyAssumption DEF CallInv, InRange, Selected
      <4>2. ~(m < n) /\ ~(n < m)
        BY <2>1, <3>1, <4>1 DEF Ordered
      <4> QED
        BY <1>0, <4>2
    <3>2. Chunk \subseteq Rest
      BY <1>0 DEF Chunk, Rest
    <3>3. Rest' = {buff[n] : n \in {m \in 1..Len(buff) : i + ChunkSize < m}}
      BY <1>1 DEF Rest
    <3>4. Rest \subseteq Rest' \cup Chunk
      <4> SUFFICES ASSUME NEW n \in 1..Len(buff), i < n
                   PROVE  buff[n] \in Rest' \cup Chunk
        BY DEF Rest
      <4>1. n <= i + ChunkSize \/ i + ChunkSize < n
        BY <1>0
      <4> QED
        BY <3>3, <4>1 DEF Chunk
    <3>5. Rest' \subseteq Rest
      BY <1>0, <3>3 DEF Rest
    <3>6. Rest' \cap Chunk = {}
      BY <1>0, <3>1, <3>3 DEF Chunk
    <3> QED
      BY <3>2, <3>4, <3>5, <3>6
  <2>3. AbstractTodo = Rest /\ AbstractTodo' = Rest'
    BY <1>1, <2>1 DEF AbstractTodo
  <2>4. /\ AbstractPhase = "post" /\ AbstractPhase' = "post"
        /\ AbstractLast' = AbstractLast
    BY <1>1, <2>1 DEF AbstractPhase, AbstractLast
  <2> QED
    BY <1>1, <2>2, <2>3, <2>4 DEF Promise!Post
<1>3. CASE errs # 0
  <2>1. Doomed'
    BY <1>0, <1>1, <1>3 DEF Doomed
  <2> QED
    BY <1>1, <1>3, <2>1, ChunkInRange, FailMap
<1> QED
  BY <1>2, <1>3

LEMMA ReturnMap ==
  ASSUME CallInv, CallInv', Return
  PROVE  Promise!Return
<1>0. /\ Len(buff) \in Nat /\ i \in Nat /\ errs \in Nat
      /\ UNCHANGED <<start, end, i, done, buff, errs, table>>
      /\ pc \in {"ingest", "return"} /\ pc' = "returned"
  BY LenProperties DEF CallInv, Typed, TypeOK, Return
<1>1. CASE errs = 0
  <2>1. pc = "ingest" /\ Len(buff) <= i /\ ~Doomed /\ ~Doomed' /\ reply' = "ok"
    BY <1>0, <1>1 DEF Return, CallInv, Typed, Stage, Doomed
  <2>2. AbstractTodo = {} /\ AbstractTodo' = {}
    BY <1>0, <2>1 DEF AbstractTodo, Rest
  <2>3. AbstractLast' = AbstractLast
    BY <1>0, <2>1 DEF AbstractLast, Return
  <2>4. AbstractPhase = "post" /\ AbstractPhase' = "returned"
    BY <1>0, <2>1 DEF AbstractPhase
  <2> QED
    BY <1>0, <2>1, <2>2, <2>3, <2>4 DEF Promise!Return
<1>2. CASE errs # 0
  <2>1. Doomed /\ Doomed' /\ reply' = "error"
    BY <1>0, <1>2 DEF Doomed, Return
  <2>2. /\ AbstractPhase = "failed" /\ AbstractPhase' = "returned"
        /\ UNCHANGED <<AbstractTodo, AbstractLast>>
    BY <1>0, <2>1 DEF AbstractPhase, AbstractTodo, AbstractLast
  <2> QED
    BY <1>0, <2>1, <2>2 DEF Promise!Return
<1> QED
  BY <1>1, <1>2

LEMMA CallStepMap ==
  ASSUME CallInv, CallInv', [Next]_vars
  PROVE  [Promise!CallNext]_(Promise!callVars)
<1>0. errs \in Nat
  BY DEF CallInv, Typed, TypeOK
<1>1. CASE RejectNilStart
  <2>1. errs = 0 /\ last = Nil /\ done = FALSE
    BY <1>1 DEF RejectNilStart, CallInv, Typed, Stage
  <2>2. ~Doomed /\ ~Doomed'
    BY <1>1, <2>1 DEF RejectNilStart, Doomed
  <2>3. Promise!Reject
    BY <1>1, <2>1, <2>2
    DEF RejectNilStart, Promise!Reject, AbstractPhase, AbstractTodo, AbstractLast
  <2> QED
    BY <2>3 DEF Promise!CallNext
<1>2. CASE NextEntity
  BY <1>2, EntityMap
<1>3. CASE NextDone
  <2>1. CASE errs = 0
    BY <1>3, <2>1, DoneMap DEF Promise!CallNext
  <2>2. CASE errs # 0
    BY <1>0, <1>3, <2>2, ReadErrorMap DEF NextDone, Reading, Promise!CallNext
  <2> QED
    BY <2>1, <2>2
<1>4. CASE NextTimeout
  BY <1>4
  DEF NextTimeout, Promise!callVars, AbstractPhase, AbstractTodo, AbstractLast, Doomed,
      Rest
<1>5. CASE NextError
  BY <1>0, <1>5, ReadErrorMap DEF NextError, Reading, Promise!CallNext
<1>6. CASE IngestChunk
  BY <1>6, ChunkMap DEF Promise!CallNext
<1>7. CASE IngestError
  <2>1. PICK C \in SUBSET Chunk : table' = table \cup C
    BY <1>7 DEF IngestError
  <2>2. C \in SUBSET Selected(start, end)
    BY ChunkInRange
  <2>3. /\ UNCHANGED <<start, end, reply>> /\ start # Nil /\ errs' # 0 /\ Doomed'
        /\ pc = "ingest" /\ pc' = "return"
    BY <1>0, <1>7 DEF IngestError, CallInv, Typed, Stage, Doomed
  <2>4. Promise!Fail
    BY <2>1, <2>2, <2>3, FailMap
  <2> QED
    BY <2>4 DEF Promise!CallNext
<1>8. CASE Return
  BY <1>8, ReturnMap DEF Promise!CallNext
<1>9. CASE UNCHANGED vars
  BY <1>9
  DEF vars, Promise!callVars, AbstractPhase, AbstractTodo, AbstractLast, Doomed, Rest
<1> QED
  BY <1>1, <1>2, <1>3, <1>4, <1>5, <1>6, <1>7, <1>8, <1>9 DEF Next, Advance

(* The loops of SyncKeyRange implement the safety part of RangeCall, the   *)
(* promise that the task chain is built on: what SyncPipeline lets a call  *)
(* bring back and store is what the code brings back and stores.           *)
THEOREM CallKeepsPromise == Spec => Promise!CallSafety
<1>1. Init => Promise!CallInit
  <2> SUFFICES ASSUME Init PROVE Promise!CallInit
    OBVIOUS
  <2>1. ~Doomed
    BY DEF Init, Doomed
  <2> QED
    BY <2>1 DEF Init, Promise!CallInit, AbstractPhase, AbstractTodo, AbstractLast
<1>2. CallInv /\ CallInv' /\ [Next]_vars => [Promise!CallNext]_(Promise!callVars)
  BY CallStepMap
<1> QED
  BY <1>1, <1>2, CallInvInit, CallInvStep, PTL DEF Spec, Promise!CallSafety

=============================================================================

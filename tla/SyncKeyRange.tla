---------------------------- MODULE SyncKeyRange ----------------------------
(***************************************************************************)
(* One call of bigquerysync.SyncKeyRange: a loop over a datastore query    *)
(* that restarts from its cursor when the datastore times out, then a loop *)
(* that posts the buffered entities to BigQuery in chunks.                 *)
(*                                                                         *)
(* Every read of the datastore is a step, so that the application's writes *)
(* fall between any two of them; a key outside Resident may therefore be   *)
(* returned or not by each read.                                           *)
(***************************************************************************)
EXTENDS KeyBatches, Sequences

CONSTANTS
  ChunkSize,   \* entities in one insertAll request (9)
  MaxErrors    \* bigquerysync.MaxErrorsPerSync (10)

ASSUME CallAssumption == ChunkSize \in Nat \ {0} /\ MaxErrors \in Nat

VARIABLES
  start, end,  \* the parameters
  pc,          \* "next", "ingest", "return" or "returned"
  pos,         \* key behind which the query's iterator stands
  cur,         \* the cursor of the last entity read
  buff, last, done, i,
  errs,        \* len(errors)
  reply,       \* what the call returned: "none" until it does
  table        \* keys that have at least one row in BigQuery

vars  == <<start, end, pc, pos, cur, buff, last, done, i, errs, reply, table>>

Buffered == {buff[n] : n \in 1..Len(buff)}
(* Mutant: buff[i:j] stops one short of the chunk.                         *)
ChunkShort == {buff[n] : n \in {m \in 1..Len(buff) : i < m /\ m < i + ChunkSize}}
Chunk    == {buff[n] : n \in {m \in 1..Len(buff) : i < m /\ m <= i + ChunkSize}}

TypeOK ==
  /\ {start, end, pos, cur, last} \subseteq Key \cup {Nil}
  /\ pc \in {"next", "ingest", "return", "returned"}
  /\ buff \in Seq(Key) /\ Len(buff) <= BatchSize
  /\ done \in BOOLEAN
  /\ i \in Nat
  /\ errs \in 0..(MaxErrors + 2)
  /\ reply \in {"none", "ok", "error", "rejected"}
  /\ table \subseteq Key

Init ==
  /\ start \in Key \cup {Nil}
  /\ end \in Key \cup {Nil}
  /\ pc = "next"
  /\ pos = Nil
  /\ cur = Nil
  /\ buff = <<>>
  /\ last = Nil
  /\ done = FALSE
  /\ i = 0
  /\ errs = 0
  /\ reply = "none"
  /\ table = {}

-----------------------------------------------------------------------------
RejectNilStart ==
  /\ pc = "next"
  /\ start = Nil
  /\ pc' = "returned"
  /\ reply' = "rejected"
  /\ UNCHANGED <<start, end, pos, cur, buff, last, done, i, errs, table>>

Reading == pc = "next" /\ start # Nil

(* The next entity the iterator can return: no resident one is passed by.  *)
Readable(k) ==
  /\ k \in After(start, end, pos)
  /\ \A r \in Resident \cap After(start, end, pos) : k <= r

(* Mutant: last is set once only.                                          *)
TakeEntityKeepsFirst(k) ==
  /\ pos' = k
  /\ last' = IF buff = <<>> THEN k ELSE last
  /\ buff' = Append(buff, k)

TakeEntity(k) ==
  /\ pos' = k
  /\ last' = k
  /\ buff' = Append(buff, k)

(* A failing it.Cursor() is counted and leaves cur empty. *)
TakeCursor(k) ==
  \/ cur' = k /\ errs' = errs
  \/ cur' = Nil /\ errs' = errs + 1

(* Mutant: the number of errors is not looked at.                          *)
StopReadingWhenFull ==
  done' = done /\ pc' = IF Len(buff') = BatchSize THEN "ingest" ELSE pc

StopReading ==
  IF errs' > MaxErrors
    THEN done' = TRUE /\ pc' = "ingest"
    ELSE done' = done /\ pc' = IF Len(buff') = BatchSize THEN "ingest" ELSE pc

NextEntity ==
  /\ Reading
  /\ \E k \in Key :
       /\ Readable(k)
       /\ TakeEntity(k)
       /\ TakeCursor(k)
       /\ StopReading
  /\ UNCHANGED <<start, end, i, reply, table>>

NextDone ==
  /\ Reading
  /\ Resident \cap After(start, end, pos) = {}
  /\ done' = TRUE
  /\ pc' = "ingest"
  /\ UNCHANGED <<start, end, pos, cur, buff, last, i, errs, reply, table>>

(* Mutant: a new query from the beginning of the range.                    *)
NextTimeoutRestarts ==
  /\ Reading
  /\ pos' = Nil
  /\ UNCHANGED <<start, end, pc, cur, buff, last, done, i, errs, reply, table>>

(* A new query from the cursor, as often as the datastore times out. *)
NextTimeout ==
  /\ Reading
  /\ pos' = cur
  /\ UNCHANGED <<start, end, pc, cur, buff, last, done, i, errs, reply, table>>

NextError ==
  /\ Reading
  /\ errs' = errs + 1
  /\ pc' = "ingest"
  /\ UNCHANGED <<start, end, pos, cur, buff, last, done, i, reply, table>>

-----------------------------------------------------------------------------
IngestChunk ==
  /\ pc = "ingest"
  /\ i < Len(buff)
  /\ table' = table \cup Chunk
  /\ i' = i + ChunkSize
  /\ UNCHANGED <<start, end, pc, pos, cur, buff, last, done, errs, reply>>

(* IngestToBigQuery fails before, during or after the insertion, and the   *)
(* error breaks the loop.                                                  *)
IngestError ==
  /\ pc = "ingest"
  /\ i < Len(buff)
  /\ \E C \in SUBSET Chunk : table' = table \cup C
  /\ errs' = errs + 1
  /\ pc' = "return"
  /\ UNCHANGED <<start, end, pos, cur, buff, last, done, i, reply>>

(* Mutant: the collected errors are not returned.                          *)
ReturnIgnoresErrors ==
  /\ pc = "return" \/ (pc = "ingest" /\ i >= Len(buff))
  /\ pc' = "returned"
  /\ last' = IF done THEN end ELSE last
  /\ reply' = "ok"
  /\ UNCHANGED <<start, end, pos, cur, buff, done, i, errs, table>>

Return ==
  /\ pc = "return" \/ (pc = "ingest" /\ i >= Len(buff))
  /\ pc' = "returned"
  /\ last' = IF done THEN end ELSE last
  /\ reply' = IF errs = 0 THEN "ok" ELSE "error"
  /\ UNCHANGED <<start, end, pos, cur, buff, done, i, errs, table>>

Advance ==
  \/ RejectNilStart
  \/ NextEntity
  \/ NextDone
  \/ IngestChunk
  \/ Return

Next == Advance \/ NextTimeout \/ NextError \/ IngestError

(* Time-outs may come any number of times, but reads get through again;    *)
(* and no failure is owed.                                                 *)
Spec == Init /\ [][Next]_vars /\ WF_vars(Advance)

-----------------------------------------------------------------------------
(* An answer without error that carries end says that the whole range is   *)
(* in BigQuery; one that carries another key, that everything up to that   *)
(* key is.  The caller relies on it when it drops or shortens the range.   *)
OkMeansIngested ==
  reply = "ok" =>
    \A k \in Resident \cap Selected(start, end) :
      last = end \/ k <= last => k \in table

(* The follow-up range [last, end) is inside this one and strictly         *)
(* shorter, so rescheduling cannot go round in circles.                    *)
FollowUpIsShorter ==
  reply = "ok" /\ last # end => last \in Selected(start, end) /\ start < last

(* Restarts from the cursor neither repeat nor reorder entities as long as *)
(* the cursor was read: only an already failed call holds duplicates.      *)
NoRepeats ==
  errs = 0 => \A m, n \in 1..Len(buff) : m < n => buff[m] < buff[n]

(* The call behaves like RangeCall, which returns: so does the call,       *)
(* whatever the number of time-outs in between.  A call that counted an    *)
(* error is a failed one, though it goes on ingesting.                     *)
Doomed == errs > 0
AbstractPhase ==
  IF pc = "returned" THEN "returned"
  ELSE IF Doomed THEN "failed"
  ELSE IF pc = "next" THEN "fetch" ELSE "post"

Rest == {buff[n] : n \in {m \in 1..Len(buff) : i < m}}
AbstractTodo == IF pc = "ingest" /\ ~Doomed THEN Rest ELSE {}
AbstractLast == IF pc = "next" \/ Doomed THEN Nil ELSE IF done THEN end ELSE last

Promise == INSTANCE RangeCall WITH
  phase <- AbstractPhase, todo <- AbstractTodo, last <- AbstractLast

KeepsPromise == Promise!CallSpec

=============================================================================

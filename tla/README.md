# aetools: models, checks and proofs

This directory holds TLA+ modules of the Go packages in `src/`, the TLC
configurations that check them, and TLAPS proofs of the most important results.
`PROJECT.json` lists the components, the runs, for each definition the lines of
code it stands for, the hazards of the code and the properties that watch them.

    tlc -config Pipeline.cfg MCSyncPipeline      # model-check a run
    tlapm SyncPipelineProofs.tla                 # check the proofs

## The system

aetools is a set of packages around Google App Engine.

| Part | Source | State it keeps | Operations | Hard because of |
|---|---|---|---|---|
| Key range splitting | `bigquerysync/sync.go` | the ranges built so far | `KeyRangesForKind` | two queries over a kind that changes |
| Range synchronisation | `bigquerysync/sync.go` | buffer, cursor, last key, errors of one call | `SyncKeyRange` | time-outs and restarts, partial failures |
| Ingestion | `bigquerysync/bigquery.go` | the BigQuery table | `IngestToBigQuery` | rows stored though the call fails |
| Sync handlers | `bundle/bundle.go` | tasks in the App Engine queue | `SyncKindHandler`, `SyncEntityHandler`, `scheduleRangeSync` | redelivery, crashes, lost answers, concurrency |
| VM proxy | `vmproxy/*.go` | `vm.ip`, `vm.isRunning`; the instance | `ServeHTTP`, `IsRunning`, `Start`, `PublicIP`, `Stop`, `Delete`, `forward` | unlocked fields shared by requests, an instance that goes away |
| Dump | `funcs.go` | counters, cursor, output | `Dump`, `DumpEntity` | batches over a kind that changes, failing writer |
| Load | `funcs.go` | position in the input | `Load` | partial batches |
| aeremote | `aeremote/main.go` | none | dump and load from a command line | chains the two |
| JSON codec | `marshal.go`, `entity.go`, `funcs.go` | none | `MarshalJSON`, `DecodeEntities`, `Get...` | types that must survive a format with fewer of them |
| Rows and schema | `bigquery.go`, `schema.go`, `bundle.go` | the table in BigQuery | `entityToRow`, `SchemaForKind`, `CreateTableForKind` | two guesses that must agree, a map changed while it is ranged over |
| Pages, example | `bundle`, `vmproxy/example` | none | templates, handlers | |

How they interact: `SyncKindHandler` calls `KeyRangesForKind` and adds one task
per range with `scheduleRangeSync`. The task queue calls `SyncEntityHandler`
with the range in the URL. It calls `SyncKeyRange`, which reads at most
`BatchSize` entities and posts them with `IngestToBigQuery` in chunks of nine.
If the range is not done the handler adds a task for the rest; then it answers
200 and the queue forgets the task. Any other answer makes the queue deliver it
again. Nothing but the queued URLs carries state from one request to the next.
`vmproxy` is independent: requests of one process share a `VM` value. `Dump` and
`Load` meet in the JSON text, which `aeremote` writes and reads.

What makes each part correct: the ranges have no gap; a call of `SyncKeyRange`
that reports success stored everything up to the key it returns; no entity
falls between a task and its follow-up, and the chain of tasks ends; the proxy
boots the instance when needed and only then, and what it has checked is ready;
a dump that reports success is complete, a load that does stored all of it, and
each value is what it was; a row fits the table that was made for its kind.
Where the code falls short of this, a run or a narrower property says so.

## Modules

    KeyRanges       extends KeySpace, KeyOrder
    SyncKeyRange    extends KeyBatches (and KeySpace); implements RangeCall
    SyncPipeline    extends KeyRanges, KeyBatches; implements AtLeastOnceSync
    VMProxy
    Dump            extends KeySpace, Codec
    Backup          extends Dump, Load
    TableSync       extends Rows, which extends Schema, which extends Codec

The `MC` modules hold the values of constants for TLC, the `Proofs` modules
extend the modules they are named after.

**KeySpace** is the common ground: a key is an integer, its place in the
datastore's key order. The application writes while a synchronisation or a dump
runs. Keys in `Resident` belong to entities that exist all along; every other
key may come and go between any two reads, so that each read may or may not see
it. What the functions promise they can only promise for the former.
`Selects` is `createQuery` with its three kinds of interval, among them the rule
that `[s,s]` is the entity `s`.

**KeyRanges** is `KeyRangesForKind`. `FirstKey`/`NoFirstKey` are its first query
(an error and an empty kind look the same), `ScatterKey`/`ScatterEnd` the loop
over the scatter query, `BuildRange`/`LastRange` the loop over the sorted keys.
The sort is in `NextBound`, which takes a key left that none is `Less` than.
**KeyOrder** is that comparison: `CompareKeys` over key paths, as the code walks
them, and `Precedes`, the order in which the datastore returns them.

**SyncKeyRange** is one call: `NextEntity`, `NextDone`, `NextTimeout` and
`NextError` are the outcomes of `it.Next`, with the cursor call and the two
loop exits behind a successful one (`TakeCursor`, `StopReading`). `IngestChunk`
and `IngestError` are turns of the chunk loop, `Return` the end. Its abstract
specification is **RangeCall**: fetch a batch, post it piece by piece, fail at
any point, answer. `KeepsPromise` checks that the call implements it with its
fairness, and so that it returns. The workers of SyncPipeline are modelled after
RangeCall; that step is by construction, not an instance.

**SyncPipeline** composes the ranges with the task queue and the instances.
`SplitKind` runs `KeyRangesForKind`, `ScheduleRange`/`ScheduleFails` are turns of
the loop of `SyncKindHandler`, `KindReply` its answer. An instance goes through
the phases of `SyncEntityHandler`: `FetchBatch` and `Post` (SyncKeyRange as
RangeCall promises it, with the sets of batches from **KeyBatches**), `Posted`
(the test of `last` against `end`), `Reschedule`, `Ack`; `Reject` is the 400 for
a missing project or dataset. `SyncFails`, `RescheduleFails`, `AckLost`,
`KindCrash` are errors and dying requests at each of those points. `Deliver` and
`DeliverAgain` are the queue. `poison` is the set of entities whose conversion or
insertion always fails; `PoisonFails` fails each call that meets one. A follow-up
is added before the 200, as in the code, so that a crash between the two leaves
both tasks. The abstract specification **AtLeastOnceSync** says that the queue
falls silent only when all that it accepted is in the table.

**VMProxy** is `VM.ServeHTTP` for a set of concurrent requests. A step ends at
each remote call and each access to `vm.ip` or `vm.isRunning`, so that two
requests interleave as in the code: `Check`, `Probe`, `CacheRunning`, `CacheIP`
are `IsRunning`; `Get` to `HealthFails` are `Start`; `Forward` is the proxy, which
reads the address again. `RpcFails` is a failing call of the Compute Engine
API, with or without its effect. `Ask`, `FetchIP` and `StoreIP` are a call of
`PublicIP`, which may come at any time beside the requests. The instance
(`BootEnds`, `StopVM`, ...) lives outside. App Engine starts and replaces processes as it
likes, so `Init` finds the instance absent or down, booting, running with its web server
up or not yet, or on its way down, and the process knows nothing of it. An address is
named by the number of the boot that got it.

**Codec** is the JSON form: `Cell` is the switch of `Entity.Map` for one value,
`Field` its handling of single and multiple values, `decodeProperty` and
`decodeEntity` the way back, `GetTyped` the getters of `Entity`. A value is its Go
type with one of a few texts, one for each way the code can treat it: a float
with a point, one with only an exponent, NaN; a date, one with a fraction of a
second, one beyond year 9999; a key of the default or of another namespace.

**Dump** and **Load** are the two loops; `DumpEntity` is the export of one key.
A batch whose limit is used up ends the query; `LastQuery` is the test that
decides whether there is a next one. `Write` encodes an entity, or ends the dump
with an error. Each call of the `io.Writer` may fail by itself: a bracket or comma is
then missing, an entity missing or cut short, and the dump goes on, as it drops the
results. `array` is where a parser of the output stands (`Parse`), so that the
output decodes just when what is left of it is an array; `failed` and `dropped` remember
what went wrong, for the properties. **Backup** is a dump, then any number of loads of its
output into another datastore, as `aeremote` does. An output that is no array does not
decode.

**Schema** is `CreateTableForKind`: `KindStats` and `PropertyStats` read what the
datastore counted (`Stats`, computed from the entities), `FieldFor` and
`AddedFields` are the loop of `SchemaForKind`, `TableInsert` the call of BigQuery. The
schema is a list to which the loop and then `SchemaDone` append: a field carries the
statistics it was made from, so that two of one name and type are two. BigQuery refuses
a schema in which two columns have one name (`SchemaRefused`). Names of properties may
become those of the appended columns, as `--key--` does. The list is sorted by name in
the end; nothing depends on that order.
**Rows** is `IngestToBigQuery`: `MapEntity` to `RowDone` are `entityToRow`, one action
per visit of its loop (`Drop`, `Keep`, `Rename`), in any order, where a name added by
`Rename` may be visited or not; `Payload` encodes the request, `Post` and
`PostError` are its outcomes. **TableSync** runs both on the same entities and
compares what comes out.

## Runs

| Run | Asks | Bounds |
|---|---|---|
| `key_ranges` | do the ranges cover the kind, without overlaps, whatever the scatter query returns; does the function return | 5 keys, 2 lasting, up to 3 scatter keys: below, on, between and above the lasting ones; an entity and its child, ids, a name; errors |
| `sync_key_range` | does one call keep its promise | 5 keys, 3 lasting; batch 3, chunk 2: full and short batches, one and two chunks; one error tolerated and the second not; all pairs of bounds |
| `pipeline` | is anything lost; without failures, is anything worked on or sent twice | 3 keys, batch 2, 2 ranges, 2 instances, 2 failures or duplicates at any point, parameters given or not, an entity that always fails or none |
| `pipeline_live` | does it come to an end, and does an entity that fails hold up others | the same with 1 failure, without symmetry |
| `vm` | is the instance booted once; does anyone get stuck before the checks; does the cached state go stale otherwise than by a shutdown; is what was checked ready; in calm runs, is each request served that finds the instance down or ready | 2 requests or callers of `PublicIP`, failing API calls, 1 shutdown, 1 restart of the process; the instance in any state at the start |
| `backup` | is what reports success complete, and what is loaded the same, and stable under another backup | 4 keys, 3 lasting; batches of 2: one, exact and several batches; one key or all; 0 to 2 files; failures anywhere, any of the writes; one entity with every single value, indexed or not, and pairs |
| `table_sync` | do rows fit the table; are errors reported; does the loop over the map end | at most 2 entities, each type of value, single, in a list of one or two, mixed with null; two names with one column; names with the column of the key or the time; excluded names |

Two instances are enough for a duplicate to run beside its original or a
follow-up, and two failures for one that hits the retry of another. The batch
sizes (81, 9, 100, 50) only matter relative to the number of entities: full,
exactly full, short, empty. A batch of one would not get past the first key of
a range; `BatchAssumption` excludes it, and the code's constant is 81. `MaxFaults`,
`MaxShutdowns` and `MaxRestarts` bound the failures, nothing else. `Backoff` is
coarse where the number of health checks does not matter. Runs with `calm` set are those
where calls come one at a time, none fails and nothing stops the instance. Deadlock is not
checked: each of these programs stops when its work is done.

Five runs show that the code does not do what its own comments say:

| Run | What happens |
|---|---|
| `kind_lost` | `SyncKindHandler` drops the error of `scheduleRangeSync` and answers 200; that range is never synchronised |
| `vm_stale` | `isRunning` is never reset; after the instance stopped all requests get a bad gateway |
| `vm_timeout` | the sleep is capped before it is compared with the cap: `ErrStartupTimeout` is never returned |
| `vm_race` | `PublicIP` writes the empty address of a booting instance beside the "running" cached since |
| `values_lost` | a float that prints as `1e+07` is loaded as the integer 0 |

Some properties are narrower than one would wish, because the code keeps no more.
`CheckedVMIsReady` speaks of requests that went through the health checks; the others
may be forwarded early, even one at a time in a calm run: of an instance that another
process launched `IsRunning` only looks at the state, and `ServeHTTP`
(`src/vmproxy/vmproxy.go:120`) then skips the checks. `GetsServed` therefore speaks of
those that find the instance down or ready. `NoErrorUnprovoked` and
`CacheHasAddress` are checked for calm runs only: of two requests that insert the
instance one gets the conflict as a 500, and `vm_race` shows what becomes of the cached
address. A 400 of `SyncKindHandler` does not return, so its tasks are queued all the
same and rejected at each delivery; `QueueDrains` is stated for given parameters. `Dump`
drops the results of `w.Write`, though its comment says that they are returned
(`src/funcs.go:148`): `DumpIsComplete` speaks of exports whose writes all worked, and
`RestoredWhenOk` of all but the entities of which the writer took nothing (`dropped`):
without them the output is still an array, and the dump and the load both succeed. Every
other failure leaves an output that does not load.

`FieldsAreUnique` does not say that all fields have different names: the columns of the
key and of the time are appended without a look at the others, so a property named
`--key--` gives `__key__` a twin. It says that there is no other way to one.
`RowsFitTable` speaks of `Regular` properties. What that leaves out are the places
where `SchemaForKind` and `entityToRow` differ: a single key is a STRING column but is
sent as an array; a multiple property with no more values than there are
entities gets the type of one value but is sent as the text of a list; a Text or
only nulls have no column; of two types under one name, or two names with one
column, the first that the query returns decides.

## Fairness

Safety needs none. For liveness:
- *KeyRanges, SyncKeyRange, Dump, Load*: a function that runs goes on
  (`WF` of its steps without failures). `SyncKeyRange` may time out any number of
  times in a row, but not for ever while reads would succeed.
- *SyncPipeline*: a handler that started runs on, and the queue dispatches a task
  while it has one (weak fairness of `SyncKindHandler`, of each instance and of
  `Deliver`). Failures and duplicates are finitely many and never owed. An entity
  that always fails makes its task come back for ever; `SF_vars(DeliverHealthy)`
  says that other tasks get their turn, as the queue waits longer after each
  failure of a task.
- *VMProxy*: requests run on, arrive and leave; boots and stops end; a failing
  call is never owed, so no request gets out of a loop by one. That an
  instance becomes healthy is assumed only in `HealthySpec`, and in `CalmSpec` for
  calm runs: a startup script may hang, which is what the time-out is for.
- *Backup, TableSync*: the functions and the loop over the files run on; an error
  is never owed.

## Proofs

Those of the synchronisation hold for any finite set of integer keys, any set of lasting ones,
any number of scatter keys, instances and failures, and any batch above one.
They use the named assumptions `KeyAssumption`, `RangeAssumption`,
`BatchAssumption` and `PipelineAssumption`.

*KeyRangesProofs.* `KeyRangesTypeCorrect` rests on `Started`: there is a start key
once scatter keys are read. `RangesCoverTheKind` is proved from `CoverInv`, whose
heart is `AheadOrCovered`: what no range covers yet lies at or above `start`. The
property itself speaks of the end only, and is not inductive. `RangesAreDisjoint`
needs the sort: the scatter keys left are above `start` (`BoundsAhead`), and what is
covered lies below it (`BelowStart`), but for the key of a first range of one
entity, which is then `start` itself. So a key that is in two ranges is the start
of both, and the pipeline's theorems below build on that. That `NextBound` takes
the least key rests on *KeyOrderProofs*: `CompareKeysIsKeyOrder` shows for paths of
any length that `CompareKeys` is the datastore's order, element by element with
`cmpKey`, and `LessIsTransitive` that it can be sorted by.

*SyncKeyRangeProofs.* All four invariants follow from `CallInv`: what is buffered
and the cursor lie in the range (`InRange`); as long as there was no error, the
buffer is sorted and holds every lasting entity that the iterator has passed
(`CleanRead`), and the table holds the chunks before `i` (`Ingested`). An error
spoils the read but is never forgotten, so the answer is then an error.
`CallKeepsPromise` is the refinement to `RangeCall`, without its fairness: a read
is a stutter until the last one, which is `Fetch` of the whole batch; each chunk is
a `Post`; what comes after an error is `Fail`.

*SyncPipelineProofs.* `PipelineTypeCorrect` needs `NamesKey`: an instance that
reschedules holds a key, not nil. `NothingIsLost` is proved from `PipelineInv`.
`NoEntityLost` alone says nothing about an instance between its batch and its
answer, so `HandlerInv` adds, phase by phase, what the instance has seen to:
what it read or stored (`ReadAll`), everything up to `last` (`PostedAll`), and when
it is about to answer, that each entity of its task is stored or in the range of
a *younger* task (`HandedAll`). Ages (the numbers of tasks) are what makes this
inductive: with duplicates two instances may hold the same task, and when one of
them acknowledges it the other must not have counted on it (`DoneIsFine`).
`FollowUpsAreShorter` follows from the same invariant, by `FullBatchAdvances`: a
full batch of at least two keys ends above the start of its range.
`DrainedKindIsSynced` combines it with `CoverInv`. `SyncsAtLeastOnce` is the
refinement: each action is mapped to `Accept`, `Ingest`, `Finish` or a stutter, and
the acknowledgement of the last task is a `Finish` by `PipelineInv`.
Two theorems are about runs without failures and duplicates, where follow-ups still
run beside the task that added them. `TasksDoNotOverlap`: any two queued tasks are
`Apart`, at most a common start, unless one has been dealt with and only waits for
its answer (`ApartInv`); tasks not yet queued come from disjoint ranges, and a
follow-up lies above all that its task has posted. `EachRowIsSentOnce` adds what a
worker knows about the table (`SentInv`): of a task nobody has read, nothing but its
start was sent; of a batch being posted, only what has left `todo`; and nothing
beyond `last` before the follow-up is there (`Fresh`).

*VMProxyProofs.* `BootsAreCounted` needs to tell a boot from a shutdown that is
going on: an instance that is down has been booted at most once per shutdown
(`BootInv`), and only such an instance is launched. The same bound gives
the types (`ProxyTypeCorrect`), as addresses are numbers of boots. Both hold for any
number of requests, shutdowns and restarts, from `VMAssumption`. The two theorems
about calm runs rest on `CalmInv`: at most one call is out (`OneAtATime`) and the
instance is only launched, boots and runs (`OnlyUp`); so the cache is written from
answers that are still true (`CalmCache`), and `CalmRequest` says, place by place,
what a request may rely on. `CheckedRequestsMeetReadyVM` is for all runs: a request
has a target from its health checks on, and when it passed them that boot ran and was
ready, which only a shutdown ends (`ReadyRequest`). `CachedRunningGoesStaleByShutdown` is for all runs: with no
shutdown so far, an instance that was seen running still runs, so whoever is about
to cache that state, and the cache itself, are right, however requests, failing
calls and restarts interleave.

*TableSyncProofs.* They hold for any names of properties, any `MakeFieldName` that
`NameAssumption` allows, any kinds and exclusions. `SchemaHasFewTwins` joins that
the loop adds a field only if it sees none of its name (`OneEach`) with `SchemaInv`: every
field but the two appended ones comes from a statistic, and so from a property.
`RowsAreAsMapped`
rests on the invariant of the loop over the map, `Columns`: a column is either as it
was mapped and still to be visited, or was made of a property that goes to it
(`MadeBy`), and if that was another property it may be visited once more;
`NoneLost` says that no property which is due a column is forgotten.
`OneEntitySpoilsItsChunk` follows from it: a float that is not a number stays one
(`NaNConverted`) and is in its row (`SpoiledRow`), and only rows that JSON can
express are posted, all at once (`SpoilInv`). `RowsFitTheirTable` joins the two halves:
`SchemaInv` says that each field of the schema comes from a statistic and each
statistic that has a type from the entities gets a field, and `RowsInv` that each
column holds what was mapped from a property due there; case by case of the Go type,
of one or more values and of `Repeated`, the field takes that column. Where there is a
table there are no twins, so a property that goes to the column of the key has no
type of its own (`OwnColumn`), and what it leaves there is text (`HiddenFits`). `TimeInv`
is for the column of the export time. `LoopRunsOut` is the safety half of the loop's end: a
name that `Rename` adds is valid, so its own visit adds nothing, and each visit
leaves fewer names of the entity to visit or, those being the same, fewer added.

*BackupProofs.* `EntityReturns` is the round trip of the codec: for every
consistent list of properties `decodeEntity` undoes `Map`, but for `ReturnedValue`.
`ExportIsComplete` rests on an invariant of the loop over the queries: all lasting
entities up to the iterator are written, and the count tells whether the running
query was full. `LoadIsInOrder` is inductive with the position of the running
batch. `OkMeansRestored` joins them: an output that is an array holds what was
asked for but for what was dropped whole (`ClosedIsComplete`), and keys in it are
distinct, so no later entity replaces one that was restored. Without a failing write
nothing is dropped and the array is closed (`Unbroken`). `EntitiesComeBack` adds that nothing else is ever
put. `SecondTripIsExact` and `LoadedOnceIsSettled` are about what the format changes: it
does so once. A value that came back is `Settled`: it has one of the types that
the decoder makes and a text that decodes to itself, so another dump and load
returns it in every detail. They hold for any keys, batches, contents and number of
files.

Only model-checked: liveness (`KeyRangesReturns`, `QueueDrains`,
`HealthyRangesGetSynced`, `GetsServed`, `ReachesHealthCheck`, `BackupEnds`,
`IngestEnds`, and the fairness in `KeepsPromise`), which the prover does not handle.
Every invariant and action property that a passing run checks is a theorem.
The type invariant of `KeyRanges` is checked as a part of that of `SyncPipeline`.

## Not modelled

- Texts that are not valid JSON exports: `Load` only reads what `Dump` wrote, whole
  or cut short. Keys of several namespaces do not occur in one query.
- Statistics that are out of date, and properties of entities that change between
  the creation of a table and an ingestion.
- How many rows a retry leaves: insert ids carry the time, so BigQuery does not
  know them again. `table` is the set of keys with a row; `RowsSentOnce` says that
  without failures only the start of a task is sent a second time.
- A missing `kind` parameter: the first query then returns a key of any kind.
- The content of the insert request of a VM, the HTTP transports.
- An output that a parser takes although a write in it was cut short, and a writer that
  reports an error for what it took; BigQuery's comparison of column names regardless of
  case.
- Admin pages (rendering without state), the example of vmproxy (its `AhStop` waits
  for ever, in one straight line), flags and transport of `aeremote`.

## Plan

1. Done: all components with state, their compositions, and the codec, order and
   schema functions; proofs of every safety and action property that the passing
   runs check.
2. Prove: that the workers of `SyncPipeline` take steps of `RangeCall`, so that the
   two refinements chain; what a request of the proxy may rely on when others
   interleave but nothing fails.
3. Extend: insert ids and the number of rows, a missing `kind`.

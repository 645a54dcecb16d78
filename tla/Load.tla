-------------------------------- MODULE Load --------------------------------
(***************************************************************************)
(* aetools.Load: puts decoded entities into the datastore batch by batch,  *)
(* and with GetAfterPut reads each batch back before it goes on.           *)
(***************************************************************************)
EXTENDS Integers, Sequences

CONSTANTS
  Entity,       \* keys of the entities to load
  None,         \* no entity under a key
  LoadBatch     \* Options.BatchSize, or its default (50)

ASSUME LoadAssumption == LoadBatch \in Nat \ {0}

VARIABLES
  load,      \* "waiting", "put", "get", or the result: "ok" or "error"
  getAfterPut,   \* Options.GetAfterPut
  entities,  \* the entities that DecodeEntities brought
  from,      \* the variable start: how many are loaded
  stored,    \* the datastore: for each key, the properties of its entity
  before     \* auxiliary: what was stored when this load began

loadVars == <<load, getAfterPut, entities, from, stored, before>>

LoadTypeOK ==
  /\ load \in {"waiting", "put", "get", "ok", "error"}
  /\ getAfterPut \in BOOLEAN
  /\ from \in 0..Len(entities)
  /\ \A n \in 1..Len(entities) : entities[n].key \in Entity
  /\ DOMAIN stored = Entity /\ DOMAIN before = Entity

LoadInit ==
  /\ load = "waiting"
  /\ getAfterPut = FALSE
  /\ entities = <<>>
  /\ from = 0
  /\ stored = [k \in Entity |-> None]
  /\ before = stored

Idle == load \in {"waiting", "ok", "error"}

CappedEnd(n) == IF n > Len(entities) THEN Len(entities) ELSE n
BatchEnd     == CappedEnd(from + LoadBatch)
Batch        == (from + 1)..BatchEnd

(* The datastore d with the entities at places I put into it. *)
Put(d, I) ==
  [k \in Entity |-> IF \E n \in I : entities[n].key = k
                      THEN entities[CHOOSE n \in I : entities[n].key = k].properties
                      ELSE d[k]]

-----------------------------------------------------------------------------
LoadBegin(es, getting) ==
  /\ Idle
  /\ load' = "put"
  /\ getAfterPut' = getting
  /\ entities' = es
  /\ from' = 0
  /\ before' = stored
  /\ UNCHANGED stored

(* An error of DecodeEntities: nothing was put. *)
DecodeError ==
  /\ Idle
  /\ load' = "error"
  /\ getAfterPut' = FALSE
  /\ entities' = <<>>
  /\ from' = 0
  /\ before' = stored
  /\ UNCHANGED stored

PutMulti ==
  /\ load = "put"
  /\ from < Len(entities)
  /\ stored' = Put(stored, Batch)
  /\ IF getAfterPut
       THEN load' = "get" /\ from' = from
       ELSE load' = load /\ from' = BatchEnd
  /\ UNCHANGED <<getAfterPut, entities, before>>

(* Mutant: the error is logged, and the next batch is put.                 *)
PutErrorIgnored ==
  /\ load = "put"
  /\ from < Len(entities)
  /\ \E I \in SUBSET Batch : stored' = Put(stored, I)
  /\ from' = BatchEnd
  /\ UNCHANGED <<load, getAfterPut, entities, before>>

(* PutMulti is no transaction: any part of the batch may be stored. *)
PutError ==
  /\ load = "put"
  /\ from < Len(entities)
  /\ \E I \in SUBSET Batch : stored' = Put(stored, I)
  /\ load' = "error"
  /\ UNCHANGED <<getAfterPut, entities, from, before>>

(* Mutant: the end of the last batch is not capped.                        *)
GetMultiUncapped ==
  /\ load = "get"
  /\ load' = "put"
  /\ from' = from + LoadBatch
  /\ UNCHANGED <<getAfterPut, entities, stored, before>>

GetMulti ==
  /\ load = "get"
  /\ load' = "put"
  /\ from' = BatchEnd
  /\ UNCHANGED <<getAfterPut, entities, stored, before>>

GetError ==
  /\ load = "get"
  /\ load' = "error"
  /\ UNCHANGED <<getAfterPut, entities, from, stored, before>>

LoadEnd ==
  /\ load = "put"
  /\ from >= Len(entities)
  /\ load' = "ok"
  /\ UNCHANGED <<getAfterPut, entities, from, stored, before>>

LoadStep == PutMulti \/ GetMulti \/ LoadEnd
LoadNext == LoadStep \/ PutError \/ GetError

-----------------------------------------------------------------------------
(* What Load leaves behind is a prefix of its input, plus part of the one  *)
(* batch it was busy with; all of it when it returns no error.  The rest   *)
(* of the datastore is as it was.                                          *)
Holds(n) == stored[entities[n].key] = entities[n].properties

LoadsInOrder ==
  /\ \A n \in 1..from : Holds(n)
  /\ load = "ok" => \A n \in 1..Len(entities) : Holds(n)
  /\ \A k \in Entity :
       stored[k] # before[k] => \E n \in 1..BatchEnd : entities[n].key = k

=============================================================================

-------------------------------- MODULE Rows --------------------------------
(***************************************************************************)
(* bigquerysync.IngestToBigQuery: each entity is made a row, and the rows  *)
(* are posted to the table of the kind in one request.                     *)
(*                                                                         *)
(* entityToRow changes the map of the entity while it ranges over it.  Go  *)
(* then promises little: names come in any order, a deleted one is not     *)
(* visited, one that was added is visited or not, and no name is visited   *)
(* twice otherwise.                                                        *)
(***************************************************************************)
EXTENDS Schema

CONSTANT Excludes    \* exclude: sets of the names that the expression matches

ASSUME ExcludesAssumption == {} \in Excludes /\ Excludes \subseteq SUBSET Column

VARIABLES
  exclude,     \* names that must not be sent
  ingest,      \* "idle", "entities", "range", "post", or the result: see Result
  at,          \* number of entities taken from content
  row,         \* the map of the last of them
  todo,        \* names in row that the range loop is to visit
  added,       \* names in row that it may visit
  rows,        \* the rows that are done
  stored       \* places of the entities whose rows are in BigQuery

rowVars == <<exclude, ingest, at, row, todo, added, rows, stored>>

Result == {"ok", "mapError", "payloadError", "error"}

RowsInit ==
  /\ exclude = {}
  /\ ingest = "idle"
  /\ at = 0
  /\ row = <<>>
  /\ todo = {}
  /\ added = {}
  /\ rows = <<>>
  /\ stored = {}

-----------------------------------------------------------------------------
(* Entity.Map.  The key is a list of kinds and identifiers.                *)
Maps(entity) ==
  \A n \in Name : ~Mixed(entity[n]) /\ \A p \in {entity[n][i] : i \in DOMAIN entity[n]} :
                                         p.value.type \notin NoForm

Single(json) == [list |-> FALSE, cells |-> <<Bare(json)>>]
Text(text)   == Single([json |-> "string", text |-> text])
KeyPath      == Single([json |-> "array", text |-> "Kind,1"])
Now          == Text("12:00:00Z")

Mapped(entity) ==
  [n \in Names(entity) \cup {"__key__"} |->
     IF n = "__key__" THEN KeyPath ELSE Field(entity[n])]

(* The text of a list in JSON; an element without one empties it.          *)
Blobs(cell) == cell.object /\ cell.type = "blob"
NaN(cell)   == cell.json.json = "number" /\ cell.json.text = "NaN"

marshalField(cells) ==
  IF Blobs(cells[1]) THEN "(blob)"
  ELSE IF \E i \in DOMAIN cells : NaN(cells[i]) THEN ""
  ELSE "JSON"

(* What a column holds after its name was visited.                         *)
IsList(field) ==
  field.list \/ (~field.cells[1].object /\ field.cells[1].json.json = "array")

Converted(field) ==
  IF IsList(field) THEN Text(marshalField(field.cells))
  ELSE IF Blobs(field.cells[1]) THEN Text("(blob)")
  ELSE Single(field.cells[1].json)

BadDate(field) ==
  /\ ~field.list
  /\ field.cells[1].object /\ field.cells[1].type = "date"
  /\ ~Parses(field.cells[1].json.text)

Without(n)   == [m \in DOMAIN row \ {n} |-> row[m]]
With(r, n, v) == [m \in DOMAIN r \cup {n} |-> IF m = n THEN v ELSE r[m]]

-----------------------------------------------------------------------------
(* Mutant: room for the rows is made as empty rows.                        *)
IngestBeginZeroRows ==
  /\ ingest = "idle"
  /\ ingest' = IF content = <<>> THEN "ok" ELSE "entities"
  /\ exclude' \in Excludes
  /\ rows' = [i \in DOMAIN content |-> <<>>]
  /\ UNCHANGED <<at, row, todo, added, stored>>

IngestBegin ==
  /\ ingest = "idle"
  /\ ingest' = IF content = <<>> THEN "ok" ELSE "entities"
  /\ exclude' \in Excludes
  /\ UNCHANGED <<at, row, todo, added, rows, stored>>

MapEntity ==
  /\ ingest = "entities"
  /\ at < Len(content)
  /\ Maps(content[at + 1])
  /\ at' = at + 1
  /\ row' = Mapped(content[at + 1])
  /\ todo' = Names(content[at + 1]) \cup {"__key__"}
  /\ added' = {}
  /\ ingest' = "range"
  /\ UNCHANGED <<exclude, rows, stored>>

MapError ==
  /\ ingest = "entities"
  /\ at < Len(content)
  /\ ~Maps(content[at + 1])
  /\ ingest' = "mapError"
  /\ UNCHANGED <<exclude, at, row, todo, added, rows, stored>>

Visits(n) == ingest = "range" /\ n \in todo \cup added

Drops(n) == n \in exclude \/ BadDate(row[n])

Drop(n) ==
  /\ Visits(n)
  /\ Drops(n)
  /\ row' = Without(n)
  /\ todo' = todo \ {n}
  /\ added' = added \ {n}
  /\ UNCHANGED <<exclude, ingest, at, rows, stored>>

(* Mutant: a valid name is deleted and added, like one that is renamed.    *)
KeepReadds(n) ==
  /\ Visits(n)
  /\ ~Drops(n)
  /\ MakeFieldName[n] = n
  /\ row' = With(row, n, Converted(row[n]))
  /\ todo' = todo \ {n}
  /\ added' = added \cup {n}
  /\ UNCHANGED <<exclude, ingest, at, rows, stored>>

Keep(n) ==
  /\ Visits(n)
  /\ ~Drops(n)
  /\ MakeFieldName[n] = n
  /\ row' = With(row, n, Converted(row[n]))
  /\ todo' = todo \ {n}
  /\ added' = added \ {n}
  /\ UNCHANGED <<exclude, ingest, at, rows, stored>>

(* Mutant: the invalid name is not deleted.                                *)
RenameKeepsOld(n) ==
  /\ Visits(n)
  /\ ~Drops(n)
  /\ MakeFieldName[n] # n
  /\ row' = With(row, MakeFieldName[n], Converted(row[n]))
  /\ todo' = todo \ {n}
  /\ added' = added \cup ({MakeFieldName[n]} \ DOMAIN row)
  /\ UNCHANGED <<exclude, ingest, at, rows, stored>>

(* The new name is an added one, unless it is there already.               *)
Rename(n) ==
  /\ Visits(n)
  /\ ~Drops(n)
  /\ MakeFieldName[n] # n
  /\ row' = With(Without(n), MakeFieldName[n], Converted(row[n]))
  /\ todo' = todo \ {n}
  /\ added' = added \cup ({MakeFieldName[n]} \ DOMAIN row)
  /\ UNCHANGED <<exclude, ingest, at, rows, stored>>

RowDone ==
  /\ ingest = "range"
  /\ todo = {}
  /\ rows' = Append(rows, With(row, "__timestamp__", Now))
  /\ ingest' = "entities"
  /\ UNCHANGED <<exclude, at, row, todo, added, stored>>

entityToRow ==
  MapEntity \/ (\E n \in Column : Drop(n) \/ Keep(n) \/ Rename(n)) \/ RowDone

-----------------------------------------------------------------------------
(* json.Marshal of the request.                                            *)
Encodes(r) == \A n \in DOMAIN r : ~NaN(r[n].cells[1])

(* Mutant: rows that cannot be encoded are left out.                       *)
PayloadAnyway ==
  /\ ingest = "entities"
  /\ at = Len(content)
  /\ ingest' = "post"
  /\ UNCHANGED <<exclude, at, row, todo, added, rows, stored>>

Payload ==
  /\ ingest = "entities"
  /\ at = Len(content)
  /\ ingest' = IF \A i \in DOMAIN rows : Encodes(rows[i]) THEN "post" ELSE "payloadError"
  /\ UNCHANGED <<exclude, at, row, todo, added, rows, stored>>

Post ==
  /\ ingest = "post"
  /\ table # NoTable
  /\ stored' = DOMAIN rows
  /\ ingest' = "ok"
  /\ UNCHANGED <<exclude, at, row, todo, added, rows>>

(* Mutant: the errors of single rows in the answer are not looked at.      *)
InsertErrorsIgnored ==
  /\ ingest = "post"
  /\ \E I \in SUBSET DOMAIN rows : stored' = I /\ (I # {} => table # NoTable)
  /\ ingest' = "ok"
  /\ UNCHANGED <<exclude, at, row, todo, added, rows>>

(* No client, no answer, an answer that is an error or cannot be read, or  *)
(* one with errors of some rows.                                           *)
PostError ==
  /\ ingest = "post"
  /\ \E I \in SUBSET DOMAIN rows : stored' = I /\ (I # {} => table # NoTable)
  /\ ingest' = "error"
  /\ UNCHANGED <<exclude, at, row, todo, added, rows>>

IngestToBigQuery == IngestBegin \/ entityToRow \/ MapError \/ Payload

=============================================================================

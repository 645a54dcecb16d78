----------------------------- MODULE TableSync ------------------------------
(***************************************************************************)
(* A table is created for a kind, and then a chunk of its entities is      *)
(* ingested: the two functions guess the same columns independently, one   *)
(* from the statistics of the kind, the other from each entity.            *)
(***************************************************************************)
EXTENDS Rows

vars == <<schemaVars, rowVars>>

FieldTypes == {"STRING", "TIMESTAMP", "BOOLEAN", "FLOAT", "INTEGER"}
FieldSet   ==
  SUBSET [name : Column, type : FieldTypes, of : Column \X (StatTypes \cup {""})]

TypeOK ==
  /\ content \in Seq([Name -> Seq(Property)])
  /\ create \in {"kindStats", "propertyStats", "insert", "ok", "error"}
  /\ unread \subseteq [name : Name, type : StatTypes, count : Nat]
  /\ fields \in FieldSet
  /\ table \in {NoTable, fields}
  /\ exclude \in Excludes
  /\ ingest \in {"idle", "entities", "range", "post"} \cup Result
  /\ at \in 0..Len(content)
  /\ DOMAIN row \subseteq Column
  /\ todo \subseteq DOMAIN row /\ added \subseteq DOMAIN row \ todo
  /\ Len(rows) = IF ingest = "range" THEN at - 1 ELSE at
  /\ \A i \in DOMAIN rows : DOMAIN rows[i] \subseteq Column
  /\ stored \subseteq DOMAIN rows

Init == SchemaInit /\ RowsInit

Creating  == (CreateTableHandler \/ CreateError) /\ UNCHANGED rowVars
Ingesting == (IngestToBigQuery \/ Post \/ PostError) /\ Created /\ UNCHANGED schemaVars

Next == Creating \/ Ingesting

Spec ==
  /\ Init /\ [][Next]_vars
  /\ WF_vars(CreateTableHandler /\ UNCHANGED rowVars)
  /\ WF_vars(Ingesting)

-----------------------------------------------------------------------------
(* Names of properties that go to one column, and a property's values.     *)
Sources(column) == {n \in Name : MakeFieldName[n] = column}

PropertiesOf(name) ==
  UNION {{content[e][name][i] : i \in DOMAIN content[e][name]} : e \in DOMAIN content}

(* No two properties have a field of the same name, though their names may *)
(* differ only in what is invalid in a column, and values under one name   *)
(* may have two types.  Only the columns of the key and of the time, which *)
(* SchemaForKind appends unseen, may have a twin, and at most one: that of *)
(* a property whose name becomes theirs.                                   *)
FieldsAreUnique ==
  /\ \A f, g \in fields \ {KeyField, TimeField} : f.name = g.name => f = g
  /\ Twins => \E n \in Name : MakeFieldName[n] \in Special /\ PropertiesOf(n) # {}

(* A cell is of the type that a column was declared with.                  *)
IsOfType(field, type) ==
  LET json == field.cells[1].json
  IN \/ json.json = "null"
     \/ type = "STRING"    /\ json.json = "string"
     \/ type = "TIMESTAMP" /\ json.json = "string" /\ Parses(json.text)
     \/ type = "BOOLEAN"   /\ json.json = "bool"
     \/ type = "FLOAT"     /\ json.json = "number"
     \/ type = "INTEGER"   /\ json.json = "number" /\ json.text = Int64(json.text)

(* A property that is always single, or always multiple and then with more *)
(* values than there are entities; whose values have one type that has a   *)
(* column, and is not that of a single key; alone with its column's name.  *)
Regular(name) ==
  \E type \in {StatType(p) : p \in PropertiesOf(name)} \ {"NULL"} :
    /\ FieldType(type) # ""
    /\ \A p \in PropertiesOf(name) : StatType(p) \in {type, "NULL"}
    /\ \A n \in Sources(MakeFieldName[name]) \ {name} : PropertiesOf(n) = {}
    /\ \/ /\ \A p \in PropertiesOf(name) : ~p.multiple
          /\ \A e \in DOMAIN content : Len(content[e][name]) <= 1
          /\ type # "Key"
       \/ /\ \A p \in PropertiesOf(name) : p.multiple
          /\ Cardinality(ValuesOf(name, type)) > Len(content)

(* What entityToRow makes of a regular property is of the type of the      *)
(* column that SchemaForKind found for it, in every row.  The others are   *)
(* where the two functions differ: a single key is sent as a list, a short *)
(* list of values as text, and a text that is not indexed has no column.   *)
HasColumn(r, column) ==
  \E f \in table : f.name = column /\ IsOfType(r[column], f.type)

RowsFitTable ==
  table # NoTable =>
    \A i \in DOMAIN rows :
      /\ \A n \in Name : /\ content[i][n] # <<>>
                         /\ MakeFieldName[n] \in DOMAIN rows[i]
                         /\ Regular(n)
                         => HasColumn(rows[i], MakeFieldName[n])
      /\ \A n \in Special \cap DOMAIN rows[i] : HasColumn(rows[i], n)

(* Each cell of a row is what was made of one property that goes to its    *)
(* column, whatever the order of the loop: a second visit only makes text  *)
(* of a key.  A property that is alone with its column is there, unless it *)
(* was excluded by one of the two names or is an invalid date, and then it *)
(* is not there if excluded by its own.  The column of the time is set at  *)
(* the end, over any property that goes to it.                             *)
MadeOf(field) == {Converted(field), Converted(Converted(field))}

RowIsAsMapped ==
  \A i \in DOMAIN rows :
    LET map == Mapped(content[i])
        Goes(n) == {m \in DOMAIN map : MakeFieldName[m] = MakeFieldName[n]}
    IN /\ \A c \in DOMAIN rows[i] \ {"__timestamp__"} :
            \E n \in DOMAIN map \ exclude :
              /\ MakeFieldName[n] = c
              /\ rows[i][c] \in MadeOf(map[n])
              /\ n = c => rows[i][c] = Converted(map[n])
       /\ \A n \in DOMAIN map : Goes(n) = {n} /\ MakeFieldName[n] # "__timestamp__" =>
            /\ MakeFieldName[n] \in DOMAIN rows[i] => ~BadDate(map[n])
            /\ {n, MakeFieldName[n]} \cap exclude = {} /\ ~BadDate(map[n])
                 => MakeFieldName[n] \in DOMAIN rows[i]

(* No error of IngestToBigQuery says that the rows of all the entities are *)
(* in the table.                                                           *)
OkMeansStored == ingest = "ok" => stored = DOMAIN content

(* One entity that has no row, or none that JSON can express, keeps all    *)
(* the others of its chunk out of the table, at every attempt: a float     *)
(* that is not a number, unless it is excluded or in a list; a value that  *)
(* the map has no form for, even if it is excluded.  A column of the key   *)
(* or the time may hide the float.                                         *)
Spoils(entity) ==
  \/ ~Maps(entity)
  \/ \E n \in Names(entity) :
       /\ MakeFieldName[n] \notin Special
       /\ NaN(Field(entity[n]).cells[1]) /\ ~Field(entity[n]).list
       /\ \A m \in Sources(MakeFieldName[n]) : m \notin exclude /\ (m = n \/ entity[m] = <<>>)

OneSpoilsAll ==
  (\E e \in DOMAIN content : Spoils(content[e])) => stored = {} /\ ingest # "ok"

(* Each visit of the loop over the map leaves it less to visit, though it  *)
(* adds names to the map: a name of the entity for good, or else one that  *)
(* was added.  So it ends, whatever the order and the names.               *)
Fewer(S, T) == S \subseteq T /\ S # T

VisitsRunOut ==
  [][ingest = "range" /\ ingest' = "range" =>
       Fewer(todo', todo) \/ (todo' = todo /\ Fewer(added', added))]_vars

(* The table is created or not, and IngestToBigQuery returns: the loop     *)
(* over the map ends although it adds to the map.                          *)
IngestEnds == <>(ingest \in Result)

=============================================================================

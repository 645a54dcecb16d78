------------------------------- MODULE Schema -------------------------------
(***************************************************************************)
(* bigquerysync.CreateTableForKind: SchemaForKind guesses a table schema   *)
(* from the statistics that the datastore keeps of a kind, one statistics  *)
(* entity for each type and name of a property, and the table is created.  *)
(***************************************************************************)
EXTENDS Codec, FiniteSets

CONSTANTS
  Name,           \* names of properties
  MakeFieldName,  \* for each name, the same with "_" for what is invalid
  Contents        \* kinds: each a sequence of entities, Name -> properties

(* The columns of the key and of the time.  The datastore keeps names like *)
(* these to itself, but "--key--" is a name of a property as good as any,  *)
(* and MakeFieldName makes "__key__" of it.                                *)
Special == {"__key__", "__timestamp__"}
Column  == Name \cup Special

ASSUME NameAssumption ==
  /\ Name \cap Special = {}
  /\ MakeFieldName \in [Column -> Column]
  /\ \A n \in Special : MakeFieldName[n] = n
  /\ \A n \in Column : MakeFieldName[MakeFieldName[n]] = MakeFieldName[n]

ASSUME ContentsAssumption == Contents \subseteq Seq([Name -> Seq(Property)])

VARIABLES
  content,     \* the entities of the kind
  create,      \* "kindStats", "propertyStats", "insert", "ok" or "error"
  unread,      \* statistics that the query has still to return
  fields,      \* schema.Fields
  table        \* the fields of the table in BigQuery, NoTable without one

schemaVars == <<content, create, unread, fields, table>>

NoTable == {}

-----------------------------------------------------------------------------
(* What the datastore counts: values by type and name.  A string that is   *)
(* not indexed is a Text.                                                  *)
StatType(p) ==
  CASE p.value.type = "int"     -> "Integer"
    [] p.value.type = "float"   -> "Float"
    [] p.value.type = "string"  -> IF p.noIndex THEN "Text" ELSE "String"
    [] p.value.type = "bool"    -> "Boolean"
    [] p.value.type = "nil"     -> "NULL"
    [] p.value.type = "key"     -> "Key"
    [] p.value.type = "blobkey" -> "BlobKey"
    [] p.value.type = "date"    -> "Date/Time"
    [] p.value.type = "blob"    -> "Blob"
    [] OTHER                    -> "GeoPt"

StatTypes == {"Integer", "Float", "Text", "String", "Boolean", "NULL", "Key",
              "BlobKey", "Date/Time", "Blob", "GeoPt"}

(* The values of one type under one name, as places in the kind.           *)
ValuesOf(name, type) ==
  UNION {{<<e, i>> : i \in {j \in DOMAIN content[e][name] :
                              StatType(content[e][name][j]) = type}}
         : e \in DOMAIN content}

Stats ==
  {[name |-> x[1], type |-> x[2], count |-> Cardinality(ValuesOf(x[1], x[2]))]
     : x \in {y \in Name \X StatTypes : ValuesOf(y[1], y[2]) # {}}}

-----------------------------------------------------------------------------
(* The switch over s.Type; "" leaves the property out.                     *)
FieldType(type) ==
  CASE type \in {"Blob", "BlobKey", "Key", "String"} -> "STRING"
    [] type = "Date/Time" -> "TIMESTAMP"
    [] type = "Boolean"   -> "BOOLEAN"
    [] type = "Float"     -> "FLOAT"
    [] type = "Integer"   -> "INTEGER"
    [] OTHER              -> ""

(* Mutant: as many values as entities make a repeated property.            *)
RepeatedAtEqual(count) == count >= Len(content)

Repeated(count) == count > Len(content)

(* schema.Fields is a list of pointers, so that two fields of one name and *)
(* type are two: a field is of the statistics that it was made from.  The  *)
(* order is that of the names at the end, and nothing else depends on it.  *)
FieldFor(s) ==
  [name |-> MakeFieldName[s.name],
   type |-> IF Repeated(s.count) THEN "STRING" ELSE FieldType(s.type),
   of   |-> <<s.name, s.type>>]

KeyField  == [name |-> "__key__", type |-> "STRING", of |-> <<"__key__", "">>]
TimeField == [name |-> "__timestamp__", type |-> "TIMESTAMP", of |-> <<"__timestamp__", "">>]

containsField(n) == \E f \in fields : f.name = n

(* Mutant: the name is looked up as the datastore has it.                  *)
AddedUnlessRaw(s) ==
  IF containsField(s.name) \/ FieldFor(s).type = ""
    THEN {} ELSE {FieldFor(s)}

AddedFields(s) ==
  IF containsField(MakeFieldName[s.name]) \/ FieldFor(s).type = ""
    THEN {} ELSE {FieldFor(s)}

SchemaInit ==
  /\ content \in Contents
  /\ create = "kindStats"
  /\ unread = {}
  /\ fields = {}
  /\ table = NoTable

(* The Get of the kind's own statistics.  An empty kind has none.          *)
NoKindStats ==
  /\ create = "kindStats"
  /\ content = <<>>
  /\ create' = "error"
  /\ UNCHANGED <<content, unread, fields, table>>

KindStats ==
  /\ create = "kindStats"
  /\ content # <<>>
  /\ create' = "propertyStats"
  /\ unread' = Stats
  /\ UNCHANGED <<content, fields, table>>

(* Mutant: the query is run in the loop, not before it.                    *)
PropertyStatsRerun ==
  /\ create = "propertyStats"
  /\ \E s \in unread : fields' = fields \cup AddedFields(s)
  /\ unread' = Stats
  /\ UNCHANGED <<content, create, table>>

(* One turn of the loop.  No order of the query is relied upon.            *)
PropertyStats ==
  /\ create = "propertyStats"
  /\ \E s \in unread :
       /\ fields' = fields \cup AddedFields(s)
       /\ unread' = unread \ {s}
  /\ UNCHANGED <<content, create, table>>

(* The columns of the key and of the time are appended at the end, whether *)
(* containsField or not.                                                   *)
SchemaDone ==
  /\ create = "propertyStats"
  /\ unread = {}
  /\ fields' = fields \cup {KeyField, TimeField}
  /\ create' = "insert"
  /\ UNCHANGED <<content, unread, table>>

(* BigQuery takes no schema with two columns of one name.                  *)
Twins == \E f, g \in fields : f.name = g.name /\ f # g

TableInsert ==
  /\ create = "insert"
  /\ ~Twins
  /\ table' = fields
  /\ create' = "ok"
  /\ UNCHANGED <<content, unread, fields>>

SchemaRefused ==
  /\ create = "insert"
  /\ Twins
  /\ create' = "error"
  /\ UNCHANGED <<content, unread, fields, table>>

(* An error of the datastore or of BigQuery; a table may be there then.    *)
CreateError ==
  /\ create \in {"kindStats", "propertyStats", "insert"}
  /\ create' = "error"
  /\ table' \in IF create = "insert" /\ ~Twins THEN {NoTable, fields} ELSE {NoTable}
  /\ UNCHANGED <<content, unread, fields>>

CreateTableHandler ==
  \/ NoKindStats \/ KindStats \/ PropertyStats \/ SchemaDone
  \/ TableInsert \/ SchemaRefused

Created == create \in {"ok", "error"}

=============================================================================

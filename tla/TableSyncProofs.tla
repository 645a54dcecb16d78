-------------------------- MODULE TableSyncProofs ---------------------------
(***************************************************************************)
(* Proofs about the creation of a table and the ingestion of rows into it, *)
(* for any kinds, names of properties and exclusions.                      *)
(***************************************************************************)
EXTENDS TableSync, FiniteSetTheorems, SequenceTheorems, TLAPS

(* What the types rest on: names that the loop over a map added to it are  *)
(* valid ones, and there is no table before it was asked for.              *)
RangeTyped ==
  /\ \A n \in added : MakeFieldName[n] = n
  /\ \E S : rows \in Seq(S)
  /\ ingest = "idle" => at = 0 /\ stored = {}
  /\ ingest = "range" => at > 0
  /\ ~Created => table = NoTable

WellTyped == TypeOK /\ RangeTyped

-----------------------------------------------------------------------------
LEMMA Kind ==
  ASSUME TypeOK
  PROVE  /\ content \in Seq([Name -> Seq(Property)])
         /\ Len(content) \in Nat /\ DOMAIN content = 1..Len(content)
         /\ \A e \in DOMAIN content : content[e] \in [Name -> Seq(Property)]
<1>1. content \in Seq([Name -> Seq(Property)])
  BY DEF TypeOK
<1> QED
  BY <1>1

LEMMA Appended ==
  ASSUME NEW S, NEW s \in Seq(S), NEW x
  PROVE  /\ Append(s, x) \in Seq(S \cup {x})
         /\ Len(Append(s, x)) = Len(s) + 1
         /\ DOMAIN Append(s, x) = 1..(Len(s) + 1)
         /\ \A i \in 1..Len(s) : Append(s, x)[i] = s[i]
         /\ Append(s, x)[Len(s) + 1] = x
OBVIOUS

LEMMA ImageFinite ==
  ASSUME NEW S, IsFiniteSet(S), NEW f, DOMAIN f = S, f = [x \in S |-> f[x]]
  PROVE  IsFiniteSet({f[x] : x \in S})
<1> DEFINE T == {f[x] : x \in S}
<1>1. f \in Surjection(S, T)
  BY DEF Surjection
<1> QED
  BY <1>1, FS_Surjection

(* Statistics of the kind: a finite number of values each.                 *)
LEMMA StatsTyped ==
  ASSUME TypeOK
  PROVE  Stats \subseteq [name : Name, type : StatTypes, count : Nat]
<1>1. ASSUME NEW name \in Name, NEW type \in StatTypes
      PROVE  Cardinality(ValuesOf(name, type)) \in Nat
  <2> DEFINE J(e) == {j \in DOMAIN content[e][name] : StatType(content[e][name][j]) = type}
             Pair(e) == [i \in J(e) |-> <<e, i>>]
             V(e) == {Pair(e)[i] : i \in J(e)}
             W == [e \in DOMAIN content |-> V(e)]
  <2>1. ASSUME NEW e \in DOMAIN content
        PROVE  IsFiniteSet(V(e))
    <3>1. content[e][name] \in Seq(Property)
      BY Kind
    <3>2. DOMAIN content[e][name] = 1..Len(content[e][name]) /\ Len(content[e][name]) \in Nat
      BY <3>1
    <3>3. IsFiniteSet(DOMAIN content[e][name])
      BY <3>2, FS_Interval
    <3>4. IsFiniteSet(J(e))
      BY <3>3, FS_Subset
    <3> QED
      BY <3>4, ImageFinite
  <2>2. IsFiniteSet(DOMAIN content)
    BY Kind, FS_Interval
  <2>3. IsFiniteSet({W[e] : e \in DOMAIN content})
    BY <2>2, ImageFinite
  <2>4. IsFiniteSet(UNION {W[e] : e \in DOMAIN content})
    BY <2>1, <2>3, FS_UNION
  <2>5. ValuesOf(name, type) = UNION {W[e] : e \in DOMAIN content}
    <3>1. ASSUME NEW e \in DOMAIN content
          PROVE  W[e] = {<<e, i>> : i \in J(e)}
      OBVIOUS
    <3> HIDE DEF W, V
    <3> QED
      BY <3>1 DEF ValuesOf
  <2> QED
    BY <2>4, <2>5, FS_CardinalityType
<1> QED
  BY <1>1 DEF Stats

LEMMA FieldForTyped ==
  ASSUME NEW s \in [name : Name, type : StatTypes, count : Nat]
  PROVE  AddedFields(s) \subseteq
           [name : Column, type : FieldTypes, of : Column \X (StatTypes \cup {""})]
<1>1. FieldType(s.type) \in FieldTypes \cup {""}
  BY Zenon DEF FieldType, FieldTypes
<1>2. MakeFieldName[s.name] \in Column /\ <<s.name, s.type>> \in Column \X StatTypes
  BY NameAssumption DEF Column
<1>3. "STRING" \in FieldTypes
  BY DEF FieldTypes
<1>4. CASE AddedFields(s) = {}
  BY <1>4
<1>5. CASE AddedFields(s) # {}
  <2>1. AddedFields(s) = {FieldFor(s)} /\ FieldFor(s).type # ""
    BY <1>5, Zenon DEF AddedFields
  <2>2. FieldFor(s).type \in FieldTypes \cup {""}
    BY <1>1, <1>3 DEF FieldFor
  <2>3. FieldFor(s) \in [name : Column, type : FieldTypes, of : Column \X (StatTypes \cup {""})]
    BY <2>1, <2>2, <1>2 DEF FieldFor
  <2> QED
    BY <2>1, <2>2, <2>3
<1> QED
  BY <1>4, <1>5

-----------------------------------------------------------------------------
LEMMA TypedInit == Init => WellTyped
<1> SUFFICES ASSUME Init PROVE WellTyped
  OBVIOUS
<1>1. content \in Seq([Name -> Seq(Property)])
  BY ContentsAssumption DEF Init, SchemaInit
<1>2. {} \in Excludes /\ Len(content) \in Nat
  BY <1>1, ExcludesAssumption
<1>3. rows \in Seq({}) /\ Len(rows) = 0 /\ DOMAIN rows = {}
  BY DEF Init, RowsInit
<1>4. DOMAIN row = {}
  BY DEF Init, RowsInit
<1> QED
  BY <1>1, <1>2, <1>3, <1>4 DEF Init, SchemaInit, RowsInit, WellTyped, TypeOK, RangeTyped, NoTable, FieldSet

LEMMA CreatingTyped ==
  ASSUME WellTyped, Creating
  PROVE  WellTyped'
<1>1. UNCHANGED <<content, exclude, ingest, at, row, todo, added, rows, stored>>
  BY DEF Creating, rowVars, CreateTableHandler, CreateError, NoKindStats, KindStats,
         PropertyStats, SchemaDone, TableInsert, SchemaRefused
<1>2. /\ create' \in {"kindStats", "propertyStats", "insert", "ok", "error"}
      /\ unread' \subseteq [name : Name, type : StatTypes, count : Nat]
  BY StatsTyped
  DEF WellTyped, TypeOK, Creating, CreateTableHandler, CreateError, NoKindStats, KindStats,
      PropertyStats, SchemaDone, TableInsert, SchemaRefused
<1>3. fields' \in FieldSet
  <2>1. CASE PropertyStats
    <3>1. PICK s \in unread : fields' = fields \cup AddedFields(s)
      BY <2>1 DEF PropertyStats
    <3>2. AddedFields(s) \in FieldSet
      BY FieldForTyped DEF WellTyped, TypeOK, FieldSet
    <3> QED
      BY <3>1, <3>2 DEF WellTyped, TypeOK, FieldSet
  <2>2. CASE SchemaDone
    <3> DEFINE R == Column \X (StatTypes \cup {""})
    <3>1. /\ "__key__" \in Column /\ "__timestamp__" \in Column
          /\ "STRING" \in FieldTypes /\ "TIMESTAMP" \in FieldTypes
      BY DEF Column, Special, FieldTypes
    <3>2. "" \in StatTypes \cup {""}
      OBVIOUS
    <3>3. <<"__key__", "">> \in R /\ <<"__timestamp__", "">> \in R
      BY <3>1, <3>2
    <3> HIDE DEF R
    <3>4. ASSUME NEW n \in Column, NEW type \in FieldTypes, NEW of \in R
          PROVE  [name |-> n, type |-> type, of |-> of]
                   \in [name : Column, type : FieldTypes, of : R]
      OBVIOUS
    <3>5. /\ KeyField \in [name : Column, type : FieldTypes, of : R]
          /\ TimeField \in [name : Column, type : FieldTypes, of : R]
      BY <3>1, <3>3, <3>4, Zenon DEF KeyField, TimeField
    <3>6. {KeyField, TimeField} \in FieldSet
      BY <3>5 DEF FieldSet, R
    <3> QED
      BY <2>2, <3>6 DEF SchemaDone, WellTyped, TypeOK, FieldSet
  <2>3. CASE UNCHANGED fields
    BY <2>3 DEF WellTyped, TypeOK
  <2> QED
    BY <2>1, <2>2, <2>3
    DEF Creating, CreateTableHandler, CreateError, NoKindStats, KindStats, TableInsert, SchemaRefused
<1>4. table' \in {NoTable, fields'} /\ (~Created' => table' = NoTable)
  <2>1. CASE TableInsert \/ CreateError
    BY <2>1 DEF TableInsert, CreateError, Created, WellTyped, TypeOK, RangeTyped
  <2>2. ASSUME ~(TableInsert \/ CreateError)
        PROVE  ~Created /\ table' = table
    BY <2>2 DEF Creating, CreateTableHandler, NoKindStats, KindStats, PropertyStats, SchemaDone,
                SchemaRefused, Created
  <2> QED
    BY <2>1, <2>2 DEF WellTyped, RangeTyped
<1>5. TypeOK'
  BY <1>1, <1>2, <1>3, <1>4 DEF WellTyped, TypeOK
<1> QED
  BY <1>1, <1>4, <1>5 DEF WellTyped, RangeTyped

-----------------------------------------------------------------------------
LEMMA MappedTyped ==
  ASSUME TypeOK, NEW e \in DOMAIN content
  PROVE  /\ DOMAIN Mapped(content[e]) = Names(content[e]) \cup {"__key__"}
         /\ Names(content[e]) \subseteq Name
         /\ DOMAIN Mapped(content[e]) \subseteq Column
BY Kind DEF Mapped, Names, Column, Special

LEMMA RangeStepTyped ==
  ASSUME WellTyped, NEW n \in Column, Drop(n) \/ Keep(n) \/ Rename(n)
  PROVE  /\ DOMAIN row' \subseteq Column
         /\ todo' \subseteq DOMAIN row' /\ added' \subseteq DOMAIN row' \ todo'
         /\ \A m \in added' : MakeFieldName[m] = m
<1>1. /\ n \in DOMAIN row /\ DOMAIN row \subseteq Column
      /\ todo \subseteq DOMAIN row /\ added \subseteq DOMAIN row \ todo
      /\ \A m \in added : MakeFieldName[m] = m
  BY DEF WellTyped, TypeOK, RangeTyped, Drop, Keep, Rename, Visits
<1>2. CASE Drop(n)
  BY <1>1, <1>2 DEF Drop, Without
<1>3. CASE Keep(n)
  BY <1>1, <1>3 DEF Keep, With
<1>4. CASE Rename(n)
  <2>1. /\ MakeFieldName[n] \in Column /\ MakeFieldName[n] # n
        /\ MakeFieldName[MakeFieldName[n]] = MakeFieldName[n]
    BY <1>4, NameAssumption DEF Rename
  <2>2. DOMAIN row' = (DOMAIN row \ {n}) \cup {MakeFieldName[n]}
    BY <1>4 DEF Rename, With, Without
  <2>3. n \notin added
    BY <1>1, <2>1
  <2>4. todo' = todo \ {n} /\ added' = added \cup ({MakeFieldName[n]} \ DOMAIN row)
    BY <1>4 DEF Rename
  <2> QED
    BY <1>1, <2>1, <2>2, <2>3, <2>4
<1> QED
  BY <1>2, <1>3, <1>4

LEMMA IngestingTyped ==
  ASSUME WellTyped, Ingesting
  PROVE  WellTyped'
<1>1. UNCHANGED <<content, create, unread, fields, table>>
  BY DEF Ingesting, schemaVars
<1>2. Len(content) \in Nat /\ DOMAIN content = 1..Len(content)
  BY Kind DEF WellTyped
<1>3. PICK S : rows \in Seq(S)
  BY DEF WellTyped, RangeTyped
<1>4. DOMAIN rows = 1..Len(rows) /\ Len(rows) \in Nat
  BY <1>3
<1>5. CASE IngestBegin \/ MapError \/ Payload
  BY <1>1, <1>5 DEF WellTyped, TypeOK, RangeTyped, IngestBegin, MapError, Payload, Result, Created
<1>6. CASE MapEntity
  <2>1. at + 1 \in DOMAIN content /\ at \in Nat /\ at + 1 > 0
    BY <1>2, <1>6 DEF MapEntity, WellTyped, TypeOK
  <2>2. /\ DOMAIN row' = Names(content[at + 1]) \cup {"__key__"}
        /\ DOMAIN row' \subseteq Column
    BY <1>6, <2>1, MappedTyped DEF MapEntity, WellTyped
  <2>3. TypeOK'
    BY <1>1, <1>2, <1>6, <2>1, <2>2 DEF MapEntity, WellTyped, TypeOK
  <2> QED
    BY <1>1, <1>6, <2>1, <2>3 DEF MapEntity, WellTyped, RangeTyped, Created
<1>7. CASE \E n \in Column : Drop(n) \/ Keep(n) \/ Rename(n)
  <2>1. PICK n \in Column : Drop(n) \/ Keep(n) \/ Rename(n)
    BY <1>7
  <2>2. ingest = "range" /\ UNCHANGED <<exclude, ingest, at, rows, stored>>
    BY <2>1 DEF Drop, Keep, Rename, Visits
  <2> QED
    BY <1>1, <2>1, <2>2, RangeStepTyped DEF WellTyped, TypeOK, RangeTyped, Created
<1>8. CASE RowDone
  <2> DEFINE r == With(row, "__timestamp__", Now)
  <2>1. DOMAIN r \subseteq Column
    BY DEF With, WellTyped, TypeOK, Column, Special
  <2>2. rows' = Append(rows, r) /\ UNCHANGED <<exclude, at, row, todo, added, stored>>
        /\ ingest = "range" /\ ingest' = "entities"
    BY <1>8 DEF RowDone
  <2> HIDE DEF r
  <2>3. /\ rows' \in Seq(S \cup {r}) /\ Len(rows') = Len(rows) + 1
        /\ DOMAIN rows' = 1..(Len(rows) + 1)
        /\ \A i \in 1..Len(rows) : rows'[i] = rows[i]
        /\ rows'[Len(rows) + 1] = r
    BY <1>3, <2>2, Appended
  <2>4. \A i \in DOMAIN rows' : DOMAIN rows'[i] \subseteq Column
    <3>1. \A i \in 1..Len(rows) : DOMAIN rows[i] \subseteq Column
      BY <1>4 DEF WellTyped, TypeOK
    <3>2. ASSUME NEW i \in 1..Len(rows) PROVE DOMAIN rows'[i] \subseteq Column
      BY <2>3, <3>1
    <3>3. DOMAIN rows'[Len(rows) + 1] \subseteq Column
      BY <2>1, <2>3
    <3>4. ASSUME NEW i \in DOMAIN rows' PROVE i \in 1..Len(rows) \/ i = Len(rows) + 1
      BY <1>4, <2>3
    <3> QED
      BY <3>2, <3>3, <3>4
  <2>5. Len(rows') = at
    BY <1>2, <2>2, <2>3 DEF WellTyped, TypeOK
  <2>6. TypeOK'
    BY <1>1, <1>4, <2>2, <2>3, <2>4, <2>5 DEF WellTyped, TypeOK
  <2> QED
    BY <1>1, <2>2, <2>3, <2>6 DEF WellTyped, RangeTyped, Created
<1>9. CASE Post \/ PostError
  <2>1. stored' \subseteq DOMAIN rows /\ ingest = "post" /\ ingest' \in {"ok", "error"}
        /\ UNCHANGED <<exclude, at, row, todo, added, rows>>
    BY <1>9 DEF Post, PostError
  <2> QED
    BY <1>1, <2>1 DEF WellTyped, TypeOK, RangeTyped, Result, Created
<1> QED
  BY <1>5, <1>6, <1>7, <1>8, <1>9 DEF Ingesting, IngestToBigQuery, entityToRow

LEMMA TypedInv == Spec => []WellTyped
<1>1. WellTyped /\ [Next]_vars => WellTyped'
  <2> SUFFICES ASSUME WellTyped, [Next]_vars PROVE WellTyped'
    OBVIOUS
  <2>1. CASE UNCHANGED vars
    BY <2>1 DEF WellTyped, TypeOK, RangeTyped, Created, vars, schemaVars, rowVars
  <2> QED
    BY <2>1, CreatingTyped, IngestingTyped DEF Next
<1> QED
  BY <1>1, TypedInit, PTL DEF Spec

(* The schema and its table, the map of an entity while it is made a row,  *)
(* and the rows keep their types.                                          *)
THEOREM TableTypeCorrect == Spec => []TypeOK
<1>1. WellTyped => TypeOK
  BY DEF WellTyped
<1> QED
  BY <1>1, TypedInv, PTL

-----------------------------------------------------------------------------
(* A field of a property is added only if there is none of its name.       *)
OneEach == \A f, g \in fields \ {KeyField, TimeField} : f.name = g.name => f = g

LEMMA OneEachStep == OneEach /\ [Next]_vars => OneEach'
<1> SUFFICES ASSUME OneEach, [Next]_vars PROVE OneEach'
  OBVIOUS
<1>1. CASE PropertyStats
  <2>1. PICK s \in unread : fields' = fields \cup AddedFields(s)
    BY <1>1 DEF PropertyStats
  <2>2. AddedFields(s) = {} \/ AddedFields(s) = {FieldFor(s)}
    BY DEF AddedFields
  <2>3. AddedFields(s) # {} => \A f \in fields : f.name # FieldFor(s).name
    BY DEF AddedFields, containsField, FieldFor
  <2> QED
    BY <2>1, <2>2, <2>3 DEF OneEach
<1>2. CASE SchemaDone
  BY <1>2 DEF SchemaDone, OneEach
<1>3. CASE ~PropertyStats /\ ~SchemaDone
  <2>1. UNCHANGED fields
    BY <1>3 DEF Next, Creating, Ingesting, CreateTableHandler, CreateError, NoKindStats,
       KindStats, TableInsert, SchemaRefused, vars, schemaVars
  <2> QED
    BY <2>1 DEF OneEach
<1> QED
  BY <1>1, <1>2, <1>3

LEMMA OneEachInvariant == Spec => []OneEach
<1>1. Init => OneEach
  BY DEF Init, SchemaInit, OneEach
<1> QED
  BY <1>1, OneEachStep, PTL DEF Spec

-----------------------------------------------------------------------------
(* The rows that are posted are those of all the entities.                 *)
StoredInv ==
  /\ ingest = "post" => at = Len(content)
  /\ OkMeansStored

LEMMA StoredStep == WellTyped /\ StoredInv /\ [Next]_vars => StoredInv'
<1> SUFFICES ASSUME WellTyped, StoredInv, [Next]_vars PROVE StoredInv'
  OBVIOUS
<1>1. UNCHANGED content
  BY DEF Next, Creating, Ingesting, CreateTableHandler, CreateError, NoKindStats, KindStats,
     PropertyStats, SchemaDone, TableInsert, SchemaRefused, vars, schemaVars
<1>2. DOMAIN content = 1..Len(content) /\ DOMAIN rows = 1..Len(rows)
  BY Kind DEF WellTyped, RangeTyped
<1>3. CASE IngestBegin
  <2>1. content = <<>> => DOMAIN content = {}
    OBVIOUS
  <2>2. /\ ingest = "idle" /\ UNCHANGED stored
        /\ ingest' \in {"ok", "entities"} /\ (ingest' = "ok" => content = <<>>)
    BY <1>3 DEF IngestBegin
  <2>3. stored = {}
    BY <2>2 DEF WellTyped, RangeTyped
  <2> QED
    BY <1>1, <2>1, <2>2, <2>3 DEF StoredInv, OkMeansStored
<1>4. CASE Post
  BY <1>1, <1>2, <1>4 DEF Post, StoredInv, OkMeansStored, WellTyped, TypeOK
<1>5. CASE Payload
  BY <1>1, <1>5 DEF Payload, StoredInv, OkMeansStored
<1>6. CASE PostError \/ MapError \/ entityToRow
  BY <1>6 DEF PostError, MapError, entityToRow, MapEntity, RowDone, Drop, Keep, Rename, Visits,
     StoredInv, OkMeansStored
<1>7. CASE Creating \/ UNCHANGED vars
  BY <1>1, <1>7 DEF Creating, rowVars, vars, StoredInv, OkMeansStored
<1> QED
  BY <1>3, <1>4, <1>5, <1>6, <1>7 DEF Next, Ingesting, IngestToBigQuery

(* IngestToBigQuery returns no error only when the rows of all the         *)
(* entities are in the table.                                              *)
THEOREM NoErrorMeansStored == Spec => []OkMeansStored
<1>1. Init => StoredInv
  BY DEF Init, RowsInit, StoredInv, OkMeansStored
<1>2. StoredInv => OkMeansStored
  BY DEF StoredInv
<1> QED
  BY <1>1, <1>2, StoredStep, TypedInv, PTL DEF Spec

-----------------------------------------------------------------------------
(* The loop over the map of an entity: of a map that was only partly       *)
(* visited, each column is still as it was mapped and to be visited, or it *)
(* was made of a property that goes to it; and no property that is due a   *)
(* column is forgotten.                                                    *)
Goes(map, n) == {m \in DOMAIN map : MakeFieldName[m] = MakeFieldName[n]}

MadeBy(map, c, m) ==
  /\ MakeFieldName[m] = c
  /\ ~BadDate(map[m])
  /\ row[c] \in MadeOf(map[m])
  /\ m = c => row[c] = Converted(map[c]) /\ c \notin todo \cup added
  /\ c \in todo \cup added => row[c] = Converted(map[m])

Columns(map) ==
  \A c \in DOMAIN row :
    \/ c \in todo /\ c \in DOMAIN map /\ row[c] = map[c]
    \/ \E m \in DOMAIN map \ exclude : MadeBy(map, c, m)

Due(map, n) ==
  Goes(map, n) = {n} /\ {n, MakeFieldName[n]} \cap exclude = {} /\ ~BadDate(map[n])

NoneLost(map) ==
  \A n \in DOMAIN map : Due(map, n) => n \in todo \/ MakeFieldName[n] \in DOMAIN row

LoopInv == ingest = "range" => Columns(Mapped(content[at])) /\ NoneLost(Mapped(content[at]))

AsMapped(r, map) ==
  /\ \A c \in DOMAIN r \ {"__timestamp__"} :
       \E n \in DOMAIN map \ exclude :
         /\ MakeFieldName[n] = c
         /\ r[c] \in MadeOf(map[n])
         /\ n = c => r[c] = Converted(map[n])
  /\ \A n \in DOMAIN map : Goes(map, n) = {n} /\ MakeFieldName[n] # "__timestamp__" =>
       /\ MakeFieldName[n] \in DOMAIN r => ~BadDate(map[n])
       /\ Due(map, n) => MakeFieldName[n] \in DOMAIN r

RowsInv == LoopInv /\ \A i \in DOMAIN rows : AsMapped(rows[i], Mapped(content[i]))

LEMMA ConvertedPlain ==
  ASSUME NEW f, NEW v \in MadeOf(f)
  PROVE  ~BadDate(v)
<1>1. ASSUME NEW g PROVE ~BadDate(Converted(g))
  <2>1. \E x : Converted(g) = Single(x)
    BY DEF Converted, Text
  <2>2. \A x : ~BadDate(Single(x))
    BY DEF BadDate, Single, Bare
  <2> QED
    BY <2>1, <2>2
<1> QED
  BY <1>1 DEF MadeOf

(* What is known of the name that is visited.                              *)
LEMMA Visited ==
  ASSUME WellTyped, NEW map, DOMAIN map \subseteq Column, Columns(map), NEW n, Visits(n)
  PROVE  /\ n \in DOMAIN row
         /\ \/ n \in todo /\ n \in DOMAIN map /\ row[n] = map[n]
            \/ /\ MakeFieldName[n] = n
               /\ ~BadDate(row[n])
               /\ \E m \in DOMAIN map \ exclude :
                    /\ MakeFieldName[m] = n /\ m # n /\ ~BadDate(map[m])
                    /\ row[n] = Converted(map[m])
<1>1. n \in DOMAIN row /\ n \in todo \cup added
  BY DEF Visits, WellTyped, TypeOK
<1>2. CASE n \in todo /\ n \in DOMAIN map /\ row[n] = map[n]
  BY <1>1, <1>2
<1>3. ASSUME NEW m \in DOMAIN map \ exclude, MadeBy(map, n, m)
      PROVE  /\ MakeFieldName[m] = n /\ m # n /\ ~BadDate(map[m])
             /\ row[n] = Converted(map[m]) /\ ~BadDate(row[n])
  BY <1>1, <1>3, ConvertedPlain DEF MadeBy
<1> QED
  <2>1. \A m \in DOMAIN map : MakeFieldName[MakeFieldName[m]] = MakeFieldName[m]
    BY NameAssumption
  <2> QED
    BY <1>1, <1>2, <1>3, <2>1 DEF Columns

LEMMA DropKeeps ==
  ASSUME WellTyped, NEW map, DOMAIN map \subseteq Column, Columns(map), NoneLost(map),
         NEW n \in Column, Drop(n)
  PROVE  Columns(map)' /\ NoneLost(map)'
<1>1. /\ DOMAIN row' = DOMAIN row \ {n} /\ todo' = todo \ {n} /\ added' = added \ {n}
      /\ \A c \in DOMAIN row' : row'[c] = row[c]
      /\ exclude' = exclude /\ Visits(n) /\ Drops(n)
  BY DEF Drop, Without
<1>2. Columns(map)'
  <2> SUFFICES ASSUME NEW c \in DOMAIN row'
               PROVE  \/ c \in todo' /\ c \in DOMAIN map /\ row'[c] = map[c]
                      \/ \E m \in DOMAIN map \ exclude' : MadeBy(map, c, m)'
    BY DEF Columns
  <2>1. c \in DOMAIN row /\ c # n /\ row'[c] = row[c]
    BY <1>1
  <2>2. \A m : MadeBy(map, c, m) => MadeBy(map, c, m)'
    BY <1>1, <2>1 DEF MadeBy
  <2> QED
    BY <1>1, <2>1, <2>2 DEF Columns
<1>3. NoneLost(map)'
  <2> SUFFICES ASSUME NEW k \in DOMAIN map, Due(map, k)
               PROVE  k \in todo' \/ MakeFieldName[k] \in DOMAIN row'
    BY <1>1 DEF NoneLost, Due
  <2>1. k \in todo \/ MakeFieldName[k] \in DOMAIN row
    BY DEF NoneLost
  <2>2. /\ n # k /\ n # MakeFieldName[k]
    <3>1. /\ \A m \in DOMAIN map : MakeFieldName[m] = MakeFieldName[k] => m = k
          /\ k \notin exclude /\ MakeFieldName[k] \notin exclude /\ ~BadDate(map[k])
      BY DEF Due, Goes
    <3>2. MakeFieldName[MakeFieldName[k]] = MakeFieldName[k]
      BY NameAssumption
    <3>3. SUFFICES ASSUME n = k \/ n = MakeFieldName[k] PROVE FALSE
      OBVIOUS
    <3>4. BadDate(row[n])
      BY <1>1, <3>1, <3>3 DEF Drops
    <3>5. n \in DOMAIN map /\ row[n] = map[n]
      BY <1>1, <3>4, Visited
    <3> QED
      BY <3>1, <3>2, <3>3, <3>4, <3>5
  <2> QED
    BY <1>1, <2>1, <2>2
<1> QED
  BY <1>2, <1>3

LEMMA KeepKeeps ==
  ASSUME WellTyped, NEW map, DOMAIN map \subseteq Column, Columns(map), NoneLost(map),
         NEW n \in Column, Keep(n)
  PROVE  Columns(map)' /\ NoneLost(map)'
<1>1. /\ n \in DOMAIN row
      /\ DOMAIN row' = DOMAIN row /\ todo' = todo \ {n} /\ added' = added \ {n}
      /\ \A c \in DOMAIN row : row'[c] = IF c = n THEN Converted(row[n]) ELSE row[c]
      /\ exclude' = exclude /\ Visits(n) /\ n \notin exclude /\ ~BadDate(row[n])
      /\ MakeFieldName[n] = n
  <2>1. n \in DOMAIN row
    BY DEF Keep, Visits, WellTyped, TypeOK
  <2> QED
    BY <2>1 DEF Keep, With, Drops
<1>2. Columns(map)'
  <2> SUFFICES ASSUME NEW c \in DOMAIN row'
               PROVE  \/ c \in todo' /\ c \in DOMAIN map /\ row'[c] = map[c]
                      \/ \E m \in DOMAIN map \ exclude' : MadeBy(map, c, m)'
    BY DEF Columns
  <2>1. CASE c # n
    <3>1. c \in DOMAIN row /\ row'[c] = row[c]
      BY <1>1, <2>1
    <3>2. \A m : MadeBy(map, c, m) => MadeBy(map, c, m)'
      BY <1>1, <2>1, <3>1 DEF MadeBy
    <3> QED
      BY <1>1, <2>1, <3>1, <3>2 DEF Columns
  <2>2. CASE c = n
    <3>1. row'[c] = Converted(row[n]) /\ c \notin todo' \cup added'
      BY <1>1, <2>2
    <3>2. CASE n \in DOMAIN map /\ row[n] = map[n]
      <4>1. MadeBy(map, c, n)'
        BY <1>1, <2>2, <3>1, <3>2 DEF MadeBy, MadeOf
      <4> QED
        BY <1>1, <3>2, <4>1
    <3>3. ASSUME NEW m \in DOMAIN map \ exclude, MakeFieldName[m] = n, m # n, ~BadDate(map[m]),
                 row[n] = Converted(map[m])
          PROVE  MadeBy(map, c, m)'
      BY <2>2, <3>1, <3>3 DEF MadeBy, MadeOf
    <3> QED
      BY <1>1, <3>2, <3>3, Visited
  <2> QED
    BY <2>1, <2>2
<1>3. NoneLost(map)'
  BY <1>1 DEF NoneLost, Due
<1> QED
  BY <1>2, <1>3

LEMMA RenameKeeps ==
  ASSUME WellTyped, NEW map, DOMAIN map \subseteq Column, Columns(map), NoneLost(map),
         NEW n \in Column, Rename(n)
  PROVE  Columns(map)' /\ NoneLost(map)'
<1> DEFINE f == MakeFieldName[n]
<1>1. /\ f # n /\ MakeFieldName[f] = f
      /\ Visits(n) /\ n \notin exclude /\ ~BadDate(row[n])
  BY NameAssumption DEF Rename, Drops
<1>2. n \in todo /\ n \in DOMAIN map /\ row[n] = map[n]
  BY <1>1, Visited
<1>3. /\ DOMAIN row' = (DOMAIN row \ {n}) \cup {f} /\ row'[f] = Converted(row[n])
      /\ \A c \in DOMAIN row \ {n, f} : row'[c] = row[c]
      /\ todo' = todo \ {n} /\ added' = added \cup ({f} \ DOMAIN row)
      /\ exclude' = exclude
  BY <1>1 DEF Rename, With, Without
<1>4. Columns(map)'
  <2> SUFFICES ASSUME NEW c \in DOMAIN row'
               PROVE  \/ c \in todo' /\ c \in DOMAIN map /\ row'[c] = map[c]
                      \/ \E m \in DOMAIN map \ exclude' : MadeBy(map, c, m)'
    BY DEF Columns
  <2>1. CASE c # f
    <3>1. c \in DOMAIN row /\ c # n /\ row'[c] = row[c]
      BY <1>3, <2>1
    <3>2. \A m : MadeBy(map, c, m) => MadeBy(map, c, m)'
      BY <1>3, <2>1, <3>1 DEF MadeBy
    <3> QED
      BY <1>3, <3>1, <3>2 DEF Columns
  <2>2. CASE c = f
    <3>1. MadeBy(map, c, n)'
      BY <1>1, <1>2, <1>3, <2>2 DEF MadeBy, MadeOf
    <3> QED
      BY <1>1, <1>2, <1>3, <3>1
  <2> QED
    BY <2>1, <2>2
<1>5. NoneLost(map)'
  <2> SUFFICES ASSUME NEW k \in DOMAIN map, Due(map, k)
               PROVE  k \in todo' \/ MakeFieldName[k] \in DOMAIN row'
    BY <1>3 DEF NoneLost, Due
  <2>1. k \in todo \/ MakeFieldName[k] \in DOMAIN row
    BY DEF NoneLost
  <2>2. MakeFieldName[MakeFieldName[k]] = MakeFieldName[k]
    BY NameAssumption
  <2> QED
    BY <1>1, <1>3, <2>1, <2>2
<1> QED
  BY <1>4, <1>5

(* At the end nothing is to be visited, and the time is added.             *)
LEMMA DoneAsMapped ==
  ASSUME WellTyped, NEW map, DOMAIN map \subseteq Column \ {"__timestamp__"},
         Columns(map), NoneLost(map), todo = {}
  PROVE  AsMapped(With(row, "__timestamp__", Now), map)
<1> DEFINE r == With(row, "__timestamp__", Now)
<1>1. /\ DOMAIN r = DOMAIN row \cup {"__timestamp__"}
      /\ \A c \in DOMAIN r \ {"__timestamp__"} : c \in DOMAIN row /\ r[c] = row[c]
  BY DEF With
<1> HIDE DEF r
<1>2. \A c \in DOMAIN row : \E m \in DOMAIN map \ exclude : MadeBy(map, c, m)
  BY DEF Columns
<1>3. ASSUME NEW c \in DOMAIN r \ {"__timestamp__"}
      PROVE  \E n \in DOMAIN map \ exclude :
               /\ MakeFieldName[n] = c
               /\ r[c] \in MadeOf(map[n])
               /\ n = c => r[c] = Converted(map[n])
  BY <1>1, <1>2 DEF MadeBy
<1>4. ASSUME NEW n \in DOMAIN map, Goes(map, n) = {n}, MakeFieldName[n] # "__timestamp__"
      PROVE  /\ MakeFieldName[n] \in DOMAIN r => ~BadDate(map[n])
             /\ Due(map, n) => MakeFieldName[n] \in DOMAIN r
  <2>2. ASSUME MakeFieldName[n] \in DOMAIN r
        PROVE  ~BadDate(map[n])
    <3>1. PICK m \in DOMAIN map : MadeBy(map, MakeFieldName[n], m)
      BY <1>1, <1>2, <1>4, <2>2
    <3>2. MakeFieldName[m] = MakeFieldName[n] /\ ~BadDate(map[m])
      BY <3>1 DEF MadeBy
    <3>3. m = n
      BY <1>4, <3>2 DEF Goes
    <3> QED
      BY <3>2, <3>3
  <2>3. Due(map, n) => MakeFieldName[n] \in DOMAIN r
    BY <1>1 DEF NoneLost
  <2> QED
    BY <2>2, <2>3
<1> QED
  BY <1>3, <1>4 DEF AsMapped, r

LEMMA RowsStep == WellTyped /\ RowsInv /\ [Next]_vars => RowsInv'
<1> SUFFICES ASSUME WellTyped, RowsInv, [Next]_vars PROVE RowsInv'
  OBVIOUS
<1>1. UNCHANGED content
  BY DEF Next, Creating, Ingesting, CreateTableHandler, CreateError, NoKindStats, KindStats,
     PropertyStats, SchemaDone, TableInsert, SchemaRefused, vars, schemaVars
<1>2. UNCHANGED <<rows, exclude>>
        => \A i \in DOMAIN rows' : AsMapped(rows[i], Mapped(content[i]))'
  BY <1>1 DEF RowsInv, AsMapped, Due
<1>3. CASE MapEntity
  <2> PICK map : map = Mapped(content[at + 1])
    OBVIOUS
  <2>1. /\ row' = map /\ at' = at + 1 /\ ingest' = "range" /\ UNCHANGED rows
        /\ todo' = DOMAIN map /\ map = Mapped(content[at])' /\ UNCHANGED exclude
    BY <1>1, <1>3 DEF MapEntity, Mapped
  <2>2. Columns(map)' /\ NoneLost(map)'
    BY <2>1 DEF Columns, NoneLost
  <2>3. LoopInv'
    BY <2>1, <2>2 DEF LoopInv
  <2> QED
    BY <1>2, <2>1, <2>3 DEF RowsInv
<1>4. CASE \E n \in Column : Drop(n) \/ Keep(n) \/ Rename(n)
  <2>1. PICK n \in Column : Drop(n) \/ Keep(n) \/ Rename(n)
    BY <1>4
  <2> PICK map : map = Mapped(content[at])
    OBVIOUS
  <2>2. /\ ingest = "range" /\ UNCHANGED <<ingest, at, rows, exclude>>
        /\ map = Mapped(content[at])'
    BY <1>1, <2>1 DEF Drop, Keep, Rename, Visits
  <2>3. at \in DOMAIN content
    BY <2>2, Kind DEF WellTyped, TypeOK, RangeTyped
  <2>4. DOMAIN map \subseteq Column
    BY <2>3, MappedTyped DEF WellTyped
  <2>5. Columns(map) /\ NoneLost(map)
    BY <2>2 DEF RowsInv, LoopInv
  <2>6. Columns(map)' /\ NoneLost(map)'
    BY <2>1, <2>4, <2>5, DropKeeps, KeepKeeps, RenameKeeps
  <2>7. LoopInv'
    BY <2>2, <2>6 DEF LoopInv
  <2> QED
    BY <1>2, <2>2, <2>7 DEF RowsInv
<1>5. CASE RowDone
  <2> PICK map : map = Mapped(content[at])
    OBVIOUS
  <2> DEFINE r == With(row, "__timestamp__", Now)
  <2>1. /\ ingest = "range" /\ ingest' = "entities" /\ todo = {} /\ rows' = Append(rows, r)
        /\ UNCHANGED exclude
    BY <1>5 DEF RowDone
  <2>2. at \in DOMAIN content /\ at = Len(rows) + 1
    BY <2>1, Kind DEF WellTyped, TypeOK, RangeTyped
  <2>3. DOMAIN map \subseteq Column \ {"__timestamp__"}
    <3>1. DOMAIN map = Names(content[at]) \cup {"__key__"} /\ Names(content[at]) \subseteq Name
      BY <2>2, MappedTyped DEF WellTyped
    <3> QED
      BY <3>1, NameAssumption DEF Column, Special
  <2>4. AsMapped(r, map)
    BY <2>1, <2>3, DoneAsMapped DEF RowsInv, LoopInv
  <2> HIDE DEF r
  <2>5. /\ DOMAIN rows = 1..Len(rows) /\ DOMAIN rows' = 1..at
        /\ \A i \in 1..Len(rows) : rows'[i] = rows[i]
        /\ rows'[at] = r /\ Len(rows) \in Nat
    BY <2>1, <2>2, Appended DEF WellTyped, RangeTyped
  <2>6. ASSUME NEW i \in DOMAIN rows'
        PROVE  AsMapped(rows[i], Mapped(content[i]))'
    <3>1. CASE i \in DOMAIN rows
      <4>1. AsMapped(rows[i], Mapped(content[i]))
        BY <3>1 DEF RowsInv
      <4> QED
        BY <1>1, <2>1, <2>5, <3>1, <4>1 DEF AsMapped, Due
    <3>2. CASE i = at
      BY <1>1, <2>1, <2>4, <2>5, <3>2 DEF AsMapped, Due
    <3> QED
      BY <2>2, <2>5, <3>1, <3>2
  <2> QED
    BY <2>1, <2>6 DEF RowsInv, LoopInv
<1>6. CASE IngestBegin
  <2>1. DOMAIN rows = {}
    BY <1>6 DEF IngestBegin, WellTyped, TypeOK, RangeTyped
  <2> QED
    BY <1>6, <2>1 DEF IngestBegin, RowsInv, LoopInv
<1>7. CASE MapError \/ Payload \/ Post \/ PostError
  <2>1. UNCHANGED <<rows, exclude>> /\ ingest' # "range"
    BY <1>7 DEF MapError, Payload, Post, PostError
  <2> QED
    BY <1>2, <2>1 DEF RowsInv, LoopInv
<1>8. CASE Creating \/ UNCHANGED vars
  <2>1. UNCHANGED <<content, rowVars>>
    BY <1>1, <1>8 DEF Creating, vars
  <2> QED
    BY <2>1 DEF rowVars, RowsInv, LoopInv, Columns, NoneLost, MadeBy, AsMapped, Due
<1> QED
  BY <1>3, <1>4, <1>5, <1>6, <1>7, <1>8 DEF Next, Ingesting, IngestToBigQuery, entityToRow

LEMMA RowsInvariant == Spec => []RowsInv
<1>1. Init => RowsInv
  BY DEF Init, RowsInit, RowsInv, LoopInv
<1> QED
  BY <1>1, RowsStep, TypedInv, PTL DEF Spec

(* Every row holds what was made of the properties of its entity, whatever *)
(* the order in which Go visits a map that the loop adds to.               *)
THEOREM RowsAreAsMapped == Spec => []RowIsAsMapped
<1>1. RowsInv => RowIsAsMapped
  <2> SUFFICES ASSUME RowsInv PROVE RowIsAsMapped
    OBVIOUS
  <2>1. \A i \in DOMAIN rows : AsMapped(rows[i], Mapped(content[i]))
    BY DEF RowsInv
  <2> QED
    BY <2>1, Zenon DEF RowIsAsMapped, AsMapped, Goes, Due
<1> QED
  BY <1>1, RowsInvariant, PTL

-----------------------------------------------------------------------------
(* Only rows that JSON can express are posted, and all of them are made    *)
(* before the first one is stored.                                         *)
SpoilInv ==
  /\ \A i \in 1..at : Maps(content[i])
  /\ ingest \in {"post", "ok", "error"}
       => at = Len(content) /\ \A i \in DOMAIN rows : Encodes(rows[i])
  /\ ingest \notin {"ok", "error"} => stored = {}

LEMMA SpoilStep == WellTyped /\ SpoilInv /\ [Next]_vars => SpoilInv'
<1> SUFFICES ASSUME WellTyped, SpoilInv, [Next]_vars PROVE SpoilInv'
  OBVIOUS
<1>1. UNCHANGED content
  BY DEF Next, Creating, Ingesting, CreateTableHandler, CreateError, NoKindStats, KindStats,
     PropertyStats, SchemaDone, TableInsert, SchemaRefused, vars, schemaVars
<1>2. at \in Nat
  BY Kind DEF WellTyped, TypeOK
<1>3. CASE MapEntity
  <2>1. /\ at' = at + 1 /\ ingest' = "range" /\ ingest = "entities" /\ stored' = stored
        /\ Maps(content[at + 1])
    BY <1>3 DEF MapEntity
  <2> QED
    BY <1>1, <1>2, <2>1 DEF SpoilInv
<1>4. CASE IngestBegin
  <2>1. /\ ingest = "idle" /\ UNCHANGED <<at, rows, stored>>
        /\ ingest' \in {"ok", "entities"} /\ (ingest' = "ok" => content = <<>>)
    BY <1>4 DEF IngestBegin
  <2>2. at = 0 /\ DOMAIN rows = {} /\ (content = <<>> => Len(content) = 0)
    BY <2>1 DEF WellTyped, TypeOK, RangeTyped
  <2> QED
    BY <1>1, <2>1, <2>2 DEF SpoilInv
<1>5. CASE Payload
  BY <1>1, <1>5 DEF Payload, SpoilInv
<1>6. CASE MapError \/ Post \/ PostError
  BY <1>1, <1>6 DEF MapError, Post, PostError, SpoilInv
<1>7. CASE (\E n \in Column : Drop(n) \/ Keep(n) \/ Rename(n)) \/ RowDone
  <2>1. /\ ingest = "range" /\ ingest' \in {"range", "entities"} /\ UNCHANGED <<at, stored>>
    BY <1>7 DEF Drop, Keep, Rename, Visits, RowDone
  <2> QED
    BY <1>1, <2>1 DEF SpoilInv
<1>8. CASE Creating \/ UNCHANGED vars
  BY <1>1, <1>8 DEF Creating, rowVars, vars, SpoilInv
<1> QED
  BY <1>3, <1>4, <1>5, <1>6, <1>7, <1>8 DEF Next, Ingesting, IngestToBigQuery, entityToRow

(* A float that is not a number stays one, at whichever visit.             *)
LEMMA NaNConverted ==
  ASSUME NEW f, NaN(f.cells[1]), ~f.list, f.cells[1].type # "blob", NEW v \in MadeOf(f)
  PROVE  NaN(v.cells[1])
<1>1. ASSUME NEW g, NaN(g.cells[1]), ~g.list, g.cells[1].type # "blob"
      PROVE  /\ Converted(g) = Single(g.cells[1].json)
             /\ NaN(Converted(g).cells[1]) /\ ~Converted(g).list
             /\ Converted(g).cells[1].type # "blob"
  <2>1. ~IsList(g) /\ ~Blobs(g.cells[1])
    BY <1>1 DEF IsList, Blobs, NaN
  <2>2. Converted(g) = Single(g.cells[1].json)
    BY <2>1, Zenon DEF Converted
  <2>3. Converted(g).cells[1] = Bare(g.cells[1].json) /\ ~Converted(g).list
    BY <2>2 DEF Single
  <2>4. Bare(g.cells[1].json).json = g.cells[1].json /\ Bare(g.cells[1].json).type = ""
    BY DEF Bare
  <2> QED
    BY <1>1, <2>2, <2>3, <2>4 DEF NaN
<1>2. NaN(Converted(f).cells[1]) /\ ~Converted(f).list /\ Converted(f).cells[1].type # "blob"
  BY <1>1
<1>3. NaN(Converted(Converted(f)).cells[1])
  BY <1>1, <1>2
<1> QED
  BY <1>2, <1>3 DEF MadeOf

LEMMA NaNCell ==
  ASSUME NEW ps \in Seq(Property), ps # <<>>, NaN(Field(ps).cells[1]), ~Field(ps).list
  PROVE  Field(ps).cells[1].type \notin {"blob", "date"}
<1>1. PICK p \in Property : p = ps[Len(ps)]
  OBVIOUS
<1>2. ~p.multiple /\ Field(ps).cells[1] = Cell(p)
  BY <1>1 DEF Field
<1>3. Json(p.value).json = "number"
  <2>1. Cell(p).json = Json(p.value)
    BY DEF Cell, Bare, toMap
  <2> QED
    BY <1>2, <2>1 DEF NaN
<1>4. p.value.type \notin {"blob", "date"}
  BY <1>3 DEF Json, Number
<1>5. Cell(p).type \in {"", p.value.type}
  BY DEF Cell, Bare, toMap
<1> QED
  BY <1>2, <1>4, <1>5

LEMMA SpoiledRow ==
  ASSUME WellTyped, RowsInv, NEW e \in DOMAIN rows, Maps(content[e]), Spoils(content[e])
  PROVE  ~Encodes(rows[e])
<1> PICK map : map = Mapped(content[e])
  OBVIOUS
<1>1. e \in DOMAIN content
  BY Kind DEF WellTyped, TypeOK, RangeTyped
<1>2. PICK n \in Names(content[e]) :
        /\ MakeFieldName[n] \notin Special
        /\ NaN(Field(content[e][n]).cells[1]) /\ ~Field(content[e][n]).list
        /\ \A m \in Sources(MakeFieldName[n]) : m \notin exclude /\ (m = n \/ content[e][m] = <<>>)
  BY DEF Spoils
<1>3. /\ DOMAIN map = Names(content[e]) \cup {"__key__"} /\ Names(content[e]) \subseteq Name
      /\ content[e] \in [Name -> Seq(Property)]
  BY <1>1, MappedTyped, Kind DEF WellTyped
<1>4. n \in Name /\ n # "__key__" /\ map[n] = Field(content[e][n]) /\ content[e][n] # <<>>
  BY <1>2, <1>3, NameAssumption DEF Mapped, Special, Names
<1>5. map[n].cells[1].type \notin {"blob", "date"}
  BY <1>2, <1>3, <1>4, NaNCell
<1>6. /\ MakeFieldName[n] \notin {"__key__", "__timestamp__"}
      /\ MakeFieldName[n] \in Name /\ MakeFieldName[MakeFieldName[n]] = MakeFieldName[n]
      /\ MakeFieldName["__key__"] = "__key__"
  BY <1>2, <1>4, NameAssumption DEF Column, Special
<1>7. "__key__" \notin Name /\ "__timestamp__" \notin Name
  BY NameAssumption DEF Special
<1>8. Goes(map, n) = {n}
  <2>1. \A m \in Names(content[e]) : MakeFieldName[m] = MakeFieldName[n] => m = n
    BY <1>2, <1>3 DEF Sources, Names
  <2> QED
    BY <1>2, <1>3, <1>6, <1>7, <2>1 DEF Goes
<1>9. Due(map, n)
  <2>1. n \notin exclude /\ MakeFieldName[n] \notin exclude
    BY <1>2, <1>4, <1>6 DEF Sources
  <2>2. ~BadDate(map[n])
    BY <1>5 DEF BadDate
  <2> QED
    BY <1>8, <2>1, <2>2 DEF Due
<1>10. AsMapped(rows[e], map)
  BY DEF RowsInv
<1>11. MakeFieldName[n] \in DOMAIN rows[e]
  BY <1>2, <1>3, <1>6, <1>8, <1>9, <1>10 DEF AsMapped
<1>12. PICK m \in DOMAIN map :
         MakeFieldName[m] = MakeFieldName[n] /\ rows[e][MakeFieldName[n]] \in MadeOf(map[m])
  BY <1>6, <1>7, <1>10, <1>11 DEF AsMapped
<1>13. m = n
  BY <1>8, <1>12 DEF Goes
<1>14. NaN(rows[e][MakeFieldName[n]].cells[1])
  BY <1>2, <1>4, <1>5, <1>12, <1>13, NaNConverted
<1> QED
  BY <1>11, <1>14 DEF Encodes

(* One entity without a row, or with one that JSON cannot express, keeps   *)
(* all the entities of its chunk out of the table.                         *)
THEOREM OneEntitySpoilsItsChunk == Spec => []OneSpoilsAll
<1>1. Init => SpoilInv
  BY DEF Init, RowsInit, SpoilInv
<1>2. WellTyped /\ RowsInv /\ SpoilInv => OneSpoilsAll
  <2> SUFFICES ASSUME WellTyped, RowsInv, SpoilInv, NEW e \in DOMAIN content, Spoils(content[e])
               PROVE  stored = {} /\ ingest # "ok"
    BY DEF OneSpoilsAll
  <2>1. CASE ingest \in {"post", "ok", "error"}
    <3>1. e \in DOMAIN rows /\ e \in 1..at
      BY <2>1, Kind DEF SpoilInv, WellTyped, TypeOK, RangeTyped
    <3>2. Maps(content[e]) /\ Encodes(rows[e])
      BY <2>1, <3>1 DEF SpoilInv
    <3> QED
      BY <3>1, <3>2, SpoiledRow
  <2> QED
    BY <2>1 DEF SpoilInv
<1> QED
  BY <1>1, <1>2, SpoilStep, TypedInv, RowsInvariant, PTL DEF Spec

-----------------------------------------------------------------------------
(* What SchemaForKind has found: each field is for a statistic of the      *)
(* kind or one of the two that are appended at the end, each statistic     *)
(* that it has read and has a type for has a field.                        *)
Appends == {KeyField, TimeField}

IsFor(f, s) == f = FieldFor(s) /\ f.type # ""

HaveFields(S) ==
  \A s \in S : FieldFor(s).type # "" => \E f \in fields \ Appends : f.name = MakeFieldName[s.name]

SchemaInv ==
  /\ \A f \in fields : f \in Appends \/ \E s \in Stats : IsFor(f, s)
  /\ create \in {"kindStats", "propertyStats"} => fields \cap Appends = {}
  /\ create = "propertyStats" => unread \subseteq Stats /\ HaveFields(Stats \ unread)
  /\ create = "insert" \/ table # NoTable => HaveFields(Stats) /\ Appends \subseteq fields
  /\ table # NoTable => ~Twins

LEMMA NotSpecial ==
  ASSUME WellTyped, NEW s \in Stats
  PROVE  FieldFor(s) \notin Appends
<1>1. s.name \in Name
  BY StatsTyped DEF WellTyped
<1>2. s.name \notin {"__key__", "__timestamp__"}
  BY <1>1, NameAssumption DEF Special
<1>3. FieldFor(s).of[1] = s.name /\ KeyField.of[1] = "__key__" /\ TimeField.of[1] = "__timestamp__"
  BY DEF FieldFor, KeyField, TimeField
<1> QED
  BY <1>2, <1>3 DEF Appends

LEMMA SchemaStep == WellTyped /\ SchemaInv /\ [Next]_vars => SchemaInv'
<1> SUFFICES ASSUME WellTyped, SchemaInv, [Next]_vars PROVE SchemaInv'
  OBVIOUS
<1>1. UNCHANGED content
  BY DEF Next, Creating, Ingesting, CreateTableHandler, CreateError, NoKindStats, KindStats,
     PropertyStats, SchemaDone, TableInsert, SchemaRefused, vars, schemaVars
<1>2. Stats' = Stats
  BY <1>1 DEF Stats, ValuesOf
<1>3. \A s : FieldFor(s)' = FieldFor(s)
  BY <1>1 DEF FieldFor, Repeated
<1>4. ~Created => table = NoTable
  BY DEF WellTyped, RangeTyped
<1>5. CASE KindStats
  <2>1. /\ create = "kindStats" /\ create' = "propertyStats" /\ unread' = Stats
        /\ UNCHANGED <<fields, table>> /\ table = NoTable
    BY <1>4, <1>5 DEF KindStats, Created
  <2> QED
    BY <1>2, <1>3, <2>1 DEF SchemaInv, IsFor, HaveFields
<1>6. CASE PropertyStats
  <2>1. PICK s \in unread : fields' = fields \cup AddedFields(s) /\ unread' = unread \ {s}
    BY <1>6 DEF PropertyStats
  <2>2. /\ create = "propertyStats" /\ UNCHANGED <<create, table>> /\ table = NoTable
    BY <1>4, <1>6 DEF PropertyStats, Created
  <2>3. unread \subseteq Stats /\ s \in Stats /\ HaveFields(Stats \ unread)
    BY <2>1, <2>2 DEF SchemaInv
  <2>4. \/ AddedFields(s) = {} /\ (containsField(MakeFieldName[s.name]) \/ FieldFor(s).type = "")
        \/ AddedFields(s) = {FieldFor(s)} /\ FieldFor(s).type # ""
    BY DEF AddedFields
  <2>5. FieldFor(s).name = MakeFieldName[s.name]
    BY DEF FieldFor
  <2>6. /\ fields' \cap Appends = {}
        /\ FieldFor(s).type # "" => \E f \in fields' : f.name = MakeFieldName[s.name]
    BY <2>1, <2>2, <2>3, <2>4, <2>5, NotSpecial DEF containsField, SchemaInv
  <2>7. HaveFields(Stats \ unread)'
    BY <1>2, <1>3, <2>1, <2>3, <2>6 DEF HaveFields
  <2>8. \A f \in fields' : f \in Appends \/ \E x \in Stats : IsFor(f, x)
    BY <2>1, <2>3, <2>4 DEF SchemaInv, IsFor
  <2> QED
    BY <1>2, <1>3, <2>1, <2>2, <2>3, <2>6, <2>7, <2>8 DEF SchemaInv, IsFor
<1>7. CASE SchemaDone
  <2>1. /\ create = "propertyStats" /\ unread = {} /\ create' = "insert"
        /\ fields' = fields \cup Appends /\ UNCHANGED table /\ table = NoTable
    BY <1>4, <1>7 DEF SchemaDone, Created, Appends
  <2>2. HaveFields(Stats)'
    BY <1>2, <1>3, <2>1 DEF SchemaInv, HaveFields
  <2> QED
    BY <1>2, <1>3, <2>1, <2>2 DEF SchemaInv, IsFor
<1>8. CASE TableInsert \/ CreateError \/ NoKindStats \/ SchemaRefused
  <2>1. /\ create' \in {"ok", "error"} /\ UNCHANGED fields
        /\ table' # NoTable => create = "insert" /\ ~Twins
    BY <1>4, <1>8 DEF TableInsert, CreateError, NoKindStats, SchemaRefused, Created
  <2>2. Twins' = Twins
    BY <2>1 DEF Twins
  <2> QED
    BY <1>2, <1>3, <2>1, <2>2 DEF SchemaInv, IsFor, HaveFields
<1>9. CASE Ingesting \/ UNCHANGED vars
  <2>1. UNCHANGED schemaVars
    BY <1>9 DEF Ingesting, vars
  <2> QED
    BY <1>2, <1>3, <2>1 DEF schemaVars, SchemaInv, IsFor, HaveFields, Twins
<1> QED
  BY <1>5, <1>6, <1>7, <1>8, <1>9 DEF Next, Creating, CreateTableHandler

LEMMA SchemaInvariant == Spec => []SchemaInv
<1>1. Init => SchemaInv
  BY DEF Init, SchemaInit, SchemaInv
<1> QED
  BY <1>1, SchemaStep, TypedInv, PTL DEF Spec

-----------------------------------------------------------------------------
(* A single value: what is made of it, at whichever visit.                 *)
LEMMA ValueTyped ==
  ASSUME NEW v \in Value
  PROVE  v.type \in Plain \cup Typed \cup NoForm /\ v.text \in Texts(v.type)
BY DEF Value

LEMMA SingleHolds ==
  ASSUME NEW json
  PROVE  /\ Single(json).list = FALSE
         /\ Single(json).cells[1].object = FALSE
         /\ Single(json).cells[1].json = json
<1>1. Single(json).list = FALSE /\ Single(json).cells[1] = Bare(json)
  BY DEF Single
<1>2. Bare(json).object = FALSE /\ Bare(json).json = json
  BY DEF Bare
<1> QED
  BY <1>1, <1>2

LEMMA CellHolds ==
  ASSUME NEW p \in Property
  PROVE  /\ Cell(p).json = Json(p.value)
         /\ p.value.type \in Typed => Cell(p).object = TRUE /\ Cell(p).type = p.value.type
         /\ Cell(p).type \in {"", p.value.type}
<1>1. CASE p.value.type \in Plain /\ ~p.noIndex
  BY <1>1 DEF Cell, Bare, Plain, Typed
<1>2. CASE ~(p.value.type \in Plain /\ ~p.noIndex)
  BY <1>2 DEF Cell, toMap, Typed
<1> QED
  BY <1>1, <1>2

LEMMA ConvertedTwice ==
  ASSUME NEW json, json.json # "array"
  PROVE  Converted(Single(json)) = Single(json)
<1>1. ~IsList(Single(json)) /\ ~Blobs(Single(json).cells[1])
  BY SingleHolds DEF IsList, Blobs
<1> QED
  BY <1>1, SingleHolds DEF Converted

LEMMA SingleConverted ==
  ASSUME NEW p \in Property, p.value.type # "key", NEW f,
         ~f.list, f.cells[1] = Cell(p), NEW v \in MadeOf(f)
  PROVE  v = Single(IF p.value.type = "blob" THEN [json |-> "string", text |-> "(blob)"]
                                             ELSE Json(p.value))
<1> DEFINE json == IF p.value.type = "blob" THEN [json |-> "string", text |-> "(blob)"]
                                            ELSE Json(p.value)
<1>1. /\ Cell(p).json = Json(p.value) /\ Cell(p).type \in {"", p.value.type}
      /\ p.value.type = "blob" => Cell(p).object = TRUE /\ Cell(p).type = "blob"
  BY CellHolds DEF Typed
<1>2. Json(p.value).json # "array"
  BY DEF Json, Number
<1>3. ~IsList(f)
  BY <1>1, <1>2 DEF IsList
<1>4. Blobs(f.cells[1]) <=> p.value.type = "blob"
  BY <1>1 DEF Blobs
<1>5. Converted(f) = Single(json)
  BY <1>1, <1>3, <1>4 DEF Converted, Text
<1>6. json.json # "array"
  BY <1>2
<1>7. Converted(Converted(f)) = Single(json)
  BY <1>5, <1>6, ConvertedTwice
<1> QED
  BY <1>5, <1>7 DEF MadeOf

(* It is of the type of the column of its statistic.                       *)
LEMMA SingleFits ==
  ASSUME NEW p \in Property, NEW type \in {StatType(p)} \cup StatTypes,
         StatType(p) \in {type, "NULL"}, type # "Key", FieldType(type) # "", NEW f,
         ~f.list, f.cells[1] = Cell(p), ~BadDate(f), NEW v \in MadeOf(f)
  PROVE  IsOfType(v, FieldType(type))
<1> DEFINE json == IF p.value.type = "blob" THEN [json |-> "string", text |-> "(blob)"]
                                            ELSE Json(p.value)
<1>1. p.value.type \in Plain \cup Typed \cup NoForm /\ p.value.text \in Texts(p.value.type)
  BY ValueTyped DEF Property
<1>2. p.value.type # "key"
  BY DEF StatType
<1>3. v.cells[1].json = json
  BY <1>2, SingleConverted, SingleHolds
<1> HIDE DEF json
<1>4. CASE p.value.type = "nil"
  <2>1. json.json = "null"
    BY <1>4 DEF Json, Number, json
  <2> QED
    BY <1>3, <2>1 DEF IsOfType
<1>5. ASSUME p.value.type # "nil"
      PROVE  StatType(p) = type
  BY <1>1, <1>5 DEF StatType, Plain, Typed, NoForm
<1>6. CASE p.value.type = "int"
  <2>1. type = "Integer" /\ p.value.text \in {"7", "8"}
    BY <1>1, <1>5, <1>6 DEF StatType, Texts
  <2>2. json.json = "number" /\ json.text = Int64(json.text)
    BY <1>6, <2>1 DEF Json, Number, Int64, json
  <2> QED
    BY <1>3, <2>1, <2>2 DEF IsOfType, FieldType
<1>7. CASE p.value.type = "float"
  <2>1. type = "Float" /\ json.json = "number"
    BY <1>5, <1>7 DEF StatType, Json, Number, json
  <2> QED
    BY <1>3, <2>1 DEF IsOfType, FieldType
<1>8. CASE p.value.type = "bool"
  <2>1. type = "Boolean" /\ json.json = "bool"
    BY <1>5, <1>8 DEF StatType, Json, Number, json
  <2> QED
    BY <1>3, <2>1 DEF IsOfType, FieldType
<1>9. CASE p.value.type = "date"
  <2>1. type = "Date/Time" /\ json = Json(p.value) /\ json.json = "string"
    BY <1>5, <1>9 DEF StatType, Json, Number, json
  <2>2. f.cells[1].object /\ f.cells[1].type = "date" /\ f.cells[1].json = Json(p.value)
    BY <1>9, CellHolds DEF Typed
  <2>3. Parses(json.text)
    BY <2>1, <2>2 DEF BadDate
  <2> QED
    BY <1>3, <2>1, <2>3 DEF IsOfType, FieldType
<1>10. CASE p.value.type \in {"string", "blobkey", "blob"}
  <2>1. json.json = "string"
    BY <1>10 DEF Json, Number, json
  <2>2. FieldType(type) = "STRING"
    BY <1>5, <1>10 DEF StatType, FieldType
  <2> QED
    BY <1>3, <2>1, <2>2 DEF IsOfType
<1>11. CASE p.value.type = "geo"
  BY <1>5, <1>11 DEF StatType, FieldType
<1> QED
  BY <1>1, <1>2, <1>4, <1>6, <1>7, <1>8, <1>9, <1>10, <1>11 DEF Plain, Typed, NoForm

(* A list is sent as a text.                                               *)
LEMMA ListFits ==
  ASSUME NEW f, IsList(f), NEW v \in MadeOf(f)
  PROVE  IsOfType(v, "STRING")
<1> DEFINE json == [json |-> "string", text |-> marshalField(f.cells)]
<1>1. Converted(f) = Single(json)
  BY DEF Converted, Text
<1>2. Converted(Converted(f)) = Single(json)
  BY <1>1, ConvertedTwice
<1>3. v.cells[1].json = json
  BY <1>1, <1>2, SingleHolds DEF MadeOf
<1> QED
  BY <1>3 DEF IsOfType

-----------------------------------------------------------------------------
(* Statistics of a property that is never multiple.                        *)
LEMMA FewValues ==
  ASSUME TypeOK, NEW n \in Name, \A e \in DOMAIN content : Len(content[e][n]) <= 1,
         NEW type
  PROVE  ~Repeated(Cardinality(ValuesOf(n, type)))
<1> DEFINE N == Len(content)
           Place == [e \in 1..N |-> <<e, 1>>]
           T == {Place[e] : e \in 1..N}
<1>1. N \in Nat /\ DOMAIN content = 1..N
  BY Kind
<1>2. IsFiniteSet(1..N) /\ Cardinality(1..N) = N
  BY <1>1, FS_Interval
<1>3. Place \in Surjection(1..N, T)
  BY DEF Surjection
<1>4. IsFiniteSet(T) /\ Cardinality(T) <= N
  BY <1>2, <1>3, FS_Surjection
<1>5. ValuesOf(n, type) \subseteq T
  <2> SUFFICES ASSUME NEW e \in DOMAIN content, NEW j \in DOMAIN content[e][n]
               PROVE  <<e, j>> \in T
    BY DEF ValuesOf
  <2>1. content[e][n] \in Seq(Property) /\ Len(content[e][n]) <= 1
    BY Kind
  <2>2. j = 1
    BY <2>1
  <2> QED
    BY <1>1, <2>2
<1>6. Cardinality(ValuesOf(n, type)) \in Nat /\ Cardinality(ValuesOf(n, type)) <= N
  <2> HIDE DEF T
  <2>1. Cardinality(ValuesOf(n, type)) <= Cardinality(T) /\ IsFiniteSet(ValuesOf(n, type))
    BY <1>4, <1>5, FS_Subset
  <2>2. Cardinality(T) \in Nat /\ Cardinality(ValuesOf(n, type)) \in Nat
    BY <1>4, <2>1, FS_CardinalityType
  <2> QED
    BY <1>1, <1>4, <2>1, <2>2
<1> QED
  BY <1>1, <1>6 DEF Repeated

-----------------------------------------------------------------------------
(* The statistics that go to the column of a regular property.             *)
LEMMA StatHolds ==
  ASSUME TypeOK, NEW s \in Stats
  PROVE  /\ s.name \in Name /\ s.type \in StatTypes
         /\ s.count = Cardinality(ValuesOf(s.name, s.type))
         /\ \E p \in PropertiesOf(s.name) : StatType(p) = s.type
<1>1. PICK x \in Name \X StatTypes :
        /\ ValuesOf(x[1], x[2]) # {}
        /\ s = [name |-> x[1], type |-> x[2], count |-> Cardinality(ValuesOf(x[1], x[2]))]
  BY DEF Stats
<1>2. s.name = x[1] /\ s.type = x[2] /\ s.count = Cardinality(ValuesOf(x[1], x[2]))
  BY <1>1
<1>3. PICK e \in DOMAIN content : \E i \in DOMAIN content[e][s.name] :
        StatType(content[e][s.name][i]) = s.type
  BY <1>1, <1>2 DEF ValuesOf
<1>4. \E p \in PropertiesOf(s.name) : StatType(p) = s.type
  BY <1>3 DEF PropertiesOf
<1> QED
  BY <1>1, <1>2, <1>4

(* SchemaForKind returns no two fields of one name for two properties,     *)
(* whatever their names and types; it returns two only where a property's  *)
(* name becomes that of a column it appends, and then two of that name.    *)
THEOREM SchemaHasFewTwins == Spec => []FieldsAreUnique
<1>1. ASSUME WellTyped, SchemaInv, OneEach
      PROVE  FieldsAreUnique
  <2>1. ASSUME Twins
        PROVE  \E n \in Name : MakeFieldName[n] \in Special /\ PropertiesOf(n) # {}
    <3>1. PICK f \in fields, g \in fields : f.name = g.name /\ f # g
      BY <2>1 DEF Twins
    <3>2. f \in Appends \/ g \in Appends
      BY <1>1, <3>1 DEF OneEach, Appends
    <3>3. /\ KeyField.name = "__key__" /\ TimeField.name = "__timestamp__"
          /\ KeyField.name # TimeField.name
      BY DEF KeyField, TimeField
    <3>4. PICK h \in fields \ Appends : h.name \in Special
      BY <3>1, <3>2, <3>3 DEF Appends, Special
    <3>5. PICK s \in Stats : IsFor(h, s)
      BY <1>1, <3>4 DEF SchemaInv
    <3>6. s.name \in Name /\ PropertiesOf(s.name) # {}
      BY <1>1, StatHolds DEF WellTyped
    <3>7. MakeFieldName[s.name] = h.name
      BY <3>5 DEF IsFor, FieldFor
    <3> QED
      BY <3>4, <3>6, <3>7
  <2> QED
    BY <1>1, <2>1 DEF FieldsAreUnique, OneEach
<1> QED
  BY <1>1, TypedInv, SchemaInvariant, OneEachInvariant, PTL

LEMMA HasStat ==
  ASSUME TypeOK, NEW n \in Name, NEW p \in PropertiesOf(n), StatType(p) \in StatTypes
  PROVE  [name |-> n, type |-> StatType(p),
          count |-> Cardinality(ValuesOf(n, StatType(p)))] \in Stats
<1>1. PICK e \in DOMAIN content : \E i \in DOMAIN content[e][n] : p = content[e][n][i]
  BY DEF PropertiesOf
<1>2. PICK i \in DOMAIN content[e][n] : p = content[e][n][i]
  BY <1>1
<1>3. <<e, i>> \in ValuesOf(n, StatType(p))
  BY <1>2 DEF ValuesOf
<1>4. <<n, StatType(p)>> \in Name \X StatTypes
  OBVIOUS
<1> QED
  BY <1>3, <1>4 DEF Stats

LEMMA PropertyTyped ==
  ASSUME TypeOK, NEW n \in Name, NEW p \in PropertiesOf(n)
  PROVE  p \in Property /\ StatType(p) \in StatTypes
<1>1. PICK e \in DOMAIN content : \E i \in DOMAIN content[e][n] : p = content[e][n][i]
  BY DEF PropertiesOf
<1>2. content[e][n] \in Seq(Property)
  BY Kind
<1>3. p \in Property
  BY <1>1, <1>2
<1> QED
  BY <1>3 DEF StatType, StatTypes

(* The key and the time.                                                   *)
TimeInv ==
  \A i \in DOMAIN rows : "__timestamp__" \in DOMAIN rows[i] /\ rows[i]["__timestamp__"] = Now

LEMMA TimeStep == WellTyped /\ TimeInv /\ [Next]_vars => TimeInv'
<1> SUFFICES ASSUME WellTyped, TimeInv, [Next]_vars PROVE TimeInv'
  OBVIOUS
<1>1. CASE RowDone
  <2> DEFINE r == With(row, "__timestamp__", Now)
  <2>1. rows' = Append(rows, r)
    BY <1>1 DEF RowDone
  <2>2. "__timestamp__" \in DOMAIN r /\ r["__timestamp__"] = Now
    BY DEF With
  <2> HIDE DEF r
  <2>3. /\ DOMAIN rows = 1..Len(rows) /\ DOMAIN rows' = 1..(Len(rows) + 1)
        /\ \A i \in 1..Len(rows) : rows'[i] = rows[i]
        /\ rows'[Len(rows) + 1] = r /\ Len(rows) \in Nat
    BY <2>1, Appended DEF WellTyped, RangeTyped
  <2> QED
    BY <2>2, <2>3 DEF TimeInv
<1>2. CASE ~RowDone
  <2>1. UNCHANGED rows
    BY <1>2 DEF Next, Creating, Ingesting, IngestToBigQuery, IngestBegin, entityToRow, MapEntity,
       Drop, Keep, Rename, MapError, Payload, Post, PostError, rowVars, vars
  <2> QED
    BY <2>1 DEF TimeInv
<1> QED
  BY <1>1, <1>2

LEMMA TimeInvariant == Spec => []TimeInv
<1>1. Init => TimeInv
  BY DEF Init, RowsInit, TimeInv
<1> QED
  BY <1>1, TimeStep, TypedInv, PTL DEF Spec

(* Where there is a table, no field of a property has the name of one of   *)
(* the two columns that are appended.                                      *)
LEMMA OwnColumn ==
  ASSUME WellTyped, SchemaInv, table # NoTable, NEW s \in Stats, FieldFor(s).type # ""
  PROVE  MakeFieldName[s.name] \notin Special
<1>1. PICK f \in fields \ Appends : f.name = MakeFieldName[s.name]
  BY DEF SchemaInv, HaveFields
<1>2. KeyField \in fields /\ TimeField \in fields /\ ~Twins
  BY DEF SchemaInv, Appends
<1>3. f # KeyField /\ f # TimeField
  BY <1>1 DEF Appends
<1>4. KeyField.name = "__key__" /\ TimeField.name = "__timestamp__"
  BY DEF KeyField, TimeField
<1> QED
  BY <1>1, <1>2, <1>3, <1>4 DEF Twins, Special

(* A property that goes to the column of the key has no type of its own.   *)
LEMMA HiddenFits ==
  ASSUME WellTyped, SchemaInv, table # NoTable, NEW i \in DOMAIN content,
         NEW n \in Names(content[i]), MakeFieldName[n] \in Special,
         NEW v \in MadeOf(Field(content[i][n]))
  PROVE  IsOfType(v, "STRING")
<1> PICK ps : ps = content[i][n]
  OBVIOUS
<1>1. n \in Name /\ ps \in Seq(Property) /\ ps # <<>>
  BY Kind DEF WellTyped, Names
<1> PICK p : p = ps[Len(ps)]
  OBVIOUS
<1>2. p \in PropertiesOf(n) /\ p \in Property
  <2>1. Len(ps) \in DOMAIN ps
    BY <1>1
  <2> QED
    BY <1>1, <2>1 DEF PropertiesOf
<1>3. FieldType(StatType(p)) = ""
  <2> PICK s : s = [name |-> n, type |-> StatType(p),
                    count |-> Cardinality(ValuesOf(n, StatType(p)))]
    OBVIOUS
  <2>1. s \in Stats /\ s.name = n /\ s.type = StatType(p)
    BY <1>1, <1>2, HasStat, PropertyTyped DEF WellTyped
  <2>2. FieldFor(s).type = ""
    BY <2>1, OwnColumn
  <2> QED
    BY <2>1, <2>2 DEF FieldFor
<1>4. CASE p.multiple
  <2>1. IsList(Field(ps))
    BY <1>4 DEF Field, IsList
  <2> QED
    BY <2>1, ListFits
<1>5. CASE ~p.multiple
  <2>1. ~Field(ps).list /\ Field(ps).cells[1] = Cell(p)
    BY <1>5 DEF Field
  <2>2. StatType(p) \in {"Text", "NULL", "GeoPt"}
    BY <1>3, <1>1, <1>2, PropertyTyped DEF FieldType, StatTypes, WellTyped
  <2>3. p.value.type \in {"string", "nil", "geo"}
    BY <1>2, <2>2, ValueTyped DEF StatType, Property, Plain, Typed, NoForm
  <2>4. v = Single(Json(p.value))
    BY <1>2, <2>1, <2>3, SingleConverted
  <2>5. v.cells[1].json = Json(p.value)
    BY <2>4, SingleHolds
  <2>6. Json(p.value).json \in {"string", "null"}
    BY <2>3 DEF Json, Number
  <2> QED
    BY <2>5, <2>6 DEF IsOfType
<1> QED
  BY <1>4, <1>5

LEMMA SpecialFits ==
  ASSUME WellTyped, SchemaInv, RowsInv, TimeInv, table # NoTable,
         NEW i \in DOMAIN rows, NEW c \in Special \cap DOMAIN rows[i]
  PROVE  HasColumn(rows[i], c)
<1>1. KeyField \in table /\ TimeField \in table
  BY DEF SchemaInv, Appends, WellTyped, TypeOK
<1>2. CASE c = "__timestamp__"
  <2>1. rows[i][c] = Now
    BY <1>2 DEF TimeInv
  <2>2. Now.cells[1].json = [json |-> "string", text |-> "12:00:00Z"]
    BY SingleHolds DEF Now, Text
  <2>3. IsOfType(rows[i][c], "TIMESTAMP")
    BY <2>1, <2>2 DEF IsOfType, Parses
  <2> QED
    BY <1>1, <1>2, <2>3 DEF HasColumn, TimeField
<1>3. CASE c = "__key__"
  <2> PICK map : map = Mapped(content[i])
    OBVIOUS
  <2>1. AsMapped(rows[i], map)
    BY DEF RowsInv
  <2>2. PICK m \in DOMAIN map : MakeFieldName[m] = c /\ rows[i][c] \in MadeOf(map[m])
    BY <1>3, <2>1 DEF AsMapped
  <2>3. i \in DOMAIN content
    BY Kind DEF WellTyped, TypeOK, RangeTyped
  <2>4. DOMAIN map = Names(content[i]) \cup {"__key__"} /\ Names(content[i]) \subseteq Name
    BY <2>3, MappedTyped DEF WellTyped
  <2>5. CASE m # "__key__"
    <3>1. m \in Names(content[i]) /\ map[m] = Field(content[i][m])
      BY <2>2, <2>4, <2>5 DEF Mapped
    <3>2. IsOfType(rows[i][c], "STRING")
      BY <1>3, <2>2, <2>3, <3>1, HiddenFits
    <3> QED
      BY <1>1, <1>3, <3>2 DEF HasColumn, KeyField
  <2> SUFFICES ASSUME m = "__key__" PROVE HasColumn(rows[i], c)
    BY <2>5
  <2>6. map[m] = KeyPath /\ IsList(KeyPath)
    <3>1. map[m] = KeyPath
      BY <2>4 DEF Mapped
    <3> PICK json : json = [json |-> "array", text |-> "Kind,1"]
      OBVIOUS
    <3>2. KeyPath = Single(json) /\ json.json = "array"
      BY DEF KeyPath
    <3>3. KeyPath.cells[1].object = FALSE /\ KeyPath.cells[1].json = json
      BY <3>2, SingleHolds
    <3> QED
      BY <3>1, <3>2, <3>3 DEF IsList
  <2>7. IsOfType(rows[i][c], "STRING")
    BY <2>2, <2>6, ListFits
  <2> QED
    BY <1>1, <1>3, <2>7 DEF HasColumn, KeyField
<1> QED
  BY <1>2, <1>3 DEF Special

(* What a row holds of a name that is alone with its column.               *)
LEMMA Alone ==
  ASSUME WellTyped, RowsInv, NEW i \in DOMAIN rows, NEW n \in Name, content[i][n] # <<>>,
         \A m \in Sources(MakeFieldName[n]) \ {n} : PropertiesOf(m) = {},
         MakeFieldName[n] \in DOMAIN rows[i], MakeFieldName[n] \notin Special
  PROVE  /\ i \in DOMAIN content /\ content[i][n] \in Seq(Property)
         /\ rows[i][MakeFieldName[n]] \in MadeOf(Field(content[i][n]))
         /\ ~BadDate(Field(content[i][n]))
<1> PICK map : map = Mapped(content[i])
  OBVIOUS
<1>1. i \in DOMAIN content
  BY Kind DEF WellTyped, TypeOK, RangeTyped
<1>2. /\ DOMAIN map = Names(content[i]) \cup {"__key__"} /\ Names(content[i]) \subseteq Name
      /\ content[i] \in [Name -> Seq(Property)]
  BY <1>1, MappedTyped, Kind DEF WellTyped
<1>3. /\ MakeFieldName["__key__"] = "__key__" /\ "__key__" \notin Name
      /\ MakeFieldName[n] # "__key__" /\ MakeFieldName[n] # "__timestamp__"
  BY NameAssumption DEF Special
<1>4. n \in DOMAIN map /\ map[n] = Field(content[i][n])
  BY <1>2, <1>3 DEF Mapped, Names
<1>5. ASSUME NEW m \in DOMAIN map, MakeFieldName[m] = MakeFieldName[n], m # n
      PROVE  FALSE
  <2>1. m \in Names(content[i]) /\ m \in Name
    BY <1>2, <1>3, <1>5
  <2>2. PropertiesOf(m) = {}
    BY <1>5, <2>1 DEF Sources
  <2>3. content[i][m] \in Seq(Property) /\ content[i][m] # <<>>
    BY <1>2, <2>1 DEF Names
  <2>4. 1 \in DOMAIN content[i][m]
    BY <2>3
  <2>5. content[i][m][1] \in PropertiesOf(m)
    BY <1>1, <2>4 DEF PropertiesOf
  <2> QED
    BY <2>2, <2>5
<1>6. Goes(map, n) = {n}
  BY <1>4, <1>5 DEF Goes
<1>7. AsMapped(rows[i], map)
  BY DEF RowsInv
<1>8. PICK m \in DOMAIN map :
        MakeFieldName[m] = MakeFieldName[n] /\ rows[i][MakeFieldName[n]] \in MadeOf(map[m])
  BY <1>3, <1>7 DEF AsMapped
<1>9. m = n
  BY <1>5, <1>8
<1>10. ~BadDate(map[n])
  BY <1>3, <1>4, <1>6, <1>7 DEF AsMapped
<1> QED
  BY <1>1, <1>2, <1>4, <1>8, <1>9, <1>10

(* The fields of the table with its column's name are for it.              *)
LEMMA FieldsOf ==
  ASSUME WellTyped, SchemaInv, table # NoTable, NEW n \in Name,
         \A m \in Sources(MakeFieldName[n]) \ {n} : PropertiesOf(m) = {},
         NEW f \in table, f.name = MakeFieldName[n], MakeFieldName[n] \notin Special
  PROVE  \E s \in Stats : IsFor(f, s) /\ s.name = n
<1>1. f \in fields
  BY DEF WellTyped, TypeOK
<1>2. KeyField.name = "__key__" /\ TimeField.name = "__timestamp__"
  BY DEF KeyField, TimeField
<1>3. f \notin Appends
  BY <1>2 DEF Special, Appends
<1>4. PICK s \in Stats : IsFor(f, s)
  BY <1>1, <1>3 DEF SchemaInv
<1>5. s.name \in Name /\ PropertiesOf(s.name) # {}
  BY StatHolds DEF WellTyped
<1>6. f.name = MakeFieldName[s.name]
  BY <1>4 DEF IsFor, FieldFor
<1> QED
  BY <1>4, <1>5, <1>6 DEF Sources

LEMMA RegularFits ==
  ASSUME WellTyped, SchemaInv, RowsInv, table # NoTable,
         NEW i \in DOMAIN rows, NEW n \in Name, content[i][n] # <<>>,
         MakeFieldName[n] \in DOMAIN rows[i], Regular(n)
  PROVE  HasColumn(rows[i], MakeFieldName[n])
<1> PICK ps : ps = content[i][n]
  OBVIOUS
<1> PICK v : v = rows[i][MakeFieldName[n]]
  OBVIOUS
<1>1. PICK type \in {StatType(p) : p \in PropertiesOf(n)} \ {"NULL"} :
        /\ FieldType(type) # ""
        /\ \A p \in PropertiesOf(n) : StatType(p) \in {type, "NULL"}
        /\ \A m \in Sources(MakeFieldName[n]) \ {n} : PropertiesOf(m) = {}
        /\ \/ /\ \A p \in PropertiesOf(n) : ~p.multiple
              /\ \A e \in DOMAIN content : Len(content[e][n]) <= 1
              /\ type # "Key"
           \/ /\ \A p \in PropertiesOf(n) : p.multiple
              /\ Cardinality(ValuesOf(n, type)) > Len(content)
  BY DEF Regular
<1>2. PICK q \in PropertiesOf(n) : StatType(q) = type
  BY <1>1
<1>3. type \in StatTypes
  BY <1>2, PropertyTyped DEF WellTyped
<1> PICK s : s = [name |-> n, type |-> type, count |-> Cardinality(ValuesOf(n, type))]
  OBVIOUS
<1>4. s \in Stats /\ s.name = n /\ s.type = type /\ s.count = Cardinality(ValuesOf(n, type))
  BY <1>2, <1>3, HasStat DEF WellTyped
<1>5. FieldFor(s).type # ""
  BY <1>1, <1>4 DEF FieldFor
<1>6. MakeFieldName[n] \notin Special
  BY <1>4, <1>5, OwnColumn
<1>7. /\ ps \in Seq(Property) /\ i \in DOMAIN content
      /\ v \in MadeOf(Field(ps)) /\ ~BadDate(Field(ps))
  BY <1>1, <1>6, Alone
<1>8. \A j \in DOMAIN ps : ps[j] \in PropertiesOf(n)
  BY <1>7 DEF PropertiesOf
<1>9. Len(ps) \in Nat /\ Len(ps) \in DOMAIN ps /\ ps[Len(ps)] \in Property
  BY <1>7
<1>10. PICK f \in table : f.name = MakeFieldName[n]
  BY <1>4, <1>5 DEF SchemaInv, HaveFields, WellTyped, TypeOK
<1>11. PICK x \in Stats : IsFor(f, x) /\ x.name = n
  BY <1>1, <1>6, <1>10, FieldsOf
<1>12. x.type \in {type, "NULL"} /\ x.count = Cardinality(ValuesOf(n, x.type))
  <2>1. PICK p \in PropertiesOf(n) : StatType(p) = x.type
    BY <1>11, StatHolds DEF WellTyped
  <2> QED
    BY <1>1, <1>11, <2>1, StatHolds DEF WellTyped
<1>13. f.type = (IF Repeated(x.count) THEN "STRING" ELSE FieldType(x.type)) /\ f.type # ""
  BY <1>11 DEF IsFor, FieldFor
<1>14. CASE /\ \A p \in PropertiesOf(n) : ~p.multiple
            /\ \A e \in DOMAIN content : Len(content[e][n]) <= 1
            /\ type # "Key"
  <2>1. ~Repeated(x.count)
    BY <1>12, <1>14, FewValues DEF WellTyped
  <2>2. f.type = FieldType(x.type) /\ x.type = type
    <3>1. FieldType("NULL") = ""
      BY DEF FieldType
    <3> QED
      BY <1>12, <1>13, <2>1, <3>1
  <2> PICK p : p = ps[Len(ps)]
    OBVIOUS
  <2>3. p \in Property /\ p \in PropertiesOf(n) /\ ~p.multiple /\ StatType(p) \in {type, "NULL"}
    BY <1>1, <1>8, <1>9, <1>14
  <2>4. ~Field(ps).list /\ Field(ps).cells[1] = Cell(p)
    BY <2>3 DEF Field
  <2>5. IsOfType(v, FieldType(type))
    BY <1>1, <1>3, <1>7, <1>14, <2>3, <2>4, SingleFits
  <2> QED
    BY <1>10, <2>2, <2>5 DEF HasColumn
<1>15. CASE /\ \A p \in PropertiesOf(n) : p.multiple
            /\ Cardinality(ValuesOf(n, type)) > Len(content)
  <2>1. f.type = "STRING"
    <3>1. CASE x.type = type
      BY <1>12, <1>13, <1>15, <3>1 DEF Repeated
    <3>2. CASE x.type = "NULL"
      BY <1>13, <3>2 DEF FieldType
    <3> QED
      BY <1>12, <3>1, <3>2
  <2>2. ps[Len(ps)].multiple
    BY <1>8, <1>9, <1>15
  <2>3. IsList(Field(ps))
    BY <2>2 DEF Field, IsList
  <2>4. IsOfType(v, "STRING")
    BY <1>7, <2>3, ListFits
  <2> QED
    BY <1>10, <2>1, <2>4 DEF HasColumn
<1> QED
  BY <1>1, <1>14, <1>15

(* What entityToRow makes of a property fits the column that SchemaForKind *)
(* found for it, though each guesses on its own; so do the key and time.   *)
THEOREM RowsFitTheirTable == Spec => []RowsFitTable
<1>1. WellTyped /\ SchemaInv /\ RowsInv /\ TimeInv => RowsFitTable
  BY RegularFits, SpecialFits DEF RowsFitTable
<1> QED
  BY <1>1, TypedInv, SchemaInvariant, RowsInvariant, TimeInvariant, PTL

-----------------------------------------------------------------------------
(* Nothing is ingested before the table was asked for, so that no step of  *)
(* CreateTableForKind comes in between.                                    *)
WaitsForTable == ~Created => ingest = "idle"

LEMMA WaitsStep == WaitsForTable /\ [Next]_vars => WaitsForTable'
<1> SUFFICES ASSUME WaitsForTable, [Next]_vars, ~Created' PROVE ingest' = "idle"
  BY DEF WaitsForTable
<1>1. CASE Creating
  <2>1. ~Created /\ UNCHANGED ingest
    BY <1>1 DEF Creating, CreateTableHandler, CreateError, NoKindStats, KindStats,
                PropertyStats, SchemaDone, TableInsert, SchemaRefused, Created, rowVars
  <2> QED
    BY <2>1 DEF WaitsForTable
<1>2. CASE Ingesting
  BY <1>2 DEF Ingesting, schemaVars, Created
<1>3. CASE UNCHANGED vars
  BY <1>3 DEF vars, schemaVars, rowVars, Created, WaitsForTable
<1> QED
  BY <1>1, <1>2, <1>3 DEF Next

(* A name that is visited again is one that the loop has added, and those  *)
(* are valid: it adds none in turn.                                        *)
LEMMA VisitLeavesLess ==
  ASSUME WellTyped, NEW n \in Column, Drop(n) \/ Keep(n) \/ Rename(n)
  PROVE  Fewer(todo', todo) \/ (todo' = todo /\ Fewer(added', added))
<1>1. n \in todo \cup added /\ \A m \in added : MakeFieldName[m] = m
  BY DEF WellTyped, RangeTyped, Drop, Keep, Rename, Visits
<1>2. todo' = todo \ {n}
  BY DEF Drop, Keep, Rename
<1>3. CASE n \in todo
  BY <1>2, <1>3 DEF Fewer
<1>4. CASE n \notin todo
  <2>1. n \in added /\ MakeFieldName[n] = n
    BY <1>1, <1>4
  <2>2. added' = added \ {n}
    BY <2>1 DEF Drop, Keep, Rename
  <2> QED
    BY <1>2, <1>4, <2>1, <2>2 DEF Fewer
<1> QED
  BY <1>3, <1>4

(* The loop of entityToRow ends, in whatever order Go visits the map and   *)
(* whatever the names become: with finitely many names in an entity, what  *)
(* is left to visit cannot shrink for ever.                                *)
THEOREM LoopRunsOut == Spec => VisitsRunOut
<1> DEFINE Less == Fewer(todo', todo) \/ (todo' = todo /\ Fewer(added', added))
<1>1. ASSUME WellTyped, WaitsForTable, [Next]_vars
      PROVE  [ingest = "range" /\ ingest' = "range" => Less]_vars
  <2> SUFFICES ASSUME ingest = "range", ingest' = "range", Next
               PROVE  Less
    BY <1>1
  <2>1. Created
    BY <1>1 DEF WaitsForTable
  <2>2. Ingesting
    BY <2>1 DEF Next, Creating, CreateTableHandler, CreateError, NoKindStats, KindStats,
                PropertyStats, SchemaDone, TableInsert, SchemaRefused, Created
  <2>3. PICK n \in Column : Drop(n) \/ Keep(n) \/ Rename(n)
    BY <2>2 DEF Ingesting, IngestToBigQuery, IngestBegin, entityToRow, MapEntity, RowDone,
                MapError, Payload, Post, PostError
  <2> QED
    BY <1>1, <2>3, VisitLeavesLess
<1>2. Init => WaitsForTable
  BY DEF Init, RowsInit, WaitsForTable
<1> QED
  BY <1>1, <1>2, WaitsStep, TypedInv, PTL DEF Spec, VisitsRunOut

=============================================================================

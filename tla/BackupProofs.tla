---------------------------- MODULE BackupProofs ----------------------------
(***************************************************************************)
(* Proofs about the export and the load of entities, for any keys, any     *)
(* contents the datastore can hold, and any batch sizes.                   *)
(***************************************************************************)
EXTENDS Backup, SequenceTheorems, TLAPS

-----------------------------------------------------------------------------
(* The codec. *)

LEMMA ValueTypes ==
  ASSUME NEW v \in Value
  PROVE  /\ v = [type |-> v.type, text |-> v.text]
         /\ v.type \in Plain \cup Typed \cup NoForm
         /\ v.text \in Texts(v.type)
  BY DEF Value

LEMMA JsonFields ==
  ASSUME NEW a, NEW b, NEW json, json = [json |-> a, text |-> b]
  PROVE  json.json = a /\ json.text = b
  OBVIOUS

(* The value behind a cell. *)
LEMMA ValueReturns ==
  ASSUME NEW p \in Property, Encodable(p.value), Decodes(Cell(p))
  PROVE  /\ Loadable(p)
         /\ DecodedValue(Cell(p)) = ReturnedValue(p.value)
<1> DEFINE v == p.value
<1>1. /\ v = [type |-> v.type, text |-> v.text]
      /\ v.type \in Plain \cup Typed \cup NoForm
      /\ v.text \in Texts(v.type)
  BY ValueTypes DEF Property
<1>2. v.type \in Plain \cup Typed /\ v.text # "NaN"
  BY <1>1 DEF Encodable
<1>3. Cell(p).json = Json(v)
  BY DEF Cell, Bare, toMap
<1>4. ASSUME v.type \in Plain
      PROVE  Cell(p).type \notin Typed /\ DecodedValue(Cell(p)) = Primitive(Json(v))
  <2>1. Cell(p).type \in {"", v.type}
    BY <1>4 DEF Cell, Bare, toMap
  <2> QED
    BY <1>3, <1>4, <2>1 DEF DecodedValue, Plain, Typed
<1>5. ASSUME v.type \in Typed
      PROVE  Cell(p).type = v.type
  BY <1>5 DEF Cell, toMap, Plain, Typed
<1>6. CASE v.type = "int"
  <2>1. v.text \in {"7", "8"}
    BY <1>1, <1>6 DEF Texts
  <2>2. Json(v) = [json |-> "number", text |-> v.text]
    BY <1>6 DEF Json, Number
  <2>3. PrimitiveType(Json(v)) = "int"
    BY <2>1, <2>2 DEF PrimitiveType, HasPoint
  <2>4. Primitive(Json(v)) = [type |-> "int", text |-> v.text]
    BY <2>1, <2>2, <2>3 DEF Primitive, Int64
  <2>5. ReturnedValue(v) = v
    BY <2>1 DEF ReturnedValue
  <2> QED
    BY <1>1, <1>4, <1>6, <2>1, <2>4, <2>5 DEF Loadable, Plain
<1>7. CASE v.type = "float"
  <2>1. v.text \in {"2.5", "1e+07", "NaN"}
    BY <1>1, <1>7 DEF Texts
  <2>2. Json(v) = [json |-> "number", text |-> v.text]
    BY <1>7 DEF Json, Number
  <2>3. CASE v.text = "2.5"
    <3>1. PrimitiveType(Json(v)) = "float"
      BY <2>2, <2>3 DEF PrimitiveType, HasPoint
    <3>2. Primitive(Json(v)) = [type |-> "float", text |-> v.text]
      BY <2>2, <2>3, <3>1 DEF Primitive
    <3>3. ReturnedValue(v) = v
      BY <2>3 DEF ReturnedValue
    <3> QED
      BY <1>1, <1>4, <1>7, <2>3, <3>2, <3>3 DEF Loadable, Plain
  <2>4. CASE v.text = "1e+07"
    <3>1. PrimitiveType(Json(v)) = "int"
      BY <2>2, <2>4 DEF PrimitiveType, HasPoint
    <3>2. Primitive(Json(v)) = [type |-> "int", text |-> "0"]
      BY <2>2, <2>4, <3>1 DEF Primitive, Int64
    <3>3. ReturnedValue(v) = [type |-> "int", text |-> "0"]
      BY <2>4 DEF ReturnedValue
    <3> QED
      BY <1>1, <1>4, <1>7, <2>4, <3>2, <3>3 DEF Loadable, Plain
  <2> QED
    BY <1>2, <2>1, <2>3, <2>4
<1>8. CASE v.type = "date"
  <2>1. v.text \in {"12:00:00Z", "12:00:00.5Z", "year 10000"}
    BY <1>1, <1>8 DEF Texts
  <2>2. Json(v) = [json |-> "string", text |-> RFC3339(v.text)]
    BY <1>8 DEF Json, Number, encodeKey
  <2>3. DecodedValue(Cell(p)) = [type |-> v.type, text |-> Json(v).text]
    BY <1>3, <1>5, <1>8 DEF DecodedValue, Typed
  <2>4. v.text # "year 10000"
    <3>1. Json(v).text = "12:00:00Z"
      BY <1>3, <1>5, <1>8 DEF Decodes, Parses, Typed
    <3>2. Json(v).text = RFC3339(v.text)
      BY <2>2, JsonFields
    <3>3. RFC3339(v.text) = "12:00:00Z"
      BY <3>1, <3>2, Zenon
    <3> QED
      BY <3>3 DEF RFC3339
  <2>5. ReturnedValue(v) = [type |-> v.type, text |-> RFC3339(v.text)]
    BY <1>1, <1>8, <2>1, <2>4 DEF ReturnedValue, RFC3339
  <2>6. DecodedValue(Cell(p)) = [type |-> v.type, text |-> RFC3339(v.text)]
    BY <2>2, <2>3
  <2> QED
    BY <2>4, <2>5, <2>6 DEF Loadable
<1>9. CASE v.type = "key"
  <2>1. v.text \in {"Kind,1", "namespace!Kind,1"}
    BY <1>1, <1>9 DEF Texts
  <2>2. Json(v) = [json |-> "array", text |-> "Kind,1"]
    BY <1>9 DEF Json, Number, encodeKey
  <2>3. DecodedValue(Cell(p)) = [type |-> v.type, text |-> Json(v).text]
    BY <1>3, <1>5, <1>9 DEF DecodedValue, Typed
  <2>4. ReturnedValue(v) = [type |-> v.type, text |-> "Kind,1"]
    BY <1>1, <1>9, <2>1 DEF ReturnedValue
  <2>5. Json(v).text = "Kind,1"
    BY <2>2, JsonFields, Zenon
  <2> QED
    BY <2>1, <2>3, <2>4, <2>5 DEF Loadable
<1>10. CASE v.type = "blob"
  <2>1. v.text \in {"bytes"}
    BY <1>1, <1>10 DEF Texts
  <2>2. Json(v) = [json |-> "string", text |-> Base64(v.text)]
    BY <1>10 DEF Json, Number, encodeKey
  <2>3. DecodedValue(Cell(p)) = [type |-> v.type, text |-> UnBase64(Json(v).text)]
    BY <1>3, <1>5, <1>10 DEF DecodedValue, Typed
  <2>4. ReturnedValue(v) = v
    BY <2>1 DEF ReturnedValue
  <2>5. DecodedValue(Cell(p)) = [type |-> v.type, text |-> v.text]
    BY <2>1, <2>2, <2>3 DEF Base64, UnBase64
  <2> QED
    BY <1>1, <2>1, <2>4, <2>5 DEF Loadable
<1>11. CASE v.type = "nil"
  <2>1. v.text \in {"null"}
    BY <1>1, <1>11 DEF Texts
  <2>2. Json(v) = [json |-> "null", text |-> v.text]
    BY <1>11 DEF Json, Number
  <2>3. PrimitiveType(Json(v)) = "nil"
    BY <2>1, <2>2 DEF PrimitiveType, HasPoint
  <2>4. Primitive(Json(v)) = [type |-> "nil", text |-> v.text]
    BY <2>1, <2>2, <2>3 DEF Primitive, Int64
  <2>5. ReturnedValue(v) = v
    BY <2>1 DEF ReturnedValue
  <2> QED
    BY <1>1, <1>4, <1>11, <2>1, <2>4, <2>5 DEF Loadable, Plain
<1>12. CASE v.type = "bool"
  <2>1. v.text \in {"some"}
    BY <1>1, <1>12 DEF Texts
  <2>2. Json(v) = [json |-> "bool", text |-> v.text]
    BY <1>12 DEF Json, Number
  <2>3. PrimitiveType(Json(v)) = "bool"
    BY <2>1, <2>2 DEF PrimitiveType, HasPoint
  <2>4. Primitive(Json(v)) = [type |-> "bool", text |-> v.text]
    BY <2>1, <2>2, <2>3 DEF Primitive, Int64
  <2>5. ReturnedValue(v) = v
    BY <2>1 DEF ReturnedValue
  <2> QED
    BY <1>1, <1>4, <1>12, <2>1, <2>4, <2>5 DEF Loadable, Plain
<1>13. CASE v.type = "string"
  <2>1. v.text \in {"some"}
    BY <1>1, <1>13 DEF Texts
  <2>2. Json(v) = [json |-> "string", text |-> v.text]
    BY <1>13 DEF Json, Number
  <2>3. PrimitiveType(Json(v)) = "string"
    BY <2>1, <2>2 DEF PrimitiveType, HasPoint
  <2>4. Primitive(Json(v)) = [type |-> "string", text |-> v.text]
    BY <2>1, <2>2, <2>3 DEF Primitive, Int64
  <2>5. ReturnedValue(v) = v
    BY <2>1 DEF ReturnedValue
  <2> QED
    BY <1>1, <1>4, <1>13, <2>1, <2>4, <2>5 DEF Loadable, Plain
<1>14. CASE v.type = "blobkey"
  <2>1. v.text \in {"some"}
    BY <1>1, <1>14 DEF Texts
  <2>2. Json(v) = [json |-> "string", text |-> v.text]
    BY <1>14 DEF Json, Number, encodeKey
  <2>3. DecodedValue(Cell(p)) = [type |-> v.type, text |-> Json(v).text]
    BY <1>3, <1>5, <1>14 DEF DecodedValue, Typed
  <2>4. ReturnedValue(v) = v
    BY <2>1 DEF ReturnedValue
  <2>5. DecodedValue(Cell(p)) = [type |-> v.type, text |-> v.text]
    BY <2>1, <2>2, <2>3
  <2> QED
    BY <1>1, <2>1, <2>4, <2>5 DEF Loadable
<1> QED
  BY <1>2, <1>6, <1>7, <1>8, <1>9, <1>10, <1>11, <1>12, <1>13, <1>14 DEF Plain, Typed

(* The flag of the index survives, and the list gives back the other one.  *)
LEMMA PropertyReturns ==
  ASSUME NEW p \in Property, Encodable(p.value), Decodes(Cell(p))
  PROVE  /\ Loadable(p)
         /\ [decodeProperty(Cell(p)) EXCEPT !.multiple = p.multiple] = Returned(p)
<1>1. DecodedValue(Cell(p)) = ReturnedValue(p.value) /\ Loadable(p)
  BY ValueReturns
<1>2. p = [value |-> p.value, noIndex |-> p.noIndex, multiple |-> p.multiple]
      /\ p.noIndex \in BOOLEAN
  BY DEF Property
<1>3. (~Cell(p).indexed) = p.noIndex
  <2>1. CASE p.value.type \in Plain /\ ~p.noIndex
    <3>1. Cell(p).indexed = TRUE
      BY <2>1 DEF Cell, Bare
    <3> QED
      BY <1>2, <2>1, <3>1
  <2>2. CASE ~(p.value.type \in Plain /\ ~p.noIndex)
    <3>1. Cell(p).indexed = ~p.noIndex
      BY <2>2 DEF Cell, toMap
    <3> QED
      BY <1>2, <3>1
  <2> QED
    BY <2>1, <2>2
<1>4. decodeProperty(Cell(p)) =
        [value |-> ReturnedValue(p.value), noIndex |-> p.noIndex, multiple |-> FALSE]
  BY <1>1, <1>3, Zenon DEF decodeProperty
<1>5. Returned(p) =
        [value |-> ReturnedValue(p.value), noIndex |-> p.noIndex, multiple |-> p.multiple]
  BY <1>2 DEF Returned
<1> QED
  BY <1>1, <1>4, <1>5

(* All the properties of one name. *)
LEMMA FieldReturns ==
  ASSUME NEW ps \in Seq(Property), ps # <<>>, Consistent(ps),
         \A i \in DOMAIN ps : Encodable(ps[i].value),
         \A i \in DOMAIN Field(ps).cells : Decodes(Field(ps).cells[i])
  PROVE  /\ \A i \in DOMAIN ps : Loadable(ps[i])
         /\ DecodedField(Field(ps)) = [i \in DOMAIN ps |-> Returned(ps[i])]
<1>1. /\ DOMAIN ps = 1..Len(ps) /\ Len(ps) \in Nat /\ Len(ps) >= 1
      /\ \A i \in DOMAIN ps : ps[i] \in Property
  OBVIOUS
<1>2. CASE ps[Len(ps)].multiple
  <2>1. Field(ps) = [list |-> TRUE, cells |-> [i \in DOMAIN ps |-> Cell(ps[i])]]
    BY <1>2 DEF Field
  <2> DEFINE cells == [i \in DOMAIN ps |-> Cell(ps[i])]
  <2>2. Field(ps).cells = cells /\ Field(ps).list = TRUE
    BY <2>1
  <2>3. DOMAIN Field(ps).cells = DOMAIN ps
        /\ \A i \in DOMAIN ps : Field(ps).cells[i] = Cell(ps[i])
    BY <2>2
  <2>4. ASSUME NEW i \in DOMAIN ps
        PROVE  /\ Loadable(ps[i])
               /\ [decodeProperty(Field(ps).cells[i]) EXCEPT !.multiple = Field(ps).list]
                    = Returned(ps[i])
    <3>1. ps[i].multiple = TRUE
      BY <1>1, <1>2 DEF Consistent, Property
    <3>2. Encodable(ps[i].value) /\ Decodes(Cell(ps[i])) /\ ps[i] \in Property
      BY <1>1, <2>3
    <3>3. /\ Loadable(ps[i])
          /\ [decodeProperty(Cell(ps[i])) EXCEPT !.multiple = ps[i].multiple] = Returned(ps[i])
      BY <3>2, PropertyReturns
    <3> QED
      BY <2>2, <2>3, <3>1, <3>3
  <2> QED
    BY <2>3, <2>4 DEF DecodedField
<1>3. CASE ~ps[Len(ps)].multiple
  <2>1. Len(ps) = 1 /\ DOMAIN ps = {1}
    BY <1>1, <1>3 DEF Consistent
  <2>2. Field(ps) = [list |-> FALSE, cells |-> <<Cell(ps[1])>>]
    BY <1>3, <2>1 DEF Field
  <2>3. /\ Field(ps).cells = <<Cell(ps[1])>> /\ Field(ps).list = FALSE
        /\ DOMAIN Field(ps).cells = {1} /\ Field(ps).cells[1] = Cell(ps[1])
    BY <2>2
  <2>4. ps[1].multiple = FALSE /\ ps[1] \in Property
    BY <1>1, <1>3, <2>1 DEF Property
  <2>5. Encodable(ps[1].value) /\ Decodes(Cell(ps[1]))
    BY <2>1, <2>3
  <2>6. /\ Loadable(ps[1])
        /\ [decodeProperty(Cell(ps[1])) EXCEPT !.multiple = ps[1].multiple] = Returned(ps[1])
    BY <2>4, <2>5, PropertyReturns
  <2> QED
    BY <2>1, <2>3, <2>4, <2>6 DEF DecodedField
<1> QED
  BY <1>2, <1>3

(* Whatever the datastore holds, an entity that can be exported and whose  *)
(* form can be read back comes back as it was, but for what the format     *)
(* does not hold.                                                          *)
THEOREM EntityReturns ==
  ASSUME NEW c \in Contents, NEW k \in Key,
         Marshals(c[k]), Unmarshals(MarshalJSON(c[k]))
  PROVE  Same(c[k], decodeEntity(MarshalJSON(c[k])))
<1> DEFINE e == c[k]
           o == MarshalJSON(e)
<1>1. DOMAIN o = Names(e) /\ \A n \in Names(e) : o[n] = Field(e[n])
  BY DEF MarshalJSON
<1>2. DOMAIN decodeEntity(o) = Names(e)
      /\ \A n \in Names(e) : decodeEntity(o)[n] = DecodedField(Field(e[n]))
  BY <1>1 DEF decodeEntity
<1>3. ASSUME NEW n \in Names(e)
      PROVE  /\ \A i \in DOMAIN e[n] : Loadable(e[n][i])
             /\ DecodedField(Field(e[n])) = [i \in DOMAIN e[n] |-> Returned(e[n][i])]
  <2>1. e[n] \in Seq(Property) /\ Consistent(e[n]) /\ e[n] # <<>>
    BY <1>3, ContentsAssumption DEF Names
  <2>2. \A i \in DOMAIN e[n] : Encodable(e[n][i].value)
    BY <1>3 DEF Marshals, Names
  <2>3. \A i \in DOMAIN Field(e[n]).cells : Decodes(Field(e[n]).cells[i])
    BY <1>1, <1>3 DEF Unmarshals
  <2> QED
    BY <2>1, <2>2, <2>3, FieldReturns
<1> QED
  BY <1>2, <1>3 DEF Same

-----------------------------------------------------------------------------
(* What has been loaded once. *)

(* A property that the format holds in every detail. *)
Settled(p) ==
  /\ Encodable(p.value)
  /\ Decodes(Cell(p))
  /\ [decodeProperty(Cell(p)) EXCEPT !.multiple = p.multiple] = p

LEMMA ValueOf ==
  ASSUME NEW t \in Plain \cup Typed, NEW text \in Texts(t)
  PROVE  [type |-> t, text |-> text] \in Value
<1>1. [type |-> t, text |-> text] \in [type : {t}, text : Texts(t)]
  OBVIOUS
<1> QED
  BY <1>1, Zenon DEF Value

LEMMA CellFields ==
  ASSUME NEW a, NEW b, NEW c, NEW json, NEW cell,
         cell = [object |-> a, type |-> b, indexed |-> c, json |-> json]
  PROVE  cell.type = b /\ cell.indexed = c /\ cell.json = json
  OBVIOUS

(* Values other than the float without a point keep a form of their own.   *)
LEMMA ReturnedIsValue ==
  ASSUME NEW v \in Value, v.text # "1e+07"
  PROVE  /\ ReturnedValue(v) \in Value
         /\ ReturnedValue(v).type = v.type
         /\ ReturnedValue(ReturnedValue(v)) = ReturnedValue(v)
<1> DEFINE w == ReturnedValue(v)
<1>1. /\ v = [type |-> v.type, text |-> v.text]
      /\ v.type \in Plain \cup Typed \cup NoForm
      /\ v.text \in Texts(v.type)
  BY ValueTypes
<1>2. CASE v.text = "12:00:00.5Z"
  <2>1. w = [type |-> "date", text |-> "12:00:00Z"]
    BY <1>2 DEF ReturnedValue
  <2>2. v.type = "date"
    BY <1>1, <1>2 DEF Texts, Plain, Typed, NoForm
  <2>3. "12:00:00Z" \in Texts("date")
    BY DEF Texts
  <2>4. w \in Value
    BY <2>1, <2>3, ValueOf DEF Typed
  <2>5. w.text = "12:00:00Z" /\ w.type = "date"
    <3>1. PICK u : u = [type |-> "date", text |-> "12:00:00Z"]
      OBVIOUS
    <3>2. u.text = "12:00:00Z" /\ u.type = "date"
      BY <3>1
    <3>3. w = u
      BY <2>1, <3>1
    <3> QED
      BY <3>2, <3>3
  <2>6. ReturnedValue(w) = w
    BY <2>5 DEF ReturnedValue
  <2> QED
    BY <2>2, <2>4, <2>5, <2>6
<1>3. CASE v.text = "namespace!Kind,1"
  <2>1. w = [type |-> "key", text |-> "Kind,1"]
    BY <1>3 DEF ReturnedValue
  <2>2. v.type = "key"
    BY <1>1, <1>3 DEF Texts, Plain, Typed, NoForm
  <2>3. "Kind,1" \in Texts("key")
    BY DEF Texts
  <2>4. w \in Value
    BY <2>1, <2>3, ValueOf DEF Typed
  <2>5. w.text = "Kind,1" /\ w.type = "key"
    <3>1. PICK u : u = [type |-> "key", text |-> "Kind,1"]
      OBVIOUS
    <3>2. u.text = "Kind,1" /\ u.type = "key"
      BY <3>1
    <3>3. w = u
      BY <2>1, <3>1
    <3> QED
      BY <3>2, <3>3
  <2>6. ReturnedValue(w) = w
    BY <2>5 DEF ReturnedValue
  <2> QED
    BY <2>2, <2>4, <2>5, <2>6
<1>4. CASE v.text \notin {"12:00:00.5Z", "namespace!Kind,1"}
  <2>1. w = v
    BY <1>4 DEF ReturnedValue
  <2> QED
    BY <2>1
<1> QED
  BY <1>2, <1>3, <1>4

(* The 0 that a float without a point became stays the integer it is now.  *)
LEMMA ZeroSettled ==
  ASSUME NEW q, NEW b \in BOOLEAN, NEW m \in BOOLEAN,
         q = [value |-> [type |-> "int", text |-> "0"], noIndex |-> b, multiple |-> m]
  PROVE  Settled(q)
<1>1. q.value = [type |-> "int", text |-> "0"] /\ q.noIndex = b /\ q.multiple = m
  OBVIOUS
<1>2. q.value.type = "int" /\ q.value.text = "0"
  BY <1>1
<1>3. Json(q.value) = [json |-> "number", text |-> "0"]
  BY <1>2 DEF Json, Number
<1>4. PrimitiveType(Json(q.value)) = "int"
  BY <1>3 DEF PrimitiveType, HasPoint
<1>5. Primitive(Json(q.value)) = [type |-> "int", text |-> "0"]
  BY <1>3, <1>4 DEF Primitive, Int64
<1>6. PICK json : json = Json(q.value)
  OBVIOUS
<1>7. Cell(q).type \in {"", "int"} /\ Cell(q).json = json /\ (~Cell(q).indexed) = b
  <2>1. CASE b
    <3>1. Cell(q) = [object |-> TRUE, type |-> "int", indexed |-> FALSE, json |-> json]
      BY <1>1, <1>2, <1>6, <2>1 DEF Cell, toMap
    <3>2. Cell(q).type = "int" /\ Cell(q).indexed = FALSE /\ Cell(q).json = json
      BY <3>1, CellFields
    <3> QED
      BY <2>1, <3>2
  <2>2. CASE ~b
    <3>1. Cell(q) = [object |-> FALSE, type |-> "", indexed |-> TRUE, json |-> json]
      BY <1>1, <1>2, <1>6, <2>2 DEF Cell, Bare, Plain
    <3>2. PICK cell : cell = [object |-> FALSE, type |-> "", indexed |-> TRUE, json |-> json]
      OBVIOUS
    <3>3. cell.type = "" /\ cell.indexed = TRUE /\ cell.json = json
      BY <3>2
    <3>4. Cell(q) = cell
      BY <3>1, <3>2
    <3> QED
      BY <2>2, <3>3, <3>4
  <2> QED
    BY <2>1, <2>2
<1>9. DecodedValue(Cell(q)) = q.value
  BY <1>1, <1>5, <1>6, <1>7 DEF DecodedValue, Typed
<1>10. decodeProperty(Cell(q)) = [value |-> q.value, noIndex |-> b, multiple |-> FALSE]
  BY <1>7, <1>9, Zenon DEF decodeProperty
<1>11. [decodeProperty(Cell(q)) EXCEPT !.multiple = q.multiple] = q
  BY <1>1, <1>10
<1> QED
  BY <1>2, <1>7, <1>11 DEF Settled, Encodable, NoForm, Decodes

(* One trip settles a property. *)
LEMMA ReturnedIsSettled ==
  ASSUME NEW p \in Property, Encodable(p.value), Loadable(p)
  PROVE  Settled(Returned(p)) /\ Returned(p).multiple = p.multiple
<1> DEFINE q == Returned(p)
<1>1. p.value \in Value /\ p.noIndex \in BOOLEAN /\ p.multiple \in BOOLEAN
      /\ p = [value |-> p.value, noIndex |-> p.noIndex, multiple |-> p.multiple]
  BY DEF Property
<1>2. q = [value |-> ReturnedValue(p.value), noIndex |-> p.noIndex, multiple |-> p.multiple]
  BY <1>1 DEF Returned
<1>3. CASE p.value.text = "1e+07"
  <2>1. ReturnedValue(p.value) = [type |-> "int", text |-> "0"]
    BY <1>3 DEF ReturnedValue
  <2> QED
    BY <1>1, <1>2, <2>1, ZeroSettled
<1>4. CASE p.value.text # "1e+07"
  <2> DEFINE w == ReturnedValue(p.value)
  <2>1. w \in Value /\ w.type = p.value.type /\ ReturnedValue(w) = w
    BY <1>1, <1>4, ReturnedIsValue
  <2>2. q \in Property /\ q.value = w
    BY <1>1, <1>2, <2>1 DEF Property
  <2>3. Returned(q) = q
    BY <1>2, <2>1, <2>2 DEF Returned
  <2>4. w.text \notin {"NaN", "year 10000", "12:00:00.5Z"}
    BY DEF ReturnedValue, Loadable, Encodable
  <2>5. Encodable(q.value)
    BY <2>1, <2>2, <2>4 DEF Encodable
  <2>6. Decodes(Cell(q))
    <3>1. SUFFICES ASSUME Cell(q).type = "date"
                   PROVE  Parses(Cell(q).json.text)
      BY DEF Decodes
    <3>2. w.type = "date"
      BY <2>2, <3>1 DEF Cell, Bare, toMap
    <3>3. w.text \in Texts("date")
      BY <2>1, <3>2, ValueTypes
    <3>4. w.text = "12:00:00Z"
      BY <2>4, <3>3 DEF Texts
    <3>5. Json(w) = [json |-> "string", text |-> RFC3339(w.text)]
      BY <3>2 DEF Json, Number, encodeKey
    <3>6. Json(w).text = "12:00:00Z"
      BY <3>4, <3>5 DEF RFC3339
    <3>7. Cell(q).json = Json(w)
      BY <2>2 DEF Cell, Bare, toMap
    <3> QED
      BY <3>6, <3>7 DEF Parses
  <2>7. [decodeProperty(Cell(q)) EXCEPT !.multiple = q.multiple] = q
    BY <2>2, <2>3, <2>5, <2>6, PropertyReturns
  <2> QED
    BY <1>2, <2>5, <2>6, <2>7 DEF Settled
<1> QED
  BY <1>3, <1>4

(* Settled properties under one name, in any number.                       *)
LEMMA SettledField ==
  ASSUME NEW N \in Nat, N >= 1, NEW qs, DOMAIN qs = 1..N, Len(qs) = N, qs = [i \in 1..N |-> qs[i]],
         N = 1 \/ \A i \in 1..N : qs[i].multiple,
         \A i \in 1..N : Settled(qs[i]) /\ qs[i].multiple \in BOOLEAN
  PROVE  /\ ~Mixed(qs)
         /\ \A i \in DOMAIN Field(qs).cells : Decodes(Field(qs).cells[i])
         /\ DecodedField(Field(qs)) = qs
<1>1. ~Mixed(qs)
  <2>1. CASE N = 1
    BY <2>1 DEF Mixed
  <2>2. CASE \A i \in 1..N : qs[i].multiple
    BY <2>2 DEF Mixed
  <2> QED
    BY <2>1, <2>2
<1>2. CASE qs[N].multiple
  <2>0. PICK cells : cells = [i \in 1..N |-> Cell(qs[i])]
    OBVIOUS
  <2>1. Field(qs) = [list |-> TRUE, cells |-> cells]
    BY <1>2, <2>0 DEF Field
  <2>2. Field(qs).list = TRUE /\ Field(qs).cells = cells
    BY <2>1
  <2>3. DOMAIN Field(qs).cells = 1..N /\ \A i \in 1..N : Field(qs).cells[i] = Cell(qs[i])
    BY <2>0, <2>2
  <2>4. ASSUME NEW i \in 1..N
        PROVE  [decodeProperty(Field(qs).cells[i]) EXCEPT !.multiple = Field(qs).list] = qs[i]
    <3>1. qs[i].multiple = TRUE
      BY <1>2
    <3> QED
      BY <2>2, <2>3, <3>1 DEF Settled
  <2>5. DecodedField(Field(qs)) = [i \in 1..N |-> qs[i]]
    BY <2>3, <2>4 DEF DecodedField
  <2>6. \A i \in 1..N : Decodes(Cell(qs[i]))
    BY DEF Settled
  <2>7. \A i \in DOMAIN Field(qs).cells : Decodes(Field(qs).cells[i])
    BY <2>3, <2>6
  <2>8. DecodedField(Field(qs)) = qs
    BY <2>5
  <2> QED
    BY <1>1, <2>7, <2>8
<1>3. CASE ~qs[N].multiple
  <2>1. N = 1
    BY <1>3
  <2>2. Field(qs) = [list |-> FALSE, cells |-> <<Cell(qs[1])>>]
    BY <1>3, <2>1 DEF Field
  <2>3. /\ Field(qs).cells = <<Cell(qs[1])>> /\ Field(qs).list = FALSE
        /\ DOMAIN Field(qs).cells = 1..1 /\ Field(qs).cells[1] = Cell(qs[1])
    BY <2>2
  <2>4. PICK q : q = qs[1]
    OBVIOUS
  <2>5. q.multiple = FALSE /\ Settled(q)
    BY <1>3, <2>1, <2>4
  <2>6. [decodeProperty(Cell(q)) EXCEPT !.multiple = q.multiple] = q
    BY <2>5 DEF Settled
  <2>7. [decodeProperty(Field(qs).cells[1]) EXCEPT !.multiple = Field(qs).list] = qs[1]
    BY <2>3, <2>4, <2>5, <2>6
  <2>8. DecodedField(Field(qs)) = [i \in 1..N |-> qs[i]]
    BY <2>1, <2>3, <2>7 DEF DecodedField
  <2>9. \A i \in DOMAIN Field(qs).cells : Decodes(Field(qs).cells[i])
    <3>1. Decodes(Cell(qs[1]))
      BY <2>1 DEF Settled
    <3>2. \A i \in DOMAIN Field(qs).cells : i = 1
      BY <2>3
    <3> QED
      BY <2>3, <3>1, <3>2
  <2>10. DecodedField(Field(qs)) = qs
    BY <2>8
  <2> QED
    BY <1>1, <2>9, <2>10
<1> QED
  BY <1>2, <1>3

(* An entity that made one trip makes every other unchanged.               *)
THEOREM SecondTripIsExact ==
  ASSUME NEW c \in Contents, NEW k \in Key,
         Marshals(c[k]), Unmarshals(MarshalJSON(c[k])),
         NEW d, d = decodeEntity(MarshalJSON(c[k]))
  PROVE  /\ Marshals(d)
         /\ Unmarshals(MarshalJSON(d))
         /\ decodeEntity(MarshalJSON(d)) = d
<1> DEFINE e == c[k]
<1>1. Same(e, d) /\ DOMAIN d = Names(e)
  BY EntityReturns DEF Same
<1>2. ASSUME NEW n \in Names(e)
      PROVE  /\ d[n] # <<>>
             /\ \A i \in DOMAIN d[n] : Encodable(d[n][i].value)
             /\ ~Mixed(d[n])
             /\ \A i \in DOMAIN Field(d[n]).cells : Decodes(Field(d[n]).cells[i])
             /\ DecodedField(Field(d[n])) = d[n]
  <2>1. e[n] \in Seq(Property) /\ Consistent(e[n]) /\ e[n] # <<>> /\ n \in DOMAIN e
    BY <1>2, ContentsAssumption DEF Names
  <2>2. PICK N : N = Len(e[n])
    OBVIOUS
  <2>3. N \in Nat /\ N >= 1 /\ DOMAIN e[n] = 1..N /\ \A i \in 1..N : e[n][i] \in Property
    BY <2>1, <2>2
  <2>4. PICK qs : qs = d[n]
    OBVIOUS
  <2>5. qs = [i \in 1..N |-> Returned(e[n][i])]
        /\ \A i \in 1..N : Loadable(e[n][i])
    BY <1>1, <1>2, <2>3, <2>4 DEF Same
  <2>6. DOMAIN qs = 1..N /\ qs = [i \in 1..N |-> qs[i]]
    BY <2>5
  <2>7. Len(qs) = N
    BY <2>3, <2>6
  <2>8. ASSUME NEW i \in 1..N
        PROVE  /\ Settled(qs[i]) /\ qs[i].multiple \in BOOLEAN
               /\ qs[i].multiple = e[n][i].multiple
    <3>1. qs[i] = Returned(e[n][i]) /\ e[n][i] \in Property /\ Loadable(e[n][i])
      BY <2>3, <2>5
    <3>2. Encodable(e[n][i].value) /\ e[n][i].multiple \in BOOLEAN
      BY <3>1 DEF Loadable, Property
    <3> QED
      BY <3>1, <3>2, ReturnedIsSettled
  <2>9. N = 1 \/ \A i \in 1..N : qs[i].multiple
    <3>1. N <= 1 \/ \A i \in DOMAIN e[n] : e[n][i].multiple
      BY <2>1, <2>2 DEF Consistent
    <3>2. CASE N <= 1
      <4>1. N = 1
        BY <2>3, <3>2
      <4> QED
        BY <4>1
    <3>3. CASE \A i \in DOMAIN e[n] : e[n][i].multiple
      <4>1. \A i \in 1..N : qs[i].multiple = e[n][i].multiple /\ e[n][i].multiple
        BY <2>3, <2>8, <3>3
      <4> QED
        BY <4>1
    <3> QED
      BY <3>1, <3>2, <3>3
  <2>10. /\ ~Mixed(qs)
         /\ \A i \in DOMAIN Field(qs).cells : Decodes(Field(qs).cells[i])
         /\ DecodedField(Field(qs)) = qs
    BY <2>3, <2>6, <2>7, <2>8, <2>9, SettledField
  <2>11. qs # <<>>
    BY <2>3, <2>7
  <2> QED
    BY <2>4, <2>6, <2>8, <2>10, <2>11 DEF Settled
<1>3. Names(d) = Names(e)
  BY <1>1, <1>2 DEF Names
<1>4. DOMAIN MarshalJSON(d) = Names(e) /\ \A n \in Names(e) : MarshalJSON(d)[n] = Field(d[n])
  BY <1>3 DEF MarshalJSON
<1>5. Marshals(d)
  BY <1>1, <1>2 DEF Marshals
<1>6. Unmarshals(MarshalJSON(d))
  BY <1>2, <1>4 DEF Unmarshals
<1>7. decodeEntity(MarshalJSON(d)) = [n \in Names(e) |-> d[n]]
  BY <1>2, <1>4 DEF decodeEntity
<1>8. d = [n \in Names(e) |-> d[n]]
  BY <1>1 DEF decodeEntity
<1> QED
  BY <1>5, <1>6, <1>7, <1>8

-----------------------------------------------------------------------------
(* The export. *)

HasRead(k)  == at # Nil /\ k <= at
Exported(k) == \E n \in 1..Len(out) : out[n] = Export(k)

(* What Dump has written lies in order behind the iterator, and the limit  *)
(* of the running query shows in count and mark.                           *)
Written ==
  /\ \A n \in 1..Len(out) : /\ out[n].key \in Key
                            /\ out[n] = Export(out[n].key)
                            /\ Marshals(content[out[n].key])
                            /\ HasRead(out[n].key)
  /\ \A m, n \in 1..Len(out) : m < n => out[m].key < out[n].key

Limited == left = DumpBatch - (count - mark)

(* An entity that was read is missing only if the writer took nothing of   *)
(* it, or if the output is past parsing.                                   *)
NoneMissed ==
  only = Nil /\ array # "bad" /\ dump # "error" =>
    \A k \in Resident : HasRead(k) => Exported(k) \/ k \in dropped

ReadToTheEnd == only = Nil /\ dump = "ok" => \A k \in Resident : HasRead(k)

(* What DumpEntity has written. *)
TheOne ==
  only # Nil =>
    /\ at \in {Nil, only}
    /\ at = Nil => out = <<>>
    /\ at = only /\ array # "bad" /\ dump # "error" =>
         out = <<Export(only)>> \/ only \in dropped
    /\ dump = "ok" => at = only

ClosedAtEnd == array = "closed" => dump = "ok"

(* As long as every write works, the output is what the code means it to be. *)
Unbroken ==
  ~failed =>
    /\ dropped = {}
    /\ dump = "running" /\ only = Nil => array = IF count = 0 THEN "open" ELSE "entity"
    /\ dump = "running" /\ only # Nil => array = IF at = Nil THEN "open" ELSE "entity"
    /\ dump = "ok" => array = "closed"

DumpInv ==
  /\ DumpTypeOK
  /\ Written
  /\ Limited
  /\ NoneMissed
  /\ ReadToTheEnd
  /\ TheOne
  /\ ClosedAtEnd
  /\ Unbroken

LEMMA KeysAreIntegers == Key \subseteq Int /\ Resident \subseteq Key /\ Nil \notin Key
  BY KeyAssumption

LEMMA ExportKey == ASSUME NEW k PROVE Export(k).key = k
  BY DEF Export

LEMMA DumpInitInv == DumpInit => DumpInv
<1> SUFFICES ASSUME DumpInit PROVE DumpInv
  OBVIOUS
<1>1. out = <<>> /\ Len(out) = 0 /\ out \in Seq({Export(k) : k \in Key})
  BY EmptySeq DEF DumpInit
<1>2. left \in 0..DumpBatch /\ count \in Nat /\ mark \in Nat
  BY DumpAssumption DEF DumpInit
<1>3. /\ failed \in BOOLEAN /\ dropped = {}
      /\ array = IF failed THEN "bad" ELSE "open"
  BY DEF DumpInit, Fails
<1>4. array \in ArrayState /\ dropped \in SUBSET Key
  BY <1>3 DEF ArrayState
<1>5. DumpTypeOK
  BY <1>1, <1>2, <1>3, <1>4, Zenon DEF DumpInit, DumpTypeOK
<1> QED
  BY <1>1, <1>3, <1>5, KeysAreIntegers, DumpAssumption
  DEF DumpInit, DumpInv, Written, Limited, NoneMissed, ReadToTheEnd, TheOne, ClosedAtEnd, Unbroken, HasRead

(* A step that writes an entity behind all the others. *)
LEMMA WriteStep ==
  ASSUME DumpInv, NEW k \in Key, dump = "running", at # Nil => at < k,
         at' = k, UNCHANGED content,
         NEW opened \in ArrayState \ {"closed"}, NEW fails \in BOOLEAN, Write(k, opened, fails)
  PROVE  /\ out' \in Seq({Export(j) : j \in Key})
         /\ Written'
         /\ \A j \in Key : Exported(j) => Exported(j)'
         /\ dump' # "error" /\ array' # "bad" =>
              \/ Exported(k)' /\ out' = Append(out, Export(k))
              \/ k \in dropped'
         /\ dump' \in {"running", "error"}
         /\ array' \in ArrayState \ {"closed"} /\ (opened = "bad" => array' = "bad")
         /\ failed' \in BOOLEAN
         /\ dropped' \in SUBSET Key /\ dropped \subseteq dropped'
         /\ ~failed' =>
              /\ ~fails /\ dropped' = dropped
              /\ dump' = "running" => array' = Parse(opened, "entity")
<1> USE KeysAreIntegers
<1>a. /\ array' \in ArrayState \ {"closed"} /\ (opened = "bad" => array' \in {opened, "bad"})
      /\ dump' \in {"running", "error"} /\ failed' \in BOOLEAN
  BY DEF Write, Parse, ArrayState
<1>b. dropped' \in SUBSET Key /\ dropped \subseteq dropped'
  BY DEF Write, DumpInv, DumpTypeOK
<1>c. ~failed' =>
        /\ ~fails /\ dropped' = dropped
        /\ dump' = "running" => array' = Parse(opened, "entity")
  BY DEF Write
<1> USE <1>a, <1>b, <1>c
<1>1. out \in Seq({Export(j) : j \in Key}) /\ at \in Key \cup {Nil}
  BY DEF DumpInv, DumpTypeOK
<1>2. \A j : Export(j)' = Export(j)
  BY DEF Export
<1>3. \A j \in Key : HasRead(j) => HasRead(j)' /\ j < k
  BY <1>1 DEF HasRead
<1>4. Written
  BY DEF DumpInv
<1>5. CASE out' = out /\ (dump' = "error" \/ array' = "bad" \/ k \in dropped')
  <2>1. \A n \in 1..Len(out) : /\ out[n].key \in Key
                               /\ out[n] = Export(out[n].key)'
                               /\ Marshals(content[out[n].key])'
                               /\ HasRead(out[n].key)'
    BY <1>2, <1>3, <1>4, <1>5 DEF Written
  <2>2. Written'
    BY <1>4, <1>5, <2>1 DEF Written
  <2>3. \A j \in Key : Exported(j) => Exported(j)'
    BY <1>2, <1>5 DEF Exported
  <2> QED
    BY <1>1, <1>5, <2>2, <2>3
<1>6. CASE Marshals(content[k]) /\ out' = Append(out, Export(k)) /\ dump' = dump
  <2>1. /\ Append(out, Export(k)) \in Seq({Export(j) : j \in Key})
        /\ Len(out) \in Nat
        /\ Len(out') = Len(out) + 1
        /\ \A n \in 1..Len(out) : out'[n] = out[n]
        /\ out'[Len(out) + 1] = Export(k)
    BY <1>1, <1>6, AppendProperties, LenProperties
  <2>2. ASSUME NEW n \in 1..Len(out')
        PROVE  (/\ out[n].key \in Key
                /\ out[n] = Export(out[n].key)
                /\ Marshals(content[out[n].key])
                /\ HasRead(out[n].key))'
    <3>1. \E j \in Key : /\ out'[n] = Export(j) /\ Marshals(content[j])
                          /\ (j = k \/ HasRead(j))
      <4>1. CASE n \in 1..Len(out)
        BY <1>4, <2>1, <4>1 DEF Written
      <4>2. CASE n = Len(out) + 1
        BY <1>6, <2>1, <4>2
      <4> QED
        BY <2>1, <4>1, <4>2
    <3>2. PICK j \in Key : /\ out'[n] = Export(j) /\ Marshals(content[j])
                           /\ (j = k \/ HasRead(j))
      BY <3>1
    <3>3. out'[n].key = j
      BY <3>2, ExportKey
    <3>4. at' # Nil /\ j <= at'
      BY <1>3, <3>2 DEF HasRead
    <3>5. Export(j)' = Export(j)
      BY <1>2
    <3> QED
      BY <3>2, <3>3, <3>4, <3>5 DEF HasRead, Export
  <2>3. ASSUME NEW m \in 1..Len(out'), NEW n \in 1..Len(out'), m < n
        PROVE  out'[m].key < out'[n].key
    <3>1. m \in 1..Len(out) /\ out'[m] = out[m]
      BY <2>1, <2>3
    <3>2. CASE n \in 1..Len(out)
      BY <1>4, <2>1, <2>3, <3>1, <3>2 DEF Written
    <3>3. CASE n = Len(out) + 1
      <4>1. out'[n].key = k
        BY <2>1, <3>3, ExportKey
      <4>2. out[m].key \in Key /\ HasRead(out[m].key)
        BY <1>4, <3>1 DEF Written
      <4> QED
        BY <1>3, <3>1, <4>1, <4>2
    <3> QED
      BY <2>1, <3>2, <3>3
  <2>4. Written'
    BY <2>2, <2>3 DEF Written
  <2>5. \A j \in Key : Exported(j) => Exported(j)'
    BY <1>2, <2>1 DEF Exported
  <2>6. Exported(k)'
    BY <1>2, <2>1 DEF Exported
  <2> QED
    BY <1>6, <2>1, <2>4, <2>5, <2>6
<1> QED
  BY <1>5, <1>6 DEF Write

(* The closing bracket ends the array, unless it was bad before.           *)
LEMMA CloseStep ==
  ASSUME DumpInv, Close
  PROVE  /\ UNCHANGED <<content, only, at, left, count, mark, out, dropped>>
         /\ dump' = "ok"
         /\ array' \in ArrayState /\ (array = "bad" => array' = "bad")
         /\ failed' \in BOOLEAN
         /\ ~failed' => ~failed /\ array' = Parse(array, "bracket")
         /\ ~failed' /\ array \in {"open", "entity"} => array' = "closed"
BY DEF Close, dumped, Parse, ArrayState, Fails, DumpInv, DumpTypeOK

LEMMA DumpStepInv == DumpInv /\ [DumpActions]_dumpVars => DumpInv'
<1> SUFFICES ASSUME DumpInv, [DumpActions]_dumpVars PROVE DumpInv'
  OBVIOUS
<1> USE KeysAreIntegers, DumpAssumption
<1>0. /\ at \in Key \cup {Nil} /\ only \in Key \cup {Nil}
      /\ left \in 0..DumpBatch /\ count \in Nat /\ mark \in Nat
      /\ DumpBatch \in Nat \ {0}
  BY DEF DumpInv, DumpTypeOK
<1>1. CASE DumpNext
  <2>1. PICK k \in Ahead, f \in Fails :
          NextInQuery(k) /\ at' = k /\ Write(k, Separated(f), failed \/ (f /\ count > 0))
    BY <1>1 DEF DumpNext
  <2>2. /\ dump = "running" /\ only = Nil /\ only' = Nil /\ left > 0
        /\ left' = left - 1 /\ count' = count + 1
        /\ UNCHANGED <<content, only, mark>>
    BY <1>1 DEF DumpNext, dumped
  <2>3. k \in Key /\ (at # Nil => at < k)
    BY <2>1 DEF Ahead
  <2>4. /\ out' \in Seq({Export(j) : j \in Key})
        /\ Written'
        /\ \A j \in Key : Exported(j) => Exported(j)'
        /\ dump' # "error" /\ array' # "bad" => Exported(k)' \/ k \in dropped'
        /\ dump' \in {"running", "error"}
        /\ array' \in ArrayState \ {"closed"} /\ (array = "bad" => array' = "bad")
        /\ failed' \in BOOLEAN
        /\ dropped' \in SUBSET Key /\ dropped \subseteq dropped'
        /\ ~failed' =>
             /\ ~failed /\ (f => count = 0) /\ dropped' = dropped
             /\ dump' = "running" => array' = Parse(Separated(f), "entity")
    <3> DEFINE opened == Separated(f)
               fails == failed \/ (f /\ count > 0)
    <3>1. array \in ArrayState \ {"closed"} /\ failed \in BOOLEAN
      BY <2>2 DEF DumpInv, DumpTypeOK, ClosedAtEnd
    <3>2. opened \in ArrayState \ {"closed"} /\ (array = "bad" => opened = "bad")
      BY <3>1 DEF Separated, Parse, ArrayState
    <3>3. fails \in BOOLEAN /\ (~fails => ~failed /\ (f => count = 0))
      BY <1>0, <3>1 DEF Fails
    <3> HIDE DEF opened, fails
    <3>4. Write(k, opened, fails)
      BY <2>1 DEF opened, fails
    <3>5. /\ out' \in Seq({Export(j) : j \in Key})
          /\ Written'
          /\ \A j \in Key : Exported(j) => Exported(j)'
          /\ dump' # "error" /\ array' # "bad" => Exported(k)' \/ k \in dropped'
          /\ dump' \in {"running", "error"}
          /\ array' \in ArrayState \ {"closed"} /\ (opened = "bad" => array' = "bad")
          /\ failed' \in BOOLEAN
          /\ dropped' \in SUBSET Key /\ dropped \subseteq dropped'
          /\ ~failed' =>
               /\ ~fails /\ dropped' = dropped
               /\ dump' = "running" => array' = Parse(opened, "entity")
      BY <2>1, <2>2, <2>3, <3>2, <3>3, <3>4, WriteStep
    <3> QED
      BY <3>2, <3>3, <3>5 DEF opened
  <2>5. \A j : Export(j)' = Export(j)
    BY <2>2 DEF Export
  <2>6. DumpTypeOK'
    <3>1. out' \in Seq({Export(j)' : j \in Key})
      BY <2>4, <2>5
    <3> QED
      BY <1>0, <2>1, <2>2, <2>3, <2>4, <3>1 DEF DumpInv, DumpTypeOK
  <2>7. Limited'
    BY <1>0, <2>2 DEF DumpInv, Limited
  <2>8. ASSUME array' # "bad", dump' # "error", NEW j \in Resident, HasRead(j)'
        PROVE  Exported(j)' \/ j \in dropped'
    <3>1. CASE HasRead(j)
      BY <2>2, <2>4, <2>8, <3>1 DEF DumpInv, NoneMissed
    <3>2. CASE ~HasRead(j)
      <4>1. j \in Ahead
        BY <1>0, <3>2 DEF HasRead, Ahead
      <4>2. j = k
        BY <2>1, <2>3, <2>8, <4>1 DEF HasRead, NextInQuery
      <4> QED
        BY <2>4, <2>8, <4>2
    <3> QED
      BY <3>1, <3>2
  <2>9. Unbroken'
    <3> SUFFICES ASSUME ~failed', dump' = "running"
                 PROVE  dropped' = {} /\ array' = "entity" /\ count' # 0
      BY <2>2, <2>4 DEF Unbroken, DumpInv
    <3>1. ~failed /\ (f => count = 0) /\ array' = Parse(Separated(f), "entity")
      BY <2>4
    <3>2. dropped = {} /\ array = IF count = 0 THEN "open" ELSE "entity"
      BY <2>2, <3>1 DEF DumpInv, Unbroken
    <3>3. Separated(f) = IF count = 0 THEN "open" ELSE "comma"
      BY <3>1, <3>2 DEF Separated, Parse
    <3> QED
      BY <1>0, <2>2, <2>4, <3>1, <3>2, <3>3 DEF Parse
  <2> QED
    BY <2>2, <2>4, <2>6, <2>7, <2>8, <2>9
    DEF DumpInv, NoneMissed, ReadToTheEnd, TheOne, ClosedAtEnd
<1>2. CASE DumpEnd
  <2>1. \A k \in Resident : HasRead(k)
    <3>1. left # 0
      BY <1>0, <1>2 DEF DumpEnd, LastQuery, DumpInv, Limited
    <3> QED
      BY <1>0, <1>2, <3>1 DEF DumpEnd, QueryDone, Ahead, HasRead
  <2>2. dump = "running" /\ only = Nil /\ Close
    BY <1>2 DEF DumpEnd, QueryDone
  <2> USE CloseStep
  <2>3. DumpTypeOK'
    BY <2>2 DEF DumpInv, DumpTypeOK, Export
  <2>4. Written'
    BY <2>2 DEF DumpInv, Written, Export, HasRead
  <2> QED
    BY <2>1, <2>2, <2>3, <2>4
    DEF DumpInv, Limited, NoneMissed, ReadToTheEnd, TheOne, ClosedAtEnd, Unbroken, HasRead, Exported, Export
<1>3. CASE DumpRestart
  <2>1. UNCHANGED <<content, only, at, count, dump, out, array, failed, dropped>>
        /\ mark' = count /\ left' = DumpBatch
    BY <1>3 DEF DumpRestart, dumped, output
  <2>2. DumpTypeOK' /\ Limited'
    BY <1>0, <2>1 DEF DumpInv, DumpTypeOK, Export, Limited
  <2>3. Written'
    BY <2>1 DEF DumpInv, Written, Export, HasRead
  <2> QED
    BY <2>1, <2>2, <2>3
    DEF DumpInv, NoneMissed, ReadToTheEnd, TheOne, ClosedAtEnd, Unbroken, HasRead, Exported, Export
<1>4. CASE DumpEntity
  <2>1. /\ dump = "running" /\ only # Nil /\ at = Nil /\ at' = only /\ only \in Key
        /\ UNCHANGED <<content, only, left, count, mark>>
        /\ out = <<>>
    BY <1>0, <1>4 DEF DumpEntity, dumped, DumpInv, TheOne
  <2>2. Limited'
    BY <2>1 DEF DumpInv, Limited
  <2>3. \A j : Export(j)' = Export(j)
    BY <2>1 DEF Export
  <2>4. CASE Write(only, array, failed)
    <3>0. array \in ArrayState \ {"closed"} /\ failed \in BOOLEAN
      BY <2>1 DEF DumpInv, DumpTypeOK, ClosedAtEnd
    <3>1. /\ out' \in Seq({Export(j) : j \in Key})
          /\ Written'
          /\ dump' # "error" /\ array' # "bad" => out' = Append(out, Export(only)) \/ only \in dropped'
          /\ dump' \in {"running", "error"}
          /\ array' \in ArrayState \ {"closed"}
          /\ failed' \in BOOLEAN /\ dropped' \in SUBSET Key
          /\ ~failed' =>
               /\ ~failed /\ dropped' = dropped
               /\ dump' = "running" => array' = Parse(array, "entity")
      BY <2>1, <2>4, <3>0, WriteStep
    <3>2. out' \in Seq({Export(j)' : j \in Key})
      BY <2>3, <3>1
    <3>3. DumpTypeOK'
      BY <2>1, <3>1, <3>2 DEF DumpInv, DumpTypeOK
    <3>4. dump' # "error" /\ array' # "bad" => out' = <<Export(only)>> \/ only \in dropped'
      BY <2>1, <3>1
    <3>5. TheOne'
      BY <2>1, <2>3, <3>1, <3>4 DEF TheOne
    <3>6. Unbroken'
      BY <1>0, <2>1, <3>1 DEF DumpInv, Unbroken, Parse
    <3> QED
      BY <2>1, <2>2, <3>1, <3>3, <3>5, <3>6
      DEF DumpInv, NoneMissed, ReadToTheEnd, ClosedAtEnd
  <2>5. CASE dump' = "error" /\ UNCHANGED output
    <3>1. DumpTypeOK'
      BY <2>1, <2>5 DEF DumpInv, DumpTypeOK, Export, output
    <3>2. Written'
      <4>1. Len(out) = 0
        BY <2>1
      <4> QED
        BY <2>5, <4>1 DEF Written, output
    <3> QED
      BY <2>1, <2>2, <2>5, <3>1, <3>2
      DEF DumpInv, NoneMissed, ReadToTheEnd, TheOne, ClosedAtEnd, Unbroken, output
  <2> QED
    BY <1>4, <2>4, <2>5 DEF DumpEntity
<1>5. CASE DumpEntityEnd
  <2>1. dump = "running" /\ only # Nil /\ at = only /\ Close
    BY <1>5 DEF DumpEntityEnd
  <2> USE CloseStep
  <2>2. DumpTypeOK'
    BY <2>1 DEF DumpInv, DumpTypeOK, Export
  <2>3. Written'
    BY <2>1 DEF DumpInv, Written, Export, HasRead
  <2> QED
    BY <2>1, <2>2, <2>3
    DEF DumpInv, Limited, NoneMissed, ReadToTheEnd, TheOne, ClosedAtEnd, Unbroken, Export
<1>6. CASE DumpError
  <2>1. /\ dump = "running" /\ dump' = "error"
        /\ UNCHANGED <<content, only, at, left, count, mark, out, array, failed, dropped>>
    BY <1>6 DEF DumpError, dumped, output
  <2>2. DumpTypeOK'
    BY <2>1 DEF DumpInv, DumpTypeOK, Export
  <2>3. Written'
    BY <2>1 DEF DumpInv, Written, Export, HasRead
  <2> QED
    BY <2>1, <2>2, <2>3
    DEF DumpInv, Limited, NoneMissed, ReadToTheEnd, TheOne, ClosedAtEnd, Unbroken
<1>7. CASE UNCHANGED dumpVars
  <2>1. UNCHANGED <<content, only, dump, at, left, count, mark, out, array, failed, dropped>>
    BY <1>7 DEF dumpVars, dumped, output
  <2>2. DumpTypeOK'
    BY <2>1 DEF DumpInv, DumpTypeOK, Export
  <2>3. Written'
    BY <2>1 DEF DumpInv, Written, Export, HasRead
  <2> QED
    BY <2>1, <2>2, <2>3
    DEF DumpInv, Limited, NoneMissed, ReadToTheEnd, TheOne, ClosedAtEnd, Unbroken, HasRead, Exported, Export
<1> QED
  BY <1>1, <1>2, <1>3, <1>4, <1>5, <1>6, <1>7 DEF DumpActions, DumpStep

(* Whatever failed: what is sure to be found and not in an output that     *)
(* still decodes was lost by the writer as a whole.                        *)
LEMMA ClosedIsComplete ==
  ASSUME DumpInv, dump = "ok", array # "bad", NEW k \in Asked
  PROVE  (\E n \in 1..Len(out) : out[n] = Export(k)) \/ k \in dropped
<1>1. CASE only = Nil
  BY <1>1 DEF DumpInv, NoneMissed, ReadToTheEnd, Asked, Exported
<1>2. CASE only # Nil
  <2>1. k = only /\ (out = <<Export(only)>> \/ only \in dropped)
    BY <1>2 DEF DumpInv, TheOne, Asked
  <2>2. CASE out = <<Export(only)>>
    <3>1. Len(out) = 1 /\ out[1] = Export(only)
      BY <2>2
    <3> QED
      BY <2>1, <3>1
  <2> QED
    BY <2>1, <2>2
<1> QED
  BY <1>1, <1>2

LEMMA DumpInvIsComplete == DumpInv => DumpIsComplete
<1> SUFFICES ASSUME DumpInv, dump = "ok", ~failed
             PROVE  /\ array = "closed"
                    /\ \A k \in Asked : \E n \in 1..Len(out) : out[n] = Export(k)
                    /\ \A m, n \in 1..Len(out) : m < n => out[m].key < out[n].key
  BY DEF DumpIsComplete
<1>1. array = "closed" /\ dropped = {}
  BY DEF DumpInv, Unbroken
<1> QED
  BY <1>1, ClosedIsComplete DEF DumpInv, Written

-----------------------------------------------------------------------------
(* The load. *)

Unique == \A m, n \in 1..Len(entities) : entities[m].key = entities[n].key => m = n

LEMMA PutIn ==
  ASSUME Unique, NEW I \in SUBSET (1..Len(entities)), NEW d, NEW n \in I,
         entities[n].key \in Entity
  PROVE  Put(d, I)[entities[n].key] = entities[n].properties
<1> DEFINE k == entities[n].key
           m == CHOOSE m \in I : entities[m].key = k
<1>1. m \in I /\ entities[m].key = k
  OBVIOUS
<1>2. m = n
  BY <1>1 DEF Unique
<1>3. Put(d, I)[k] = entities[m].properties
  BY DEF Put
<1> QED
  BY <1>2, <1>3

LEMMA PutOut ==
  ASSUME NEW I, NEW d, NEW k \in Entity, \A n \in I : entities[n].key # k
  PROVE  Put(d, I)[k] = d[k]
  BY DEF Put

(* LoadsInOrder with what keeps it. *)
LoadInv ==
  /\ LoadTypeOK
  /\ Len(entities) \in Nat
  /\ Unique
  /\ LoadsInOrder
  /\ load = "get" => \A n \in 1..BatchEnd : Holds(n)

LEMMA BatchBounds ==
  ASSUME LoadInv
  PROVE  /\ BatchEnd \in Nat /\ from <= BatchEnd /\ BatchEnd <= Len(entities)
         /\ BatchEnd \in 0..Len(entities)
         /\ Batch \subseteq 1..Len(entities)
         /\ \A n \in 1..BatchEnd : n \in 1..from \/ n \in Batch
  BY LoadAssumption DEF LoadInv, LoadTypeOK, BatchEnd, CappedEnd, Batch

(* Putting any part of the batch keeps the order. *)
LEMMA PutKeepsOrder ==
  ASSUME LoadInv, NEW I \in SUBSET Batch, load = "put", load' \in {"put", "get", "error"},
         stored' = Put(stored, I), UNCHANGED <<entities, before>>,
         from' = from \/ (I = Batch /\ from' = BatchEnd)
  PROVE  /\ LoadsInOrder'
         /\ DOMAIN stored' = Entity
         /\ I = Batch => \A n \in 1..BatchEnd : Holds(n)'
<1>1. I \subseteq 1..Len(entities) /\ Len(entities) \in Nat /\ from \in Nat
  BY BatchBounds DEF LoadInv, LoadTypeOK
<1>2. \A n \in 1..Len(entities) : entities[n].key \in Entity
  BY DEF LoadInv, LoadTypeOK
<1>3. ASSUME NEW n \in 1..Len(entities), n \in I \/ Holds(n)
      PROVE  Holds(n)'
  <2>1. CASE n \in I
    <3>1. entities[n].key \in Entity /\ Unique
      BY <1>2 DEF LoadInv
    <3>2. Put(stored, I)[entities[n].key] = entities[n].properties
      BY <1>1, <2>1, <3>1, PutIn
    <3> QED
      BY <3>2 DEF Holds
  <2>2. CASE n \notin I /\ Holds(n)
    <3>1. \A m \in I : entities[m].key # entities[n].key
      BY <1>1, <2>2 DEF LoadInv, Unique
    <3>2. stored'[entities[n].key] = stored[entities[n].key]
      BY <1>2, <3>1, PutOut
    <3> QED
      BY <2>2, <3>2 DEF Holds
  <2> QED
    BY <1>3, <2>1, <2>2
<1>4. I = Batch => \A n \in 1..BatchEnd : Holds(n)'
  <2>1. \A n \in 1..from : n \in 1..Len(entities) /\ Holds(n)
    BY DEF LoadInv, LoadTypeOK, LoadsInOrder
  <2>2. \A n \in 1..from : Holds(n)'
    BY <1>3, <2>1
  <2>3. I = Batch => \A n \in Batch : Holds(n)'
    BY <1>1, <1>3
  <2> QED
    BY <2>2, <2>3, BatchBounds
<1>8. \A n \in 1..from' : Holds(n)'
  <2>1. \A n \in 1..from : n \in 1..Len(entities) /\ Holds(n)
    BY DEF LoadInv, LoadTypeOK, LoadsInOrder
  <2> QED
    BY <1>3, <1>4, <2>1
<1>5. BatchEnd' \in Nat /\ BatchEnd <= BatchEnd'
  BY BatchBounds, LoadAssumption DEF BatchEnd, CappedEnd, LoadInv, LoadTypeOK
<1>6. ASSUME NEW k \in Entity, stored'[k] # before[k]
      PROVE  \E n \in 1..BatchEnd' : entities[n].key = k
  <2>1. CASE \E n \in I : entities[n].key = k
    BY <1>5, <2>1, BatchBounds DEF Batch
  <2>2. CASE \A n \in I : entities[n].key # k
    <3>1. stored'[k] = stored[k]
      BY <2>2, PutOut
    <3>2. \E n \in 1..BatchEnd : entities[n].key = k
      BY <1>6, <3>1 DEF LoadInv, LoadsInOrder
    <3> QED
      BY <1>5, <3>2, BatchBounds
  <2> QED
    BY <2>1, <2>2
<1>7. DOMAIN stored' = Entity
  BY DEF Put
<1> QED
  BY <1>4, <1>6, <1>7, <1>8 DEF LoadsInOrder

LEMMA LoadStepInv == LoadInv /\ LoadNext => LoadInv'
<1> SUFFICES ASSUME LoadInv, LoadNext PROVE LoadInv'
  OBVIOUS
<1>0. UNCHANGED <<entities, before, getAfterPut>>
  BY DEF LoadNext, LoadStep, PutMulti, GetMulti, LoadEnd, PutError, GetError
<1>1. Len(entities)' \in Nat /\ Unique'
  BY <1>0 DEF LoadInv, Unique
<1> USE DEF LoadTypeOK
<1>2. CASE PutMulti
  <2>1. /\ LoadsInOrder' /\ DOMAIN stored' = Entity
        /\ \A n \in 1..BatchEnd : Holds(n)'
    <3>1. Batch \in SUBSET Batch
      OBVIOUS
    <3> QED
      BY <1>0, <1>2, <3>1, PutKeepsOrder DEF PutMulti
  <2>2. from' \in 0..Len(entities) /\ load' \in {"put", "get"}
    BY <1>2, BatchBounds DEF PutMulti, LoadInv
  <2>3. load' = "get" => BatchEnd' = BatchEnd
    BY <1>0, <1>2 DEF PutMulti, BatchEnd, CappedEnd
  <2> QED
    BY <1>0, <1>1, <2>1, <2>2, <2>3 DEF LoadInv
<1>3. CASE PutError
  <2>1. LoadsInOrder' /\ DOMAIN stored' = Entity
    BY <1>0, <1>3, PutKeepsOrder DEF PutError
  <2> QED
    BY <1>0, <1>1, <1>3, <2>1 DEF PutError, LoadInv
<1>4. CASE GetMulti
  <2>1. /\ BatchEnd' \in Nat /\ BatchEnd <= BatchEnd' /\ from' = BatchEnd
        /\ BatchEnd \in 0..Len(entities)
    BY <1>4, <1>0, BatchBounds, LoadAssumption
    DEF GetMulti, BatchEnd, CappedEnd, LoadInv
  <2>2. /\ load = "get" /\ load' = "put" /\ UNCHANGED stored
    BY <1>4 DEF GetMulti
  <2>3. LoadsInOrder'
    <3>1. \A n \in 1..from' : Holds(n)'
      BY <1>0, <2>1, <2>2 DEF LoadInv, Holds
    <3>2. \A k \in Entity : stored'[k] # before'[k] => \E n \in 1..BatchEnd' : entities'[n].key = k
      BY <1>0, <2>1, <2>2, BatchBounds DEF LoadInv, LoadsInOrder
    <3> QED
      BY <2>2, <3>1, <3>2 DEF LoadsInOrder
  <2> QED
    BY <1>0, <1>1, <2>1, <2>2, <2>3 DEF LoadInv
<1>5. CASE LoadEnd
  <2>1. load' = "ok" /\ UNCHANGED <<from, stored>> /\ from = Len(entities) /\ BatchEnd' = BatchEnd
    BY <1>0, <1>5 DEF LoadEnd, LoadInv, BatchEnd, CappedEnd
  <2>2. LoadsInOrder'
    BY <1>0, <2>1 DEF LoadInv, LoadsInOrder, Holds
  <2> QED
    BY <1>0, <1>1, <2>1, <2>2 DEF LoadInv
<1>6. CASE GetError
  <2>1. load' = "error" /\ UNCHANGED <<from, stored>> /\ BatchEnd' = BatchEnd
    BY <1>0, <1>6 DEF GetError, BatchEnd, CappedEnd
  <2>2. LoadsInOrder'
    BY <1>0, <2>1 DEF LoadInv, LoadsInOrder, Holds
  <2> QED
    BY <1>0, <1>1, <2>1, <2>2 DEF LoadInv
<1> QED
  BY <1>2, <1>3, <1>4, <1>5, <1>6 DEF LoadNext, LoadStep

-----------------------------------------------------------------------------
(* The export and the load together. *)

(* What is loaded is what was exported and decodes. *)
FromExport ==
  load \in {"put", "get", "ok"} \/ entities # <<>> =>
    array = "closed" /\ Decodable /\ entities = Unmarshaled

StoredAsExported ==
  \A k \in Key : stored[k] # None =>
    /\ Marshals(content[k]) /\ Unmarshals(MarshalJSON(content[k]))
    /\ stored[k] = decodeEntity(MarshalJSON(content[k]))

BackupInv ==
  /\ TypeOK
  /\ DumpInv
  /\ LoadInv
  /\ FromExport
  /\ StoredAsExported

LEMMA UnmarshaledEntities ==
  ASSUME DumpInv
  PROVE  /\ Unmarshaled \in Seq({Decoded(Export(k)) : k \in Key})
         /\ Len(Unmarshaled) = Len(out) /\ Len(out) \in Nat
         /\ \A n \in 1..Len(out) :
              /\ Unmarshaled[n].key = out[n].key /\ out[n].key \in Key
              /\ Unmarshaled[n].properties = decodeEntity(out[n].object)
              /\ out[n].object = MarshalJSON(content[out[n].key])
              /\ Marshals(content[out[n].key])
         /\ \A m, n \in 1..Len(out) : out[m].key = out[n].key => m = n
<1>1. out \in Seq({Export(k) : k \in Key})
  BY DEF DumpInv, DumpTypeOK
<1>2. Len(out) \in Nat /\ DOMAIN out = 1..Len(out)
  BY <1>1
<1>3. ASSUME NEW n \in 1..Len(out)
      PROVE  /\ out[n].key \in Key /\ out[n] = Export(out[n].key)
             /\ out[n].object = MarshalJSON(content[out[n].key])
             /\ Marshals(content[out[n].key])
  BY <1>3 DEF DumpInv, Written, Export
<1>4. \A n \in 1..Len(out) : /\ Unmarshaled[n] = Decoded(out[n])
                             /\ Unmarshaled[n].key = out[n].key
                             /\ Unmarshaled[n].properties = decodeEntity(out[n].object)
  BY <1>2 DEF Unmarshaled, Decoded
<1>5. DOMAIN Unmarshaled = 1..Len(out)
  BY <1>2 DEF Unmarshaled
<1>6. \A n \in 1..Len(out) : Unmarshaled[n] \in {Decoded(Export(k)) : k \in Key}
  BY <1>3, <1>4
<1>7. Unmarshaled = [n \in 1..Len(out) |-> Unmarshaled[n]]
  BY <1>2 DEF Unmarshaled
<1>8. /\ Unmarshaled \in Seq({Decoded(Export(k)) : k \in Key})
      /\ Len(Unmarshaled) = Len(out)
  BY <1>2, <1>5, <1>6, <1>7
<1>9. \A m, n \in 1..Len(out) : out[m].key = out[n].key => m = n
  <2> SUFFICES ASSUME NEW m \in 1..Len(out), NEW n \in 1..Len(out), out[m].key = out[n].key
               PROVE  m = n
    OBVIOUS
  <2>1. /\ m < n => out[m].key < out[n].key
        /\ n < m => out[n].key < out[m].key
    BY DEF DumpInv, Written
  <2>2. out[m].key \in Int /\ out[n].key \in Int
    <3>1. out[m].key \in Key /\ out[n].key \in Key
      BY <1>3
    <3> QED
      BY <3>1, KeysAreIntegers
  <2>3. ~(m < n) /\ ~(n < m)
    BY <2>1, <2>2
  <2> QED
    BY <1>2, <2>3
<1> QED
  BY <1>2, <1>3, <1>4, <1>8, <1>9

LEMMA BackupInitInv == Init => BackupInv
<1> SUFFICES ASSUME Init PROVE BackupInv
  OBVIOUS
<1>1. DumpInv /\ DumpTypeOK
  BY DumpInitInv DEF Init, DumpInv
<1>2. /\ entities = <<>> /\ Len(entities) = 0 /\ from = 0 /\ load = "waiting"
      /\ entities \in Seq({Decoded(Export(k)) : k \in Key})
      /\ stored = [k \in Entity |-> None] /\ before = stored /\ getAfterPut = FALSE
  BY EmptySeq DEF Init, LoadInit
<1>3. LoadTypeOK
  <2>1. DOMAIN stored = Entity /\ DOMAIN before = Entity
    BY <1>2
  <2>2. from \in 0..Len(entities) /\ 1..Len(entities) = {}
    <3>1. from = 0 /\ Len(entities) = 0
      BY <1>2
    <3> QED
      BY <3>1
  <2>3. load = "waiting" /\ getAfterPut \in BOOLEAN
    BY <1>2
  <2> QED
    BY <2>1, <2>2, <2>3, Zenon DEF LoadTypeOK
<1>4. LoadInv
  BY <1>2, <1>3 DEF LoadInv, Unique, LoadsInOrder
<1>5. StoredAsExported
  BY <1>2, BackupAssumption DEF StoredAsExported
<1>6. FromExport /\ files \in 0..MaxFiles
  BY <1>2 DEF FromExport, Init
<1> QED
  BY <1>1, <1>2, <1>3, <1>4, <1>5, <1>6 DEF BackupInv, TypeOK

(* A load does not change what was exported. *)
LEMMA SameExport ==
  ASSUME UNCHANGED dumpVars
  PROVE  /\ UNCHANGED <<content, only, dump, at, left, count, mark, out, array, failed, dropped>>
         /\ Unmarshaled' = Unmarshaled /\ Decodable' = Decodable
         /\ \A k : Export(k)' = Export(k)
         /\ \A k : Decoded(Export(k))' = Decoded(Export(k))
  BY DEF dumpVars, dumped, output, Unmarshaled, Decodable, Export, Decoded

LEMMA BackupStepInv == BackupInv /\ [Next]_vars => BackupInv'
<1> SUFFICES ASSUME BackupInv, [Next]_vars PROVE BackupInv'
  OBVIOUS
<1>0. DumpInv'
  <2>1. [DumpActions]_dumpVars
    BY DEF Next, Exporting, LoadFile, OpenError, Importing, vars
  <2> QED
    BY <2>1, DumpStepInv DEF BackupInv
<1>1. CASE Exporting
  <2>1. UNCHANGED <<load, getAfterPut, entities, from, stored, before, files>>
        /\ dump = "running" /\ UNCHANGED <<content, only>>
    BY <1>1 DEF Exporting, loadVars, dumped, DumpActions, DumpStep, DumpNext, DumpEnd, QueryDone,
       DumpRestart, DumpEntity, DumpEntityEnd, DumpError, Close
  <2>2. LoadInv'
    BY <2>1 DEF BackupInv, LoadInv, LoadTypeOK, Unique, LoadsInOrder, Holds, BatchEnd, CappedEnd
  <2>3. StoredAsExported'
    BY <2>1 DEF BackupInv, StoredAsExported
  <2>4. array # "closed" /\ entities = <<>> /\ load \notin {"put", "get", "ok"}
    BY <2>1 DEF BackupInv, DumpInv, ClosedAtEnd, FromExport
  <2>5. FromExport'
    BY <2>1, <2>4 DEF FromExport
  <2>6. TypeOK'
    BY <1>0, <2>1, <2>2 DEF BackupInv, TypeOK, DumpInv, LoadInv, Decoded, Export
  <2> QED
    BY <1>0, <2>2, <2>3, <2>5, <2>6 DEF BackupInv
<1>2. CASE LoadFile
  <2>1. /\ UNCHANGED dumpVars /\ UNCHANGED stored /\ before' = stored /\ from' = 0
        /\ files > 0 /\ files' = files - 1
        /\ getAfterPut' \in BOOLEAN
        /\ \/ load' = "put" /\ array = "closed" /\ Decodable /\ entities' = Unmarshaled
           \/ load' = "error" /\ entities' = <<>>
    BY <1>2 DEF LoadFile, LoadBegin, DecodeError
  <2>2. files' \in 0..MaxFiles
    BY <2>1, BackupAssumption DEF BackupInv, TypeOK
  <2>3. /\ entities' \in Seq({Decoded(Export(k)) : k \in Key})
        /\ Len(entities') \in Nat
        /\ \A n \in 1..Len(entities') : entities'[n].key \in Key
        /\ Unique'
    <3>1. CASE entities' = <<>>
      <4>1. Len(entities') = 0
        BY <3>1
      <4> QED
        BY <3>1, <4>1, EmptySeq DEF Unique
    <3>2. CASE entities' = Unmarshaled
      BY <3>2, UnmarshaledEntities DEF BackupInv, Unique
    <3> QED
      BY <2>1, <3>1, <3>2
  <2>4. LoadTypeOK'
    BY <2>1, <2>3, BackupAssumption DEF LoadTypeOK, BackupInv, TypeOK
  <2>5. LoadInv'
    BY <2>1, <2>3, <2>4 DEF LoadInv, LoadsInOrder
  <2>6. FromExport' /\ StoredAsExported'
    BY <2>1, SameExport DEF FromExport, BackupInv, StoredAsExported
  <2>7. TypeOK'
    <3>1. entities' \in Seq({Decoded(Export(k))' : k \in Key})
      BY <2>1, <2>3, SameExport
    <3> QED
      BY <1>0, <2>2, <2>4, <3>1 DEF TypeOK, DumpInv
  <2> QED
    BY <1>0, <2>5, <2>6, <2>7 DEF BackupInv
<1>3. CASE OpenError
  <2>1. UNCHANGED dumpVars /\ UNCHANGED <<load, getAfterPut, entities, from, stored, before>>
        /\ files > 0 /\ files' = files - 1
    BY <1>3 DEF OpenError, loadVars
  <2>2. files' \in 0..MaxFiles
    BY <2>1, BackupAssumption DEF BackupInv, TypeOK
  <2>3. LoadInv'
    BY <2>1 DEF BackupInv, LoadInv, LoadTypeOK, Unique, LoadsInOrder, Holds, BatchEnd, CappedEnd
  <2>4. FromExport' /\ StoredAsExported'
    BY <2>1, SameExport DEF FromExport, BackupInv, StoredAsExported
  <2>5. TypeOK'
    BY <1>0, <2>1, <2>2, <2>3, SameExport DEF BackupInv, TypeOK, DumpInv, LoadInv
  <2> QED
    BY <1>0, <2>3, <2>4, <2>5 DEF BackupInv
<1>4. CASE Importing
  <2>1. LoadNext /\ UNCHANGED dumpVars /\ UNCHANGED <<files, entities>>
        /\ load \in {"put", "get"}
    BY <1>4 DEF Importing, LoadNext, LoadStep, PutMulti, GetMulti, LoadEnd, PutError, GetError
  <2>2. LoadInv'
    BY <2>1, LoadStepInv DEF BackupInv
  <2>3. FromExport'
    BY <2>1, SameExport DEF BackupInv, FromExport
  <2>4. TypeOK'
    BY <1>0, <2>1, <2>2, SameExport DEF BackupInv, TypeOK, DumpInv, LoadInv
  <2>5. StoredAsExported'
    <3>1. CASE UNCHANGED stored
      BY <2>1, <3>1, SameExport DEF BackupInv, StoredAsExported
    <3>2. CASE \E I \in SUBSET Batch : stored' = Put(stored, I)
      <4>1. PICK I \in SUBSET Batch : stored' = Put(stored, I)
        BY <3>2
      <4>2. entities = Unmarshaled /\ Decodable /\ Unique /\ I \subseteq 1..Len(entities)
        BY <2>1, BatchBounds DEF BackupInv, FromExport, LoadInv
      <4>3. ASSUME NEW k \in Key, stored'[k] # None
            PROVE  /\ Marshals(content[k]) /\ Unmarshals(MarshalJSON(content[k]))
                   /\ stored'[k] = decodeEntity(MarshalJSON(content[k]))
        <5>0. k \in Entity
          BY BackupAssumption
        <5>1. CASE \A n \in I : entities[n].key # k
          <6>1. stored'[k] = stored[k]
            BY <4>1, <5>0, <5>1, PutOut
          <6> QED
            BY <4>3, <6>1 DEF BackupInv, StoredAsExported
        <5>2. CASE \E n \in I : entities[n].key = k
          <6>1. PICK n \in I : entities[n].key = k
            BY <5>2
          <6>2. stored'[k] = entities[n].properties
            BY <4>1, <4>2, <5>0, <6>1, PutIn
          <6>3. n \in 1..Len(out) /\ n \in DOMAIN out
            BY <4>2, <6>1, UnmarshaledEntities DEF BackupInv, DumpInv, DumpTypeOK
          <6>4. /\ out[n].key = k /\ entities[n].properties = decodeEntity(out[n].object)
                /\ out[n].object = MarshalJSON(content[k]) /\ Marshals(content[k])
            BY <4>2, <6>1, <6>3, UnmarshaledEntities DEF BackupInv
          <6>5. Unmarshals(out[n].object)
            BY <4>2, <6>3 DEF Decodable
          <6> QED
            BY <6>2, <6>4, <6>5
        <5> QED
          BY <5>1, <5>2
      <4> QED
        BY <2>1, <4>3, SameExport DEF StoredAsExported
    <3> QED
      BY <2>1, <3>1, <3>2 DEF LoadNext, LoadStep, PutMulti, GetMulti, LoadEnd, PutError, GetError
  <2> QED
    BY <1>0, <2>2, <2>3, <2>4, <2>5 DEF BackupInv
<1>5. CASE UNCHANGED vars
  <2>1. UNCHANGED dumpVars /\ UNCHANGED <<load, getAfterPut, entities, from, stored, before, files>>
    BY <1>5 DEF vars, loadVars
  <2>2. LoadInv'
    BY <2>1 DEF BackupInv, LoadInv, LoadTypeOK, Unique, LoadsInOrder, Holds, BatchEnd, CappedEnd
  <2>3. FromExport' /\ StoredAsExported'
    BY <2>1, SameExport DEF FromExport, BackupInv, StoredAsExported
  <2>4. TypeOK'
    BY <1>0, <2>1, <2>2, SameExport DEF BackupInv, TypeOK, DumpInv, LoadInv
  <2> QED
    BY <1>0, <2>2, <2>3, <2>4 DEF BackupInv
<1> QED
  BY <1>1, <1>2, <1>3, <1>4, <1>5 DEF Next

LEMMA BackupInvariant == Spec => []BackupInv
  BY BackupInitInv, BackupStepInv, PTL DEF Spec

(* Every state of a backup is well typed: the offsets of Load stay within  *)
(* its input, and the limits of the queries of Dump in theirs.             *)
THEOREM BackupTypeCorrect == Spec => []TypeOK
<1>1. BackupInv => TypeOK
  BY DEF BackupInv
<1> QED
  BY <1>1, BackupInvariant, PTL

(* An export that ended well is complete, for any kind that changes under  *)
(* it, any batch size, and any number of restarted queries.                *)
THEOREM ExportIsComplete == Spec => []DumpIsComplete
<1>1. BackupInv => DumpIsComplete
  BY DumpInvIsComplete DEF BackupInv
<1> QED
  BY <1>1, BackupInvariant, PTL

(* Load stores its input in order, and nothing else, whatever fails.       *)
THEOREM LoadIsInOrder == Spec => []LoadsInOrder
<1>1. BackupInv => LoadsInOrder
  BY DEF BackupInv, LoadInv
<1> QED
  BY <1>1, BackupInvariant, PTL

(* A load without an error has restored everything the export was asked    *)
(* for and sure to find, but for the entities that the writer did not take *)
(* at all: Dump ignores its errors, and the output may decode without them. *)
THEOREM OkMeansRestored == Spec => []RestoredWhenOk
<1>1. BackupInv => RestoredWhenOk
  <2> SUFFICES ASSUME BackupInv, load = "ok", NEW k \in Asked, k \notin dropped
               PROVE  stored[k] = Decoded(Export(k)).properties
    BY DEF RestoredWhenOk, Restored
  <2>1. array = "closed" /\ Decodable /\ entities = Unmarshaled
    BY DEF BackupInv, FromExport
  <2>2. dump = "ok"
    BY <2>1 DEF BackupInv, DumpInv, ClosedAtEnd
  <2>3. PICK n \in 1..Len(out) : out[n] = Export(k)
    BY <2>1, <2>2, ClosedIsComplete DEF BackupInv
  <2>4. Len(entities) = Len(out) /\ entities[n] = Decoded(out[n])
    BY <2>1, <2>3, UnmarshaledEntities DEF BackupInv, Unmarshaled, DumpInv, DumpTypeOK
  <2>5. stored[entities[n].key] = entities[n].properties
    BY <2>3, <2>4 DEF BackupInv, LoadInv, LoadsInOrder, Holds
  <2>6. entities[n].key = k
    BY <2>3, <2>4, ExportKey DEF Decoded
  <2> QED
    BY <2>3, <2>4, <2>5, <2>6
<1> QED
  BY <1>1, BackupInvariant, PTL

(* Whatever is in the other datastore is there as it was, but for what the *)
(* format does not hold.                                                   *)
THEOREM EntitiesComeBack == Spec => []ComesBack
<1>1. BackupInv => ComesBack
  <2> SUFFICES ASSUME BackupInv, NEW k \in Key, stored[k] # None
               PROVE  Same(content[k], stored[k])
    BY DEF ComesBack
  <2>1. content \in Contents
    BY DEF BackupInv, TypeOK, DumpTypeOK
  <2> QED
    BY <2>1, EntityReturns DEF BackupInv, StoredAsExported
<1> QED
  BY <1>1, BackupInvariant, PTL

(* Whatever was loaded survives every further backup unchanged, whatever   *)
(* the application had stored in the first place.                          *)
THEOREM LoadedOnceIsSettled == Spec => []OneTripSettles
<1>1. BackupInv => OneTripSettles
  <2> SUFFICES ASSUME BackupInv, NEW k \in Key, stored[k] # None
               PROVE  /\ Marshals(stored[k])
                      /\ Unmarshals(MarshalJSON(stored[k]))
                      /\ decodeEntity(MarshalJSON(stored[k])) = stored[k]
    BY DEF OneTripSettles
  <2>1. content \in Contents
    BY DEF BackupInv, TypeOK, DumpTypeOK
  <2>2. /\ Marshals(content[k]) /\ Unmarshals(MarshalJSON(content[k]))
        /\ stored[k] = decodeEntity(MarshalJSON(content[k]))
    BY DEF BackupInv, StoredAsExported
  <2> QED
    BY <2>1, <2>2, SecondTripIsExact
<1> QED
  BY <1>1, BackupInvariant, PTL

=============================================================================

------------------------------- MODULE Codec --------------------------------
(***************************************************************************)
(* The JSON form of entities: Entity.Map and MarshalJSON on the way out,   *)
(* DecodeEntities on the way back, and the getters of Entity.              *)
(*                                                                         *)
(* The properties of an entity are given name by name: nothing depends on  *)
(* the order of different names, and decodeEntity meets them in the order  *)
(* of a Go map.  A value is its type and a text that stands for it.  The   *)
(* texts are few: those that the code treats alike are represented by one. *)
(***************************************************************************)
EXTENDS Integers, Sequences

Texts(t) ==
  CASE t = "int"   -> {"7", "8"}
    [] t = "float" -> {"2.5", "1e+07", "NaN"}
    [] t = "date"  -> {"12:00:00Z", "12:00:00.5Z", "year 10000"}
    [] t = "key"   -> {"Kind,1", "namespace!Kind,1"}
    [] t = "blob"  -> {"bytes"}
    [] t = "nil"   -> {"null"}
    [] OTHER       -> {"some"}

Plain  == {"int", "float", "string", "bool", "nil"}
Typed  == {"key", "blobkey", "date", "blob"}
NoForm == {"geo"}   \* GeoPoint and ByteString: Map has no case for them
Value  == UNION {[type : {t}, text : Texts(t)] : t \in Plain \cup Typed \cup NoForm}

Property == [value : Value, noIndex : BOOLEAN, multiple : BOOLEAN]

(* What the datastore holds under one name: one value, or multiple ones.   *)
Consistent(ps) == Len(ps) <= 1 \/ \A i \in DOMAIN ps : ps[i].multiple

-----------------------------------------------------------------------------
(* strconv, regexp, base64 and the RFC3339 layout on these texts.          *)
HasPoint(text) == text = "2.5"
Int64(text)    == IF text \in {"7", "8"} THEN text ELSE "0"
Base64(text)   == IF text = "bytes" THEN "Ynl0ZXM=" ELSE text
UnBase64(text) == IF text = "Ynl0ZXM=" THEN "bytes" ELSE text
RFC3339(text)  == IF text = "12:00:00.5Z" THEN "12:00:00Z" ELSE text
Parses(text)   == text = "12:00:00Z"

(* encodeKey: the path has no namespace. *)
encodeKey(text) == "Kind,1"

(* float.MarshalJSON has no form for NaN and the infinities. *)
Encodable(value) == value.type \notin NoForm /\ value.text # "NaN"

Number == {"int", "float"}

Json(value) ==
  CASE value.type \in Number  -> [json |-> "number", text |-> value.text]
    [] value.type = "bool"    -> [json |-> "bool", text |-> value.text]
    [] value.type = "nil"     -> [json |-> "null", text |-> value.text]
    [] value.type = "key"     -> [json |-> "array", text |-> encodeKey(value.text)]
    [] value.type = "date"    -> [json |-> "string", text |-> RFC3339(value.text)]
    [] value.type = "blob"    -> [json |-> "string", text |-> Base64(value.text)]
    [] OTHER                  -> [json |-> "string", text |-> value.text]

(* One value in Map: bare when JSON can express it, else in an object that *)
(* toMap builds.                                                           *)
Bare(json) == [object |-> FALSE, type |-> "", indexed |-> TRUE, json |-> json]

toMap(type, noIndex, json) ==
  [object |-> TRUE, type |-> type, indexed |-> ~noIndex, json |-> json]

(* Mutant: what JSON can express is always bare.                           *)
CellAlwaysBare(p) ==
  IF p.value.type \in Plain THEN Bare(Json(p.value))
  ELSE toMap(p.value.type, p.noIndex, Json(p.value))

Cell(p) ==
  IF p.value.type \in Plain /\ ~p.noIndex THEN Bare(Json(p.value))
  ELSE toMap(IF p.value.type = "nil" THEN "" ELSE p.value.type, p.noIndex, Json(p.value))

(* Map, for one name: a later single value replaces what was there, and a  *)
(* multiple value behind a single one is an error.                         *)
Mixed(ps) == \E i, j \in DOMAIN ps : i < j /\ ~ps[i].multiple /\ ps[j].multiple

Field(ps) ==
  IF ps[Len(ps)].multiple
    THEN [list |-> TRUE, cells |-> [i \in DOMAIN ps |-> Cell(ps[i])]]
    ELSE [list |-> FALSE, cells |-> <<Cell(ps[Len(ps)])>>]

Marshals(entity) ==
  \A n \in DOMAIN entity :
    ~Mixed(entity[n]) /\ \A i \in DOMAIN entity[n] : Encodable(entity[n][i].value)

(* A name without properties is no attribute of the object. *)
Names(entity) == {n \in DOMAIN entity : entity[n] # <<>>}

MarshalJSON(entity) == [n \in Names(entity) |-> Field(entity[n])]

-----------------------------------------------------------------------------
(* decodeJSONPrimitiveValue: errors of Int64 are dropped. *)
PrimitiveType(json) ==
  CASE json.json = "number" -> IF HasPoint(json.text) THEN "float" ELSE "int"
    [] json.json = "null"   -> "nil"
    [] OTHER                -> json.json

Primitive(json) ==
  [type |-> PrimitiveType(json),
   text |-> IF PrimitiveType(json) = "int" THEN Int64(json.text) ELSE json.text]

(* decodeProperty.  The decoded key lies in the context's namespace.       *)
Decodes(cell) == cell.type = "date" => Parses(cell.json.text)

DecodedValue(cell) ==
  IF cell.type \in Typed
    THEN [type |-> cell.type,
          text |-> IF cell.type = "blob" THEN UnBase64(cell.json.text) ELSE cell.json.text]
    ELSE Primitive(cell.json)

(* Mutant: the flag is read as the one of the datastore.                   *)
decodePropertyFlag(cell) ==
  [value |-> DecodedValue(cell), noIndex |-> cell.indexed, multiple |-> FALSE]

decodeProperty(cell) ==
  [value |-> DecodedValue(cell), noIndex |-> ~cell.indexed, multiple |-> FALSE]

(* decodeEntity: lists are multiple properties. *)
DecodedField(field) ==
  [i \in DOMAIN field.cells |->
    [decodeProperty(field.cells[i]) EXCEPT !.multiple = field.list]]

Unmarshals(object) ==
  \A n \in DOMAIN object : \A i \in DOMAIN object[n].cells : Decodes(object[n].cells[i])

decodeEntity(object) == [n \in DOMAIN object |-> DecodedField(object[n])]

-----------------------------------------------------------------------------
(* Entity.Get and its typed variants: the first value of a name, or the    *)
(* zero value if there is none or it has another type.                     *)
Zero(type) == CASE type = "int"   -> "0"
                [] type = "float" -> "0.0"
                [] type = "bool"  -> "false"
                [] OTHER          -> ""

GetTyped(entity, name, type) ==
  IF name \in DOMAIN entity /\ entity[name] # <<>> /\ entity[name][1].value.type = type
    THEN entity[name][1].value.text
    ELSE Zero(type)

-----------------------------------------------------------------------------
(* What an exported property should be after it was loaded: the same, but  *)
(* for what the format does not hold.                                      *)
ReturnedValue(v) ==
  CASE v.text = "1e+07"            -> [type |-> "int", text |-> "0"]
    [] v.text = "12:00:00.5Z"      -> [type |-> "date", text |-> "12:00:00Z"]
    [] v.text = "namespace!Kind,1" -> [type |-> "key", text |-> "Kind,1"]
    [] OTHER                       -> v

Returned(p) == [p EXCEPT !.value = ReturnedValue(p.value)]

Loadable(p) == Encodable(p.value) /\ p.value.text # "year 10000"

=============================================================================

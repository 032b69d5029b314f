------------------------------- MODULE TFTypes -------------------------------
(***************************************************************************)
(* The conversions between Terraform's wire values and the provider's own  *)
(* types, plugin/tftypes.go: every resource decodes what core sends into   *)
(* holders (tfString, tfStringMap, tfObject ...) and encodes its answer    *)
(* from them again.                                                        *)
(*                                                                         *)
(* A wire value has a type t, a status s and a content v, which is a tuple *)
(* with one value for a scalar, a tuple of wire values for a list and a    *)
(* function from names to wire values for a map or an object.  The type of *)
(* an object is the set of its attribute names: the content of a null or   *)
(* unknown object is a function on them.  A holder is what the Go types    *)
(* keep, with its kind.  Numbers are in tenths, since the code cuts the    *)
(* fraction off.  Of maps a map of strings in an object or of a schema is  *)
(* a stringMap, any other one and one of any type a map.                   *)
(***************************************************************************)
EXTENDS Integers, Sequences

CONSTANT MaxInt     \* the largest int64

ASSUME IntAssumption == MaxInt \in Nat

Empty == <<>>
Known(t, v) == [t |-> t, s |-> "known", v |-> v]
Unknown(t) == [t |-> t, s |-> "unknown", v |-> Empty]
Null(t) == [t |-> t, s |-> "null", v |-> Empty]
IsKnown(w) == w.s # "unknown"
HasValue(w) == w.s = "known"

Scalars == {"bool", "number", "string"}

(* newTfString and the others: a holder starts as null.                    *)
New(kind) == [k |-> kind, Unknown |-> FALSE, Null |-> TRUE, Val |-> Empty]

(* Set clears both flags; an unknown or a null value raises its flag and   *)
(* leaves the other and the value as they are.                             *)
Set(h, v) == [k |-> h.k, Unknown |-> FALSE, Null |-> FALSE, Val |-> v]
Flag(h, w) == IF w.s = "unknown" THEN [h EXCEPT !.Unknown = TRUE] ELSE [h EXCEPT !.Null = TRUE]

(* big.Float's Int64 cuts towards zero, and to the nearest that it has.    *)
InInt64(n) == -10 * (MaxInt + 1) <= n /\ n <= 10 * MaxInt
Int64(n) ==
    LET whole == IF n >= 0 THEN n - (n % 10) ELSE -((-n) - ((-n) % 10))
    IN  IF InInt64(whole) THEN whole ELSE IF n > 0 THEN 10 * MaxInt ELSE -10 * (MaxInt + 1)

BoolFrom(h, w) == IF HasValue(w) THEN Set(h, w.v) ELSE Flag(h, w)
NumFrom(h, w) == IF HasValue(w) THEN Set(h, <<Int64(w.v[1])>>) ELSE Flag(h, w)
StringFrom(h, w) == IF HasValue(w) THEN Set(h, w.v) ELSE Flag(h, w)
StringsFrom(h, w) ==
    IF HasValue(w) THEN Set(h, [i \in DOMAIN w.v |-> StringFrom(New("string"), w.v[i])])
                   ELSE Flag(h, w)
StringMapFrom(h, w) ==
    IF HasValue(w) THEN Set(h, [a \in DOMAIN w.v |-> StringFrom(New("string"), w.v[a])])
                   ELSE Flag(h, w)

(* Lists and maps are told by being one, whatever they hold: of objects in *)
(* an object they are taken for strings, and a null in them is an empty    *)
(* one.                                                                    *)
TakenForStrings(kind, w) ==
    Set(New(kind), IF HasValue(w) THEN [a \in DOMAIN w.v |-> Set(New("string"), <<"">>)] ELSE Empty)

(* One attribute that is no object.  An unknown dynamic value is kept raw. *)
FlatFrom(w) ==
    CASE w.t = "bool" -> BoolFrom(New("bool"), w)
      [] w.t = "number" -> NumFrom(New("number"), w)
      [] w.t = "string" -> StringFrom(New("string"), w)
      [] w.t = "strings" -> StringsFrom(New("strings"), w)
      [] w.t = "stringMap" -> StringMapFrom(New("stringMap"), w)
      [] w.t = "objects" -> TakenForStrings("strings", w)
      [] w.t = "map" -> TakenForStrings("stringMap", w)
      [] OTHER -> [New("raw") EXCEPT !.Val = <<w>>]

(* tfObject: only a dynamic null is null to it.  A null that has an object *)
(* type decodes to an object without attributes.                           *)
ObjectFrom(h, w, holders) ==
    IF w.s = "unknown" THEN [h EXCEPT !.Unknown = TRUE]
    ELSE IF w.s = "null" /\ w.t = "dynamic" THEN [h EXCEPT !.Null = TRUE]
    ELSE IF w.s = "null" THEN Set(h, Empty)
    ELSE Set(h, holders)

(* Objects nest in objects, as in a Vault configuration; two levels here.  *)
NestedFrom(w) ==
    IF w.t = "object" THEN ObjectFrom(New("object"), w, [a \in DOMAIN w.v |-> FlatFrom(w.v[a])])
    ELSE FlatFrom(w)

HoldersFrom(w) == [a \in DOMAIN w.v |-> NestedFrom(w.v[a])]

ObjectsFrom(h, w) ==
    IF HasValue(w) THEN Set(h, [i \in DOMAIN w.v |-> ObjectFrom(New("object"), w.v[i], HoldersFrom(w.v[i]))])
                   ELSE Flag(h, w)

(* What tfObject can decode: anything else, such as a tuple, a dynamic     *)
(* null or a list of objects that have values, is an error.                *)
FlatDecodes(w) ==
    \/ w.t \in Scalars \cup {"strings", "stringMap"}
    \/ w.t = "dynamic" /\ ~IsKnown(w)
    \/ w.t \in {"objects", "map"} /\ IsKnown(w) /\ (HasValue(w) => \A a \in DOMAIN w.v : w.v[a].s = "null")
NestedDecodes(w) ==
    \/ FlatDecodes(w)
    \/ w.t = "object" /\ (HasValue(w) => \A a \in DOMAIN w.v : FlatDecodes(w.v[a]))
ObjectDecodes(w) == \A a \in DOMAIN w.v : NestedDecodes(w.v[a])

(* TFValue.  Unknown is looked at before Null.  An empty list, map, object *)
(* or list of objects is encoded as a null.                                *)
ScalarValue(h) ==
    CASE h.Unknown -> Unknown(h.k)
      [] ~h.Unknown /\ h.Null -> Null(h.k)
      [] OTHER -> Known(h.k, h.Val)
CollectionValue(h) ==
    CASE h.Unknown -> Unknown(h.k)
      [] ~h.Unknown /\ (h.Null \/ DOMAIN h.Val = {}) -> Null(h.k)
      [] OTHER -> Known(h.k, [a \in DOMAIN h.Val |-> ScalarValue(h.Val[a])])
FlatValue(h) ==
    CASE h.k \in Scalars -> ScalarValue(h)
      [] h.k = "raw" -> h.Val[1]
      [] OTHER -> CollectionValue(h)
ObjectValue(h, values) ==
    CASE h.Unknown -> [Unknown("object") EXCEPT !.v = [a \in DOMAIN h.Val |-> Empty]]
      [] ~h.Unknown /\ (h.Null \/ DOMAIN h.Val = {}) ->
            [Null("object") EXCEPT !.v = [a \in DOMAIN h.Val |-> Empty]]
      [] OTHER -> Known("object", values)
NestedValue(h) ==
    IF h.k = "object" THEN ObjectValue(h, [a \in DOMAIN h.Val |-> FlatValue(h.Val[a])]) ELSE FlatValue(h)
NestedValues(h) == [a \in DOMAIN h.Val |-> NestedValue(h.Val[a])]
ObjectsValue(h) ==
    CASE h.Unknown -> Unknown("objects")
      [] ~h.Unknown /\ (h.Null \/ DOMAIN h.Val = {}) -> Null("objects")
      [] OTHER -> Known("objects", [i \in DOMAIN h.Val |-> ObjectValue(h.Val[i], NestedValues(h.Val[i]))])

(* dynamicPseudoTypeBlock: an attribute of any type.  Object is its holder *)
(* and Original the value it was decoded from, which tells a map from an   *)
(* object when it is encoded again.                                        *)
NewBlock == [Object |-> New("object"), Original |-> Empty]
BlockFrom(b, w) ==
    CASE w.s = "unknown" -> [b EXCEPT !.Object.Unknown = TRUE]
      [] w.s = "null" -> b
      [] OTHER -> [Object |-> ObjectFrom(b.Object, w, HoldersFrom(w)), Original |-> <<w>>]
(* Mutation: the answer is always an object.                               *)
EncodeAsObject(original, values) == Known("object", values)
(* encodeTfObjectDynamicPseudoType.                                        *)
Encode(original, values) == Known(original.t, values)
Content(b) ==
    LET w == ObjectValue(b.Object, NestedValues(b.Object)) IN IF HasValue(w) THEN w.v ELSE Empty
BlockValue(b) ==
    CASE b.Original = Empty /\ b.Object.Unknown -> Unknown("dynamic")
      [] b.Original = Empty /\ ~b.Object.Unknown -> Null("dynamic")
      [] OTHER -> Encode(b.Original[1], Content(b))

(* The type of an encoded value, as far as decoding changes it: an object  *)
(* without a value has lost its attributes.                                *)
Shape(w) == <<w.t, IF w.t = "object" /\ HasValue(w) THEN DOMAIN w.v ELSE {}>>
EncodedType(w) ==
    <<w.t, IF w.t = "object" /\ HasValue(w) THEN {<<a, Shape(w.v[a])>> : a \in DOMAIN w.v}
           ELSE IF w.t = "map" /\ HasValue(w) THEN {Shape(w.v[a]) : a \in DOMAIN w.v}
           ELSE {}>>
OneElementType(values) == \A a, b \in DOMAIN values : EncodedType(values[a]) = EncodedType(values[b])

(* Encoding panics on a map whose elements have become of several types,   *)
(* and on one without elements, which has no element type.                 *)
BlockEncodes(b) ==
    b.Original # Empty /\ b.Original[1].t = "map" => Content(b) # Empty /\ OneElementType(Content(b))

(* Get, GetStrings, GetObject and GetObjects: a native value, if every     *)
(* part of the holder is known and not null.                               *)
Get(h) == ~h.Unknown /\ ~h.Null
GetStrings(h) == Get(h) /\ \A a \in DOMAIN h.Val : Get(h.Val[a])
FlatGet(h) ==
    CASE h.k \in Scalars -> Get(h)
      [] h.k = "raw" -> TRUE
      [] OTHER -> GetStrings(h)
NestedGet(h) ==
    IF h.k = "object" THEN Get(h) /\ \A a \in DOMAIN h.Val : FlatGet(h.Val[a]) ELSE FlatGet(h)
GetObject(h) == Get(h) /\ \A a \in DOMAIN h.Val : NestedGet(h.Val[a])
GetObjects(h) == Get(h) /\ \A i \in DOMAIN h.Val : GetObject(h.Val[i])

(* An attribute of a resource, whose schema gives it a type or leaves it   *)
(* dynamic.                                                                *)
IsDynamic(w) == w.t \in {"dynamic", "object", "map", "tuple"}
Decodes(w) ==
    HasValue(w) =>
        /\ IsDynamic(w) => w.t # "tuple" /\ ObjectDecodes(w)
        /\ w.t = "objects" => \A i \in DOMAIN w.v : HasValue(w.v[i]) => ObjectDecodes(w.v[i])
Decode(w) ==
    CASE IsDynamic(w) -> BlockFrom(NewBlock, w)
      [] w.t = "objects" -> ObjectsFrom(New("objects"), w)
      [] OTHER -> FlatFrom(w)
Encodes(w) == IsDynamic(w) => BlockEncodes(Decode(w))
EncodeAgain(w) ==
    CASE IsDynamic(w) -> BlockValue(Decode(w))
      [] w.t = "objects" -> ObjectsValue(Decode(w))
      [] OTHER -> FlatValue(Decode(w))
Native(w) ==
    CASE IsDynamic(w) -> GetObject(Decode(w).Object)
      [] w.t = "objects" -> GetObjects(Decode(w))
      [] OTHER -> FlatGet(Decode(w))

-----------------------------------------------------------------------------
(* What core sends for an attribute, in an object (FlatWire), in an object *)
(* of a resource (NestedWire) and of the resource itself (AttrWire): the   *)
(* type says what a value of it holds.                                     *)
IsWire(w) == w = [t |-> w.t, s |-> w.s, v |-> w.v] /\ w.s \in {"known", "unknown", "null"}
IsMapping(f) == f = [a \in DOMAIN f |-> f[a]]

Collections == {"strings", "stringMap"}
StringWire(w) ==
    /\ IsWire(w) /\ w.t = "string"
    /\ w.v = IF HasValue(w) THEN <<w.v[1]>> ELSE Empty
FlatWire(w) ==
    /\ IsWire(w)
    /\ w.t = "dynamic" => ~HasValue(w)
    /\ w.t \in Scalars /\ HasValue(w) => w.v = <<w.v[1]>> /\ (w.t = "number" => w.v[1] \in Int)
    /\ w.t \in Collections /\ HasValue(w) => IsMapping(w.v) /\ \A a \in DOMAIN w.v : StringWire(w.v[a])
    /\ w.t \in Scalars \union Collections \union {"dynamic", "objects"} /\ ~HasValue(w) => w.v = Empty
NestedWire(w) ==
    /\ FlatWire(w)
    /\ w.t = "object" /\ HasValue(w) => IsMapping(w.v) /\ \A a \in DOMAIN w.v : FlatWire(w.v[a])
ObjectWire(w) ==
    /\ IsWire(w)
    /\ HasValue(w) => IsMapping(w.v) /\ \A a \in DOMAIN w.v : NestedWire(w.v[a])
SameType(w1, w2) ==
    /\ w1.t = w2.t
    /\ w1.t = "object" /\ HasValue(w1) /\ HasValue(w2) =>
            DOMAIN w1.v = DOMAIN w2.v /\ \A a \in DOMAIN w1.v : w1.v[a].t = w2.v[a].t
AttrWire(w) ==
    /\ FlatWire(w)
    /\ w.t \in {"object", "map", "tuple"} => ObjectWire(w)
    /\ w.t = "map" /\ HasValue(w) => \A a, b \in DOMAIN w.v : SameType(w.v[a], w.v[b])
    /\ w.t = "objects" /\ HasValue(w) =>
            IsMapping(w.v) /\ \A i \in DOMAIN w.v : w.v[i].t = "object" /\ ObjectWire(w.v[i])
=============================================================================

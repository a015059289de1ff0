------------------------------- MODULE Values -------------------------------
(***************************************************************************)
(* Run-time values and the operations every type shares: __eq              *)
(* (wasm/src/helpers/eq.rs), __hash (dict.rs) and the helpers of tuples,   *)
(* variants and records (tuple.rs, variant.rs, record.rs).  One value of   *)
(* the language has several representations: an int is an i31 or a heap    *)
(* $int, a record is uniform or a nominal shape, a list may have spare     *)
(* capacity, 0.0 and -0.0 are one number; what the helpers answer must not *)
(* depend on which one they meet.                                          *)
(***************************************************************************)
EXTENDS Integers, Sequences, SequencesExt

CONSTANTS RecordShapes,   \* the nominal record shapes: id -> sequence of [name, repr]
          SmallInts       \* the ints that box_int makes an i31 of

Null == <<"null">>        \* ref.null: the unit value, and a slot without a value

\* float bit patterns; every other pattern is a number equal to itself only
FloatZero == 0
NegativeZero == 32
NotANumber == 31

FloatEq(f, g) == f # NotANumber /\ (f = g \/ {f, g} = {FloatZero, NegativeZero})

----------------------------------------------------------------------------
(* Representations *)

box_int(n) == IF n \in SmallInts THEN <<"i31", n>> ELSE <<"int", n>>

value_tag(v) == CASE v[1] = "i31" -> "int" [] v[1] = "null" -> "nothing" [] OTHER -> v[1]

Slot(arr, i) == IF i <= Len(arr) THEN arr[i] ELSE Null

\* arity, three inline elements, the rest
tuple_from_array(arr) ==
    <<"tuple", Len(arr), Slot(arr, 1), Slot(arr, 2), Slot(arr, 3),
      IF Len(arr) > 3 THEN SubSeq(arr, 4, Len(arr)) ELSE Null>>

tuple_elems(v) == [i \in 1 .. v[2] |-> IF i <= 3 THEN v[2 + i] ELSE v[6][i - 3]]

\* the tag within the enum, the arity, two inline fields, or the whole payload in the rest
variant_from_array(vtag, arr) ==
    <<"variant", vtag, Len(arr), Slot(arr, 1), Slot(arr, 2), IF Len(arr) > 2 THEN arr ELSE Null>>

variant_payload(v) ==
    CASE v[3] >= 3 -> v[6]
      [] v[3] = 0 -> <<>>
      [] v[3] = 1 -> <<v[4]>>
      [] OTHER -> <<v[4], v[5]>>

\* an array and the logical length, which list.push and list.pop make less than its capacity
ListValue(arr, len) == <<"list", arr, len>>

list_elems(v) == SubSeq(v[2], 1, v[3])

\* names in sorted order and the values in the same order
RecordValue(names, vals) == <<"record", names, vals>>

\* a nominal record keeps a float field as the bare number
ShapeValue(id, vals) ==
    <<"shape", id, [i \in DOMAIN vals |->
        IF RecordShapes[id][i].repr = "F64" THEN vals[i][2] ELSE vals[i]]>>

denominalize(v) ==
    IF v[1] # "shape" THEN v
    ELSE LET fs == RecordShapes[v[2]]
         IN RecordValue([i \in DOMAIN fs |-> fs[i].name],
                        [i \in DOMAIN fs |-> IF fs[i].repr = "F64" THEN <<"float", v[3][i]>> ELSE v[3][i]])

----------------------------------------------------------------------------
(* Records by field name *)

getfield(rec, name) ==
    LET r == denominalize(rec) IN r[3][SelectInSeq(r[2], LAMBDA n : n = name)]

record_update(rec, name, value) ==
    LET r == denominalize(rec)
        i == SelectInSeq(r[2], LAMBDA n : n = name)
    IN RecordValue(r[2], IF i = 0 THEN r[3] ELSE [r[3] EXCEPT ![i] = value])

record_rest(rec, excluded) ==
    LET r == denominalize(rec)
        kept == SelectSeq([i \in DOMAIN r[2] |-> i], LAMBDA i : r[2][i] \notin ToSet(excluded))
    IN RecordValue([i \in DOMAIN kept |-> r[2][kept[i]]], [i \in DOMAIN kept |-> r[3][kept[i]]])

----------------------------------------------------------------------------
(* __eq and __hash *)

\* the parts that __eq and __hash visit in order, with the payload of the node itself
Parts(v) ==
    CASE v[1] = "variant" -> variant_payload(v)
      [] v[1] = "tuple" -> tuple_elems(v)
      [] v[1] = "list" -> list_elems(v)
      [] v[1] = "record" -> v[3]
      [] OTHER -> <<>>

Scalars == {"bool", "duration", "str", "bytes", "ref"}

EqScalar(a, b) == IF a[1] = "float" THEN FloatEq(a[2], b[2]) ELSE a[2] = b[2]

RECURSIVE Eq(_, _)
DictEntriesEq(a, b) ==
    /\ Len(a) = Len(b)
    /\ \A i \in DOMAIN a : \E j \in DOMAIN b : Eq(a[i][1], b[j][1]) /\ Eq(a[i][2], b[j][2])

EqParts(pa, pb) == Len(pa) = Len(pb) /\ \A i \in DOMAIN pa : Eq(pa[i], pb[i])

Eq(x, y) ==
    LET a == denominalize(x)
        b == denominalize(y)
        tag == value_tag(a)
    IN /\ tag = value_tag(b)
       /\ CASE tag = "nothing" -> TRUE
            [] tag \in Scalars \cup {"int", "float"} -> EqScalar(a, b)
            [] tag = "dict" -> DictEntriesEq(a[2], b[2])
            [] OTHER -> (tag = "variant" => a[2] = b[2]) /\ EqParts(Parts(a), Parts(b))

Lifted(x) == denominalize(x)

\* what is mixed into the hash, in order; equal streams are all that makes equal
\* hashes certain
RECURSIVE Hash(_)
Hash(x) ==
    LET v == Lifted(x)
        own == CASE value_tag(v) = "int" -> <<v[2]>>
                 [] v[1] \in Scalars \ {"ref"} -> <<v[2]>>
                 [] v[1] = "float" -> <<IF FloatEq(v[2], FloatZero) THEN FloatZero ELSE v[2]>>
                 [] v[1] = "variant" -> <<v[2]>>
                 [] OTHER -> <<>>
    IN <<value_tag(v), own, [i \in DOMAIN Parts(v) |-> Hash(Parts(v)[i])]>>

----------------------------------------------------------------------------
(* The value of the language that a representation stands for *)

RECURSIVE Meaning(_)
Meaning(v) ==
    CASE v[1] = "null" -> <<"nothing">>
      [] v[1] \in {"i31", "int"} -> <<"int", v[2]>>
      [] v[1] = "float" -> <<"float", IF v[2] = NegativeZero THEN FloatZero ELSE v[2]>>
      [] v[1] = "variant" -> <<"variant", v[2], [i \in 1 .. v[3] |->
                                Meaning(IF v[3] >= 3 THEN v[6][i] ELSE v[3 + i])]>>
      [] v[1] = "tuple" -> <<"tuple", [i \in 1 .. v[2] |->
                              Meaning(IF i <= 3 THEN v[2 + i] ELSE v[6][i - 3])]>>
      [] v[1] = "list" -> <<"list", [i \in 1 .. v[3] |-> Meaning(v[2][i])]>>
      [] v[1] = "record" -> <<"record", [i \in DOMAIN v[2] |-> <<v[2][i], Meaning(v[3][i])>>]>>
      [] v[1] = "shape" -> <<"record", [i \in DOMAIN v[3] |->
             <<RecordShapes[v[2]][i].name,
               IF RecordShapes[v[2]][i].repr = "F64"
               THEN <<"float", IF v[3][i] = NegativeZero THEN FloatZero ELSE v[3][i]>>
               ELSE Meaning(v[3][i])>>]>>
      [] v[1] = "dict" -> <<"dict", {<<Meaning(v[2][i][1]), Meaning(v[2][i][2])>> : i \in DOMAIN v[2]}>>
      [] OTHER -> v
=============================================================================

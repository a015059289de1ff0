-------------------------------- MODULE Wire --------------------------------
(***************************************************************************)
(* The wire codec: the schema the analyzer derives from a type             *)
(* (compiler/src/analyzer.rs build_wire_shape), the encoder and decoder    *)
(* that interpret it over run-time values (wasm/src/helpers/wire.rs) and   *)
(* the fingerprints of a schema (wire.rs __wire_fp, compiler/src/rpc.rs).  *)
(* A byte has three bits here (two of payload and a continuation bit in a  *)
(* varint) and an int five, so that, as with 64-bit ints in groups of      *)
(* seven, the last byte of the longest varint carries a single bit.        *)
(***************************************************************************)
EXTENDS Values

CONSTANTS EnumDefs      \* enum name -> sequence of [name, payload types]; empty when opaque

GroupBits == 2
ByteSize == 2 ^ (GroupBits + 1)
IntBits == 5
MaxGroups == (IntBits + GroupBits - 1) \div GroupBits
FloatBytes == 2

----------------------------------------------------------------------------
(* Schemas *)

NoShape == <<"none">>

PrimitiveTypes == {"int", "float", "bool", "str", "bytes", "duration", "nothing"}
WireKeyTypes == {"int", "float", "bool", "str", "bytes"}

RECURSIVE subst_type(_, _)
subst_type(t, args) ==
    CASE t[1] = "param" -> args[t[2]]
      [] t[1] \in {"list", "ref"} -> <<t[1], subst_type(t[2], args)>>
      [] t[1] = "dict" -> <<"dict", subst_type(t[2], args), subst_type(t[3], args)>>
      [] t[1] = "tuple" -> <<"tuple", [i \in DOMAIN t[2] |-> subst_type(t[2][i], args)]>>
      [] t[1] = "record" -> <<"record", [i \in DOMAIN t[2] |-> <<t[2][i][1], subst_type(t[2][i][2], args)>>]>>
      [] t[1] = "enum" -> <<"enum", t[2], [i \in DOMAIN t[3] |-> subst_type(t[3][i], args)]>>
      [] OTHER -> t

\* a list of shapes, or NoShape when one of them is not derivable
AllShapes(tag, shapes) ==
    IF NoShape \in ToSet(shapes) THEN NoShape ELSE <<tag, shapes>>

\* the enums being expanded are told apart by name, whatever their arguments
BeingExpanded(t, visiting) == t[2] \in ToSet(visiting)

\* fields are in sorted order in every type of the model
RECURSIVE build_wire_shape(_, _)
build_wire_shape(t, visiting) ==
    CASE t[1] \in PrimitiveTypes -> <<t[1]>>
      [] t[1] = "list" ->
           LET s == build_wire_shape(t[2], visiting) IN IF s = NoShape THEN NoShape ELSE <<"list", s>>
      [] t[1] = "tuple" ->
           AllShapes("tuple", [i \in DOMAIN t[2] |-> build_wire_shape(t[2][i], visiting)])
      [] t[1] = "record" ->
           LET ss == [i \in DOMAIN t[2] |-> build_wire_shape(t[2][i][2], visiting)]
           IN IF NoShape \in ToSet(ss) THEN NoShape
              ELSE <<"record", [i \in DOMAIN ss |-> <<t[2][i][1], ss[i]>>]>>
      [] t[1] = "enum" /\ EnumDefs[t[2]] = <<>> -> NoShape
      [] t[1] = "enum" /\ BeingExpanded(t, visiting) -> <<"enum-ref", t[2]>>
      [] t[1] = "enum" ->
           LET inner == Append(visiting, t[2])
               vs == [i \in DOMAIN EnumDefs[t[2]] |->
                        [j \in DOMAIN EnumDefs[t[2]][i][2] |->
                           build_wire_shape(subst_type(EnumDefs[t[2]][i][2][j], t[3]), inner)]]
           IN IF \E i \in DOMAIN vs : NoShape \in ToSet(vs[i]) THEN NoShape
              ELSE <<"enum", t[2], [i \in DOMAIN vs |-> <<EnumDefs[t[2]][i][1], vs[i]>>]>>
      [] t[1] = "dict" /\ t[2][1] \in WireKeyTypes ->
           LET s == build_wire_shape(t[3], visiting)
           IN IF s = NoShape THEN NoShape ELSE <<"dict", <<t[2][1]>>, s>>
      [] OTHER -> NoShape

WireShape(t) == build_wire_shape(t, <<>>)

----------------------------------------------------------------------------
(* Encoding: st = [buf, ctx, trap].  A cast of a value that is not of the  *)
(* representation the schema asks for traps.                               *)

EncStart == [buf |-> <<>>, ctx |-> <<>>, trap |-> FALSE]

push(st, b) == [st EXCEPT !.buf = Append(@, b)]

Trapped(st) == [st EXCEPT !.trap = TRUE]

zigzag(n) == IF n >= 0 THEN 2 * n ELSE 2 * (-n) - 1

unzigzag(u) == IF u % 2 = 0 THEN u \div 2 ELSE -((u + 1) \div 2)

RECURSIVE uvarint(_, _)
uvarint(st, v) ==
    LET group == v % 2 ^ GroupBits
        rest == v \div 2 ^ GroupBits
    IN IF rest = 0 THEN push(st, group) ELSE uvarint(push(st, group + 2 ^ GroupBits), rest)

ctxput(st, name, variants) == [st EXCEPT !.ctx = Append(@, <<name, variants>>)]

\* the variants first registered under the name; none (a null reference) when there are none
ctxget(st, name) ==
    LET i == SelectInSeq(st.ctx, LAMBDA e : e[1] = name) IN IF i = 0 THEN <<>> ELSE st.ctx[i][2]

\* memcmp of the encoded keys, the shorter first
BytesLess(a, b) ==
    \E i \in 1 .. Len(b) :
        /\ i > Len(a) \/ a[i] < b[i]
        /\ \A j \in 1 .. i - 1 : j <= Len(a) /\ a[j] = b[j]

\* the insertion sort of __wire_enc_dict
SortPairs(pairs) == SortSeq(pairs, LAMBDA p, q : BytesLess(p[1], q[1]))

\* the representation the schema node casts the value to
CastOk(s, v) ==
    CASE s[1] \in {"int", "duration"} -> value_tag(v) \in {"int", "duration"}
      [] s[1] \in {"str", "bytes"} -> v[1] \in {"str", "bytes"}
      [] s[1] \in {"enum", "enum-ref"} -> v[1] = "variant"
      [] s[1] = "record" -> v[1] \in {"record", "shape"}
      [] s[1] = "nothing" -> TRUE
      [] OTHER -> v[1] = s[1]

RECURSIVE enc(_, _, _)
EncAll(st, schemas, vals) ==
    FoldLeft(LAMBDA acc, i : enc(acc, schemas[i], vals[i]), st, [i \in DOMAIN schemas |-> i])

enc_variant(st, variants, v) ==
    IF v[2] + 1 \notin DOMAIN variants \/ Len(variants[v[2] + 1][2]) > v[3] THEN Trapped(st)
    ELSE EncAll(uvarint(st, v[2]), variants[v[2] + 1][2], variant_payload(v))

enc_dict(st, s, v) ==
    LET keys == [i \in DOMAIN v[2] |-> enc([st EXCEPT !.buf = <<>>], s[2], v[2][i][1])]
        pairs == SortPairs([i \in DOMAIN v[2] |-> <<keys[i].buf, v[2][i][2]>>])
    IN FoldLeft(LAMBDA acc, p : enc([acc EXCEPT !.buf = @ \o p[1]], s[3], p[2]),
                [uvarint(st, Len(pairs)) EXCEPT !.trap = @ \/ \E i \in DOMAIN keys : keys[i].trap],
                pairs)

enc_scalar(st, s, v) ==
    CASE s[1] \in {"int", "duration"} -> uvarint(st, zigzag(v[2]))
      [] s[1] = "float" ->
           FoldLeft(LAMBDA acc, i : push(acc, (v[2] \div ByteSize ^ i) % ByteSize),
                    st, [i \in 1 .. FloatBytes |-> i - 1])
      [] s[1] = "bool" -> push(st, v[2])
      [] s[1] \in {"str", "bytes"} -> [uvarint(st, Len(v[2])) EXCEPT !.buf = @ \o v[2]]
      [] s[1] = "nothing" -> st

enc(st, s, v) ==
    IF st.trap THEN st
    ELSE IF ~CastOk(s, v) THEN Trapped(st)
    ELSE CASE s[1] \in PrimitiveTypes -> enc_scalar(st, s, v)
           [] s[1] = "list" ->
                FoldLeft(LAMBDA acc, e : enc(acc, s[2], e), uvarint(st, v[3]), list_elems(v))
           [] s[1] = "tuple" -> EncAll(st, s[2], tuple_elems(v))
           [] s[1] = "record" ->
                EncAll(st, [i \in DOMAIN s[2] |-> s[2][i][2]], denominalize(v)[3])
           [] s[1] = "enum" -> enc_variant(ctxput(st, s[2], s[3]), s[3], v)
           [] s[1] = "enum-ref" -> enc_variant(st, ctxget(st, s[2]), v)
           [] s[1] = "dict" -> enc_dict(st, s, v)

\* the wire-encode builtin: the codec's globals are reset first
wire_encode(s, v) == enc(EncStart, s, v)

----------------------------------------------------------------------------
(* Decoding: st = [input, pos, err, ctx].  The first error wins and later  *)
(* reads answer 0.                                                         *)

UnexpectedEnd == 1
InvalidTag == 2
TrailingBytes == 4
Malformed == 5

DecStart(bytes) == [input |-> bytes, pos |-> 0, err |-> 0, ctx |-> <<>>]

Fail(st, e) == [st EXCEPT !.err = e]

\* every reader answers the state it leaves and what it read
rbyte(st) ==
    CASE st.err # 0 -> <<st, 0>>
      [] st.err = 0 /\ st.pos >= Len(st.input) -> <<Fail(st, UnexpectedEnd), 0>>
      [] OTHER -> <<[st EXCEPT !.pos = @ + 1], st.input[st.pos + 1]>>

\* mutant: the last byte may carry no bit at all
MutOverlong(i, byte) == i = MaxGroups - 1 /\ byte > 0

\* the last byte of the longest varint may carry one bit only
Overlong(i, byte) == i = MaxGroups - 1 /\ byte > 1

RECURSIVE RestOfVarint(_, _, _)
RestOfVarint(st, i, result) ==
    IF i >= MaxGroups THEN <<Fail(st, Malformed), 0>>
    ELSE LET r == rbyte(st)
             value == result + (r[2] % 2 ^ GroupBits) * 2 ^ (GroupBits * i)
         IN CASE r[1].err # 0 -> <<r[1], 0>>
              [] r[1].err = 0 /\ Overlong(i, r[2]) -> <<Fail(r[1], Malformed), 0>>
              [] OTHER -> IF r[2] < 2 ^ GroupBits THEN <<r[1], value % 2 ^ IntBits>>
                          ELSE RestOfVarint(r[1], i + 1, value)

ruvarint(st) == RestOfVarint(st, 0, 0)

RECURSIVE dec(_, _)
DecAll(st, schemas) ==
    FoldLeft(LAMBDA acc, s : LET r == dec(acc[1], s) IN <<r[1], Append(acc[2], r[2])>>,
             <<st, <<>>>>, schemas)

Times(s, n) == [i \in 1 .. n |-> s]

dec_variant(st, variants) ==
    LET tag == ruvarint(st)
        fields == DecAll(tag[1], variants[tag[2] + 1][2])
    IN CASE tag[1].err # 0 -> <<tag[1], Null>>
         [] tag[1].err = 0 /\ tag[2] >= Len(variants) -> <<Fail(tag[1], InvalidTag), Null>>
         [] OTHER -> <<fields[1], variant_from_array(tag[2], fields[2])>>

\* __dict_insert, seen through the entries a dictionary lists
InsertEntry(entries, k, v) ==
    LET i == SelectInSeq(entries, LAMBDA e : Eq(e[1], k))
    IN IF i = 0 THEN Append(entries, <<k, v>>) ELSE [entries EXCEPT ![i] = <<k, v>>]

dec_scalar(st, s) ==
    LET n == ruvarint(st)
    IN CASE s[1] \in {"int", "duration"} ->
              IF n[1].err # 0 THEN <<n[1], Null>> ELSE <<n[1], <<s[1], unzigzag(n[2])>>>>
         [] s[1] = "float" ->
              LET r == FoldLeft(LAMBDA acc, i : LET b == rbyte(acc[1]) IN <<b[1], acc[2] + b[2] * ByteSize ^ i>>,
                                <<st, 0>>, [i \in 1 .. FloatBytes |-> i - 1])
              IN <<r[1], <<"float", r[2]>>>>
         [] s[1] = "bool" -> LET b == rbyte(st) IN <<b[1], <<"bool", IF b[2] # 0 THEN 1 ELSE 0>>>>
         [] s[1] \in {"str", "bytes"} ->
              CASE n[1].err # 0 -> <<n[1], Null>>
                [] n[1].err = 0 /\ n[2] > Len(n[1].input) - n[1].pos -> <<Fail(n[1], UnexpectedEnd), Null>>
                [] OTHER -> <<[n[1] EXCEPT !.pos = @ + n[2]],
                              <<s[1], SubSeq(n[1].input, n[1].pos + 1, n[1].pos + n[2])>>>>
         [] s[1] = "nothing" -> <<st, Null>>

dec(st, s) ==
    LET n == ruvarint(st)
    IN CASE s[1] \in PrimitiveTypes -> dec_scalar(st, s)
         [] s[1] = "list" ->
              IF n[1].err # 0 THEN <<n[1], Null>>
              ELSE LET r == DecAll(n[1], Times(s[2], n[2]))
                   IN <<r[1], ListValue(r[2], Len(r[2]))>>
         [] s[1] = "tuple" -> LET r == DecAll(st, s[2]) IN <<r[1], tuple_from_array(r[2])>>
         [] s[1] = "record" ->
              LET r == DecAll(st, [i \in DOMAIN s[2] |-> s[2][i][2]])
              IN <<r[1], RecordValue([i \in DOMAIN s[2] |-> s[2][i][1]], r[2])>>
         [] s[1] = "enum" -> dec_variant(ctxput(st, s[2], s[3]), s[3])
         [] s[1] = "enum-ref" ->
              LET vs == ctxget(st, s[2])
              IN IF vs = <<>> THEN <<Fail(st, Malformed), Null>> ELSE dec_variant(st, vs)
         [] s[1] = "dict" ->
              IF n[1].err # 0 THEN <<n[1], Null>>
              ELSE LET r == FoldLeft(LAMBDA acc, i :
                                 LET k == dec(acc[1], s[2])
                                     v == dec(k[1], s[3])
                                 IN <<v[1], InsertEntry(acc[2], k[2], v[2])>>,
                             <<n[1], <<>>>>, Times(0, n[2]))
                   IN <<r[1], <<"dict", r[2]>>>>

\* mutant: bytes after the value are ignored
Mutwire_result(r) == [err |-> r[1].err, value |-> r[2]]

wire_result(r) ==
    [err |-> IF r[1].err = 0 /\ r[1].pos < Len(r[1].input) THEN TrailingBytes ELSE r[1].err,
     value |-> r[2]]

wire_decode(s, bytes) == wire_result(dec(DecStart(bytes), s))

----------------------------------------------------------------------------
(* Fingerprints *)

\* the bytes __wire_fp mixes, in order: a kind, lengths and names
KindByte ==
    [int |-> 1, float |-> 2, bool |-> 3, str |-> 4, bytes |-> 5, duration |-> 6, nothing |-> 7]

RECURSIVE wire_fp(_)
FpAll(schemas) == FlattenSeq([i \in DOMAIN schemas |-> wire_fp(schemas[i])])

wire_fp(s) ==
    CASE s[1] \in PrimitiveTypes -> <<<<"byte", KindByte[s[1]]>>>>
      [] s[1] = "list" -> <<<<"byte", 8>>>> \o wire_fp(s[2])
      [] s[1] = "dict" -> <<<<"byte", 12>>>> \o wire_fp(s[2]) \o wire_fp(s[3])
      [] s[1] = "enum-ref" -> <<<<"byte", 13>>, <<"name", s[2]>>>>
      [] s[1] = "tuple" -> <<<<"byte", 9>>, <<"len", Len(s[2])>>>> \o FpAll(s[2])
      [] s[1] = "record" ->
           <<<<"byte", 10>>, <<"len", Len(s[2])>>>>
             \o FlattenSeq([i \in DOMAIN s[2] |-> <<<<"name", s[2][i][1]>>>> \o wire_fp(s[2][i][2])])
      [] s[1] = "enum" ->
           <<<<"byte", 11>>, <<"name", s[2]>>, <<"len", Len(s[3])>>>>
             \o FlattenSeq([i \in DOMAIN s[3] |->
                    <<<<"name", s[3][i][1]>>, <<"len", Len(s[3][i][2])>>>> \o FpAll(s[3][i][2])])

\* the rendering behind a route's fingerprint, as tokens
Joined(parts, sep) ==
    FlattenSeq([i \in DOMAIN parts |-> IF i = 1 THEN parts[i] ELSE <<sep>> \o parts[i]])

render_enum(name, variants) ==
    <<"enum ", name, "<">>
      \o Joined([i \in DOMAIN variants |-> <<variants[i][1], "[">> \o Joined(variants[i][2], ",") \o <<"]">>], "|")
      \o <<">">>

RECURSIVE render_shape(_)
RenderAll(shapes) == [i \in DOMAIN shapes |-> render_shape(shapes[i])]

render_shape(s) ==
    CASE s[1] \in PrimitiveTypes -> <<s[1]>>
      [] s[1] = "list" -> <<"[">> \o render_shape(s[2]) \o <<"]">>
      [] s[1] = "tuple" -> <<"(">> \o Joined(RenderAll(s[2]), ",") \o <<")">>
      [] s[1] = "dict" -> <<"dict<">> \o render_shape(s[2]) \o <<",">> \o render_shape(s[3]) \o <<">">>
      [] s[1] = "record" ->
           <<"{">> \o Joined([i \in DOMAIN s[2] |-> <<s[2][i][1], ":">> \o render_shape(s[2][i][2])], ",") \o <<"}">>
      [] s[1] = "enum" ->
           render_enum(s[2], [i \in DOMAIN s[3] |-> <<s[3][i][1], RenderAll(s[3][i][2])>>])
      [] s[1] = "enum-ref" -> <<"ref ", s[2]>>

fingerprint_shapes(kind, arg, result) ==
    (IF kind = "stream" THEN <<"stream ">> ELSE <<>>)
      \o render_shape(arg) \o <<"->">> \o render_shape(result)
=============================================================================

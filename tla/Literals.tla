------------------------------ MODULE Literals ------------------------------
(***************************************************************************)
(* Literals, character by character: how the lexer finds where a string,   *)
(* an interpolation, a bytes literal or a number ends (tokenizer.rs), what *)
(* the parser makes of its text (parser.rs), and how the formatter writes  *)
(* it back (visitor.rs).                                                   *)
(*                                                                         *)
(* A character is named by itself or by one of "quote", "bs" (backslash),  *)
(* "nl", "tab" and "cr".  The expressions inside an interpolation are      *)
(* names, literals, applications and groupings.                            *)
(***************************************************************************)
EXTENDS Lexer, Integers

LOCAL INSTANCE TLC

CONSTANTS Word,       \* integers are 0 .. Word - 1
          MaxNanos,   \* the largest duration
          UnitSizes   \* the sizes of d, h, m, s, ms, us and ns

UnitNames == <<<<"d">>, <<"h">>, <<"m">>, <<"s">>, <<"m", "s">>, <<"u", "s">>, <<"n", "s">>>>

ASSUME UnitAssumption ==
    /\ Len(UnitSizes) = Len(UnitNames) /\ UnitSizes[Len(UnitSizes)] = 1
    /\ \A k \in 2 .. Len(UnitSizes) : UnitSizes[k] < UnitSizes[k - 1]

Spaces == {" ", "tab", "cr"}
DigitChars == <<"0", "1", "2", "3", "4", "5", "6", "7", "8", "9", "a", "b", "c", "d", "e", "f">>
FirstDigits(n) == {DigitChars[k] : k \in 1 .. n}
Numerals == FirstDigits(10)
Letters == {"a", "b", "c", "d", "e", "f", "h", "m", "n", "o", "r", "s", "t", "u", "x", "A"}

Char(cs, k) == IF k \in 1 .. Len(cs) THEN cs[k] ELSE ""

\* The end of the run of characters of S that starts at k.
RECURSIVE RunEnd(_, _, _)
RunEnd(cs, k, S) == IF Char(cs, k) \in S THEN RunEnd(cs, k + 1, S) ELSE k

\* is_escaped: an odd run of backslashes before k.
RECURSIVE Escaped(_, _)
Escaped(cs, k) == Char(cs, k - 1) = "bs" /\ ~Escaped(cs, k - 1)

IsTriple(cs, k) == \A m \in k .. k + 2 : Char(cs, m) = "quote"
-----------------------------------------------------------------------------
(* Scanning.  The stack holds the open strings: whether one is triple, the *)
(* start of its current part, and the depth of parentheses in its          *)
(* interpolation, -1 outside of one.  A token is [t, s]: its kind and its  *)
(* characters.                                                             *)

T(t, s) == [t |-> t, s |-> s]

Opened(cs, k) ==
    LET n == IF IsTriple(cs, k) THEN 3 ELSE 1
    IN [triple |-> n = 3, start |-> k + n, depth |-> -1]

\* The bytes literal at k ends at the first quote no backslash takes; at the
\* end of the file when there is none, which is not reported.
RECURSIVE BytesEnd(_, _)
BytesEnd(cs, k) ==
    CASE k > Len(cs) -> k
      [] cs[k] = "bs" /\ k < Len(cs) -> BytesEnd(cs, k + 2)
      [] cs[k] = "'" -> k
      [] OTHER -> BytesEnd(cs, k + 1)

\* Digits: with a radix prefix, as the start of a duration, or plain.  Any
\* other letter behind them is an error ("bad").
Prefixed == [b |-> FirstDigits(2), o |-> FirstDigits(8), x |-> FirstDigits(16) \cup {"A"}]

NumberToken(cs, k) ==
    LET base == Char(cs, k + 1)
        Lexed(t, from, S) ==
            LET e == RunEnd(cs, from, S)
            IN [tok |-> T(IF Char(cs, e) \in Letters \cup Numerals THEN "bad" ELSE t,
                          SubSeq(cs, from, e - 1)), end |-> e]
        e == RunEnd(cs, k, Numerals)
    IN CASE cs[k] = "0" /\ base \in DOMAIN Prefixed -> Lexed(base, k + 2, Prefixed[base])
         [] Char(cs, e) \in {"n", "u", "m", "s", "h", "d"} -> Lexed("duration", k, Letters \cup Numerals)
         [] OTHER -> Lexed("int", k, Numerals)

\* The tokens, and whether an error was reported.  An interpolation that
\* opens at the very end of the file is dropped silently.
RECURSIVE Scan(_, _, _, _)
Scan(cs, k, open, out) ==
    LET n    == Len(open)
        top  == open[n]
        c    == cs[k]
        Part == T(IF top.triple THEN "tri" ELSE "str", SubSeq(cs, top.start, k - 1))
        closes == IF top.triple THEN IsTriple(cs, k) ELSE ~Escaped(cs, k)
    IN CASE k > Len(cs) -> [toks |-> out, x |-> open # <<>>]
         [] n > 0 /\ top.depth = -1 ->                          \* in a string
              CASE c = "quote" /\ closes ->
                     Scan(cs, k + (IF top.triple THEN 3 ELSE 1), SubSeq(open, 1, n - 1), Append(out, Part))
                [] c = "$" /\ Char(cs, k + 1) = "(" /\ ~Escaped(cs, k) ->
                     IF k + 1 = Len(cs) THEN [toks |-> Append(out, Part), x |-> FALSE]
                     ELSE Scan(cs, k + 2, [open EXCEPT ![n].depth = 0], out \o <<Part, T("$(", <<>>)>>)
                [] OTHER -> Scan(cs, k + 1, open, out)
         [] c = "quote" ->
              LET s == Opened(cs, k) IN Scan(cs, s.start, Append(open, s), out)
         [] c = "'" ->
              LET e == BytesEnd(cs, k + 1) IN Scan(cs, e + 1, open, Append(out, T("bytes", SubSeq(cs, k + 1, e - 1))))
         [] c = ")" /\ n > 0 /\ top.depth = 0 ->
              Scan(cs, k + 1, [open EXCEPT ![n].depth = -1, ![n].start = k + 1], Append(out, T(")$", <<>>)))
         [] c \in {"(", ")"} ->
              Scan(cs, k + 1, IF n = 0 THEN open ELSE [open EXCEPT ![n].depth = @ + (IF c = "(" THEN 1 ELSE -1)],
                   Append(out, T(c, <<>>)))
         [] c \in Spaces -> Scan(cs, k + 1, open, out)
         [] c \in Numerals ->
              LET t == NumberToken(cs, k) IN Scan(cs, t.end, open, Append(out, t.tok))
         [] c \in Letters ->
              LET e == RunEnd(cs, k, Letters \cup Numerals)
              IN Scan(cs, e, open, Append(out, T("id", SubSeq(cs, k, e - 1))))
         [] c = "nl" -> Scan(cs, k + 1, open, Append(out, T("nl", <<>>)))
         [] OTHER -> Scan(cs, k + 1, open, Append(out, T("bad", <<>>)))
-----------------------------------------------------------------------------
(* What a literal's text means. *)

Named == [n |-> "nl", t |-> "tab", r |-> "cr"]

\* decode_string_escapes: from left to right; an unknown escape stays.
RECURSIVE Decode(_)
Decode(s) ==
    IF s = <<>> THEN <<>>
    ELSE LET e == Char(s, 2)
             rest == Decode(SubSeq(s, 3, Len(s)))
         IN CASE s[1] # "bs" \/ e = "" -> <<s[1]>> \o Decode(Tail(s))
              [] e \in DOMAIN Named -> <<Named[e]>> \o rest
              [] e \in {"quote", "bs", "$"} -> <<e>> \o rest
              [] OTHER -> <<"bs", e>> \o rest

RECURSIVE Lines(_), Unlines(_)
Lines(s) ==
    LET k == RunEnd(s, 1, {Char(s, m) : m \in 1 .. Len(s)} \ {"nl"})
    IN IF k > Len(s) THEN <<s>> ELSE <<SubSeq(s, 1, k - 1)>> \o Lines(SubSeq(s, k + 1, Len(s)))
Unlines(ls) == IF Len(ls) = 1 THEN ls[1] ELSE ls[1] \o <<"nl">> \o Unlines(Tail(ls))

AllBlank(s) == \A k \in 1 .. Len(s) : s[k] \in {" ", "tab"}

\* Up to n blanks off the front of a line.
RECURSIVE Strip(_, _)
Strip(s, n) == IF n > 0 /\ Char(s, 1) \in {" ", "tab"} THEN Strip(Tail(s), n - 1) ELSE s

\* apply_block_dedent: when the first part opens with a line break, the
\* opening line and the closing one go, and the closing one's indentation
\* comes off every line.  A part behind an interpolation begins mid-line.
Dedent(parts) ==
    LET n      == Len(parts)
        lines  == [p \in 1 .. n |-> Lines(parts[p])]
        closing == lines[n][Len(lines[n])]
        indent == IF Len(lines[n]) > 1 /\ AllBlank(closing) THEN Len(closing) ELSE 0
        opened == [lines EXCEPT ![1] = Tail(@)]
        m      == Len(opened[n])
        closed == IF m > 1 /\ AllBlank(opened[n][m]) THEN [opened EXCEPT ![n] = SubSeq(@, 1, m - 1)] ELSE opened
    IN IF Len(lines[1]) = 1 \/ ~AllBlank(lines[1][1]) THEN parts
       ELSE [p \in 1 .. n |-> Unlines([k \in 1 .. Len(closed[p]) |->
                IF p = 1 \/ k > 1 THEN Strip(closed[p][k], indent) ELSE closed[p][k]])]

\* The two hexadecimal digits of a character's code.
Code == [bs |-> <<"5", "c">>, nl |-> <<"0", "a">>, tab |-> <<"0", "9">>, cr |-> <<"0", "d">>,
         a |-> <<"6", "1">>, n |-> <<"6", "e">>, x |-> <<"7", "8">>, A |-> <<"4", "1">>]
        @@ ("'" :> <<"2", "7">>) @@ ("0" :> <<"3", "0">>) @@ (")" :> <<"2", "9">>)
Hex == [a |-> "a", A |-> "a"] @@ ("0" :> "0")

\* parse_bytes: the bytes of the literal, or <<"bad">> for a bad escape.
RECURSIVE Bytes(_, _)
Bytes(s, out) ==
    LET e == Char(s, 2)
        Take(n, byte) == Bytes(SubSeq(s, n + 1, Len(s)), Append(out, byte))
    IN CASE s = <<>> -> [v |-> out, x |-> FALSE]
         [] s[1] # "bs" -> Take(1, Code[s[1]])
         [] e \in {"bs", "'"} -> Take(2, Code[e])
         [] e = "0" -> Take(2, <<"0", "0">>)
         [] e \in DOMAIN Named -> Take(2, Code[Named[e]])
         [] e = "x" /\ Char(s, 3) \in DOMAIN Hex /\ Char(s, 4) \in DOMAIN Hex -> Take(4, <<Hex[s[3]], Hex[s[4]]>>)
         [] OTHER -> [v |-> out, x |-> TRUE]

DigitValue(c) == IF c = "A" THEN 10 ELSE (CHOOSE k \in 1 .. 16 : DigitChars[k] = c) - 1

\* parse_numeric_literal: from the last digit on, with checked products, sum
\* and place value; -1 for an overflow.
RECURSIVE Numeric(_, _, _, _)
Numeric(ds, radix, place, sum) ==
    IF ds = <<>> THEN sum
    ELSE LET next == sum + DigitValue(ds[Len(ds)]) * place
         IN IF next >= Word \/ place * radix >= Word THEN -1
            ELSE Numeric(SubSeq(ds, 1, Len(ds) - 1), radix, place * radix, next)

Radix == [int |-> 10, b |-> 2, o |-> 8, x |-> 16]

\* The decimal number a run of digits stands for, -1 above the maximum.
RECURSIVE Amount(_, _)
Amount(ds, v) ==
    IF ds = <<>> THEN v
    ELSE IF v * 10 + DigitValue(ds[1]) > MaxNanos THEN -1 ELSE Amount(Tail(ds), v * 10 + DigitValue(ds[1]))

\* parse_duration_literal: amounts and units in descending order; -1 for any
\* error.  `rank` is the position of the last unit.
RECURSIVE Nanos(_, _, _)
Nanos(s, rank, total) ==
    LET d == RunEnd(s, 1, Numerals)
        u == RunEnd(s, d, Letters)
        amount == Amount(SubSeq(s, 1, d - 1), 0)
        unit == {k \in 1 .. Len(UnitNames) : UnitNames[k] = SubSeq(s, d, u - 1)}
        next == total + amount * UnitSizes[CHOOSE k \in unit : TRUE]
    IN IF s = <<>> THEN total
       ELSE IF amount = -1 \/ unit = {} \/ (\E k \in unit : k <= rank) \/ next > MaxNanos THEN -1
       ELSE Nanos(SubSeq(s, u, Len(s)), CHOOSE k \in unit : TRUE, next)
-----------------------------------------------------------------------------
(* Reading: a token list as an expression, [n, i, x] as in the parser. *)

Chars(k, v, s) == N(k, v, [m \in 1 .. Len(s) |-> N("char", s[m], <<>>, 0, 0)], 0, 0)

Numeral(k, n) == N(k, ToString(n), <<>>, n, 0)

At(toks, i) == IF i <= Len(toks) THEN toks[i].t ELSE "eof"

RECURSIVE ReadExpr(_, _), ReadArgs(_, _, _), ReadParts(_, _, _)

\* The parts of a string and the expressions between them.
ReadParts(toks, i, acc) ==
    IF At(toks, i) \notin {"str", "tri"} THEN Fail(i)
    ELSE LET parts == Append(acc, Chars("part", "", toks[i].s))
         IN IF At(toks, i + 1) # "$(" THEN Got(N("parts", toks[i].t, parts, 0, 0), i + 1, FALSE)
            ELSE After(ReadExpr(toks, i + 2), LAMBDA e :
                     IF At(toks, e.i) # ")$" THEN Fail(e.i) ELSE ReadParts(toks, e.i + 1, Append(parts, e.n)))

\* parse_string: a triple string is dedented as a whole, then every part is
\* decoded.
ReadString(toks, i) ==
    After(ReadParts(toks, i, <<>>), LAMBDA r :
        LET c    == r.n.c
            raws == [p \in 1 .. (Len(c) + 1) \div 2 |-> [m \in 1 .. Len(c[2 * p - 1].c) |-> c[2 * p - 1].c[m].v]]
            block == toks[i].t = "tri"
            values == IF block THEN Dedent(raws) ELSE raws
            Part(p) == Chars("string", "", Decode(values[p]))
        IN Got(N("text", "", [p \in 1 .. Len(c) |-> IF p % 2 = 1 THEN Part((p + 1) \div 2) ELSE c[p]],
                 IF block THEN 1 ELSE 0, 0), r.i, FALSE))

ReadNumber(tok, i) ==
    LET v == IF tok.t = "duration" THEN Nanos(tok.s, 0, 0) ELSE Numeric(tok.s, Radix[tok.t], 1, 0)
    IN IF v = -1 THEN Got(Numeral(tok.t, 0), i + 1, TRUE) ELSE Got(Numeral(tok.t, v), i + 1, FALSE)

ReadPrimary(toks, i) ==
    LET t == At(toks, i)
    IN CASE t = "id" -> Got(Chars("id", "", toks[i].s), i + 1, FALSE)
         [] t \in {"str", "tri"} -> ReadString(toks, i)
         [] t = "bytes" ->
              LET b == Bytes(toks[i].s, <<>>)
              IN IF b.x THEN Fail(i + 1)
                 ELSE Got(N("bytes", "", [m \in 1 .. Len(b.v) |-> N(b.v[m][1], b.v[m][2], <<>>, 0, 0)], 0, 0), i + 1, FALSE)
         [] t \in DOMAIN Radix \cup {"duration"} -> ReadNumber(toks[i], i)
         [] t = "(" /\ At(toks, i + 1) = ")" -> Got(N("unit", "", <<>>, 0, 0), i + 2, FALSE)
         [] t = "(" -> After(ReadExpr(toks, i + 1), LAMBDA e :
                           IF At(toks, e.i) # ")" THEN Fail(e.i) ELSE Got(N("group", "", <<e.n>>, 0, 0), e.i + 1, FALSE))
         [] OTHER -> Fail(i)

ReadArgs(toks, i, acc) ==
    IF At(toks, i) \notin {"id", "str", "tri", "bytes", "(", "duration"} \cup DOMAIN Radix THEN Got(N("call", "", acc, 0, 0), i, FALSE)
    ELSE After(ReadPrimary(toks, i), LAMBDA r : ReadArgs(toks, r.i, Append(acc, r.n)))

ReadExpr(toks, i) ==
    After(ReadPrimary(toks, i), LAMBDA r : After(ReadArgs(toks, r.i, <<r.n>>), LAMBDA a :
        IF Len(a.n.c) = 1 THEN [r EXCEPT !.i = a.i] ELSE a))

\* A file whose one definition is this literal.
ReadLiteral(cs) ==
    LET lexed == Scan(cs, 1, <<>>, <<>>)
        r == ReadExpr(lexed.toks, 1)
        wrong == lexed.x \/ Missing(r) \/ r.x \/ \E k \in r.i .. Len(lexed.toks) : lexed.toks[k].t # "nl"
    IN [uses |-> <<>>, defs |-> IF wrong THEN <<>> ELSE <<r.n>>, x |-> wrong]
-----------------------------------------------------------------------------
(* Writing. *)

RECURSIVE Flatten(_)
Flatten(ss) == IF ss = <<>> THEN <<>> ELSE ss[1] \o Flatten(Tail(ss))

Letter(c) == CHOOSE e \in DOMAIN Named : Named[e] = c

\* escape_string.
Escape(s) ==
    Flatten([k \in 1 .. Len(s) |->
        CASE s[k] \in {"bs", "quote"} -> <<"bs", s[k]>>
          [] s[k] \in {"nl", "tab", "cr"} -> <<"bs", Letter(s[k])>>
          [] s[k] = "$" /\ Char(s, k + 1) = "(" -> <<"bs", "$">>
          [] OTHER -> <<s[k]>>])

\* escape_block_segment.
EscapeBlock(s) ==
    Flatten([k \in 1 .. Len(s) |->
        IF s[k] = "bs" \/ (s[k] = "$" /\ Char(s, k + 1) = "(") THEN <<"bs", s[k]>> ELSE <<s[k]>>])

\* block_string_safe and interpolation_block_safe, over the parts with a
\* placeholder for each expression.
BlockSafe(parts) ==
    LET all == Flatten([p \in 1 .. Len(parts) |-> IF p % 2 = 1 THEN parts[p] ELSE <<"expr">>])
        Trimmed(line) == line = <<>> \/ line[Len(line)] \notin Spaces
    IN /\ all # <<>> /\ \A k \in 1 .. Len(all) : all[k] # "cr"
       /\ \A p \in 1 .. Len(parts) : p % 2 = 1 => \A k \in 1 .. Len(parts[p]) : ~IsTriple(parts[p], k)
       /\ LET ls == Lines(all) IN \A k \in 1 .. Len(ls) : Trimmed(ls[k])

\* render_block_string: the content and the closing quotes on lines of their
\* own, one level in.
Triple == <<"quote", "quote", "quote">>
Indented(s) == Flatten([k \in 1 .. Len(s) |-> IF s[k] = "nl" THEN <<"nl", "tab">> ELSE <<s[k]>>])
WriteBlock(parts) ==
    Triple \o Indented(<<"nl">>)
    \o Flatten([p \in 1 .. Len(parts) |-> IF p % 2 = 1 THEN Indented(EscapeBlock(parts[p])) ELSE parts[p]])
    \o Indented(<<"nl">>) \o Triple

\* escape_bytes: printable characters as themselves.
ByteText(b) ==
    LET here == {c \in DOMAIN Code : Code[c] = b}
        c == CHOOSE c \in here : TRUE
    IN CASE here = {} -> <<"bs", "x">> \o b
         [] c \in {"bs", "'"} -> <<"bs", c>>
         [] c \in {"nl", "tab", "cr"} -> <<"bs", Letter(c)>>
         [] OTHER -> <<c>>

\* Numbers print in their radix without leading zeros, durations from the
\* largest unit down without the zero amounts.
RECURSIVE DigitsOf(_, _), UnitsOf(_, _), Write(_)
DigitsOf(n, radix) ==
    (IF n < radix THEN <<>> ELSE DigitsOf(n \div radix, radix)) \o <<DigitChars[(n % radix) + 1]>>

UnitsOf(n, k) ==
    IF n = 0 THEN <<>>
    ELSE (IF n >= UnitSizes[k] THEN DigitsOf(n \div UnitSizes[k], 10) \o UnitNames[k] ELSE <<>>)
         \o UnitsOf(n % UnitSizes[k], k + 1)

Plain(n) == [m \in 1 .. Len(n.c) |-> n.c[m].v]

RECURSIVE Ungrouped(_)
Ungrouped(n) == IF n.k = "group" THEN Ungrouped(n.c[1]) ELSE n

\* A call's callee and arguments, in parentheses when they are calls.
Operand(n) ==
    IF Ungrouped(n).k = "call" THEN <<"(">> \o Write(n) \o <<")">> ELSE Write(n)

WriteText(n) ==
    LET literals == [p \in 1 .. Len(n.c) |-> IF p % 2 = 1 THEN Plain(n.c[p]) ELSE <<"$", "(">> \o Write(n.c[p]) \o <<")">>]
    IN IF n.s = 1 /\ BlockSafe(literals) THEN WriteBlock(literals)
       ELSE <<"quote">> \o Flatten([p \in 1 .. Len(n.c) |-> IF p % 2 = 1 THEN Escape(literals[p]) ELSE literals[p]])
            \o <<"quote">>

Write(n) ==
    CASE n.k = "group" -> Write(n.c[1])
      [] n.k = "unit" -> <<"(", ")">>
      [] n.k = "id" -> Plain(n)
      [] n.k = "call" -> Operand(n.c[1]) \o Flatten([m \in 1 .. Len(n.c) - 1 |-> <<" ">> \o Operand(n.c[m + 1])])
      [] n.k = "text" -> WriteText(n)
      [] n.k = "bytes" -> <<"'">> \o Flatten([m \in 1 .. Len(n.c) |-> ByteText(<<n.c[m].k, n.c[m].v>>)]) \o <<"'">>
      [] n.k = "duration" -> IF n.s = 0 THEN <<"0", "s">> ELSE UnitsOf(n.s, 1)
      [] n.k = "int" -> DigitsOf(n.s, 10)
      [] OTHER -> <<"0", n.k>> \o DigitsOf(n.s, Radix[n.k])

\* The whole file, without blanks at the ends of its lines.
RECURSIVE TrimEnd(_)
TrimEnd(line) == IF line # <<>> /\ line[Len(line)] \in Spaces THEN TrimEnd(SubSeq(line, 1, Len(line) - 1)) ELSE line

WriteLiteral(m) ==
    LET ls == Lines(Write(m.defs[1]))
    IN Unlines([k \in 1 .. Len(ls) |-> TrimEnd(ls[k])]) \o <<"nl">>
=============================================================================

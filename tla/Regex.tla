-------------------------------- MODULE Regex -------------------------------
(***************************************************************************)
(* Regular expression literals (parser.rs).  Between two backticks         *)
(* ("tick") line breaks are skipped everywhere.                            *)
(***************************************************************************)
EXTENDS Lexer

Value(digit) == CASE digit = "0" -> 0 [] digit = "1" -> 1 [] digit = "2" -> 2

Anchors == {"^", "$", "%"}

RECURSIVE ParseRegexBody(_, _, _), ParseRegexTerm(_, _, _)

\* One part of a term, before its quantifier.
ParseRegexPart(ts, i) ==
    LET t == Tok(ts, i)
    IN CASE t \in Anchors -> Got(Node(ts, "anchor", t, <<>>, i, i + 1), i + 1, FALSE)
         [] IsIdent(t) -> Got(Node(ts, "class", t, <<>>, i, i + 1), i + 1, FALSE)
         [] t = "str" -> Got(Node(ts, "rxlit", t, <<>>, i, i + 1), i + 1, FALSE)
         [] t = "(" ->
              LET b == ParseRegexBody(ts, i + 1, <<>>)
              IN IF Missing(b) THEN Fail(b.i)
                 ELSE Expect(ts, b.i, ")", LAMBDA j :
                          Got(Node(ts, "rxgroup", "", <<b.n>>, i, j), j, b.x))
         [] t = "<" ->
              After(ParseIdentifier(ts, i + 1), LAMBDA name :
                Expect(ts, name.i, ":", LAMBDA k :
                  LET b == ParseRegexBody(ts, k, <<>>)
                  IN IF Missing(b) THEN Fail(b.i)
                     ELSE Expect(ts, b.i, ">", LAMBDA j :
                              Got(Node(ts, "capture", name.n.v, <<b.n>>, i, i + 1), j, b.x))))
         [] OTHER -> None(i, FALSE)

\* `{m}`, `{m,}`, `{,n}` or `{m,n}` after a part; an inverted range is
\* reported and kept, an empty one is refused.
ParseRegexCount(ts, part, i) ==
    LET min   == IF Tok(ts, i) \in Digits THEN Tok(ts, i) ELSE ""
        j     == IF min = "" THEN i ELSE i + 1
        comma == Tok(ts, j) = ","
        max   == IF comma /\ Tok(ts, j + 1) \in Digits THEN Tok(ts, j + 1) ELSE ""
        k     == IF ~comma THEN j ELSE IF max = "" THEN j + 1 ELSE j + 2
        bound == <<N("min", min, <<>>, 0, 0), N("max", IF comma THEN max ELSE min, <<>>, 0, 0)>>
    IN Expect(ts, k, "}", LAMBDA m :
           IF min = "" /\ max = "" THEN Fail(m)
           ELSE Got(N("count", IF comma THEN "," ELSE "", <<part>> \o bound, part.s, Line(ts, m - 1)), m,
                    min # "" /\ max # "" /\ Value(min) > Value(max)))

ParseRegexQuantified(ts, p) ==
    LET t == Tok(ts, p.i)
    IN CASE p.n.k = "anchor" ->                \* an anchor takes no quantifier
              IF t \in {"*", "+", "?", "{"} THEN Got(p.n, p.i + 1, TRUE) ELSE p
         [] t \in {"*", "+", "?"} ->
              Got(N("repeat", t, <<p.n>>, p.n.s, Line(ts, p.i)), p.i + 1, p.x)
         [] t = "{" -> ParseRegexCount(ts, p.n, p.i + 1)
         [] OTHER -> p

OneOrMany(kind, parts) ==
    IF Len(parts) = 1 THEN parts[1]
    ELSE N(kind, "", parts, parts[1].s, parts[Len(parts)].e)

\* Parts up to the first token that begins none.
ParseRegexTerm(ts, i, parts) ==
    LET j == SkipBreaks(ts, i)
        p == ParseRegexPart(ts, j)
    IN IF Missing(p)
         THEN IF p.x \/ parts = <<>> THEN None(p.i, p.x)
              ELSE Got(OneOrMany("rxseq", parts), j, FALSE)
         ELSE After(ParseRegexQuantified(ts, p), LAMBDA q :
                  ParseRegexTerm(ts, SkipBreaks(ts, q.i), Append(parts, q.n)))

\* Terms separated by `|`; one that is missing ends the alternation.
ParseRegexBody(ts, i, terms) ==
    LET t == ParseRegexTerm(ts, i, <<>>)
        all == IF Missing(t) THEN terms ELSE Append(terms, t.n)
        j == SkipBreaks(ts, t.i)
        more == IF ~Missing(t) /\ Tok(ts, j) = "|" THEN ParseRegexBody(ts, j + 1, all)
                ELSE IF all = <<>> THEN None(t.i, FALSE)
                ELSE Got(OneOrMany("rxalt", all), IF Missing(t) THEN t.i ELSE j, FALSE)
    IN [more EXCEPT !.x = @ \/ t.x]

RECURSIVE RecoverToTick(_, _)
RecoverToTick(ts, i) ==
    CASE Tok(ts, i) = "tick" -> i + 1
      [] Tok(ts, i) = "eof" -> i
      [] OTHER -> RecoverToTick(ts, i + 1)

\* A literal that fails with a diagnostic is skipped to its closing tick.
ParseRegularExpression(ts, i) ==
    LET b == ParseRegexBody(ts, SkipBreaks(ts, i + 1), <<>>)
        j == SkipBreaks(ts, b.i)
    IN IF Missing(b) /\ b.x THEN Fail(RecoverToTick(ts, j))
       ELSE Expect(ts, j, "tick", LAMBDA k :
                IF Missing(b) THEN Fail(k)
                ELSE Got(Node(ts, "regex", "", <<b.n>>, i, k), k, b.x))
=============================================================================

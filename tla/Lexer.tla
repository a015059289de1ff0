------------------------------- MODULE Lexer -------------------------------
(***************************************************************************)
(* The lexer (tokenizer.rs), and the cursor and the results that every     *)
(* production of the parser (parser.rs) is written with.                   *)
(*                                                                         *)
(* A text is a sequence of lexemes in which blanks (" "), line breaks      *)
(* ("nl") and comments (those of Comments) are lexemes of their own.       *)
(* Identifier and literal lexemes stand for their classes.  Every tree     *)
(* node is [k, v, c, s, e]: its kind, its name or operator, its children,  *)
(* and the first and the last source line of it (the formatter places      *)
(* comments by line).  A parse returns [n, i, x]: the node (Nil for the    *)
(* code's None), the next token, and whether a diagnostic was reported.    *)
(***************************************************************************)
EXTENDS Naturals, Sequences

CONSTANTS Idents,     \* identifier lexemes
          Digits,     \* decimal number lexemes
          Comments    \* comment lexemes

Keywords == {"_", "alias", "and", "as", "built-in", "def", "defer", "else",
             "enum", "false", "fun", "if", "implement", "is", "let", "manual",
             "opaque", "or", "public", "remote", "scope", "trait", "true",
             "try", "use", "using", "when", "where", "while"}

Blank(l) == l \in {" ", "nl"}

Lexeme(text, k) == IF k \in 1 .. Len(text) THEN text[k] ELSE "nl"

(***************************************************************************)
(* Tokenizer::next.  A comment runs to the end of its line.  A minus with  *)
(* a blank before it and none after it is the prefix minus ("neg").  Two   *)
(* adjacent ">" are one shift operator.                                    *)
(***************************************************************************)
RECURSIVE Lex(_, _, _, _)
Lex(text, k, line, out) ==
    IF k > Len(text) THEN out
    ELSE LET l    == text[k]
             wide == Blank(Lexeme(text, k - 1))
             tok  == [t |-> l, w |-> wide, l |-> line]
         IN CASE l = " " -> Lex(text, k + 1, line, out)
              [] l = "nl" -> Lex(text, k + 1, line + 1, Append(out, tok))
              [] l \in Comments ->
                   Lex(text, CHOOSE m \in k .. Len(text) + 1 :
                                 /\ Lexeme(text, m) = "nl"
                                 /\ \A q \in k .. m - 1 : text[q] # "nl",
                       line, out)
              [] l = "-" /\ wide /\ ~Blank(Lexeme(text, k + 1)) ->
                   Lex(text, k + 1, line, Append(out, [tok EXCEPT !.t = "neg"]))
              [] l = ">" /\ Lexeme(text, k + 1) = ">" ->
                   Lex(text, k + 2, line, Append(out, [tok EXCEPT !.t = ">>"]))
              [] OTHER -> Lex(text, k + 1, line, Append(out, tok))

\* The tokens of a text, and the comments by line (Tokenizer::comments: one
\* per line, since a comment takes the rest of its line).
Tokens(text) == Lex(text, 1, 1, <<>>)

LineOf(text, k) == 1 + Len(SelectSeq(SubSeq(text, 1, k - 1), LAMBDA l : l = "nl"))

CommentsOf(text) ==
    LET First(k) == /\ text[k] \in Comments
                    /\ \A q \in 1 .. k - 1 : text[q] \in Comments =>
                           \E m \in q .. k : text[m] = "nl"
        at == {k \in 1 .. Len(text) : First(k)}
    IN [ln \in {LineOf(text, k) : k \in at} |->
            text[CHOOSE k \in at : LineOf(text, k) = ln]]
-----------------------------------------------------------------------------
(* Cursor and results. *)

N(k, v, c, s, e) == [k |-> k, v |-> v, c |-> c, s |-> s, e |-> e]

Nil == N("nil", "", <<>>, 0, 0)

Got(n, i, x) == [n |-> n, i |-> i, x |-> x]

\* The code's None without and with a diagnostic.
None(i, x) == Got(Nil, i, x)

Fail(i) == Got(Nil, i, TRUE)

Missing(r) == r.n.k = "nil"

Tok(ts, i) == IF i <= Len(ts) THEN ts[i].t ELSE "eof"

Line(ts, i) == IF i \in 1 .. Len(ts) THEN ts[i].l ELSE 0

RECURSIVE SkipBreaks(_, _)
SkipBreaks(ts, i) == IF Tok(ts, i) = "nl" THEN SkipBreaks(ts, i + 1) ELSE i

IsIdent(t) == t \in Idents

\* A node from token i to the last token before j.
Node(ts, k, v, c, i, j) == N(k, v, c, Line(ts, i), Line(ts, j - 1))

\* An identifier where one is required (expect_identifier).
ParseIdentifier(ts, i) ==
    IF IsIdent(Tok(ts, i)) THEN Got(Node(ts, "id", Tok(ts, i), <<>>, i, i + 1), i + 1, FALSE)
    ELSE Fail(i)

\* Go on from a step that must succeed (`?` in the code), keeping the
\* diagnostics it reported; or stop with it.
After(r, F(_)) ==
    IF Missing(r) THEN r ELSE LET q == F(r) IN [q EXCEPT !.x = @ \/ r.x]

\* The required token t at i (expect_token_and_advance).
ExpectToken(ts, i, t) ==
    IF Tok(ts, i) = t THEN Got(Node(ts, "token", t, <<>>, i, i + 1), i + 1, FALSE)
    ELSE Fail(i)

\* The required token t at i, then F from the token after it.
Expect(ts, i, t, F(_)) == LET r == ExpectToken(ts, i, t) IN IF Missing(r) THEN r ELSE F(r.i)
=============================================================================

------------------------------- MODULE Parser -------------------------------
(***************************************************************************)
(* The recursive descent parser (parser.rs) with the binding powers of     *)
(* operator.rs.  The productions are total functions of the tokens and a   *)
(* position; `u` is the namespace of the innermost `using` block ("" for   *)
(* none) and `rb` the brace restriction of an `if` or `while` subject.     *)
(***************************************************************************)
EXTENDS Regex

InfixOps == {"|>", "..", "or", "??", "and", "==", "<", "|", "&", ">>", "-",
             "+", "*", "**", "."}

LeftPower(op) ==
    CASE op = "|>" -> 0  [] op = ".." -> 10 [] op = "or" -> 20 [] op = "??" -> 21
      [] op = "and" -> 30 [] op = "==" -> 40 [] op = "<" -> 50 [] op = "|" -> 52
      [] op = "&" -> 56 [] op = ">>" -> 58 [] op \in {"+", "-"} -> 60 [] op = "*" -> 70
      [] op = "**" -> 81 [] op = "call" -> 90 [] op = "." -> 100

\* A left-associative operator asks its right operand to bind tighter.
RightPower(op) == IF op \in {"??", "**"} THEN LeftPower(op) - 1 ELSE LeftPower(op) + 1

PrefixPower(op) == IF op = "!" THEN 35 ELSE 75

\* Token::can_start_expression: what may begin the first argument of a call.
StartsExpression == Idents \cup Digits \cup
    {"built-in", "fun", "if", "when", "using", "scope", "manual", "(", "[", "{",
     "tick", "str", "true", "false", "neg"}
-----------------------------------------------------------------------------
(* Types. *)


\* The entries a loop of a production collected.
Items(c) == N("items", "", c, 0, 0)

RECURSIVE ParseType(_, _), ParseTypeWithGenerics(_, _), TypeAtoms(_, _, _, _),
          TypeList(_, _, _), TypeFields(_, _, _)

TypeStarts == Idents \cup {"(", "{", "fun"}

\* Adjacent atoms; a variant's may be separated by commas.
TypeAtoms(ts, i, acc, commas) ==
    IF Tok(ts, i) \notin TypeStarts THEN Got(Items(acc), i, FALSE)
    ELSE After(ParseType(ts, i), LAMBDA r :
             TypeAtoms(ts, IF commas /\ Tok(ts, r.i) = "," THEN r.i + 1 ELSE r.i,
                       Append(acc, r.n), commas))

\* What may follow an entry of a bracketed list: a comma or a line break.
Separated(ts, i) ==
    IF Tok(ts, i) \in {",", "nl"} THEN SkipBreaks(ts, i + 1) ELSE 0

TypeList(ts, i, acc) ==
    IF Tok(ts, i) \notin TypeStarts THEN Got(Items(acc), i, FALSE)
    ELSE After(ParseTypeWithGenerics(ts, i), LAMBDA r :
             IF Separated(ts, r.i) > 0
               THEN TypeList(ts, Separated(ts, r.i), Append(acc, r.n))
               ELSE Got(Items(Append(acc, r.n)), r.i, FALSE))

TypeFields(ts, i, acc) ==
    IF ~IsIdent(Tok(ts, i)) THEN Got(Items(acc), i, FALSE)
    ELSE Expect(ts, i + 1, "::", LAMBDA j : After(ParseTypeWithGenerics(ts, j), LAMBDA r :
             LET fields == Append(acc, Node(ts, "field", Tok(ts, i), <<r.n>>, i, r.i))
             IN IF Separated(ts, r.i) > 0 THEN TypeFields(ts, Separated(ts, r.i), fields)
                ELSE Got(Items(fields), r.i, FALSE)))

\* A type name, module-qualified when a dot follows; its generics come from
\* ParseTypeWithGenerics.
ParseTypeIdentifier(ts, i) ==
    IF Tok(ts, i + 1) = "."
      THEN After(ParseIdentifier(ts, i + 2), LAMBDA r :
               Got(Node(ts, "ty", r.n.v, <<N("in", Tok(ts, i), <<>>, 0, 0)>>, i, r.i), r.i, FALSE))
      ELSE Got(Node(ts, "ty", Tok(ts, i), <<>>, i, i + 1), i + 1, FALSE)

ParseTypeFun(ts, i) ==
    After(TypeAtoms(ts, SkipBreaks(ts, i + 1), <<>>, FALSE), LAMBDA ps :
        Expect(ts, ps.i, "->", LAMBDA j :
            LET r == ParseTypeWithGenerics(ts, j)
            IN IF Missing(r) THEN Fail(r.i)
               ELSE Got(Node(ts, "tyfun", "", Append(ps.n.c, r.n), i, r.i), r.i, r.x)))

ParseTypeRecord(ts, i) ==
    After(TypeFields(ts, SkipBreaks(ts, i + 1), <<>>), LAMBDA fs :
        Expect(ts, SkipBreaks(ts, fs.i), "}", LAMBDA j :
            Got(Node(ts, "tyrec", "", fs.n.c, i, j), j, FALSE)))

ParseTypeParenthetical(ts, i) ==
    After(TypeList(ts, SkipBreaks(ts, i + 1), <<>>), LAMBDA es :
        Expect(ts, SkipBreaks(ts, es.i), ")", LAMBDA j :
            Got(Node(ts, IF Len(es.n.c) = 1 THEN "tygroup" ELSE "tytuple", "",
                     es.n.c, i, j), j, FALSE)))

ParseType(ts, i) ==
    CASE IsIdent(Tok(ts, i)) -> ParseTypeIdentifier(ts, i)
      [] Tok(ts, i) = "(" -> ParseTypeParenthetical(ts, i)
      [] Tok(ts, i) = "{" -> ParseTypeRecord(ts, i)
      [] Tok(ts, i) = "fun" -> ParseTypeFun(ts, i)
      [] OTHER -> None(i, FALSE)

\* Only a type name takes generics: the atoms that follow it.
ParseTypeWithGenerics(ts, i) ==
    After(ParseType(ts, i), LAMBDA h :
        IF h.n.k # "ty" THEN h
        ELSE After(TypeAtoms(ts, h.i, <<>>, FALSE), LAMBDA gs :
                 Got([h.n EXCEPT !.c = @ \o gs.n.c, !.e = Line(ts, gs.i - 1)], gs.i, FALSE)))
-----------------------------------------------------------------------------
(* Patterns. *)

RECURSIVE ParsePattern(_, _), PatternAtoms(_, _, _), PatternList(_, _, _, _),
          PatternFields(_, _, _)

Leaf(ts, k, i) == Got(Node(ts, k, Tok(ts, i), <<>>, i, i + 1), i + 1, FALSE)

\* A decimal number; a dot after it makes it a float and wants digits.
ParseNumber(ts, i) ==
    IF Tok(ts, i + 1) # "." THEN Leaf(ts, "num", i)
    ELSE IF Tok(ts, i + 2) \in Digits
      THEN Got(Node(ts, "float", Tok(ts, i), <<N("num", Tok(ts, i + 2), <<>>, 0, 0)>>, i, i + 3),
               i + 3, FALSE)
      ELSE Fail(i + 2)

PatternLiteral(ts, i) ==
    IF Tok(ts, i) \in Digits THEN ParseNumber(ts, i)
    ELSE Leaf(ts, IF Tok(ts, i) = "str" THEN "str" ELSE "bool", i)

Literals == Digits \cup {"true", "false", "str"}

\* A variant's name with up to two qualifiers: the position after it, 0 when
\* a name is missing behind a dot.
DottedEnd(ts, i) ==
    CASE Tok(ts, i + 1) # "." -> i + 1
      [] ~IsIdent(Tok(ts, i + 2)) -> 0
      [] Tok(ts, i + 3) # "." -> i + 3
      [] ~IsIdent(Tok(ts, i + 4)) -> 0
      [] OTHER -> i + 5

\* constructor_head_from_segments: the variant, then its qualifiers.
ConstructorHead(ts, i, j) ==
    [q \in 1 .. (j - i + 1) \div 2 |-> N("segment", Tok(ts, i + 2 * (q - 1)), <<>>, 0, 0)]

\* A pattern that takes no arguments of its own, as a constructor's argument;
\* a brace is not one, it opens the body.
ParsePatternAtom(ts, i) ==
    CASE IsIdent(Tok(ts, i)) /\ DottedEnd(ts, i) = 0 -> Fail(i + 2)
      [] IsIdent(Tok(ts, i)) /\ DottedEnd(ts, i) = i + 1 -> Leaf(ts, "id", i)
      [] IsIdent(Tok(ts, i)) ->
           LET j == DottedEnd(ts, i)
           IN Got(Node(ts, "ctor", "", <<Items(ConstructorHead(ts, i, j)), Items(<<>>)>>, i, j), j, FALSE)
      [] Tok(ts, i) \in {"(", "["} -> ParsePattern(ts, i)
      [] Tok(ts, i) = "_" -> Leaf(ts, "_", i)
      [] Tok(ts, i) \in Literals -> PatternLiteral(ts, i)
      [] OTHER -> None(i, FALSE)

PatternAtoms(ts, i, acc) ==
    LET r == ParsePatternAtom(ts, i)
    IN IF Missing(r) THEN Got(Items(acc), r.i, r.x)
       ELSE LET q == PatternAtoms(ts, r.i, Append(acc, r.n)) IN [q EXCEPT !.x = @ \/ r.x]

\* `...` or `...name` at the end of a list or record pattern, then the
\* closing bracket.
ParseRest(ts, i, close, k, acc, from) ==
    LET name == IF IsIdent(Tok(ts, i + 1)) THEN Tok(ts, i + 1) ELSE ""
        j == SkipBreaks(ts, IF name = "" THEN i + 1 ELSE i + 2)
    IN Expect(ts, j, close, LAMBDA m :
           Got(Node(ts, k, "", Append(acc, N("rest", name, <<>>, 0, 0)), from, m), m, FALSE))

\* Patterns separated by commas, up to the closing bracket.
PatternList(ts, i, acc, from) ==
    LET close == IF Tok(ts, from) = "(" THEN ")" ELSE "]"
        kind  == IF close = ")" THEN "ptuple" ELSE "plist"
    IN IF close = "]" /\ Tok(ts, i) = "..." THEN ParseRest(ts, i, "]", kind, acc, from)
       ELSE IF Tok(ts, i) = close /\ (acc = <<>> \/ close = ")")
         THEN Got(Node(ts, kind, "", acc, from, i + 1), i + 1, FALSE)
       ELSE IF close = ")" /\ acc # <<>> /\ Missing(ParsePattern(ts, i)) THEN Fail(i)
       ELSE After(ParsePattern(ts, i), LAMBDA r :
                LET j == SkipBreaks(ts, r.i)
                    comma == Tok(ts, j) = "," /\ (j = r.i \/ acc = <<>> \/ close = "]")
                IN IF comma THEN PatternList(ts, SkipBreaks(ts, j + 1), Append(acc, r.n), from)
                   ELSE Expect(ts, j, close, LAMBDA m :
                            IF close = ")" /\ acc = <<>> THEN Got(r.n, m, FALSE)   \* a grouping
                            ELSE Got(Node(ts, kind, "", Append(acc, r.n), from, m), m, FALSE)))

\* Fields, `a` short for `a: a`, separated by commas or line breaks; a rest
\* only after a comma, or alone.
PatternFields(ts, i, acc) ==
    IF ~IsIdent(Tok(ts, i)) THEN Got(Items(acc), i, FALSE)
    ELSE LET short == Tok(ts, i + 1) # ":"
             sub   == IF short THEN Leaf(ts, "id", i) ELSE ParsePattern(ts, i + 2)
         IN After(sub, LAMBDA r :
              LET fields == Append(acc, Node(ts, "field", Tok(ts, i), <<r.n>>, i, r.i))
              IN IF Tok(ts, r.i) = "," /\ Tok(ts, SkipBreaks(ts, r.i + 1)) = "..."
                   THEN Got(Items(fields), SkipBreaks(ts, r.i + 1), FALSE)
                 ELSE IF Separated(ts, r.i) > 0 THEN PatternFields(ts, Separated(ts, r.i), fields)
                 ELSE Got(Items(fields), r.i, FALSE))

ParseRecordPattern(ts, i) ==
    After(IF Tok(ts, SkipBreaks(ts, i + 1)) = "..." THEN Got(Items(<<>>), SkipBreaks(ts, i + 1), FALSE)
          ELSE PatternFields(ts, SkipBreaks(ts, i + 1), <<>>), LAMBDA fs :
        IF Tok(ts, fs.i) = "..." THEN ParseRest(ts, fs.i, "}", "prec", fs.n.c, i)
        ELSE Expect(ts, fs.i, "}", LAMBDA j : Got(Node(ts, "prec", "", fs.n.c, i, j), j, FALSE)))

ParsePattern(ts, i) ==
    CASE IsIdent(Tok(ts, i)) /\ DottedEnd(ts, i) = 0 -> Fail(i + 2)
      [] IsIdent(Tok(ts, i)) ->
           LET j == DottedEnd(ts, i)
               args == PatternAtoms(ts, j, <<>>)
           IN IF j = i + 1 /\ args.n.c = <<>> THEN Got(Leaf(ts, "id", i).n, args.i, args.x)
              ELSE Got(Node(ts, "ctor", "", <<Items(ConstructorHead(ts, i, j)), args.n>>, i, args.i),
                       args.i, args.x)
      [] Tok(ts, i) \in {"(", "["} -> PatternList(ts, SkipBreaks(ts, i + 1), <<>>, i)
      [] Tok(ts, i) = "{" -> ParseRecordPattern(ts, i)
      [] Tok(ts, i) = "_" -> Leaf(ts, "_", i)
      [] Tok(ts, i) \in Literals -> PatternLiteral(ts, i)
      [] OTHER -> None(i, FALSE)
-----------------------------------------------------------------------------
(* Expressions. *)

RECURSIVE ParseExpr(_, _, _, _, _), ParseInfix(_, _, _, _, _, _), ParseArgs(_, _, _, _, _),
          ParseBody(_, _, _, _), ParseEntries(_, _, _, _, _), ParseFields(_, _, _, _),
          ParseIf(_, _, _), ParseCases(_, _, _, _, _), ParseString(_, _, _, _, _)

ParseExpression(ts, i, u) == ParseExpr(ts, i, 0, FALSE, u)

\* `{`, a body and `}`; the body itself skips the breaks before the brace.
Block(ts, i, u) ==
    Expect(ts, i, "{", LAMBDA j : After(ParseBody(ts, j, u, <<>>), LAMBDA b :
        Expect(ts, SkipBreaks(ts, b.i), "}", LAMBDA k : Got(b.n, k, FALSE))))

\* try_head_is_binding: an `=` outside brackets before the line ends.
RECURSIVE HeadBinds(_, _, _)
HeadBinds(ts, i, depth) ==
    LET t == Tok(ts, i)
    IN CASE t = "eof" -> FALSE
         [] t = "nl" /\ depth = 0 -> FALSE
         [] t = "=" /\ depth = 0 -> TRUE
         [] t \in {"(", "[", "{"} -> HeadBinds(ts, i + 1, depth + 1)
         [] t \in {")", "]", "}"} -> HeadBinds(ts, i + 1, depth - 1)
         [] OTHER -> HeadBinds(ts, i + 1, depth)

\* `try pattern = value` or `try value`; the rest of the block is its
\* continuation.
ParseTry(ts, i, u) ==
    LET Rest(kind, pats, j) ==
            After(ParseExpression(ts, j, u), LAMBDA v : After(ParseBody(ts, v.i, u, <<>>), LAMBDA b :
                Got(N("try", kind, pats \o <<v.n, b.n>>, Line(ts, i),
                      IF b.n.c = <<>> THEN v.n.e ELSE b.n.c[Len(b.n.c)].e), b.i, FALSE)))
        p == ParsePattern(ts, i + 1)
    IN IF ~HeadBinds(ts, i + 1, 0) THEN Rest("discard", <<>>, i + 1)
       ELSE IF Missing(p) THEN Fail(p.i)
       ELSE After(p, LAMBDA q : Expect(ts, q.i, "=", LAMBDA j : Rest("bind", <<q.n>>, j)))

\* parse_body_expressions: expressions up to the first token that begins
\* none; a `try` takes what is left of the block.
ParseBody(ts, i, u, acc) ==
    LET j == SkipBreaks(ts, i)
        e == ParseExpression(ts, j, u)
    IN IF Tok(ts, j) = "try"
         THEN After(ParseTry(ts, j, u), LAMBDA r : Got(Items(Append(acc, r.n)), r.i, FALSE))
       ELSE IF Missing(e) THEN Got(Items(acc), e.i, e.x)
       ELSE After(e, LAMBDA r : ParseBody(ts, r.i, u, Append(acc, r.n)))

RECURSIVE IdentsFrom(_, _, _)
IdentsFrom(ts, i, acc) ==
    IF IsIdent(Tok(ts, i)) THEN IdentsFrom(ts, i + 1, Append(acc, Leaf(ts, "id", i).n))
    ELSE Got(Items(acc), i, FALSE)

ParseFun(ts, i, u) ==
    After(IdentsFrom(ts, i + 1, <<>>), LAMBDA ps : After(Block(ts, ps.i, u), LAMBDA b :
        Got(Node(ts, "fun", "", <<ps.n, b.n>>, i, b.i), b.i, FALSE)))

ParseUsing(ts, i) ==
    After(ParseIdentifier(ts, i + 1), LAMBDA ns : After(Block(ts, ns.i, ns.n.v), LAMBDA b :
        Got(Node(ts, "using", ns.n.v, <<b.n>>, i, b.i), b.i, FALSE)))

\* A leading `.member`, resolved against the innermost `using`.
ParseImplicitMember(ts, i, u) ==
    After(ParseIdentifier(ts, i + 1), LAMBDA m :
        IF u = "" THEN Fail(m.i)
        ELSE Got(Node(ts, "implicit", m.n.v, <<N("in", u, <<>>, 0, 0)>>, i, m.i), m.i, FALSE))

\* The pattern of an `if` or `while`: `is true` when it is left out.
ParseOptionalIs(ts, r) ==
    IF Tok(ts, r.i) = "is" THEN ParsePattern(ts, r.i + 1)
    ELSE Got(N("bool", "true", <<>>, r.n.s, r.n.e), r.i, FALSE)

\* `else` may stand on a later line; `else if` is an else of one expression.
ParseIf(ts, i, u) ==
    After(ParseExpr(ts, i + 1, 0, TRUE, u), LAMBDA subject : After(ParseOptionalIs(ts, subject), LAMBDA p :
        After(Block(ts, p.i, u), LAMBDA b :
            LET j == SkipBreaks(ts, b.i)
                whole(es, k) == Got(Node(ts, "if", "", <<subject.n, p.n, b.n>> \o es, i, k), k, FALSE)
            IN IF Tok(ts, j) # "else" THEN whole(<<>>, b.i)
               ELSE IF Tok(ts, j + 1) = "if"
                 THEN After(ParseIf(ts, j + 1, u), LAMBDA r : whole(<<Items(<<r.n>>)>>, r.i))
                 ELSE After(Block(ts, j + 1, u), LAMBDA r : whole(<<r.n>>, r.i)))))

\* The arms of a `when`.  Breaks after an arm are passed only when another
\* arm follows, and an `else` ends the list.
ParseCases(ts, i, u, acc, from) ==
    LET arm == CASE Tok(ts, i) = "is" -> ParsePattern(ts, i + 1)
                 [] Tok(ts, i) = "else" -> Got(N("_", "_", <<>>, Line(ts, i), Line(ts, i)), i + 1, FALSE)
                 [] OTHER -> None(i, FALSE)
    IN IF Tok(ts, i) \notin {"is", "else"}
         THEN IF acc = <<>> THEN Fail(i)        \* the code panics here
              ELSE Got(Items(acc), i, FALSE)
       ELSE After(arm, LAMBDA p : After(Block(ts, p.i, u), LAMBDA b :
                LET cases == Append(acc, Node(ts, "case", "", <<p.n, b.n>>, i, b.i))
                    next  == SkipBreaks(ts, b.i)
                IN IF Tok(ts, i) = "is" /\ Tok(ts, next) \in {"is", "else"}
                     THEN ParseCases(ts, next, u, cases, from)
                     ELSE Got(Items(cases), b.i, FALSE)))

ParseWhen(ts, i, u) ==
    After(ParseExpression(ts, i + 1, u), LAMBDA subject :
        After(ParseCases(ts, SkipBreaks(ts, subject.i), u, <<>>, i), LAMBDA cs :
            Got(Node(ts, "when", "", <<subject.n>> \o cs.n.c, i, cs.i), cs.i, FALSE)))

ParseWhile(ts, i, u) ==
    After(ParseExpr(ts, i + 1, 0, TRUE, u), LAMBDA subject : After(ParseOptionalIs(ts, subject), LAMBDA p :
        After(Block(ts, p.i, u), LAMBDA b :
            Got(Node(ts, "while", "", <<subject.n, p.n, b.n>>, i, b.i), b.i, FALSE))))

\* `scope [as name] { .. }`, with `manual` before it or not.
ParseScope(ts, i, u) ==
    LET manual == Tok(ts, i) = "manual"
        word == IF manual THEN "manual" ELSE ""
    IN Expect(ts, IF manual THEN i + 1 ELSE i, "scope", LAMBDA j :
         IF Tok(ts, j) = "as"
           THEN After(ParseIdentifier(ts, j + 1), LAMBDA h : After(Block(ts, h.i, u), LAMBDA b :
                    Got(Node(ts, "scope", word, <<b.n, h.n>>, i, b.i), b.i, FALSE)))
           ELSE After(Block(ts, j, u), LAMBDA b : Got(Node(ts, "scope", word, <<b.n>>, i, b.i), b.i, FALSE)))

ParseDefer(ts, i, u) ==
    LET r == ParseExpression(ts, i + 1, u)
    IN IF Missing(r) THEN Fail(r.i) ELSE Got(N("defer", "", <<r.n>>, Line(ts, i), r.n.e), r.i, r.x)

ParseLet(ts, i, u) ==
    LET p == ParsePattern(ts, i + 1)
        Bound(tys, j) == Expect(ts, j, "=", LAMBDA k : After(ParseExpression(ts, k, u), LAMBDA v :
                             Got(N("let", "", <<p.n, v.n>> \o tys, Line(ts, i), v.n.e), v.i, p.x)))
    IN IF Missing(p) THEN Fail(p.i)
       ELSE IF Tok(ts, p.i) # "::" THEN Bound(<<>>, p.i)
       ELSE After(ParseTypeWithGenerics(ts, SkipBreaks(ts, p.i + 1)), LAMBDA t : Bound(<<t.n>>, t.i))

\* The entries of a tuple or a list up to the closing bracket.  A list takes
\* spreads, and only commas between its entries.
ParseEntries(ts, i, u, acc, from) ==
    LET list   == Tok(ts, from) = "["
        spread == list /\ Tok(ts, i) = "..."
        r      == ParseExpression(ts, IF spread THEN i + 1 ELSE i, u)
        item   == IF spread THEN N("spread", "", <<r.n>>, r.n.s, r.n.e) ELSE r.n
        next   == IF list /\ Tok(ts, r.i) # "," THEN 0 ELSE Separated(ts, r.i)
    IN IF Missing(r) THEN Got(Items(acc), r.i, r.x \/ spread)
       ELSE After(r, LAMBDA q : IF next > 0 THEN ParseEntries(ts, next, u, Append(acc, item), from)
                                ELSE Got(Items(Append(acc, item)), q.i, FALSE))

ParseList(ts, i, u) ==
    After(ParseEntries(ts, SkipBreaks(ts, i + 1), u, <<>>, i), LAMBDA es :
        Expect(ts, SkipBreaks(ts, es.i), "]", LAMBDA j : Got(Node(ts, "list", "", es.n.c, i, j), j, FALSE)))

\* `()`, a grouping or a tuple.
ParseParenthetical(ts, i, u) ==
    After(ParseEntries(ts, SkipBreaks(ts, i + 1), u, <<>>, i), LAMBDA es :
        Expect(ts, SkipBreaks(ts, es.i), ")", LAMBDA j :
            Got(Node(ts, IF Len(es.n.c) = 1 THEN "group" ELSE "tuple", "", es.n.c, i, j), j, FALSE)))

\* Fields, `a` short for `a: a`; a spread is only allowed at the front.
ParseFields(ts, i, u, acc) ==
    IF Tok(ts, i) = "..." THEN Fail(i)
    ELSE IF ~IsIdent(Tok(ts, i)) THEN Got(Items(acc), i, FALSE)
    ELSE After(IF Tok(ts, i + 1) = ":" THEN ParseExpression(ts, i + 2, u) ELSE Leaf(ts, "id", i), LAMBDA r :
             LET fields == Append(acc, N("field", Tok(ts, i), <<r.n>>, Line(ts, i), r.n.e))
             IN IF Separated(ts, r.i) > 0 THEN ParseFields(ts, Separated(ts, r.i), u, fields)
                ELSE Got(Items(fields), r.i, FALSE))

ParseRecord(ts, i, u) ==
    LET j == SkipBreaks(ts, i + 1)
        base == ParseExpression(ts, j + 1, u)
        Fields(from, bases, k) ==
            After(ParseFields(ts, from, u, <<>>), LAMBDA fs : Expect(ts, SkipBreaks(ts, fs.i), "}", LAMBDA m :
                Got(Node(ts, k, "", bases \o fs.n.c, i, m), m, FALSE)))
    IN IF Tok(ts, j) # "..." THEN Fields(j, <<>>, "record")
       ELSE IF Missing(base) THEN Fail(base.i)
       ELSE After(base, LAMBDA b :
                Fields(IF Separated(ts, b.i) > 0 THEN Separated(ts, b.i) ELSE b.i, <<b.n>>, "update"))

\* A string: one part, or parts with the expressions of `$( .. )` between.
ParseString(ts, i, u, acc, from) ==
    IF Tok(ts, i) # "str" THEN Fail(i)
    ELSE LET parts == Append(acc, Leaf(ts, "str", i).n)
         IN IF Tok(ts, i + 1) # "$(" THEN
                Got(IF acc = <<>> THEN parts[1] ELSE Node(ts, "interp", "", parts, from, i + 1), i + 1, FALSE)
            ELSE After(ParseExpression(ts, i + 2, u), LAMBDA r : Expect(ts, r.i, ")$", LAMBDA j :
                     ParseString(ts, j, u, Append(parts, r.n), from)))

ParseBuiltin(ts, i, u) ==
    After(ParseString(ts, i + 1, u, <<>>, i + 1), LAMBDA r :
        IF r.n.k = "str" THEN Got(Node(ts, "builtin", "", <<>>, i, r.i), r.i, FALSE) ELSE Fail(r.i))

ParsePrefix(ts, i, rb, u) ==
    LET op == IF Tok(ts, i) = "neg" THEN "-" ELSE Tok(ts, i)
        r  == ParseExpr(ts, i + 1, PrefixPower(op), rb, u)
    IN IF Missing(r) THEN Fail(r.i)            \* require_expression
       ELSE Got(N("unary", op, <<r.n>>, Line(ts, i), r.n.e), r.i, r.x)

\* What an expression begins with.
ParsePrimary(ts, i, rb, u) ==
    LET t == Tok(ts, i)
    IN CASE IsIdent(t) -> Leaf(ts, "id", i)
         [] t \in Digits -> ParseNumber(ts, i)
         [] t \in {"true", "false"} -> Leaf(ts, "bool", i)
         [] t = "str" -> ParseString(ts, i, u, <<>>, i)
         [] t = "(" -> ParseParenthetical(ts, i, u)
         [] t = "[" -> ParseList(ts, i, u)
         [] t = "{" /\ ~rb -> ParseRecord(ts, i, u)
         [] t = "tick" -> ParseRegularExpression(ts, i)
         [] t = "fun" -> ParseFun(ts, i, u)
         [] t = "if" -> ParseIf(ts, i, u)
         [] t = "when" -> ParseWhen(ts, i, u)
         [] t = "while" -> ParseWhile(ts, i, u)
         [] t = "let" -> ParseLet(ts, i, u)
         [] t = "defer" -> ParseDefer(ts, i, u)
         [] t \in {"scope", "manual"} -> ParseScope(ts, i, u)
         [] t = "using" -> ParseUsing(ts, i)
         [] t = "built-in" -> ParseBuiltin(ts, i, u)
         [] t = "." -> ParseImplicitMember(ts, i, u)
         [] t \in {"-", "neg", "!", "~"} -> ParsePrefix(ts, i, rb, u)
         [] OTHER -> None(i, FALSE)

\* The arguments of a call, each binding tighter than a call.  A spaced
\* minus ends them: it is a subtraction.
ParseArgs(ts, i, rb, u, acc) ==
    LET r == ParseExpr(ts, i, RightPower("call"), rb, u)
    IN IF Tok(ts, i) = "-" THEN Got(Items(acc), i, FALSE)
       ELSE IF Missing(r) THEN Got(Items(acc), r.i, r.x)
       ELSE After(r, LAMBDA q : ParseArgs(ts, q.i, rb, u, Append(acc, q.n)))

ParseAccess(ts, lhs, i) ==
    CASE Tok(ts, i) \in Digits -> Got(N("elem", Tok(ts, i), <<lhs>>, lhs.s, Line(ts, i)), i + 1, FALSE)
      [] IsIdent(Tok(ts, i)) -> Got(N("access", Tok(ts, i), <<lhs>>, lhs.s, Line(ts, i)), i + 1, FALSE)
      [] OTHER -> Fail(i)

\* The operator at token j: application has no token of its own, and inside
\* `using` a dot with a blank before it begins an argument.
OperatorAt(ts, j, u) ==
    LET t == Tok(ts, j)
    IN CASE t = "." /\ u # "" /\ ts[j].w -> "call"
         [] t \in InfixOps -> t
         [] t \in StartsExpression -> "call"
         [] OTHER -> ""

\* Where an operator of `lhs` may stand: here, or on a later line when that
\* line begins with an infix operator (a dot begins a statement in `using`).
OperatorPlace(ts, i, u) ==
    LET q == SkipBreaks(ts, i)
    IN IF q = i \/ (Tok(ts, q) \in InfixOps /\ ~(Tok(ts, q) = "." /\ u # "")) THEN q ELSE 0

\* The loop of parse_expression_with_binding_power: operators that bind at
\* least as tightly as `power`.
ParseInfix(ts, lhs, i, power, rb, u) ==
    LET j  == OperatorPlace(ts, i, u)
        op == IF j = 0 THEN "" ELSE OperatorAt(ts, j, u)
        args == ParseArgs(ts, j, rb, u, <<>>)
        rhs == ParseExpr(ts, j + 1, RightPower(op), rb, u)
    IN CASE op = "" -> Got(lhs, i, FALSE)
         [] LeftPower(op) < power -> Got(lhs, j, FALSE)
         [] op = "call" ->
              IF args.n.c = <<>> THEN Got(lhs, args.i, args.x)
              ELSE After(args, LAMBDA as :
                       ParseInfix(ts, N("call", "", <<lhs>> \o as.n.c, lhs.s, as.n.c[Len(as.n.c)].e),
                                  as.i, power, rb, u))
         [] op = "." -> After(ParseAccess(ts, lhs, j + 1), LAMBDA a : ParseInfix(ts, a.n, a.i, power, rb, u))
         [] OTHER ->
              IF Missing(rhs) THEN Fail(rhs.i)
              ELSE After(rhs, LAMBDA r :
                       ParseInfix(ts, N("binary", op, <<lhs, r.n>>, lhs.s, r.n.e), r.i, power, rb, u))

ParseExpr(ts, i, power, rb, u) ==
    After(ParsePrimary(ts, i, rb, u), LAMBDA r : ParseInfix(ts, r.n, r.i, power, rb, u))
-----------------------------------------------------------------------------
(* Definitions and modules. *)

RECURSIVE ParseConstraints(_, _, _), ParseMethods(_, _, _), ParseVariants(_, _, _),
          ParseDefs(_, _, _), ParseDefinition(_, _)

ParseConstraints(ts, i, acc) ==
    After(ParseIdentifier(ts, i), LAMBDA t : After(ParseIdentifier(ts, t.i), LAMBDA p :
        LET all == Append(acc, N("constraint", t.n.v, <<p.n>>, t.n.s, p.n.e))
        IN IF Tok(ts, p.i) = "," THEN ParseConstraints(ts, SkipBreaks(ts, p.i + 1), all)
           ELSE Expect(ts, p.i, ")", LAMBDA j : Got(Items(all), j, FALSE))))

ParseWhere(ts, i) ==
    IF Tok(ts, i) # "where" THEN Got(Items(<<>>), i, FALSE)
    ELSE Expect(ts, i + 1, "(", LAMBDA j : ParseConstraints(ts, SkipBreaks(ts, j), <<>>))

\* Trait methods: signatures, and defaults for signatures that came before.
ParseMethods(ts, i, acc) ==
    LET j == SkipBreaks(ts, i)
        of == {m \in 1 .. Len(acc) : acc[m].v = Tok(ts, j + 1)}
    IN CASE Tok(ts, j) = "def" ->
              After(ParseIdentifier(ts, j + 1), LAMBDA name : Expect(ts, name.i, "=", LAMBDA k :
                  After(ParseExpression(ts, k, ""), LAMBDA b :
                      IF of = {} THEN Fail(b.i)
                      ELSE LET m == CHOOSE m \in of : \A q \in of : m <= q
                           IN ParseMethods(ts, b.i, [acc EXCEPT ![m].c = <<@[1], b.n>>, ![m].e = b.n.e]))))
         [] IsIdent(Tok(ts, j)) ->
              Expect(ts, j + 1, "::", LAMBDA k : After(ParseTypeWithGenerics(ts, k), LAMBDA sig :
                  ParseMethods(ts, sig.i, Append(acc, N("method", Tok(ts, j), <<sig.n>>, Line(ts, j), sig.n.e)))))
         [] OTHER -> Got(Items(acc), j, FALSE)

ParseTrait(ts, i) ==
    After(ParseIdentifier(ts, i), LAMBDA p : Expect(ts, p.i, "{", LAMBDA j :
        After(ParseMethods(ts, j, <<>>), LAMBDA ms : Expect(ts, ms.i, "}", LAMBDA k :
            Got(Node(ts, "trait", "", <<p.n>> \o ms.n.c, i, k), k, FALSE)))))

\* A variant: its name (`true` and `false` are names here) and, on the same
\* line, the types it carries.
ParseVariants(ts, i, acc) ==
    IF ~IsIdent(Tok(ts, i)) /\ Tok(ts, i) \notin {"true", "false"} THEN Got(Items(acc), i, FALSE)
    ELSE After(TypeAtoms(ts, i + 1, <<>>, TRUE), LAMBDA as :
             ParseVariants(ts, SkipBreaks(ts, as.i),
                           Append(acc, Node(ts, "variant", Tok(ts, i), as.n.c, i, as.i))))

ParseEnum(ts, i) ==
    After(IdentsFrom(ts, i, <<>>), LAMBDA ps : Expect(ts, ps.i, "{", LAMBDA j :
        After(ParseVariants(ts, SkipBreaks(ts, j), <<>>), LAMBDA vs : Expect(ts, vs.i, "}", LAMBDA k :
            Got(Node(ts, "enum", "", <<ps.n>> \o vs.n.c, i, k), k, FALSE)))))

\* The methods of an instance: definitions up to its closing brace.
ParseDefs(ts, i, acc) ==
    IF Tok(ts, i) # "def" THEN Got(Items(acc), i, FALSE)
    ELSE After(ParseDefinition(ts, i), LAMBDA d : ParseDefs(ts, SkipBreaks(ts, d.i), Append(acc, d.n)))

\* The head is one type atom, so that `{` opens the body.
ParseInstance(ts, i) ==
    After(ParseIdentifier(ts, i + 1), LAMBDA t : After(ParseType(ts, t.i), LAMBDA h :
        After(ParseWhere(ts, h.i), LAMBDA w : Expect(ts, w.i, "{", LAMBDA j :
            After(ParseDefs(ts, SkipBreaks(ts, j), <<>>), LAMBDA ms : Expect(ts, ms.i, "}", LAMBDA k :
                Got(Node(ts, "instance", t.n.v, <<h.n, w.n, ms.n>>, i, k), SkipBreaks(ts, k), FALSE)))))))

\* `def name [:: type] [where (..)] = value`, from the name on.
ParseValueDefinition(ts, i, from, mods) ==
    LET Value3(tys, j) ==
            After(ParseWhere(ts, SkipBreaks(ts, j)), LAMBDA w : Expect(ts, SkipBreaks(ts, w.i), "=", LAMBDA k :
                LET v == ParseExpression(ts, SkipBreaks(ts, k), "")
                IN IF Missing(v) THEN Fail(v.i)
                   ELSE Got(N("def", Tok(ts, i), <<mods, v.n, w.n>> \o tys, Line(ts, from), v.n.e),
                            SkipBreaks(ts, v.i), v.x)))
    IN After(ParseIdentifier(ts, i), LAMBDA name :
           IF Tok(ts, name.i) # "::" THEN Value3(<<>>, name.i)
           ELSE After(ParseTypeWithGenerics(ts, SkipBreaks(ts, name.i + 1)), LAMBDA t : Value3(<<t.n>>, t.i)))

\* What `public` and `opaque` may stand before.
MayModify(visibility, t) ==
    \/ visibility = ""
    \/ t = "enum"
    \/ visibility = "public" /\ t \in {"alias", "def", "trait"}

ParseDefinition(ts, i) ==
    LET visibility == IF Tok(ts, i) \in {"public", "opaque"} THEN Tok(ts, i) ELSE ""
        j      == IF visibility = "" THEN i ELSE i + 1
        remote == Tok(ts, j) = "remote"
        k      == IF remote THEN j + 1 ELSE j
        t      == Tok(ts, k)
        mods   == N("mods", visibility, IF remote THEN <<N("remote", "", <<>>, 0, 0)>> ELSE <<>>, 0, 0)
        Named(F(_, _)) == After(ParseIdentifier(ts, k + 1), LAMBDA name :
                        After(F(ts, name.i), LAMBDA r :
                            Got(N("named", name.n.v, <<mods, r.n>>,
                                  IF t = "trait" THEN Line(ts, k) ELSE Line(ts, i), r.n.e),
                                SkipBreaks(ts, r.i), FALSE)))
    IN CASE visibility # "" /\ ~MayModify(visibility, t) -> Fail(k)
         [] remote /\ t # "def" -> Fail(k)
         [] t = "implement" -> ParseInstance(ts, k)
         [] t = "enum" -> Named(ParseEnum)
         [] t = "alias" -> Named(ParseTypeWithGenerics)
         [] t = "trait" -> Named(ParseTrait)
         [] t = "def" -> ParseValueDefinition(ts, k + 1, i, mods)
         [] OTHER -> None(k, FALSE)

TopLevelStarts == {"def", "enum", "alias", "trait", "implement", "public", "opaque", "remote"}

\* Panic-mode recovery: past this token, then on to the next definition that
\* is not inside braces opened on the way.
RECURSIVE Synchronize(_, _, _, _)
MutSynchronize(ts, i, depth, started) == \* mutant: closing braces are not counted
    LET t == Tok(ts, i)
    IN CASE t = "eof" -> i
         [] started /\ depth <= 0 /\ t \in TopLevelStarts -> i
         [] t = "{" -> Synchronize(ts, i + 1, depth + 1, TRUE)
         [] OTHER -> Synchronize(ts, i + 1, depth, TRUE)
Synchronize(ts, i, depth, started) ==
    LET t == Tok(ts, i)
    IN CASE t = "eof" -> i
         [] started /\ depth <= 0 /\ t \in TopLevelStarts -> i
         [] t = "{" -> Synchronize(ts, i + 1, depth + 1, TRUE)
         [] t = "}" -> Synchronize(ts, i + 1, depth - 1, TRUE)
         [] OTHER -> Synchronize(ts, i + 1, depth, TRUE)

RECURSIVE ParseUsePath(_, _, _)
ParseUsePath(ts, i, acc) ==
    After(ParseIdentifier(ts, i), LAMBDA p :
        IF Tok(ts, p.i) = "/" THEN ParseUsePath(ts, p.i + 1, Append(acc, p.n))
        ELSE Got(Items(Append(acc, p.n)), p.i, FALSE))

ParseUse(ts, i) ==
    After(ParseUsePath(ts, i + 1, <<>>), LAMBDA p :
        IF Tok(ts, p.i) # "as" THEN Got(Node(ts, "use", "", p.n.c, i, p.i), p.i, FALSE)
        ELSE After(ParseIdentifier(ts, p.i + 1), LAMBDA a :
                 Got(Node(ts, "use", a.n.v, p.n.c, i, a.i), a.i, FALSE)))

\* The two loops of parse_module: imports, then definitions, each going on
\* after an error from the next definition.
RECURSIVE ParseModuleFrom(_, _, _, _, _)
ParseModuleFrom(ts, i, uses, defs, x) ==
    LET j == SkipBreaks(ts, i)
        t == Tok(ts, j)
        inUses == t = "use" /\ defs = <<>>
        r == IF inUses THEN ParseUse(ts, j)
             ELSE IF t \in TopLevelStarts THEN ParseDefinition(ts, j) ELSE Fail(j)
        next == IF Missing(r) THEN Synchronize(ts, r.i, 0, FALSE) ELSE r.i
    IN CASE t = "eof" -> [uses |-> uses, defs |-> defs, x |-> x]
         [] inUses -> ParseModuleFrom(ts, next, IF Missing(r) THEN uses ELSE Append(uses, r.n), defs, x \/ r.x)
         [] OTHER -> ParseModuleFrom(ts, next, uses, IF Missing(r) THEN defs ELSE Append(defs, r.n), x \/ r.x)

ParseModule(text) ==
    LET ts == Tokens(text) IN ParseModuleFrom(ts, 1, <<>>, <<>>, FALSE)
=============================================================================

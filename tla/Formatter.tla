----------------------------- MODULE Formatter ------------------------------
(***************************************************************************)
(* The source formatter: the document algebra and its layout (doc.rs), and *)
(* the translation of a parsed module into a document (visitor.rs), with   *)
(* parentheses derived from precedence and comments placed by line.        *)
(*                                                                         *)
(* A document is [g, v, c]: its form, its lexeme, its parts.  Nesting only *)
(* sets the indentation of a new line, which is no lexeme, so it is left   *)
(* out; a lexeme is one column wide.  The comments already printed (the    *)
(* visitor's `consumed` cell) are threaded through as `q`: a translation   *)
(* returns [d, q], the document (or, in FmtEach, the documents) and the    *)
(* comments printed so far, by line.                                       *)
(***************************************************************************)
EXTENDS Parser, FiniteSets

D(g, v, c) == [g |-> g, v |-> v, c |-> c]
Text(l) == D("text", l, <<>>)
Cat(ds) == D("cat", "", ds)
Group(ds) == D("group", "", ds)
IfFlat(flat, broken) == D("ifflat", "", <<flat, broken>>)
Empty == Cat(<<>>)
HardLine == D("hard", "", <<>>)
SoftLine == D("line", "", <<>>)       \* a blank when flat
SoftBreak == D("break", "", <<>>)     \* nothing when flat

\* Each of a sequence of lexemes as a text.
Words(ls) == Cat([k \in 1 .. Len(ls) |-> Text(ls[k])])

RECURSIVE Join(_, _)
Join(sep, ds) == IF Len(ds) <= 1 THEN ds ELSE <<ds[1]>> \o sep \o Join(sep, Tail(ds))
-----------------------------------------------------------------------------
(* Layout (doc.rs). *)

\* An entry of the layout stack: a document and whether it is laid out flat.
Entry(doc, flat) == [doc |-> doc, flat |-> flat]

Push(ds, flat, stack) == [k \in 1 .. Len(ds) |-> Entry(ds[k], flat)] \o stack

\* What is laid out flat up to the next mandatory break fits the budget.
RECURSIVE Fits(_, _)
Fits(budget, stack) ==
    IF budget < 0 THEN FALSE
    ELSE IF stack = <<>> THEN TRUE
    ELSE LET top == stack[1] rest == Tail(stack) g == top.doc.g
         IN CASE g = "text" -> Fits(budget - 1, rest)
              [] g = "hard" -> ~top.flat
              [] g = "line" -> ~top.flat \/ Fits(budget - 1, rest)
              [] g = "break" -> ~top.flat \/ Fits(budget, rest)
              [] g = "ifflat" -> Fits(budget, Push(<<top.doc.c[IF top.flat THEN 1 ELSE 2]>>, top.flat, rest))
              [] g \in {"cat", "group"} -> Fits(budget, Push(top.doc.c, top.flat, rest))

\* A new line; blanks at the end of the old one go (strip_trailing_whitespace).
RECURSIVE NewLine(_)
NewLine(out) ==
    IF out # <<>> /\ out[Len(out)] = " " THEN NewLine(SubSeq(out, 1, Len(out) - 1)) ELSE Append(out, "nl")

RECURSIVE Render(_, _, _, _)
Render(stack, col, out, width) ==
    IF stack = <<>> THEN out
    ELSE LET top == stack[1] rest == Tail(stack) g == top.doc.g
             Break == Render(rest, 0, NewLine(out), width)
         IN CASE g = "text" -> Render(rest, col + 1, Append(out, top.doc.v), width)
              [] g = "hard" \/ (g \in {"line", "break"} /\ ~top.flat) -> Break
              [] g = "line" -> Render(rest, col + 1, Append(out, " "), width)
              [] g = "break" -> Render(rest, col, out, width)
              [] g = "ifflat" ->
                   Render(Push(<<top.doc.c[IF top.flat THEN 1 ELSE 2]>>, top.flat, rest), col, out, width)
              [] g = "cat" -> Render(Push(top.doc.c, top.flat, rest), col, out, width)
              [] g = "group" ->
                   Render(Push(top.doc.c, Fits(width - col, Push(top.doc.c, TRUE, rest)), rest),
                          col, out, width)
-----------------------------------------------------------------------------
(* Comments. *)

Out(d, q) == [d |-> d, q |-> q]

EndOfFile == 1000

\* Unprinted comments on the lines lo .. hi - 1, in order.
RECURSIVE Ascending(_)
Ascending(S) == IF S = {} THEN <<>>
                ELSE LET m == CHOOSE m \in S : \A n \in S : m <= n IN <<m>> \o Ascending(S \ {m})

Pending(cm, lo, hi, q) == {l \in DOMAIN cm \ q : l >= lo /\ l < hi}

\* Each comment, with the blank lines the source had between them.
CommentLines(cm, lines) ==
    [k \in 1 .. Len(lines) |->
        Cat((IF k > 1 THEN <<HardLine>> ELSE <<>>)
            \o (IF k > 1 /\ lines[k] > lines[k - 1] + 1 THEN <<HardLine>> ELSE <<>>)
            \o <<Text(cm[lines[k]])>>)]

\* drain_leading: all comments above a line, each on a line of its own.
MutDrainLeading(cm, target, q) == \* mutant: comments above an item are left behind
    Out(Empty, q \cup Pending(cm, 1, target, q))
DrainLeading(cm, target, q) ==
    LET lines == Ascending(Pending(cm, 1, target, q))
    IN IF lines = <<>> THEN Out(Empty, q)
       ELSE Out(Cat(CommentLines(cm, lines) \o <<HardLine>>
                    \o (IF target > lines[Len(lines)] + 1 THEN <<HardLine>> ELSE <<>>)),
                q \cup Pending(cm, 1, target, q))

\* drain_interior: the comments of a stretch of lines inside brackets.
DrainInterior(cm, lo, hi, q) ==
    Out(Cat(CommentLines(cm, Ascending(Pending(cm, lo, hi, q)))), q \cup Pending(cm, lo, hi, q))

MutTrailingComment(cm, line, q) == \* mutant: the comment goes to a line of its own
    IF line \in DOMAIN cm \ q THEN Out(Cat(<<HardLine, Text(cm[line])>>), q \cup {line}) ELSE Out(Empty, q)
\* trailing_comment: the comment at the end of a node's last line.
TrailingComment(cm, line, q) ==
    IF line \in DOMAIN cm \ q THEN Out(Words(<<" ", cm[line]>>), q \cup {line}) ELSE Out(Empty, q)

HasLeading(cm, line, q) == Pending(cm, 1, line, q) # {}

\* A blank line before the item at `line` if the source had one.
BlankBefore(cm, line, prev, q) ==
    LET P == Pending(cm, 1, line, q)
        first == IF P = {} THEN line ELSE CHOOSE m \in P : \A n \in P : m <= n
    IN IF first > prev + 1 THEN <<HardLine>> ELSE <<>>

\* comment_aware_collection: items with their commas, the comments above
\* each, the one behind each, and those before the closing bracket.
RECURSIVE CollectionItems(_, _, _, _, _, _)
CollectionItems(cm, items, ds, k, lower, q) ==
    LET end   == items.e
        item  == items.c[k]
        lead  == DrainInterior(cm, lower, item.s, q)
        trail == IF item.e < end THEN TrailingComment(cm, item.e, lead.q) ELSE Out(Empty, lead.q)
        tail  == DrainInterior(cm, lower, end, q)
        rest  == CollectionItems(cm, items, ds, k + 1, item.e + 1, trail.q)
    IN IF k > Len(items.c)
         THEN Out(IF tail.d.c = <<>> THEN Empty ELSE Cat(<<HardLine, tail.d>>), tail.q)
         ELSE Out(Cat((IF k > 1 THEN <<IfFlat(Text(" "), SoftLine)>> ELSE <<>>)
                      \o (IF lead.d.c = <<>> THEN <<>> ELSE <<lead.d, HardLine>>)
                      \o <<ds[k], IF k < Len(items.c) THEN Text(",") ELSE IfFlat(Empty, Text(",")), trail.d,
                           rest.d>>),
                  rest.q)

Collection(cm, open, close, node, ds, q) ==
    LET items == CollectionItems(cm, node, ds, 1, node.s, q)
    IN IF ds = <<>> THEN Out(Words(<<open, close>>), q)
       ELSE Out(Group(<<Text(open), SoftBreak, items.d, SoftBreak, Text(close)>>), items.q)
-----------------------------------------------------------------------------
(* Patterns, types and regular expressions print without comments. *)

RECURSIVE FormatPattern(_), FormatType(_), FormatRegex(_)

Bracketed(open, close, ds) == Cat(<<Text(open)>> \o Join(<<Text(","), Text(" ")>>, ds) \o <<Text(close)>>)

\* bracketed_collection: one line if it fits, else an item per line with a
\* trailing comma.
BracketedCollection(open, close, ds) ==
    Group(<<Text(open), SoftBreak>>
          \o Join(<<IfFlat(Words(<<",", " ">>), Cat(<<Text(","), SoftLine>>))>>, ds)
          \o <<IfFlat(Empty, Text(",")), SoftBreak, Text(close)>>)

FormatLiteral(n) == IF n.k = "float" THEN Words(<<n.v, ".", n.c[1].v>>) ELSE Text(n.v)

RestWords(n) == Words(IF n.v = "" THEN <<"...">> ELSE <<"...", n.v>>)

\* A record, or a constructor with arguments, is no atom.
NeedsParensAsArgument(p) == p.k = "prec" \/ (p.k = "ctor" /\ p.c[2].c # <<>>)

FormatPatternArg(p) ==
    IF NeedsParensAsArgument(p) THEN Cat(<<Text("("), FormatPattern(p), Text(")")>>) ELSE FormatPattern(p)

PatternField(f) ==
    IF f.k = "rest" THEN RestWords(f)
    ELSE IF f.c[1].k = "id" /\ f.c[1].v = f.v THEN Text(f.v)
    ELSE Cat(<<Words(<<f.v, ":", " ">>), FormatPattern(f.c[1])>>)

DottedWords(segments) ==
    Cat(Join(<<Text(".")>>, [k \in 1 .. Len(segments) |-> Text(segments[k].v)]))

FormatPattern(p) ==
    LET each == [k \in 1 .. Len(p.c) |-> IF p.c[k].k = "rest" THEN RestWords(p.c[k]) ELSE FormatPattern(p.c[k])]
    IN CASE p.k \in {"id", "_"} -> Text(p.v)
         [] p.k \in {"num", "float", "bool", "str"} -> FormatLiteral(p)
         [] p.k = "ctor" -> Cat(Join(<<Text(" ")>>, <<DottedWords(p.c[1].c)>>
                                 \o [k \in 1 .. Len(p.c[2].c) |-> FormatPatternArg(p.c[2].c[k])]))
         [] p.k = "ptuple" -> Bracketed("(", ")", each)
         [] p.k = "plist" -> Bracketed("[", "]", each)
         [] p.k = "prec" -> IF p.c = <<>> THEN Words(<<"{", "}">>)
                            ELSE BracketedCollection("{", "}", [k \in 1 .. Len(p.c) |-> PatternField(p.c[k])])

\* Types print as they were written, groupings included.
FormatType(t) ==
    LET each == [k \in 1 .. Len(t.c) |-> FormatType(t.c[k])]
    IN CASE t.k = "ty" ->
              LET inModule == t.c # <<>> /\ t.c[1].k = "in"
              IN Cat((IF inModule THEN <<Words(<<t.c[1].v, ".">>)>> ELSE <<>>)
                     \o Join(<<Text(" ")>>, <<Text(t.v)>> \o (IF inModule THEN Tail(each) ELSE each)))
         [] t.k = "in" -> Empty
         [] t.k = "tyfun" -> Cat(Join(<<Text(" ")>>, <<Text("fun")>> \o SubSeq(each, 1, Len(each) - 1))
                                 \o <<Words(<<" ", "->", " ">>), each[Len(each)]>>)
         [] t.k \in {"tytuple", "tygroup"} -> Bracketed("(", ")", each)
         [] t.k = "tyrec" -> IF t.c = <<>> THEN Words(<<"{", "}">>) ELSE BracketedCollection("{", "}", each)
         [] t.k = "field" -> Cat(<<Words(<<t.v, " ", "::", " ">>), FormatType(t.c[1])>>)

FormatRegex(r) ==
    LET each == [k \in 1 .. Len(r.c) |-> FormatRegex(r.c[k])]
    IN CASE r.k \in {"anchor", "class", "rxlit"} -> Text(r.v)
         [] r.k \in {"min", "max"} -> IF r.v = "" THEN Empty ELSE Text(r.v)
         [] r.k = "rxseq" -> Cat(Join(<<Text(" ")>>, each))
         [] r.k = "rxalt" -> Cat(Join(<<Words(<<" ", "|", " ">>)>>, each))
         [] r.k = "rxgroup" -> Cat(<<Text("("), each[1], Text(")")>>)
         [] r.k = "repeat" -> Cat(<<each[1], Text(r.v)>>)
         [] r.k = "count" -> Cat(<<each[1], Text("{"), each[2]>>
                                 \o (IF r.v = "," THEN <<Text(","), each[3]>> ELSE <<>>) \o <<Text("}")>>)
         [] r.k = "capture" -> Cat(<<Words(<<"<", r.v, ":", " ">>), each[1], Text(">")>>)
-----------------------------------------------------------------------------
(* Expressions. *)

OperatorPrec(op) == IF op = "**" THEN 80 ELSE LeftPower(op)

RightAssociative == {"**", "??"}

RECURSIVE Prec(_)
MutPrec(e) == \* mutant: a call is taken for a primary
    CASE e.k = "group" -> Prec(e.c[1])
      [] e.k = "binary" -> OperatorPrec(e.v)
      [] e.k = "unary" -> PrefixPower(e.v)
      [] e.k \in {"access", "elem"} -> 100
      [] e.k \in {"let", "try", "defer"} -> 0
      [] OTHER -> 255
\* expr_prec: how tightly the top of an expression binds.
Prec(e) ==
    CASE e.k = "group" -> Prec(e.c[1])
      [] e.k = "binary" -> OperatorPrec(e.v)
      [] e.k = "unary" -> PrefixPower(e.v)
      [] e.k = "call" -> 90
      [] e.k \in {"access", "elem"} -> 100
      [] e.k \in {"let", "try", "defer"} -> 0
      [] OTHER -> 255

\* The kinds that print a child bare, through which a record stays exposed.
BraceSpine(e) == e.k \in {"call", "binary", "unary", "access", "elem", "defer", "try", "let"}

RECURSIVE Fmt(_, _, _, _, _, _), FmtEach(_, _, _, _, _, _), RenderExpr(_, _, _, _, _),
          FormatStatements(_, _, _, _), FormatIf(_, _, _), FormatCases(_, _, _, _),
          FormatRest(_, _, _, _, _)

\* fmt_prec: groupings are dropped, and parentheses set where the context
\* needs a tighter operand or a record would open an `if` or `while` body.
Fmt(cm, e, min, tail, rb, q) ==
    IF e.k = "group" THEN Fmt(cm, e.c[1], min, tail, rb, q)
    ELSE IF (rb /\ e.k \in {"record", "update"}) \/ Prec(e) < min
      THEN LET r == RenderExpr(cm, e, tail, FALSE, q)
           IN Out(Cat(<<Text("("), r.d, Text(")")>>), r.q)
      ELSE RenderExpr(cm, e, tail, rb /\ BraceSpine(e), q)

\* Several expressions in order, `min` and `tail` for each.
FmtEach(cm, es, mins, tails, rb, q) ==
    IF es = <<>> THEN Out(<<>>, q)
    ELSE LET first == Fmt(cm, es[1], mins[1], tails[1], rb, q)
             rest  == FmtEach(cm, Tail(es), Tail(mins), Tail(tails), rb, first.q)
         IN Out(<<first.d>> \o rest.d, rest.q)

\* Entries of a bracketed literal, each in a context of its own.
FmtPlain(cm, es, q) ==
    FmtEach(cm, es, [k \in 1 .. Len(es) |-> 0], [k \in 1 .. Len(es) |-> FALSE], FALSE, q)

\* Statements, each on a line of its own with its comments; a single one
\* that ends a line is laid out as a block.
FormatStatements(cm, es, prev, q) ==
    IF es = <<>> THEN Out(Empty, q)
    ELSE LET lead == DrainLeading(cm, es[1].s, q)
             stmt == Fmt(cm, es[1], 0, TRUE, FALSE, lead.q)
             tr   == TrailingComment(cm, es[1].e, stmt.q)
             rest == FormatStatements(cm, Tail(es), es[1].e, tr.q)
             gap  == IF prev = 0 THEN <<>> ELSE BlankBefore(cm, es[1].s, prev, q)
         IN Out(Cat(<<HardLine>> \o gap \o <<lead.d, stmt.d, tr.d, rest.d>>), rest.q)

\* `{`, statements, `}`, always on several lines.
FormatLines(cm, head, body, q) ==
    LET b == FormatStatements(cm, body, 0, q)
    IN Out(Cat(<<head, Text("{"), b.d, HardLine, Text("}")>>), b.q)

\* format_block and the body of format_fun: one line for one expression
\* without comments above it, if it fits.
FormatBlock(cm, head, body, q) ==
    IF body = <<>> THEN Out(Cat(<<head, Words(<<"{", "}">>)>>), q)
    ELSE IF Len(body) = 1 /\ ~HasLeading(cm, body[1].s, q)
      THEN LET b == Fmt(cm, body[1], 0, TRUE, FALSE, q)
           IN Out(Group(<<head, Text("{"), SoftLine, b.d, SoftLine, Text("}")>>), b.q)
      ELSE FormatLines(cm, head, body, q)

\* A function at the end of a statement is always a block.
FormatFun(cm, f, tail, q) ==
    LET head == Cat(Join(<<Text(" ")>>, <<Text("fun")>>
                         \o [k \in 1 .. Len(f.c[1].c) |-> Text(f.c[1].c[k].v)]) \o <<Text(" ")>>)
    IN IF tail /\ f.c[2].c # <<>> THEN FormatLines(cm, head, f.c[2].c, q)
       ELSE FormatBlock(cm, head, f.c[2].c, q)

FormatBinary(cm, e, rb, q) ==
    LET p == OperatorPrec(e.v)
        mins == IF e.v \in RightAssociative THEN <<p + 1, p>> ELSE <<p, p + 1>>
        ds == FmtEach(cm, e.c, mins, <<FALSE, FALSE>>, rb, q)
    IN Out(Cat(<<ds.d[1], Words(<<" ", e.v, " ">>), ds.d[2]>>), ds.q)

\* A call never breaks: its line ends it.  Callee and arguments bind tighter
\* than a call.
FormatCall(cm, e, tail, rb, q) ==
    LET n == Len(e.c)
        ds == FmtEach(cm, e.c, [k \in 1 .. n |-> 91], [k \in 1 .. n |-> tail /\ k = n], rb, q)
    IN Out(Cat(Join(<<Text(" ")>>, ds.d)), ds.q)

FormatLet(cm, e, tail, rb, q) ==
    LET ty == IF Len(e.c) = 3 THEN <<Words(<<" ", "::", " ">>), FormatType(e.c[3])>> ELSE <<>>
        v  == Fmt(cm, e.c[2], 0, tail, rb, q)
    IN Out(Cat(<<Words(<<"let", " ">>), FormatPattern(e.c[1])>> \o ty \o <<Words(<<" ", "=", " ">>), v.d>>), v.q)

\* The continuation of a `try` prints as the statements after it.
FormatRest(cm, es, prev, tail, q) ==
    IF es = <<>> THEN Out(Empty, q)
    ELSE LET lead == DrainLeading(cm, es[1].s, q)
             stmt == Fmt(cm, es[1], 0, tail, FALSE, lead.q)
             tr   == TrailingComment(cm, es[1].e, stmt.q)
             rest == FormatRest(cm, Tail(es), es[1].e, tail, tr.q)
         IN Out(Cat(<<HardLine>> \o BlankBefore(cm, es[1].s, prev, q)
                    \o <<lead.d, stmt.d, tr.d, rest.d>>), rest.q)

FormatTry(cm, e, tail, rb, q) ==
    LET n == Len(e.c)
        head == IF e.v = "bind" THEN <<FormatPattern(e.c[1]), Words(<<" ", "=", " ">>)>> ELSE <<>>
        v  == Fmt(cm, e.c[n - 1], 0, tail, rb, q)
        tr == TrailingComment(cm, e.c[n - 1].e, v.q)
        rest == FormatRest(cm, e.c[n].c, e.c[n - 1].e, tail, tr.q)
    IN Out(Cat(<<Words(<<"try", " ">>)>> \o head \o <<v.d, tr.d, rest.d>>), rest.q)

\* A list's entry, spread or not, and a record's, short or not.
EntryValue(f) == IF f.k \in {"spread", "field"} THEN f.c[1] ELSE f

EntryDoc(node, k, d) ==
    LET f == node.c[k]
    IN CASE f.k = "spread" \/ (node.k = "update" /\ k = 1) -> Cat(<<Text("..."), d>>)
         [] f.k = "field" -> IF f.c[1].k = "id" /\ f.c[1].v = f.v THEN Text(f.v)
                             ELSE Cat(<<Words(<<f.v, ":", " ">>), d>>)
         [] OTHER -> d

FormatCollection(cm, node, open, close, q) ==
    LET ds == FmtPlain(cm, [k \in 1 .. Len(node.c) |-> EntryValue(node.c[k])], q)
    IN Collection(cm, open, close, node, [k \in 1 .. Len(node.c) |-> EntryDoc(node, k, ds.d[k])], ds.q)

\* String parts with their interpolations, which never break.
\* An interpolated expression is laid out on its own, too wide to break.
VeryWide == 1000
FormatInterpolation(cm, e, q) ==
    LET ds == FmtPlain(cm, e.c, q)
        OneLine(d) == Words(Render(<<Entry(d, FALSE)>>, 0, <<>>, VeryWide))
    IN Out(Cat([k \in 1 .. Len(e.c) |->
                   IF k % 2 = 1 THEN ds.d[k] ELSE Cat(<<Text("$("), OneLine(ds.d[k]), Text(")$")>>)]), ds.q)

FormatSubject(cm, e, q) == Fmt(cm, e, 0, FALSE, TRUE, q)

\* ` is pattern`, left out for `true`.
IsClause(p) ==
    IF p.k = "bool" /\ p.v = "true" THEN Empty ELSE Cat(<<Words(<<" ", "is", " ">>), FormatPattern(p)>>)

FormatIf(cm, e, q) ==
    LET subject == FormatSubject(cm, e.c[1], q)
        body == FormatStatements(cm, e.c[3].c, 0, subject.q)
        top  == <<Words(<<"if", " ">>), subject.d, IsClause(e.c[2]), Words(<<" ", "{">>), body.d, HardLine>>
        chained == Len(e.c) = 4 /\ Len(e.c[4].c) = 1 /\ e.c[4].c[1].k = "if"
        els  == IF chained THEN FormatIf(cm, e.c[4].c[1], body.q)
                ELSE FormatLines(cm, Empty, e.c[4].c, body.q)
    IN IF Len(e.c) = 3 THEN Out(Cat(Append(top, Text("}"))), body.q)
       ELSE Out(Cat(top \o <<Words(<<"}", " ", "else", " ">>), els.d>>), els.q)

\* A `_` in the last arm prints as `else`.
FormatCases(cm, e, k, q) ==
    LET c == e.c[k]
        head == IF k = Len(e.c) /\ c.c[1].k = "_" THEN Text("else")
                ELSE Cat(<<Words(<<"is", " ">>), FormatPattern(c.c[1])>>)
        body == FormatStatements(cm, c.c[2].c, 0, q)
        rest == FormatCases(cm, e, k + 1, body.q)
    IN IF k > Len(e.c) THEN Out(Text("}"), q)
       ELSE Out(Cat((IF k = 2 THEN <<Text(" ")>> ELSE <<Words(<<"}", " ">>)>>)
                    \o <<head, Words(<<" ", "{">>), body.d, HardLine, rest.d>>), rest.q)

FormatWhen(cm, e, q) ==
    LET subject == Fmt(cm, e.c[1], 0, FALSE, FALSE, q)
        cases == FormatCases(cm, e, 2, subject.q)
    IN Out(Cat(<<Words(<<"when", " ">>), subject.d, cases.d>>), cases.q)

FormatWhile(cm, e, q) ==
    LET subject == FormatSubject(cm, e.c[1], q)
    IN FormatBlock(cm, Cat(<<Words(<<"while", " ">>), subject.d, IsClause(e.c[2]), Text(" ")>>),
                   e.c[3].c, subject.q)

FormatScope(cm, e, q) ==
    FormatBlock(cm, Words((IF e.v = "manual" THEN <<"manual", " ">> ELSE <<>>) \o <<"scope">>
                          \o (IF Len(e.c) = 2 THEN <<" ", "as", " ", e.c[2].v>> ELSE <<>>) \o <<" ">>),
                e.c[1].c, q)

\* One expression as itself, with what stands before and after it.
Around(before, r, after) == Out(Cat(<<Words(before), r.d, Words(after)>>), r.q)

RenderExpr(cm, e, tail, rb, q) ==
    CASE e.k \in {"num", "float", "bool", "str"} -> Out(FormatLiteral(e), q)
      [] e.k = "id" -> Out(Text(e.v), q)
      [] e.k = "binary" -> FormatBinary(cm, e, rb, q)
      [] e.k = "unary" -> Around(<<e.v>>, Fmt(cm, e.c[1], PrefixPower(e.v), FALSE, rb, q), <<>>)
      [] e.k \in {"access", "elem"} -> Around(<<>>, Fmt(cm, e.c[1], 100, FALSE, rb, q), <<".", e.v>>)
      [] e.k = "call" -> FormatCall(cm, e, tail, rb, q)
      [] e.k = "fun" -> FormatFun(cm, e, tail, q)
      [] e.k = "let" -> FormatLet(cm, e, tail, rb, q)
      [] e.k = "defer" -> Around(<<"defer", " ">>, Fmt(cm, e.c[1], 0, tail, rb, q), <<>>)
      [] e.k = "try" -> FormatTry(cm, e, tail, rb, q)
      [] e.k = "tuple" -> FormatCollection(cm, e, "(", ")", q)
      [] e.k = "list" -> FormatCollection(cm, e, "[", "]", q)
      [] e.k \in {"record", "update"} -> FormatCollection(cm, e, "{", "}", q)
      [] e.k = "interp" -> FormatInterpolation(cm, e, q)
      [] e.k = "regex" -> Out(Cat(<<Text("tick"), FormatRegex(e.c[1]), Text("tick")>>), q)
      [] e.k = "if" -> FormatIf(cm, e, q)
      [] e.k = "when" -> FormatWhen(cm, e, q)
      [] e.k = "while" -> FormatWhile(cm, e, q)
      [] e.k = "scope" -> FormatScope(cm, e, q)
      [] e.k = "using" -> FormatBlock(cm, Words(<<"using", " ", e.v, " ">>), e.c[1].c, q)
      [] e.k = "implicit" -> Out(Words(<<".", e.v>>), q)
      [] e.k = "builtin" -> Out(Words(<<"built-in", " ", "str">>), q)
-----------------------------------------------------------------------------
(* Definitions and modules. *)

RECURSIVE FormatDefinition(_, _, _), FormatMembers(_, _, _, _)

FormatWhere(cs) ==
    IF cs = <<>> THEN Empty
    ELSE Cat(<<Words(<<" ", "where", " ">>),
               Bracketed("(", ")", [k \in 1 .. Len(cs) |-> Words(<<cs[k].v, " ", cs[k].c[1].v>>)])>>)

FormatVariant(v) ==
    Cat(Join(<<Text(" ")>>, <<Text(v.v)>> \o [k \in 1 .. Len(v.c) |-> FormatType(v.c[k])]))

FormatMethod(cm, m, q) ==
    LET sig == <<Words(<<m.v, " ", "::", " ">>), FormatType(m.c[1])>>
        body == Fmt(cm, m.c[2], 0, FALSE, FALSE, q)
    IN IF Len(m.c) = 1 THEN Out(Cat(sig), q)
       ELSE Out(Cat(sig \o <<HardLine, Words(<<"def", " ", m.v, " ", "=", " ">>), body.d>>), body.q)

\* Variants, trait methods or instance methods, one per line, with comments.
FormatMembers(cm, ms, prev, q) ==
    IF ms = <<>> THEN Out(Empty, q)
    ELSE LET m == ms[1]
             lead == DrainLeading(cm, m.s, q)
             body == CASE m.k = "variant" -> Out(FormatVariant(m), lead.q)
                       [] m.k = "method" -> FormatMethod(cm, m, lead.q)
                       [] OTHER -> FormatDefinition(cm, m, lead.q)
             tr   == TrailingComment(cm, m.e, body.q)
             rest == FormatMembers(cm, Tail(ms), m.e, tr.q)
             gap  == IF prev = 0 THEN <<>> ELSE BlankBefore(cm, m.s, prev, q)
         IN Out(Cat(<<HardLine>> \o gap \o <<lead.d, body.d, tr.d, rest.d>>), rest.q)

FormatBraced(cm, head, ms, q) ==
    LET b == FormatMembers(cm, ms, 0, q)
    IN Out(Cat(<<head, Words(<<" ", "{">>), b.d, HardLine, Text("}")>>), b.q)

\* The modifiers; dropping one would change what the definition means.
Modifiers(mods) ==
    (IF mods.v = "" THEN <<>> ELSE <<mods.v, " ">>) \o (IF mods.c = <<>> THEN <<>> ELSE <<"remote", " ">>)

FormatValueDefinition(cm, d, q) ==
    LET ty == IF Len(d.c) = 4 THEN <<Words(<<" ", "::", " ">>), FormatType(d.c[4])>> ELSE <<>>
        value == IF d.c[2].k = "fun" THEN FormatFun(cm, d.c[2], TRUE, q) ELSE Fmt(cm, d.c[2], 0, FALSE, FALSE, q)
    IN Out(Cat(<<Words(Modifiers(d.c[1]) \o <<"def", " ", d.v>>)>> \o ty
               \o <<FormatWhere(d.c[3].c), Words(<<" ", "=", " ">>), value.d>>), value.q)

FormatDefinition(cm, d, q) ==
    LET body == d.c[2]
        Opening(word) == Words(Modifiers(d.c[1]) \o <<word, " ", d.v>>)
        params == [k \in 1 .. Len(body.c[1].c) |-> Words(<<" ", body.c[1].c[k].v>>)]
    IN CASE d.k = "def" -> FormatValueDefinition(cm, d, q)
         [] d.k = "instance" ->
              FormatBraced(cm, Cat(<<Words(<<"implement", " ", d.v, " ">>), FormatType(d.c[1]),
                                     FormatWhere(d.c[2].c)>>), d.c[3].c, q)
         [] body.k = "enum" -> FormatBraced(cm, Cat(<<Opening("enum")>> \o params), Tail(body.c), q)
         [] body.k = "trait" -> FormatBraced(cm, Cat(<<Opening("trait"), Words(<<" ", body.c[1].v>>)>>), Tail(body.c), q)
         [] OTHER -> Out(Cat(<<Opening("alias"), Text(" "), FormatType(body)>>), q)

RECURSIVE FormatDefinitions(_, _, _, _)
FormatDefinitions(cm, ds, first, q) ==
    IF ds = <<>> THEN Out(Empty, q)
    ELSE LET lead == DrainLeading(cm, ds[1].s, q)
             body == FormatDefinition(cm, ds[1], lead.q)
             tr   == TrailingComment(cm, ds[1].e, body.q)
             rest == FormatDefinitions(cm, Tail(ds), FALSE, tr.q)
         IN Out(Cat((IF first THEN <<>> ELSE <<HardLine, HardLine>>) \o <<lead.d, body.d, tr.d, rest.d>>), rest.q)

\* Imports in their canonical order: the standard library's, packages', the
\* program's own; by length, then by name (here: by the order of SortNames).
CONSTANT SortNames      \* identifiers in alphabetical order

NameRank(v) == CHOOSE k \in 1 .. Len(SortNames) : SortNames[k] = v

GroupRank(u) == CASE u.c[1].v = "std" -> 0 [] u.c[1].v = "pkg" -> 1 [] OTHER -> 2

UseBefore(a, b) ==
    LET n == Len(a.c)
    IN \/ GroupRank(a) < GroupRank(b)
       \/ GroupRank(a) = GroupRank(b) /\ n < Len(b.c)
       \/ /\ GroupRank(a) = GroupRank(b) /\ n = Len(b.c)
          /\ \E k \in 1 .. n : /\ NameRank(a.c[k].v) < NameRank(b.c[k].v)
                             /\ \A j \in 1 .. k - 1 : a.c[j].v = b.c[j].v

RECURSIVE FormatUses(_, _, _, _)
FormatUses(cm, us, first, q) ==
    IF us = <<>> THEN Out(Empty, q)
    ELSE LET u == us[1]
             path == Join(<<Text("/")>>, [k \in 1 .. Len(u.c) |-> Text(u.c[k].v)])
             alias == IF u.v = "" THEN Empty ELSE Words(<<" ", "as", " ", u.v>>)
             tr == TrailingComment(cm, u.e, q)
             rest == FormatUses(cm, Tail(us), FALSE, tr.q)
         IN Out(Cat((IF first THEN <<>> ELSE <<HardLine>>)
                    \o <<Words(<<"use", " ">>)>> \o path \o <<alias, tr.d, rest.d>>), rest.q)

RECURSIVE InsertUse(_, _), SortUses(_)
InsertUse(u, us) == IF us = <<>> \/ UseBefore(u, us[1]) THEN <<u>> \o us ELSE <<us[1]>> \o InsertUse(u, Tail(us))

\* A stable sort: a later import goes behind the equal ones before it.
SortUses(us) == IF us = <<>> THEN <<>> ELSE InsertUse(us[Len(us)], SortUses(SubSeq(us, 1, Len(us) - 1)))

FormatModule(m, cm) ==
    LET start == IF m.uses # <<>> THEN m.uses[1].s ELSE IF m.defs # <<>> THEN m.defs[1].s ELSE EndOfFile
        lead  == DrainLeading(cm, start, {})
        uses  == FormatUses(cm, SortUses(m.uses), TRUE, lead.q)
        gap   == IF m.uses # <<>> /\ m.defs # <<>> THEN <<HardLine, HardLine>> ELSE <<>>
        defs  == FormatDefinitions(cm, m.defs, TRUE, uses.q)
        left  == DrainLeading(cm, EndOfFile, defs.q)
        tail  == IF DOMAIN cm \subseteq defs.q THEN <<>> ELSE <<HardLine, HardLine, left.d>>
    IN Cat(<<lead.d, uses.d>> \o gap \o <<defs.d>> \o tail)

\* format_source_with_width: the module's text, which ends with a line break.
FormatText(text, m, width) ==
    LET out == Render(<<Entry(FormatModule(m, CommentsOf(text)), FALSE)>>, 0, <<>>, width)
    IN IF out # <<>> /\ out[Len(out)] = "nl" THEN out ELSE Append(out, "nl")
=============================================================================

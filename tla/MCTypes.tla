------------------------------ MODULE MCTypes ------------------------------
(***************************************************************************)
(* Systems of two equations over type, record row and tuple row variables, *)
(* and programs that make a value, bind it by let or through a definition, *)
(* and use it, well typed or not.                                          *)
(***************************************************************************)
EXTENDS Typing, Infer, Running

MCEnums ==
  [option |-> [params |-> <<901>>, variants |-> <<<<"some", <<Var(901)>>>>, <<"none", <<>>>>>>],
   result |-> [params |-> <<902, 903>>, variants |-> <<<<"ok", <<Var(902)>>>>, <<"err", <<Var(903)>>>>>>],
   color  |-> [params |-> <<>>, variants |-> <<<<"red", <<>>>>, <<"green", <<>>>>, <<"pair", <<Bool, Bool>>>>>>]]

MCImports ==
  LET a == Var(911)
      b == Var(912)
      r == Con("ref", <<a>>)
  IN  [ref  |-> [new |-> FunOf(<<a>>, r), get |-> FunOf(<<r>>, a), set |-> FunOf(<<r, a>>, Nothing)],
       task |-> [done |-> FunOf(<<a>>, Task(a, b)), fail |-> FunOf(<<b>>, Task(a, b))]]

-----------------------------------------------------------------------------
(* Equations *)

Problem(eqs, n, vs, tuples) == [kind |-> "equations", eqs |-> eqs, n |-> n, vars |-> vs, tuples |-> tuples]
Pairs(terms) == {<<"eq", a, b>> : a \in terms, b \in terms} \ {<<"eq", a, a>> : a \in terms}
Systems(terms, n, vs, tuples) == {Problem(<<p, q>>, n, vs, tuples) : p \in Pairs(terms), q \in Pairs(terms)}

Plain  == {Var(1), Var(2), IntTy, Con("list", <<Var(1)>>), FunOf(<<Var(2)>>, Var(1))}
\* 1 and 2 are types, 3 and 4 rows, each the rest of one set of fields.
Rows   == {Record(<<"a">>, <<Var(1)>>, 3), Record(<<"b">>, <<Var(2)>>, 4), Record(<<"b">>, <<IntTy>>, 4),
           Record(<<"a", "b">>, <<IntTy, Var(2)>>, 0), Record(<<"c", "b", "a">>, <<Text, Var(1), Var(2)>>, 0), Var(2)}
Places == {Partial(<<0>>, <<Var(1)>>, 3), Partial(<<1>>, <<Var(2)>>, 4), Partial(<<1>>, <<IntTy>>, 4),
           Con("tuple", <<IntTy, Var(2)>>), Con("tuple", <<Var(1), Var(2), Text>>), Var(2)}

GroundTypes == {IntTy, Text, Con("list", <<IntTy>>), FunOf(<<IntTy>>, Text)}
Labelled(ls, ty) == LET o == SetToSeq(ls) IN Row(o, [i \in DOMAIN o |-> ty], 0)
GroundRows(tuples) ==
  LET ls == IF tuples THEN 0..2 ELSE {"a", "b", "c"}
  IN  {Labelled(S, IntTy) : S \in SUBSET ls} \cup {Labelled({l}, Text) : l \in ls}
MCGrounds(s, vs, rs) ==
  {[types |-> t, rows |-> r] : t \in [vs -> GroundTypes], r \in [rs -> GroundRows(s.tuples)]}

Equations == Systems(Plain, 3, {1, 2}, FALSE) \cup Systems(Rows, 5, {1, 2}, FALSE) \cup Systems(Places, 5, {1, 2}, TRUE)

-----------------------------------------------------------------------------
(* Programs *)

Num(n)     == <<"lit", <<"int", n>>>>
Str        == <<"lit", <<"string", "s">>>>
Flag(b)    == <<"lit", <<"bool", b>>>>
NoArg      == <<"lit", Unit>>
Id(x)      == <<"id", x>>
Do(f, as)  == <<"call", f, as>>
Fn(ps, b)  == <<"fun", ps, b>>
LetIn(x, e) == <<"let", <<"name", x>>, e>>
Dot(m, x)  == <<"field", Id(m), x>>
Plus(a, b) == <<"bin", "add", a, b>>
Cat(a, b)  == <<"bin", "concat", a, b>>
Name(x)    == <<"name", x>>
PCon(v, ps) == <<"con", "", v, ps>>
QCon(v, ps) == <<"con", "color", v, ps>>
PBool(b)   == <<"lit", <<"bool", b>>>>
When(e, cs2) == <<"when", e, cs2>>
Try(x, e, rest) == <<"try", Name(x), e, rest>>
Else(a, b) == <<"bin", "else", a, b>>
Tuple2(a, b) == <<"tuple", <<a, b>>>>
Some(e)    == Do(Id("some"), <<e>>)

Makers ==
  {Num(1), Str, Flag(TRUE), Tuple2(Num(1), Str), <<"record", <<"a", "b">>, <<Num(1), Str>>>>, <<"record", <<"a">>, <<Str>>>>,
   <<"list", <<"elem">>, <<Num(1)>>>>, <<"list", <<>>, <<>>>>, Fn(<<"y">>, <<Id("y")>>), Fn(<<"y">>, <<<<"field", Id("y"), "a">>>>),
   Id("same"), Id("twice"), Id("first"), Some(Num(1)), Some(Str), Id("none"), Do(Id("ok"), <<Num(1)>>), Do(Id("err"), <<Str>>),
   Do(Dot("ref", "new"), <<Id("none")>>), Do(Dot("ref", "new"), <<Num(1)>>), Do(Dot("task", "done"), <<Num(1)>>),
   Do(Dot("task", "fail"), <<Str>>), Dot("color", "red"), Do(Dot("color", "pair"), <<Flag(TRUE), Flag(FALSE)>>), Some(Flag(FALSE))}

Uses ==
  {<<Plus(Id("x"), Num(1))>>, <<Cat(Id("x"), Str)>>, <<Plus(<<"field", Id("x"), "a">>, Num(1))>>,
   <<Cat(<<"elem", Id("x"), 1>>, Str)>>, <<Plus(<<"elem", Id("x"), 0>>, Num(1))>>,
   <<Tuple2(Plus(Do(Id("x"), <<Num(1)>>), Num(1)), Cat(Do(Id("x"), <<Str>>), Str))>>,
   <<Do(Id("x"), <<<<"record", <<"a", "c">>, <<Num(1), Str>>>>>>)>>,
   <<Do(Id("x"), <<Fn(<<"z">>, <<Plus(Id("z"), Num(1))>>), Num(2)>>)>>,
   <<LetIn("w", Do(Id("first"), <<Id("x")>>)), Cat(Id("w"), Str)>>,
   <<<<"field", <<"update", Id("x"), <<"a">>, <<Num(2)>>>>, "a">>>>,
   <<Do(Dot("ref", "set"), <<Id("x"), Some(Str)>>),
     When(Do(Dot("ref", "get"), <<Id("x")>>), <<<<PCon("some", <<Name("q")>>), <<Plus(Id("q"), Num(1))>>>>, <<Name("none"), <<Num(0)>>>>>>)>>,
   <<Do(Dot("ref", "set"), <<Id("x"), Num(3)>>), Plus(Do(Dot("ref", "get"), <<Id("x")>>), Num(1))>>,
   <<When(Id("x"), <<<<PCon("some", <<Name("q")>>), <<Plus(Id("q"), Num(1))>>>>, <<Name("none"), <<Num(0)>>>>>>)>>,
   <<When(Id("x"), <<<<PCon("some", <<PBool(TRUE)>>), <<Num(1)>>>>, <<Name("none"), <<Num(0)>>>>>>)>>,
   <<When(Id("x"), <<<<PCon("some", <<PBool(TRUE)>>), <<Num(1)>>>>, <<PCon("some", <<PBool(FALSE)>>), <<Num(2)>>>>, <<Name("none"), <<Num(0)>>>>>>)>>,
   <<When(Id("x"), <<<<PCon("ok", <<Name("q")>>), <<Plus(Id("q"), Num(1))>>>>, <<PCon("err", <<Name("q")>>), <<Num(0)>>>>>>)>>,
   <<When(Id("x"), <<<<QCon("pair", <<PBool(FALSE), <<"_">>>>), <<Num(1)>>>>, <<QCon("red", <<>>), <<Num(2)>>>>, <<QCon("green", <<>>), <<Num(3)>>>>>>)>>,
   <<When(Id("x"), <<<<QCon("pair", <<PBool(FALSE), PBool(FALSE)>>), <<Num(1)>>>>, <<QCon("pair", <<PBool(TRUE), PBool(TRUE)>>), <<Num(1)>>>>, <<QCon("red", <<>>), <<Num(2)>>>>, <<QCon("green", <<>>), <<Num(3)>>>>>>)>>,
   <<When(Id("x"), <<<<QCon("pair", <<<<"_">>, Name("q")>>), <<Num(1)>>>>, <<Name("red"), <<Num(2)>>>>>>)>>,
   <<When(Id("x"), <<<<<<"list", <<>>, "">>, <<Num(0)>>>>, <<<<"list", <<Name("h")>>, "t">>, <<Plus(Id("h"), Num(1))>>>>>>)>>,
   <<When(Id("x"), <<<<<<"record", <<"a">>, <<Name("q")>>, "r">>, <<Plus(Id("q"), Num(1))>>>>>>)>>,
   <<<<"let", <<"record", <<"b">>, <<Name("q")>>, "r">>, Id("x")>>, Cat(Id("q"), Str), <<"field", Id("r"), "a">>>>,
   <<<<"let", <<"tuple", <<Name("p"), Name("q")>>>>, Id("x")>>, Plus(Id("p"), Num(1))>>,
   <<<<"list", <<"elem", "spread">>, <<Num(1), Id("x")>>>>>>,
   <<Plus(Else(Id("x"), Num(0)), Num(1))>>,
   <<LetIn("w", Do(Fn(<<>>, <<Try("q", Id("x"), <<Some(Plus(Id("q"), Num(1)))>>)>>), <<NoArg>>)), Plus(Else(Id("w"), Num(0)), Num(1))>>,
   <<<<"while", <<"bin", "lt", Num(2), Num(1)>>, PBool(TRUE), <<Try("q", Id("x"), <<Cat(Id("q"), Str)>>)>>>>, Do(Dot("task", "done"), <<Num(1)>>)>>,
   <<<<"scope", <<Try("q", Id("x"), <<Do(Dot("task", "done"), <<Plus(Id("q"), Num(1))>>)>>)>>>>>>,
   <<<<"interp", <<Id("x"), Str>>>>>>,
   <<<<"if", Id("x"), PBool(TRUE), <<Num(1)>>, <<<<Num(2)>>>>>>>>,
   <<<<"chain", Id("x"), Do(Id("twice"), <<Num(2)>>)>>>>,
   <<<<"bin", "eq", Id("x"), Id("same")>>>>, <<<<"bin", "lt", Id("x"), Num(2)>>>>}

Library ==
  <<<<"same", Fn(<<"v">>, <<Id("v")>>)>>,
    <<"twice", Fn(<<"f", "v">>, <<Do(Id("f"), <<Do(Id("f"), <<Id("v")>>)>>)>>)>>,
    <<"first", Fn(<<"p">>, <<<<"elem", Id("p"), 0>>>>)>>>>

Module(defs) == [kind |-> "module", defs |-> Library \o defs]
ByLet(e, use) == Module(<<<<"main", Fn(<<>>, <<LetIn("x", e)>> \o use)>>>>)
ByDef(e, use) == Module(<<<<"main", Fn(<<>>, <<LetIn("x", Do(Id("make"), <<NoArg>>))>> \o use)>>, <<"make", Fn(<<>>, <<e>>)>>>>)

\* Two carriers, one behind the other, and what is made of what they hold.
Carriers == {Some(Num(1)), Id("none"), Do(Id("ok"), <<Num(1)>>), Do(Id("err"), <<Str>>),
             Do(Dot("task", "done"), <<Num(1)>>), Do(Dot("task", "fail"), <<Str>>)}
Wraps == {Id("some"), Id("ok"), Dot("task", "done")}
Undetermined(a, wrap) ==
  Module(<<<<"bump", Fn(<<"v">>, <<Try("p", Id("v"), <<Do(wrap, <<Plus(Id("p"), Num(1))>>)>>)>>)>>,
           <<"main", Fn(<<>>, <<Do(Id("bump"), <<a>>)>>)>>>>)
Tried(a, b, wrap) ==
  Module(<<<<"main", Fn(<<>>, <<Try("p", a, <<Try("q", b, <<Do(wrap, <<Plus(Id("p"), Id("q"))>>)>>)>>)>>)>>>>)

\* One definition over an open record or tuple, at two types.
Bodies == {<<"field", Id("p"), "a">>, <<"update", Id("p"), <<"a">>, <<Num(2)>>>>, <<"elem", Id("p"), 0>>, Some(Id("p")),
           Tuple2(<<"field", Id("p"), "a">>, <<"field", Id("p"), "b">>), Do(Id("twice"), <<Id("same"), Id("p")>>)}
Shapes == {<<"record", <<"a">>, <<Num(1)>>>>, <<"record", <<"b", "a">>, <<Num(1), Str>>>>, Tuple2(Str, Num(1)), Str}
Results == {Cat(Id("x"), Str), Plus(<<"field", Id("x"), "a">>, Num(1)), Cat(<<"elem", Id("x"), 0>>, Str)}
Twofold(body, e1, e2, use) ==
  Module(<<<<"f", Fn(<<"p">>, <<body>>)>>, <<"main", Fn(<<>>, <<LetIn("r", Do(Id("f"), <<e1>>)), LetIn("x", Do(Id("f"), <<e2>>)), use>>)>>>>)

Programs ==
  UNION {{ByLet(e, u) : e \in Makers, u \in Uses}, {ByDef(e, u) : e \in Makers, u \in Uses},
         {Tried(a, b, w) : a \in Carriers, b \in Carriers, w \in Wraps},
         {Undetermined(Some(Num(1)), w) : w \in Wraps},
         {Twofold(b, e1, e2, u) : b \in Bodies, e1 \in Shapes, e2 \in Shapes, u \in Results}}

MCSources == Equations \cup Programs

\* A closure that gives back the parameter of the function around it.
Captured ==
  {Module(<<<<"g", Fn(<<"x">>, <<LetIn("f", Fn(<<>>, <<Id("x")>>)), Plus(Do(Id("f"), <<NoArg>>), Num(1))>>)>>,
            <<"main", Fn(<<>>, <<Do(Id("g"), <<e>>)>>)>>>>) : e \in {Num(1), Str}}
=============================================================================

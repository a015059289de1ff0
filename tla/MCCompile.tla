----------------------------- MODULE MCCompile -----------------------------
(***************************************************************************)
(* Three families of programs, as the analyzer hands them to lowering:     *)
(* loops that carry dictionaries and lists, functions over unboxed values  *)
(* and dispatch, and functions that await and clean up.                    *)
(***************************************************************************)
EXTENDS Compile, Lower, Source

N(n)            == <<"lit", <<"int", n>>>>
Id(x)           == <<"id", x>>
Do(f, args)     == <<"call", Id(f), <<>>, args>>
LetIn(x, e)     == <<"let", <<"name", x>>, e>>
Bin(op, l, r)   == <<"bin", op, l, r>>
True            == <<"lit", <<"bool", TRUE>>>>
IfElse(c, t, e) == <<"if", c, True, t, <<e>>>>
Insert(d, k)    == <<"call", Id("insert"), <<<<"inst", "hash">>>>, <<d, k, N(5)>>>>
List(ks, es)    == <<"list", ks, es>>
AppendTo(l, e)  == List(<<"spread", "elem">>, <<Id(l), e>>)
Show(e)         == Do("print", <<e>>)
B(x)            == <<x, "Boxed">>
I(x)            == <<x, "I64">>
Def(x, e)       == <<x, "value", <<>>, e>>
Fun(ps, r, b)   == <<"fun", ps, r, b>>
Main(b)         == Def("main", Fun(<<B("_")>>, "Boxed", b))

Builtins ==
  <<<<"insert", "builtin", "dict-insert", "Boxed">>, <<"size", "builtin", "dict-size", "I64">>,
    <<"empty", "builtin", "dict-empty", "Boxed">>, <<"print", "builtin", "print", "Boxed">>,
    <<"ok", "builtin", "task-ok", "Boxed">>, <<"fail", "builtin", "task-fail", "Boxed">>,
    <<"ref", "builtin", "ref-new", "Boxed">>, <<"get", "builtin", "ref-get", "Boxed">>,
    <<"set", "builtin", "ref-set", "Boxed">>, <<"hash", "instance", <<>>, <<>>>>,
    Def("shared", List(<<"elem">>, <<N(7)>>))>>

-----------------------------------------------------------------------------
(* f d e l n, a tail recursion over two dictionaries and a list. *)

DictSteps ==
  {<<LetIn("d2", Insert(Id("d"), Id("n")))>>,
   <<LetIn("d2", Insert(Id("d"), Id("n"))), Show(Do("size", <<Id("d")>>))>>,
   <<LetIn("d1", Insert(Id("d"), Id("n"))), LetIn("d2", Insert(Id("d1"), N(9)))>>,
   <<LetIn("a", Id("d")), LetIn("d2", Insert(Id("d"), Id("n"))), Show(Do("size", <<Id("a")>>))>>,
   <<Show(Do("size", <<Id("d")>>)), LetIn("d2", Insert(Id("d"), Id("n")))>>,
   <<LetIn("d2", IfElse(Bin("gt", Id("n"), N(1)), <<Insert(Id("d"), Id("n"))>>, <<Id("d")>>))>>,
   <<LetIn("d2", Insert(Id("d"), Id("n"))), LetIn("d3", Insert(Id("d"), N(9))), Show(Do("size", <<Id("d3")>>))>>,
   <<LetIn("p", <<"tuple", <<Id("d"), Id("n")>>>>), <<"let", <<"tup", <<<<"name", "q">>, <<"_">>>>>>, Id("p")>>,
     LetIn("d2", Insert(Id("d"), Id("n"))), Show(Do("size", <<Id("q")>>))>>}
ListSteps ==
  {<<LetIn("l2", AppendTo("l", Id("n")))>>,
   <<LetIn("l2", AppendTo("l", Id("n"))), Show(Id("l"))>>,
   <<LetIn("l2", List(<<"elem", "spread">>, <<Id("n"), Id("l")>>))>>,
   <<LetIn("l2", List(<<"spread", "elem">>, <<Id("l"), Id("l")>>))>>,
   <<LetIn("l2", IfElse(Bin("gt", Id("n"), N(1)), <<Id("shared")>>, <<AppendTo("l", Id("n"))>>))>>,
   <<LetIn("h", Fun(<<B("_")>>, "Boxed", <<Id("l")>>)), LetIn("l2", AppendTo("l", Id("n"))),
     Show(<<"call", Id("h"), <<>>, <<<<"lit", <<"unit">>>>>>>>)>>,
   <<LetIn("l2", List(<<"spread", "elem", "elem">>, <<Id("l"), Id("n"), Bin("mul", Id("n"), N(2))>>))>>,
   <<LetIn("l1", AppendTo("l", Id("n"))), LetIn("l2", AppendTo("l1", N(0)))>>,
   <<LetIn("l2", Id("l"))>>}
Carries == {<<"d2", "e">>, <<"d2", "d">>, <<"e", "d2">>, <<"d2", "d2">>}

LoopProgram(ds, ls, carry, from, out) ==
  Builtins \o
  <<Def("f", Fun(<<B("d"), B("e"), B("l"), I("n")>>, "Boxed",
       <<IfElse(Bin("le", Id("n"), N(0)), <<Id(out)>>,
                ds \o ls \o <<Do("f", <<Id(carry[1]), Id(carry[2]), Id("l2"), Bin("sub", Id("n"), N(1))>>)>>)>>)),
    Main(<<LetIn("e", Do("empty", <<>>)), LetIn("k", List(<<"elem">>, <<N(7)>>)),
           LetIn("r", Do("f", <<Id("e"), Id("e"), Id(from), N(2)>>)),
           Show(Id(from)), Show(Id("shared")), Show(Do("size", <<Id("e")>>)), Id("r")>>)>>

Loops == {LoopProgram(ds, ls, c, "k", "d") : ds \in DictSteps, ls \in ListSteps, c \in Carries}
         \cup {LoopProgram(ds, ls, c, from, "l") : ds \in DictSteps, ls \in ListSteps, c \in {<<"d2", "e">>, <<"e", "d2">>}, from \in {"k", "shared"}}

-----------------------------------------------------------------------------
(* h : int int -> int, called directly, as a value, or both. *)

A == Id("a")
C == Id("b")
HBodies ==
  {Bin("add", A, C),
   IfElse(Bin("lt", A, C), <<Bin("add", A, C)>>, <<Do("id", <<C>>)>>),
   IfElse(Bin("le", A, N(0)), <<C>>, <<Do("h", <<Bin("sub", A, N(1)), Bin("add", C, A)>>)>>),
   IfElse(Bin("le", A, N(0)), <<C>>, <<Do("h", <<Do("id", <<Bin("sub", A, N(1))>>), A>>)>>),
   IfElse(Bin("le", A, N(0)), <<C>>, <<Bin("add", N(1), Do("h", <<Bin("sub", A, N(1)), Do("id", <<A>>)>>))>>),
   IfElse(<<"and", Do("p", <<A>>), Bin("lt", C, N(4))>>, <<Do("id", <<A>>)>>, <<Bin("mul", A, C)>>),
   IfElse(<<"or", Do("p", <<A>>), Bin("eq", A, C)>>, <<A>>, <<Do("id", <<C>>)>>),
   Do("id", <<A>>)}
HLambda == <<LetIn("c", Fun(<<I("x")>>, "I64", <<Bin("add", Id("x"), A)>>)), <<"call", Id("c"), <<>>, <<C>>>>>>
PBodies == {Bin("lt", A, N(2)), <<"not", Bin("ge", A, N(2))>>, Do("id", <<Bin("lt", A, N(2))>>)}
Uses ==
  {Do("h", <<N(2), N(3)>>),
   Do("ap", <<Id("h"), N(3), N(2)>>),
   <<"tuple", <<Do("h", <<N(2), N(3)>>), Do("ap", <<Id("h"), N(1), N(3)>>)>>>>,
   <<"call", Id("same"), <<<<"chain", "eqpair", <<"inst", "eqint">>>>>>,
     <<<<"tuple", <<N(1), Do("h", <<N(2), N(3)>>)>>>>, <<"tuple", <<N(1), N(5)>>>>>>>>,
   Bin("eq", <<"tuple", <<Do("h", <<N(3), N(1)>>)>>>>, <<"tuple", <<Do("id", <<N(4)>>)>>>>),
   <<"pipe", N(2), Id("h"), <<>>, <<N(1)>>>>,
   <<"using", <<LetIn("z", Do("h", <<N(1), N(1)>>)), <<"call", <<"value", "size", 1>>, <<>>, <<Insert(Do("empty", <<>>), Id("z"))>>>>>>>>,
   <<"when", Do("p", <<Do("h", <<N(0), N(1)>>)>>), <<<<<<"lit", <<"bool", FALSE>>>>, <<N(10)>>>>, <<True, <<Do("h", <<N(1), N(2)>>)>>>>>>>>,
   <<"when", <<"call", <<"ctor", "pair", 2>>, <<>>, <<Do("h", <<N(2), N(1)>>), <<"ctor", "none", 0>>>>>>,
     <<<<<<"con", "pair", <<<<"lit", <<"int", 4>>>>, <<"con", "none", <<>>>>>>>>, <<N(1)>>>>,
       <<<<"con", "pair", <<<<"name", "q">>, <<"_">>>>>>, <<Bin("add", Id("q"), N(1))>>>>, <<<<"_">>, <<N(0)>>>>>>>>}

IntProgram(h, p, use) ==
  Builtins \o
  <<Def("id", Fun(<<B("x")>>, "Boxed", <<Id("x")>>)),
    Def("p", Fun(<<I("a")>>, "I32", <<p>>)),
    Def("h", Fun(<<I("a"), I("b")>>, "I64", h)),
    Def("ap", Fun(<<B("g"), B("x"), B("y")>>, "Boxed", <<<<"call", Id("g"), <<>>, <<Id("x"), Id("y")>>>>>>)),
    <<"eqint", "instance", <<>>, <<Fun(<<I("x"), I("y")>>, "I32", <<Bin("eqi", Id("x"), Id("y"))>>)>>>>,
    <<"eqpair", "instance", <<"el">>,
      <<Fun(<<B("x"), B("y")>>, "I32",
            <<<<"and", <<"call", <<"method", <<"fwd", "el">>, 1>>, <<>>, <<<<"elem", Id("x"), 1>>, <<"elem", Id("y"), 1>>>>>>,
                       <<"call", <<"method", <<"fwd", "el">>, 1>>, <<>>, <<<<"elem", Id("x"), 2>>, <<"elem", Id("y"), 2>>>>>>>>>>)>>>>,
    <<"same", "value", <<"eqd">>, Fun(<<B("x"), B("y")>>, "Boxed",
       <<<<"call", <<"method", <<"fwd", "eqd">>, 1>>, <<>>, <<Id("x"), Id("y")>>>>>>)>>,
    Main(<<LetIn("r", use), Show(Id("r")), Id("r")>>)>>

Ints == {IntProgram(<<h>>, p, use) : h \in HBodies, p \in PBodies, use \in Uses}
        \cup {IntProgram(HLambda, Bin("lt", A, N(2)), use) : use \in Uses}

-----------------------------------------------------------------------------
(* g n, a function that awaits, with cleanups and branches around it. *)

Defer(n)       == <<"defer", Show(N(n))>>
Try(x, t, r)   == <<"try", x, t, r>>
Ok(e)          == Do("ok", <<e>>)
Fail           == Do("fail", <<N(8)>>)
Less(n)        == Bin("lt", Id("n"), N(n))
Cleanups == {<<>>, <<Defer(1)>>, <<Defer(1), Defer(2)>>}
Awaited  == {Ok(Bin("add", Id("n"), N(1))), Fail}
\* What binds y, awaiting t somewhere on the way.
Middles(t) ==
  {<<Try("y", t, <<>>)>>,
   <<LetIn("y", IfElse(Less(2), <<Try("x", t, <<Bin("add", Id("x"), N(1))>>)>>, <<N(4)>>))>>,
   <<LetIn("y", IfElse(Less(2), <<N(4)>>, <<Defer(3), Try("x", t, <<Id("x")>>)>>))>>,
   <<LetIn("y", <<"when", <<"call", <<"ctor", "some", 1>>, <<>>, <<Bin("add", Id("n"), N(5))>>>>,
        <<<<<<"con", "some", <<<<"name", "n">>>>>>, <<Try("x", t, <<Bin("add", Id("x"), Id("n"))>>)>>>>,
          <<<<"_">>, <<N(0)>>>>>>>>)>>,
   <<LetIn("c", Do("ref", <<N(0)>>)),
     <<"while", Bin("lt", Do("get", <<Id("c")>>), N(2)), True,
       <<Try("x", t, <<Do("set", <<Id("c"), Bin("add", Do("get", <<Id("c")>>), Id("x"))>>), Defer(4)>>)>>>>,
     LetIn("y", Do("get", <<Id("c")>>))>>}
\* The rest, which reads what was bound before and after the await.
Rest == {<<Show(Id("y")), Ok(Bin("add", Id("y"), Id("n")))>>,
         <<Try("w", Ok(Id("y")), <<Show(Bin("add", Id("w"), Id("n"))), Ok(Id("w"))>>)>>,
         <<IfElse(Bin("le", Id("n"), N(2)), <<Do("g", <<Bin("add", Id("n"), N(2))>>)>>, <<Ok(Id("y"))>>)>>}

Sequel(b, r) == IF b[1][1] = "try" THEN <<Try(b[1][2], b[1][3], r)>> ELSE b \o r
AsyncProgram(cleanups, middle, rest, n) ==
  Builtins \o
  <<Def("g", Fun(<<I("n")>>, "Boxed", cleanups \o Sequel(middle, rest))),
    Main(<<Defer(6), Try("v", Do("g", <<N(n)>>), <<Show(Id("v")), Ok(Id("v"))>>)>>)>>

\* g, awaiting inside one branch of a two-armed match and two loops deep.
NestedProgram(t, n) ==
  Builtins \o
  <<Def("g", Fun(<<I("n")>>, "Boxed",
       <<LetIn("c", Do("ref", <<N(0)>>)),
         <<"while", Bin("lt", Do("get", <<Id("c")>>), N(2)), True,
           <<LetIn("k", Do("get", <<Id("c")>>)), Defer(3),
             <<"if", Bin("lt", Id("k"), N(1)), True, <<Try("x", t, <<Show(Bin("add", Id("x"), Id("k")))>>)>>, <<>>>>,
             <<"when", Bin("eqi", Id("k"), N(1)),
               <<<<True, <<Try("x", Ok(Id("k")), <<Show(Bin("add", Id("x"), Id("n")))>>)>>>>, <<<<"_">>, <<>>>>>>>>,
             Do("set", <<Id("c"), Bin("add", Id("k"), N(1))>>)>>>>,
         Ok(Id("n"))>>)),
    Main(<<Try("v", Do("g", <<N(n)>>), <<Show(Id("v")), Ok(Id("v"))>>)>>)>>

Asyncs == {NestedProgram(t, n) : t \in Awaited, n \in {1, 2}} \cup UNION {{AsyncProgram(c, m, r, n) : c \in Cleanups, m \in Middles(t), r \in Rest, n \in {1, 2}} : t \in Awaited}

\* A function that awaits and, where it does not, matches without an else.
Unmatched ==
  {Builtins \o
   <<Def("g", Fun(<<I("n")>>, "Boxed",
        <<Try("x", Ok(Id("n")),
           <<<<"if", <<"ctor", "none", 0>>, <<"con", "some", <<<<"_">>>>>>, <<Show(N(1))>>, <<>>>>, Ok(Id("x"))>>)>>)),
     Main(<<Try("v", Do("g", <<N(1)>>), <<Ok(Id("v"))>>)>>)>>}

MCPrograms == Loops \cup Ints \cup Asyncs
=============================================================================

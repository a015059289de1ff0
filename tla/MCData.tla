------------------------------- MODULE MCData -------------------------------
EXTENDS Data

CONSTANTS k1, k2, k3, k4

----------------------------------------------------------------------------
(* Dictionaries: k1 and k2 collide in every bit, k3 with them in the first *)
(* chunk.                                                                  *)

MCHashOf == [k \in Keys |-> CASE k = k1 -> 0 [] k = k2 -> 0 [] k = k3 -> 4 [] k = k4 -> 1]

MCRegOrder == SetToSeq(Regs)

MCPairs == {<<>>, <<<<k1, 1>>, <<k2, 1>>>>} \cup {<<<<k3, 1>>, <<k1, 1>>, <<k3, v>>>> : v \in Vals}

MCDictPlans ==
    {[ops |-> {"insert", "remove", "clear", "copy"}, regs |-> {"a", "b"}, keys |-> {k1, k2, k3}, vals |-> {1}],
     [ops |-> {"insert", "remove"}, regs |-> {"a"}, keys |-> Keys, vals |-> {1, 2}],
     [ops |-> {"insert", "loop"}, regs |-> {"a", "b"}, keys |-> {k1, k2, k3}, vals |-> {1}],
     [ops |-> {"insert", "loop", "build"}, regs |-> {"a", "b"}, keys |-> {k1, k3}, vals |-> {1, 2}],
     [ops |-> {"update", "remove", "build"}, regs |-> {"a"}, keys |-> {k1, k2, k3}, vals |-> {1, 2}]}

----------------------------------------------------------------------------
(* Lists: a program that clones does not also set, see SpreadThenSet *)

MCListPlans ==
    {{"push", "clone", "join"},
     {"push", "pop", "set", "tail", "alias"},
     {"push", "build"}}

SpreadThenSet == {{"push", "clone", "set"}}

----------------------------------------------------------------------------
(* Remote calls *)

TInt == <<"int">>
TStr == <<"str">>
Option(t) == <<"enum", "option", <<t>>>>
Tree(t) == <<"enum", "tree", <<t>>>>
Point == <<"record", <<<<"x", <<"float">>>>, <<"y", TInt>>>>>>

MCShapes == [p |-> <<[name |-> "x", repr |-> "F64"], [name |-> "y", repr |-> "Boxed"]>>]

MCEnums ==
    [option |-> <<<<"some", <<<<"param", 1>>>>>>, <<"none", <<>>>>>>,
     tree |-> <<<<"leaf", <<>>>>,
                <<"node", <<<<"enum", "tree", <<<<"param", 1>>>>>>, <<"param", 1>>, <<"bool">>>>>>>>,
     hidden |-> <<>>]

Sig(ps, r) == [kind |-> "unary", params |-> ps, result |-> r]

MCSignatures ==
    {Sig(<<TInt>>, TStr), [Sig(<<TInt>>, TStr) EXCEPT !.kind = "stream"],
     Sig(<<>>, <<"nothing">>), Sig(<<Option(TInt)>>, TInt), Sig(<<Option(TStr)>>, TInt),
     Sig(<<Point, <<"list", TInt>>>>, <<"bool">>), Sig(<<Point>>, Point),
     Sig(<<Option(Tree(<<"bool">>))>>, <<"float">>),
     Sig(<<<<"tuple", <<TInt, <<"bool">>, <<"duration">>, <<"bytes">>>>>>>>, TInt),
     Sig(<<<<"dict", <<"float">>, TInt>>>>, <<"list", TStr>>),
     Sig(<<<<"enum", "hidden", <<>>>>>>, TInt)}

\* two builds that differ inside a nested generic, see wire_nested
NestedOptions == {Sig(<<Option(Option(t))>>, TInt) : t \in {TInt, TStr}}

MCSmall == -4 .. 3
MCInts == {-16, 0, 15}
MCBytes == {<<>>, <<0, 7>>}
=============================================================================

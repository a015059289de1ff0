------------------------------- MODULE Infer -------------------------------
(***************************************************************************)
(* The constraints a module gives rise to (constrain and constrain_expr of *)
(* analyzer.rs), and the instances and schemes they are solved with.       *)
(*                                                                         *)
(* The state S of the walk is [n, cs, env, ty, tys, tries, whens, ok]: the *)
(* next free number, the constraints, the schemes of the names in scope,   *)
(* the type of the expression just walked (of each, for several), the try  *)
(* and ?? expressions met, innermost first, the when expressions, and      *)
(* whether there was no error.  A constraint is <<"eq", a, b>>,            *)
(* <<"gen", scheme, type>>, <<"inst", scheme, type>> or                    *)
(* <<"class", trait, type>>; a scheme is <<"mono", type>> or               *)
(* <<"var", number>>, solved where its gen is.                             *)
(***************************************************************************)
EXTENDS Matching

CONSTANT Imports   \* the exported values of the imported modules: module -> name -> type

Nothing == Con("nothing", <<>>)
Bool    == Con("bool", <<>>)
IntTy   == Con("int", <<>>)
Text    == Con("string", <<>>)
Unknown == Con("unknown", <<>>)
Task(a, e) == Con("task", <<a, e>>)

Begin == [n |-> 1, cs |-> <<>>, env |-> <<>>, ty |-> Nothing, tys |-> <<>>, tries |-> <<>>, whens |-> <<>>, ok |-> TRUE]

New(S, k)         == Var(S.n + k)
Mint(S, k)        == [S EXCEPT !.n = @ + k]
Typed(S, ty)      == [S EXCEPT !.ty = ty]
Eq(S, a, b)       == [S EXCEPT !.cs = Append(@, <<"eq", a, b>>)]
Class(S, t, ty)   == [S EXCEPT !.cs = Append(@, <<"class", t, ty>>)]
Bound(S, x, s)    == [S EXCEPT !.env = (x :> s) @@ @]
Failed(S)         == [S EXCEPT !.ok = FALSE, !.ty = Unknown]
\* leave_scope: the names are those of the scope around.
Leave(S, outer)   == [S EXCEPT !.env = outer.env]

LiteralType(v) == Con(v[1], <<>>)

\* Fresh copies of variables and rows.
Fresh(vs, rs, n) ==
  LET v == SetToSeq(vs)
      r == SetToSeq(rs)
      at(s, x) == CHOOSE i \in DOMAIN s : s[i] = x
  IN  [types |-> [x \in vs |-> Var(n + at(v, x) - 1)],
       rows  |-> [x \in rs |-> Row(<<>>, <<>>, n + Len(v) + at(r, x) - 1)]]

\* An imported value's type, copied.
instantiate_with(ty, S) ==
  LET vs == free_vars(ty)
      rs == free_row_vars(ty)
  IN  Typed(Mint(S, Cardinality(vs) + Cardinality(rs)), apply_to_type(Fresh(vs, rs, S.n), ty))

\* The constructor of a variant as a value, at fresh arguments.
instantiate_variant(enum, v, S) ==
  LET params  == Enums[enum].params
      args    == [i \in DOMAIN params |-> New(S, i - 1)]
      whole   == Con(enum, args)
      payload == [i \in DOMAIN find_variant_in_enum(enum, v) |->
                    apply_to_type(InstantiatedAt(enum, args), find_variant_in_enum(enum, v)[i])]
  IN  Typed(Mint(S, Len(params)), IF payload = <<>> THEN whole ELSE FunOf(payload, whole))

-----------------------------------------------------------------------------
(* Patterns *)

\* The enum a variant written in a pattern belongs to; "binds" when the name
\* is not a variant here, "error" when it must be qualified.
resolve_variant_pattern(v, ty, nullary) ==
  LET fits(enum) == nullary => find_variant_in_enum(enum, v) = <<>>
      found      == {enum \in find_variant_globally(v) : fits(enum)}
      prelude    == {enum \in found : is_bare_prelude_variant(enum, v)}
  IN  IF ty[1] \in DOMAIN Enums
      THEN CASE v \notin VariantNames(ty[1]) \/ ~fits(ty[1]) -> "binds"
             [] is_bare_prelude_variant(ty[1], v)            -> ty[1]
             [] OTHER                                        -> "error"
      ELSE CASE prelude # {}            -> CHOOSE enum \in prelude : TRUE
             [] found = {} \/ nullary   -> "binds"
             [] OTHER                   -> "error"

resolve_qualified_pattern(enum, v) ==
  IF enum \in DOMAIN Enums /\ v \in VariantNames(enum) THEN enum ELSE "error"

resolve_subject_enum_type(ty, enum, S) ==
  IF ty[1] = enum THEN Typed(S, ty)
  ELSE LET k == Len(Enums[enum].params) IN Typed(Mint(S, k), Con(enum, [i \in 1..k |-> New(S, i - 1)]))

\* The type a record pattern asks for, and the name of its rest.
RecordPattern(p, ty, S) ==
  LET k    == Len(p[2])
      tys  == [i \in 1..k |-> New(S, i - 1)]
      tail == IF p[4] = "" THEN 0 ELSE S.n + k
      S1   == Mint(S, k + IF tail = 0 THEN 0 ELSE 1)
      S2   == IF p[4] \in {"", "..."} THEN S1 ELSE Bound(S1, p[4], <<"mono", Record(<<>>, <<>>, tail)>>)
  IN  [Eq(S2, ty, Record(p[2], tys, tail)) EXCEPT !.tys = tys]

TuplePattern(p, ty, S) ==
  LET tys == [i \in DOMAIN p[2] |-> New(S, i - 1)]
  IN  [Eq(Mint(S, Len(p[2])), ty, Con("tuple", tys)) EXCEPT !.tys = tys]

RECURSIVE constrain_pattern(_, _, _), EachPattern(_, _, _), constrain_let_pattern(_, _, _), EachLetPattern(_, _, _)
EachPattern(ps, tys, S) ==
  IF ps = <<>> THEN S ELSE EachPattern(Tail(ps), Tail(tys), constrain_pattern(Head(ps), Head(tys), S))
EachLetPattern(ps, tys, S) ==
  IF ps = <<>> THEN S ELSE EachLetPattern(Tail(ps), Tail(tys), constrain_let_pattern(Head(ps), Head(tys), S))

\* A constructor: the subject is its enum, its arguments the payload.
ConstructorPattern(p, ty, S) ==
  LET enum == IF p[2] = "" THEN resolve_variant_pattern(p[3], ty, FALSE) ELSE resolve_qualified_pattern(p[2], p[3])
      R    == resolve_subject_enum_type(ty, enum, S)
      tys  == [i \in DOMAIN find_variant_in_enum(enum, p[3]) |->
                 apply_to_type(InstantiatedAt(enum, R.ty[3]), find_variant_in_enum(enum, p[3])[i])]
  IN  IF enum \in {"binds", "error"} THEN Failed(S)
      ELSE IF Len(p[4]) # Len(tys) THEN Failed(Eq(R, ty, R.ty))
      ELSE EachPattern(p[4], tys, Eq(R, ty, R.ty))

ListPattern(p, ty, S) ==
  LET elem == New(S, 0)
      S1   == EachPattern(p[2], [i \in DOMAIN p[2] |-> elem], Eq(Mint(S, 1), ty, Con("list", <<elem>>)))
  IN  IF p[3] \in {"", "..."} THEN S1 ELSE Bound(S1, p[3], <<"mono", Con("list", <<elem>>)>>)

NamePattern(p, ty, S) ==
  LET enum == resolve_variant_pattern(p[2], ty, TRUE)
      R    == resolve_subject_enum_type(ty, enum, S)
  IN  CASE enum = "binds" -> Bound(S, p[2], <<"mono", ty>>)
        [] enum = "error" -> Failed(S)
        [] OTHER          -> Eq(R, ty, R.ty)

constrain_pattern(p, ty, S) ==
  CASE p[1] = "_"      -> S
    [] p[1] = "lit"    -> Eq(S, ty, LiteralType(p[2]))
    [] p[1] = "name"   -> NamePattern(p, ty, S)
    [] p[1] = "con"    -> ConstructorPattern(p, ty, S)
    [] p[1] = "tuple"  -> LET R == TuplePattern(p, ty, S) IN EachPattern(p[2], R.tys, R)
    [] p[1] = "record" -> LET R == RecordPattern(p, ty, S) IN EachPattern(p[3], R.tys, R)
    [] p[1] = "list"   -> ListPattern(p, ty, S)

\* In a let a name always binds, and what can fail to match is refused.
constrain_let_pattern(p, ty, S) ==
  CASE p[1] = "_"      -> S
    [] p[1] = "name"   -> Bound(S, p[2], <<"mono", ty>>)
    [] p[1] = "tuple"  -> LET R == TuplePattern(p, ty, S) IN EachLetPattern(p[2], R.tys, R)
    [] p[1] = "record" -> LET R == RecordPattern(p, ty, S) IN EachLetPattern(p[3], R.tys, R)
    [] p[1] = "list" /\ p[2] = <<>> /\ p[3] # "" ->
         LET R == Eq(Mint(S, 1), ty, Con("list", <<New(S, 0)>>))
         IN  IF p[3] = "..." THEN R ELSE Bound(R, p[3], <<"mono", ty>>)
    [] OTHER           -> Failed(S)

-----------------------------------------------------------------------------
(* Expressions *)

RECURSIVE is_syntactic_value(_), HasDispatch(_)

\* mutant: every right-hand side is generalized.
Mutis_syntactic_value(e) == TRUE
is_syntactic_value(e) ==
  CASE e[1] \in {"fun", "lit", "id"} -> TRUE
    [] e[1] = "field"  -> e[2][1] = "id" /\ e[2][2] \in DOMAIN Enums \cup DOMAIN Imports
    [] e[1] = "group"  -> is_syntactic_value(e[2])
    [] e[1] = "tuple"  -> \A i \in DOMAIN e[2] : is_syntactic_value(e[2][i])
    [] e[1] \in {"list", "record"} -> \A i \in DOMAIN e[3] : is_syntactic_value(e[3][i])
    [] OTHER           -> FALSE

\* The operands, arguments and bodies directly inside an expression.
Inside(e) ==
  CASE e[1] \in {"lit", "id"}           -> <<>>
    [] e[1] \in {"group", "defer", "neg", "not", "elem", "field"} -> <<e[2]>>
    [] e[1] \in {"tuple", "interp", "using", "scope"} -> e[2]
    [] e[1] \in {"list", "record"}      -> e[3]
    [] e[1] = "update"                  -> <<e[2]>> \o e[4]
    [] e[1] = "bin"                     -> <<e[3], e[4]>>
    [] e[1] = "chain"                   -> <<e[2], e[3]>>
    [] e[1] = "fun"                     -> e[3]
    [] e[1] = "call"                    -> <<e[2]>> \o e[3]
    [] e[1] = "let"                     -> <<e[3]>>
    [] e[1] = "try"                     -> <<e[3]>> \o e[4]
    [] e[1] = "if"                      -> <<e[2]>> \o e[4] \o FlattenSeq(e[5])
    [] e[1] = "while"                   -> <<e[2]>> \o e[4]
    [] e[1] = "when"                    -> <<e[2]>> \o FlattenSeq([i \in DOMAIN e[3] |-> e[3][i][2]])

\* Does a dictionary have to be found for some part of it (an arithmetic or
\* ordering operator)?
HasDispatch(e) ==
  \/ e[1] = "neg"
  \/ e[1] = "bin" /\ e[2] \in {"add", "lt"}
  \/ \E i \in DOMAIN Inside(e) : HasDispatch(Inside(e)[i])

RECURSIVE constrain_expr(_, _), ConstrainAll(_, _), ConstrainItems(_, _, _, _), ConstrainCases(_, _, _, _)
ConstrainAll(es, S) ==
  IF es = <<>> THEN [S EXCEPT !.tys = <<>>]
  ELSE LET h == constrain_expr(Head(es), S)
           t == ConstrainAll(Tail(es), h)
       IN  [t EXCEPT !.tys = <<h.ty>> \o @]

\* A body in a scope of its own: its type is its last expression's.
Block(body, S) ==
  LET R == ConstrainAll(body, S)
  IN  Typed(R, IF body = <<>> THEN Nothing ELSE R.tys[Len(body)])

\* A name: its type, an instance of its scheme, or a bare variant.
ConstrainIdentifier(x, S) ==
  LET bare == {enum \in find_variant_globally(x) : is_bare_prelude_variant(enum, x)} IN
  CASE x \in DOMAIN S.env /\ S.env[x][1] = "mono" -> Typed(S, S.env[x][2])
    [] x \in DOMAIN S.env /\ S.env[x][1] = "var"  ->
         Typed([Mint(S, 1) EXCEPT !.cs = Append(@, <<"inst", S.env[x][2], New(S, 0)>>)], New(S, 0))
    [] x \notin DOMAIN S.env /\ bare # {} -> instantiate_variant(CHOOSE enum \in bare : TRUE, x, S)
    [] OTHER -> Failed(S)

\* The items of a list: elements and spread lists of the element type.
ConstrainItems(kinds, es, elem, S) ==
  IF es = <<>> THEN S
  ELSE LET R == constrain_expr(Head(es), S)
       IN  ConstrainItems(Tail(kinds), Tail(es), elem,
                          Eq(R, R.ty, IF Head(kinds) = "spread" THEN Con("list", <<elem>>) ELSE elem))

ConstrainAggregate(e, S) ==
  CASE e[1] = "tuple"  -> LET R == ConstrainAll(e[2], Mint(S, 1))
                          IN  Typed(Eq(R, New(S, 0), Con("tuple", R.tys)), New(S, 0))
    [] e[1] = "list"   -> LET R == ConstrainItems(e[2], e[3], New(S, 1), Mint(S, 2))
                          IN  Typed(Eq(R, New(S, 0), Con("list", <<New(S, 1)>>)), New(S, 0))
    [] e[1] = "record" -> LET R == ConstrainAll(e[3], Mint(S, 1))
                          IN  Typed(Eq(R, New(S, 0), Record(e[2], R.tys, 0)), New(S, 0))
    [] e[1] = "update" -> LET B == constrain_expr(e[2], S)
                              R == ConstrainAll(e[4], B)
                          IN  Typed(Eq(Mint(R, 1), B.ty, Record(e[3], R.tys, R.n)), B.ty)

RECURSIVE AllText(_, _)
AllText(es, S) ==
  IF es = <<>> THEN Typed(S, Text)
  ELSE LET R == constrain_expr(Head(es), S) IN AllText(Tail(es), Eq(R, R.ty, Text))

\* The operators: int or float by trait, int or text by type, equality of
\* any two of one type, and ??, whose carrier is not known yet.
ConstrainOperator(op, l, r, S) ==
  LET L == constrain_expr(l, S)
      R == constrain_expr(r, L)
      alpha == New(R, 0)
      both(T, ty) == Eq(Eq(T, L.ty, ty), R.ty, ty)
  IN  CASE op = "add"    -> Typed(Class(both(Mint(R, 1), alpha), "numeric", alpha), alpha)
        [] op = "rem"    -> Typed(both(R, IntTy), IntTy)
        [] op = "concat" -> Typed(both(R, Text), Text)
        [] op = "and"    -> Typed(both(R, Bool), Bool)
        [] op = "eq"     -> Typed(Eq(R, L.ty, R.ty), Bool)
        [] op = "lt"     -> Typed(Class(both(Mint(R, 1), alpha), "ord", alpha), Bool)
        [] op = "else"   -> Typed([Eq(Mint(R, 1), R.ty, alpha) EXCEPT !.tries =
                              Append(@, [kind |-> "else", value |-> L.ty, alpha |-> alpha, last |-> R.ty, whole |-> alpha,
                                         tail |-> <<>>, within |-> (Len(L.tries) + 1)..Len(R.tries), simple |-> TRUE, state |-> "open"])], alpha)

ConstrainUnary(e, S) ==
  LET R == constrain_expr(e[2], S) IN
  IF e[1] = "neg" THEN Typed(Class(Eq(Mint(R, 1), R.ty, New(R, 0)), "numeric", New(R, 0)), New(R, 0))
  ELSE Typed(Eq(R, R.ty, Bool), Bool)

\* x |> f a is f x a.
ConstrainChain(e, S) ==
  LET L == constrain_expr(e[2], Mint(S, 1))
      C == constrain_expr(IF e[3][1] = "call" THEN e[3][2] ELSE e[3], L)
      R == IF e[3][1] = "call" THEN ConstrainAll(e[3][3], C) ELSE [C EXCEPT !.tys = <<>>]
  IN  Typed(Eq(R, C.ty, FunOf(<<L.ty>> \o R.tys, New(S, 0))), New(S, 0))

\* A try met inside belongs to the innermost function around it.
Owned(R, from, tail) ==
  [R EXCEPT !.tries = [i \in DOMAIN @ |-> IF i > from /\ @[i].tail = <<>> THEN [@[i] EXCEPT !.tail = <<tail>>] ELSE @[i]]]

ConstrainFun(e, S) ==
  LET k  == Len(e[2])
      S1 == [Mint(S, 1 + k) EXCEPT !.env =
               [x \in ToSet(e[2]) |-> <<"mono", New(S, SelectLastInSeq(e[2], LAMBDA y : y = x))>>] @@ @]
      B  == Block(e[3], S1)
      R  == Owned(B, Len(S.tries), B.ty)
      params == IF k = 0 THEN <<Nothing>> ELSE [i \in 1..k |-> New(S, i)]
  IN  Typed(Eq(Leave(R, S), New(S, 0), FunOf(params, B.ty)), New(S, 0))

ConstrainCall(e, S) ==
  LET C == constrain_expr(e[2], Mint(S, 1))
      R == ConstrainAll(e[3], C)
  IN  Typed(Eq(R, C.ty, FunOf(R.tys, New(S, 0))), New(S, 0))

\* A try binds its pattern to a fresh type and links nothing yet.
ConstrainTry(e, S) ==
  LET V == constrain_expr(e[3], Mint(S, 1))
      R == Block(e[4], constrain_let_pattern(e[2], New(V, 0), Mint(V, 1)))
  IN  Typed([Leave(R, S) EXCEPT !.tries =
               Append(@, [kind |-> "try", value |-> V.ty, alpha |-> New(V, 0), last |-> R.ty, whole |-> New(S, 0),
                          tail |-> <<>>, within |-> (Len(V.tries) + 1)..Len(R.tries), simple |-> e[2][1] \in {"_", "name"},
                          state |-> IF e[4] = <<>> THEN "empty" ELSE "open"])], New(S, 0))

\* A let generalizes a value that needs no dictionary.
ConstrainLet(e, S) ==
  LET V == constrain_expr(e[3], S)
      S1 == IF e[2][1] # "name" THEN constrain_let_pattern(e[2], V.ty, V)
            ELSE IF free_vars(V.ty) = {} \/ ~is_syntactic_value(e[3]) \/ HasDispatch(e[3])
                 THEN Bound(V, e[2][2], <<"mono", V.ty>>)
                 ELSE Bound([Mint(V, 1) EXCEPT !.cs = Append(@, <<"gen", V.n, V.ty>>)], e[2][2], <<"var", V.n>>)
  IN  Typed(S1, Nothing)

\* A value of an imported module; a name it lacks may still be a variant of
\* the enum of the same name.
HasMember(x, f)     == x \in DOMAIN Imports /\ f \in DOMAIN Imports[x]
ModuleMember(x, f, S) == IF HasMember(x, f) THEN instantiate_with(Imports[x][f], S) ELSE Failed(S)

\* A value of a module, a variant of an enum, or a field of a record.
ConstrainField(e, S) ==
  LET x == IF e[2][1] = "id" THEN e[2][2] ELSE "" IN
  CASE HasMember(x, e[3]) \/ x \in DOMAIN Imports \ DOMAIN Enums -> ModuleMember(x, e[3], S)
    [] x \in DOMAIN Enums /\ ~HasMember(x, e[3]) ->
         IF e[3] \in VariantNames(x) THEN instantiate_variant(x, e[3], S) ELSE Failed(S)
    [] OTHER -> LET R == constrain_expr(e[2], Mint(S, 1))
                IN  Typed(Eq(Mint(R, 1), R.ty, Record(<<e[3]>>, <<New(S, 0)>>, R.n)), New(S, 0))

ConstrainElement(e, S) ==
  LET R == constrain_expr(e[2], Mint(S, 1))
  IN  Typed(Eq(Mint(R, 1), R.ty, Partial(<<e[3]>>, <<New(S, 0)>>, R.n)), New(S, 0))

ConstrainIf(e, S) ==
  LET C == constrain_expr(e[2], S)
      B == Leave(Block(e[4], constrain_pattern(e[3], C.ty, C)), S)
      E == Block(e[5][1], B)
  IN  IF e[5] = <<>> THEN Typed(B, Nothing)
      ELSE Typed(Eq(Eq(Mint(E, 1), New(E, 0), B.ty), New(E, 0), E.ty), New(E, 0))

ConstrainWhile(e, S) ==
  LET C == constrain_expr(e[2], S)
  IN  Typed(Leave(Block(e[4], constrain_pattern(e[3], C.ty, C)), S), Nothing)

ConstrainCases(cases, subject, whole, S) ==
  IF cases = <<>> THEN S
  ELSE LET B == Block(cases[1][2], constrain_pattern(cases[1][1], subject, S))
       IN  ConstrainCases(Tail(cases), subject, whole, Eq(Leave(B, S), whole, B.ty))

ConstrainWhen(e, S) ==
  LET C == constrain_expr(e[2], S)
      R == ConstrainCases(e[3], C.ty, New(C, 0), Mint(C, 1))
  IN  Typed([R EXCEPT !.whens = Append(@, <<C.ty, [i \in DOMAIN e[3] |-> e[3][i][1]]>>)], New(C, 0))

\* A scope's body is a task, and so is the scope.
ConstrainScope(e, S) ==
  LET B == Block(e[2], Mint(S, 1))
      t == Task(New(B, 0), New(B, 1))
  IN  Typed(Eq(Eq(Mint(Leave(Owned(B, Len(S.tries), B.ty), S), 2), B.ty, t), New(S, 0), t), New(S, 0))

ConstrainUsing(e, S) == Leave(Block(e[2], S), S)

ConstrainGroup(e, S) == LET R == constrain_expr(e[2], Mint(S, 1)) IN Typed(Eq(R, New(S, 0), R.ty), New(S, 0))

constrain_expr(e, S) ==
  CASE e[1] = "lit"    -> Typed(S, LiteralType(e[2]))
    [] e[1] = "id"     -> ConstrainIdentifier(e[2], S)
    [] e[1] = "group"  -> ConstrainGroup(e, S)
    [] e[1] = "interp" -> AllText(e[2], S)
    [] e[1] \in {"tuple", "list", "record", "update"} -> ConstrainAggregate(e, S)
    [] e[1] \in {"neg", "not"} -> ConstrainUnary(e, S)
    [] e[1] = "bin"    -> ConstrainOperator(e[2], e[3], e[4], S)
    [] e[1] = "chain"  -> ConstrainChain(e, S)
    [] e[1] = "fun"    -> ConstrainFun(e, S)
    [] e[1] = "call"   -> ConstrainCall(e, S)
    [] e[1] = "try"    -> ConstrainTry(e, S)
    [] e[1] = "let"    -> ConstrainLet(e, S)
    [] e[1] = "defer"  -> Typed(constrain_expr(e[2], S), Nothing)
    [] e[1] = "scope"  -> ConstrainScope(e, S)
    [] e[1] = "elem"   -> ConstrainElement(e, S)
    [] e[1] = "field"  -> ConstrainField(e, S)
    [] e[1] = "if"     -> ConstrainIf(e, S)
    [] e[1] = "while"  -> ConstrainWhile(e, S)
    [] e[1] = "when"   -> ConstrainWhen(e, S)
    [] e[1] = "using"  -> ConstrainUsing(e, S)

RECURSIVE ConstrainDefs(_, _, _)
\* The definitions, each generalized behind its body.
ConstrainDefs(D, k, S) ==
  IF k > Len(D) THEN S
  ELSE LET R == constrain_expr(D[k][2], S)
       IN  ConstrainDefs(D, k + 1, [R EXCEPT !.cs = Append(@, <<"gen", S.env[D[k][1]][2], R.ty>>), !.env = S.env])

\* Every definition is in scope in every body.
constrain(D) ==
  ConstrainDefs(D, 1, [Begin EXCEPT !.n = Len(D) + 1,
                                    !.env = [x \in {D[i][1] : i \in DOMAIN D} |-> <<"var", CHOOSE i \in DOMAIN D : D[i][1] = x>>]])
=============================================================================

------------------------------ MODULE Running ------------------------------
(***************************************************************************)
(* What a program of Infer's syntax does when it runs without types: the   *)
(* reference the type checker is compared with.  A run goes wrong when a   *)
(* value is used as what it is not (called, projected, added, matched      *)
(* against a shape of another type) or no case of a when takes it.         *)
(*                                                                         *)
(* R is [v, env, refs, end]: the value, the names, what the references     *)
(* hold, and "next", "wrong" or "fail", a task that failed.                *)
(***************************************************************************)
EXTENDS Integers, Sequences, SequencesExt

Unit  == <<"nothing">>
Gave(R, v)  == [R EXCEPT !.v = v]
Wrong(R)    == [R EXCEPT !.end = "wrong"]
Needs(R, cond, S) == IF cond THEN S ELSE Wrong(R)

\* A match: "yes" with the names it binds, "no", or "wrong".
RECURSIVE Takes(_, _, _), TakesAll(_, _, _)
Takes(p, v, env) ==
  LET no      == [m |-> "no", env |-> env]
      wrong   == [m |-> "wrong", env |-> env]
      yes(e)  == [m |-> "yes", env |-> e]
      con(name, ps) == IF v[1] # "con" THEN wrong ELSE IF v[2] # name THEN no ELSE TakesAll(ps, v[3], env)
      rest(e, x, w) == IF x \in {"", "..."} THEN e ELSE (x :> w) @@ e
  IN  CASE p[1] = "_"    -> yes(env)
        [] p[1] = "name" -> IF p[2] = "none" THEN con("none", <<>>) ELSE yes((p[2] :> v) @@ env)
        [] p[1] = "lit"  -> IF v[1] # p[2][1] THEN wrong ELSE IF v = p[2] THEN yes(env) ELSE no
        [] p[1] = "con"  -> con(p[3], p[4])
        [] p[1] = "tuple" -> IF v[1] # "tuple" THEN wrong ELSE IF Len(v[2]) # Len(p[2]) THEN wrong ELSE TakesAll(p[2], v[2], env)
        [] p[1] = "record" ->
             IF v[1] # "record" THEN wrong
             ELSE IF ~(ToSet(p[2]) \subseteq DOMAIN v[2] /\ (p[4] = "" => ToSet(p[2]) = DOMAIN v[2])) THEN wrong
             ELSE TakesAll(p[3], [i \in DOMAIN p[2] |-> v[2][p[2][i]]],
                           rest(env, p[4], <<"record", [l \in DOMAIN v[2] \ ToSet(p[2]) |-> v[2][l]]>>))
        [] p[1] = "list" ->
             IF v[1] # "list" THEN wrong
             ELSE IF Len(v[2]) < Len(p[2]) \/ (p[3] = "" /\ Len(v[2]) # Len(p[2])) THEN no
             ELSE TakesAll(p[2], SubSeq(v[2], 1, Len(p[2])), rest(env, p[3], <<"list", SubSeq(v[2], Len(p[2]) + 1, Len(v[2]))>>))
TakesAll(ps, vs, env) ==
  IF Len(ps) # Len(vs) THEN [m |-> "wrong", env |-> env]
  ELSE IF ps = <<>> THEN [m |-> "yes", env |-> env]
  ELSE LET r == Takes(Head(ps), Head(vs), env) IN IF r.m = "yes" THEN TakesAll(Tail(ps), Tail(vs), r.env) ELSE r

\* The imported functions the programs call.
Primitive(f, a, R) ==
  CASE f = "new"  -> Gave([R EXCEPT !.refs = Append(@, a[1])], <<"ref", Len(R.refs) + 1>>)
    [] f = "get"  -> IF a[1][1] # "ref" THEN Wrong(R) ELSE Gave(R, R.refs[a[1][2]])
    [] f = "set"  -> IF a[1][1] # "ref" THEN Wrong(R) ELSE Gave([R EXCEPT !.refs[a[1][2]] = a[2]], Unit)
    [] f = "done" -> Gave(R, <<"task", "ok", a[1]>>)
    [] f = "fail" -> Gave(R, <<"task", "err", a[1]>>)

RECURSIVE Run(_, _, _), RunAll(_, _, _), RunBody(_, _, _), RunCases(_, _, _, _), Apply(_, _, _, _)

\* Several expressions, left to right: their values.
RunAll(D, es, R) ==
  IF es = <<>> THEN Gave(R, <<>>)
  ELSE LET h == Run(D, Head(es), R)
           t == RunAll(D, Tail(es), h)
       IN  IF h.end # "next" THEN h ELSE IF t.end # "next" THEN t ELSE Gave(t, <<h.v>> \o t.v)

\* A body in a scope of its own.
RunBody(D, es, R) ==
  IF es = <<>> THEN Gave(R, Unit)
  ELSE LET h == Run(D, Head(es), R) IN IF h.end # "next" \/ Len(es) = 1 THEN h ELSE RunBody(D, Tail(es), h)
Scoped(D, es, R, env) == [RunBody(D, es, [R EXCEPT !.env = env]) EXCEPT !.env = R.env]

RunCases(D, v, cases, R) ==
  IF cases = <<>> THEN Wrong(R)
  ELSE LET m == Takes(cases[1][1], v, R.env)
       IN  CASE m.m = "yes"   -> Scoped(D, cases[1][2], R, m.env)
             [] m.m = "no"    -> RunCases(D, v, Tail(cases), R)
             [] m.m = "wrong" -> Wrong(R)

Apply(D, f, args, R) ==
  CASE f[1] = "prim" -> Primitive(f[2], args, R)
    [] f[1] = "make" -> Gave(R, <<"con", f[2], args>>)
    [] f[1] = "fun"  ->
         LET n == IF f[2] = <<>> THEN 1 ELSE Len(f[2])
             env == [x \in ToSet(f[2]) |-> args[SelectLastInSeq(f[2], LAMBDA y : y = x)]] @@ f[4]
             B == Scoped(D, f[3], R, env)
         IN  IF Len(args) # n THEN Wrong(R)
             ELSE IF B.end = "fail" THEN [B EXCEPT !.end = "next", !.v = <<"task", "err", @>>] ELSE B
    [] OTHER -> Wrong(R)

Operate(op, x, y, R) ==
  CASE op \in {"add", "rem"} -> Needs(R, x[1] = "int" /\ y[1] = "int", Gave(R, <<"int", IF op = "add" THEN x[2] + y[2] ELSE x[2]>>))
    [] op = "concat" -> Needs(R, x[1] = "string" /\ y[1] = "string", Gave(R, <<"string", x[2]>>))
    [] op = "and"    -> Needs(R, x[1] = "bool" /\ y[1] = "bool", Gave(R, <<"bool", x[2] /\ y[2]>>))
    [] op = "eq"     -> Needs(R, x[1] = y[1], Gave(R, <<"bool", x = y>>))
    [] op = "lt"     -> Needs(R, x[1] = y[1] /\ x[1] \in {"int", "string"}, Gave(R, <<"bool", x = y>>))

\* try: go on with what the carrier holds, or with the carrier.
RunTry(D, e, T) ==
  LET go(v) == LET m == Takes(e[2], v, T.env) IN IF m.m # "yes" THEN Wrong(T) ELSE Scoped(D, e[4], T, m.env)
  IN  CASE T.v[1] = "con" /\ T.v[2] \in {"some", "ok"}  -> go(T.v[3][1])
        [] T.v[1] = "con" /\ T.v[2] \in {"none", "err"} -> T
        [] T.v[1] = "task" -> IF T.v[2] = "ok" THEN go(T.v[3]) ELSE [T EXCEPT !.end = "fail", !.v = T.v[3]]
        [] OTHER -> Wrong(T)

RunElse(D, e, T) ==
  CASE T.v[1] = "con" /\ T.v[2] \in {"some", "ok"} -> Gave(T, T.v[3][1])
    [] T.v[1] = "task" /\ T.v[2] = "ok"            -> T
    [] (T.v[1] = "con" /\ T.v[2] \in {"none", "err"}) \/ (T.v[1] = "task" /\ T.v[2] = "err") -> Run(D, e[4], T)
    [] OTHER -> Wrong(T)

Member(D, e, R) ==
  CASE e[2][1] = "id" /\ e[2][2] \in {"ref", "task"} -> Gave(R, <<"prim", e[3]>>)
    [] e[2] = <<"id", "color">> -> Gave(R, IF e[3] = "pair" THEN <<"make", "pair">> ELSE <<"con", e[3], <<>>>>)
    [] OTHER -> LET T == Run(D, e[2], R) IN
                IF T.end # "next" THEN T ELSE IF T.v[1] # "record" THEN Wrong(T)
                ELSE IF e[3] \notin DOMAIN T.v[2] THEN Wrong(T) ELSE Gave(T, T.v[2][e[3]])

Named(D, x, R) ==
  CASE x \in DOMAIN R.env -> Gave(R, R.env[x])
    [] x \in {D[i][1] : i \in DOMAIN D} -> Gave(R, Run(D, (CHOOSE d \in ToSet(D) : d[1] = x)[2], [R EXCEPT !.env = <<>>]).v)
    [] x = "none" -> Gave(R, <<"con", "none", <<>>>>)
    [] x \in {"some", "ok", "err"} -> Gave(R, <<"make", x>>)

\* The subject of a branch, and what its pattern says.
Branch(D, e, T) ==
  LET m == Takes(e[3], T.v, T.env)
      none == IF e[5] = <<>> THEN Gave(T, Unit) ELSE RunBody(D, e[5][1], T)
  IN  CASE m.m = "yes" -> LET B == Scoped(D, e[4], T, m.env) IN IF e[5] = <<>> /\ B.end = "next" THEN Gave(B, Unit) ELSE B
        [] m.m = "no"  -> none
        [] OTHER       -> Wrong(T)

Again(D, e, T) ==
  LET m == Takes(e[3], T.v, T.env)
      B == Scoped(D, e[4], T, m.env)
  IN  CASE m.m = "wrong" -> Wrong(T)
        [] m.m = "no"    -> Gave(T, Unit)
        [] m.m = "yes"   -> IF B.end # "next" THEN B ELSE Run(D, e, B)

\* An expression whose operands have run.
Combine(D, e, T) ==
  CASE e[1] = "tuple"  -> Gave(T, <<"tuple", T.v>>)
    [] e[1] = "interp" -> Needs(T, \A i \in DOMAIN T.v : T.v[i][1] = "string", Gave(T, <<"string", "">>))
    [] e[1] = "list"   -> Needs(T, \A i \in DOMAIN e[2] : e[2][i] = "spread" => T.v[i][1] = "list",
                            Gave(T, <<"list", FlattenSeq([i \in DOMAIN e[2] |-> IF e[2][i] = "elem" THEN <<T.v[i]>> ELSE T.v[i][2]])>>))
    [] e[1] = "record" -> Gave(T, <<"record", [l \in ToSet(e[2]) |-> T.v[CHOOSE i \in DOMAIN e[2] : e[2][i] = l]]>>)
    [] e[1] = "update" -> IF T.v[1][1] # "record" THEN Wrong(T) ELSE IF ~(ToSet(e[3]) \subseteq DOMAIN T.v[1][2]) THEN Wrong(T)
                          ELSE Gave(T, <<"record", [l \in ToSet(e[3]) |-> T.v[1 + CHOOSE i \in DOMAIN e[3] : e[3][i] = l]] @@ T.v[1][2]>>)
    [] e[1] = "neg"    -> Needs(T, T.v[1][1] = "int", Gave(T, T.v[1]))
    [] e[1] = "not"    -> Needs(T, T.v[1][1] = "bool", Gave(T, T.v[1]))
    [] e[1] = "bin"    -> Operate(e[2], T.v[1], T.v[2], T)
    [] e[1] = "call"   -> Apply(D, T.v[1], Tail(T.v), T)
    [] e[1] = "elem"   -> IF T.v[1][1] # "tuple" THEN Wrong(T) ELSE IF e[3] >= Len(T.v[1][2]) THEN Wrong(T) ELSE Gave(T, T.v[1][2][e[3] + 1])
    [] e[1] = "if"     -> Branch(D, e, Gave(T, T.v[1]))
    [] e[1] = "when"   -> RunCases(D, T.v[1], e[3], T)
    [] e[1] = "while"  -> Again(D, e, Gave(T, T.v[1]))
    [] e[1] = "let"    -> LET m == Takes(e[2], T.v[1], T.env)
                          IN  IF m.m # "yes" THEN Wrong(T) ELSE [T EXCEPT !.v = Unit, !.env = m.env]
    [] e[1] = "try"    -> RunTry(D, e, Gave(T, T.v[1]))
    [] e[1] = "else"   -> RunElse(D, e, Gave(T, T.v[1]))
    [] e[1] = "group"  -> Gave(T, T.v[1])
    [] e[1] = "defer"  -> Gave(T, Unit)

\* The operands that run first.
Operands(e) ==
  CASE e[1] \in {"tuple", "interp"}  -> e[2]
    [] e[1] \in {"list", "record"}   -> e[3]
    [] e[1] = "update"               -> <<e[2]>> \o e[4]
    [] e[1] = "bin"                  -> <<e[3], e[4]>>
    [] e[1] = "call"                 -> <<e[2]>> \o e[3]
    [] e[1] \in {"let", "try", "else"} -> <<e[3]>>
    [] OTHER                         -> <<e[2]>>

Run(D, e, R) ==
  CASE R.end # "next" -> R
    [] e[1] = "lit"   -> Gave(R, e[2])
    [] e[1] = "id"    -> Named(D, e[2], R)
    [] e[1] = "fun"   -> Gave(R, <<"fun", e[2], e[3], R.env>>)
    [] e[1] = "field" -> Member(D, e, R)
    [] e[1] = "chain" -> Run(D, IF e[3][1] = "call" THEN <<"call", e[3][2], <<e[2]>> \o e[3][3]>> ELSE <<"call", e[3], <<e[2]>>>>, R)
    [] e[1] \in {"using", "scope"} -> Scoped(D, e[2], R, R.env)
    [] e[1] = "bin" /\ e[2] = "else" -> Run(D, <<"else", "", e[3], e[4]>>, R)
    [] OTHER          -> LET T == RunAll(D, Operands(e), R) IN IF T.end # "next" THEN T ELSE Combine(D, e, T)

\* How main ends.
Ends(D) ==
  Run(D, <<"call", <<"id", "main">>, <<<<"lit", Unit>>>>>>, [v |-> Unit, env |-> <<>>, refs |-> <<>>, end |-> "next"]).end
=============================================================================

------------------------------- MODULE Source -------------------------------
(***************************************************************************)
(* What a checked program means: a reference evaluator over its syntax     *)
(* tree, with immutable lists and dictionaries, the scopes the analyzer    *)
(* gives names, and functions that await run as one.  It says nothing of   *)
(* how the compiler works; the compiled program is compared with it.       *)
(*                                                                         *)
(* S is [w, defers, ctl]: the world (what was printed, the mutable         *)
(* references), the cleanups registered by the running function (last      *)
(* first), and "next" or "fail".                                           *)
(***************************************************************************)
EXTENDS Integers, Sequences, FiniteSets, SequencesExt

Nothing  == <<"unit">>
World == [out |-> <<>>, refs |-> <<>>]
Got(v, S) == [v |-> v, S |-> S]

RECURSIVE HasTry(_)
\* Does a function with this body await in its own frame?
HasTry(body) ==
  \E i \in DOMAIN body : LET e == body[i] IN
    CASE e[1] = "try"   -> TRUE
      [] e[1] = "let"   -> HasTry(<<e[3]>>)
      [] e[1] = "if"    -> HasTry(e[4]) \/ \E j \in DOMAIN e[5] : HasTry(e[5][j])
      [] e[1] = "when"  -> \E j \in DOMAIN e[3] : HasTry(e[3][j][2])
      [] e[1] = "while" -> HasTry(e[4])
      [] e[1] = "using" -> HasTry(e[2])
      [] OTHER          -> FALSE

RECURSIVE Matches(_, _, _), MatchesAll(_, _, _)
\* The environment after a match, in [ok, env].
Matches(p, v, env) ==
  CASE p[1] = "_"    -> [ok |-> TRUE, env |-> env]
    [] p[1] = "name" -> [ok |-> TRUE, env |-> (p[2] :> v) @@ env]
    [] p[1] = "lit"  -> [ok |-> v = p[2], env |-> env]
    [] p[1] = "con"  -> IF v[2] = p[2] THEN MatchesAll(p[3], v[3], env) ELSE [ok |-> FALSE, env |-> env]
    [] p[1] = "tup"  -> MatchesAll(p[2], v[2], env)
MatchesAll(ps, vs, env) ==
  IF ps = <<>> THEN [ok |-> TRUE, env |-> env]
  ELSE LET r == Matches(Head(ps), Head(vs), env)
       IN  IF r.ok THEN MatchesAll(Tail(ps), Tail(vs), r.env) ELSE r

Arith(op, x, y) == CASE op = "add" -> x + y [] op = "sub" -> x - y [] op = "mul" -> x * y
Compare(op, x, y) == CASE op = "lt" -> x < y [] op = "le" -> x <= y [] op = "gt" -> x > y [] op = "ge" -> x >= y
                       [] op \in {"eqi", "eq"} -> x = y [] op \in {"nei", "ne"} -> x # y

\* The builtins the programs call, on immutable values.
Builtin(tag, a, S) ==
  CASE tag = "dict-empty"  -> Got(<<"dict", {}>>, S)
    [] tag = "dict-insert" -> Got(<<"dict", {e \in a[2][2] : e[1] # a[3]} \cup {<<a[3], a[4]>>}>>, S)
    [] tag = "dict-size"   -> Got(<<"int", Cardinality(a[1][2])>>, S)
    [] tag = "print"       -> Got(Nothing, [S EXCEPT !.w.out = Append(@, a[1])])
    [] tag = "ref-new"     -> Got(<<"ref", Len(S.w.refs) + 1>>, [S EXCEPT !.w.refs = Append(@, a[1])])
    [] tag = "ref-get"     -> Got(S.w.refs[a[1][2]], S)
    [] tag = "ref-set"     -> Got(Nothing, [S EXCEPT !.w.refs[a[1][2]] = a[2]])
    [] tag = "task-ok"     -> Got(<<"task", "ok", a[1]>>, S)
    [] tag = "task-fail"   -> Got(<<"task", "err", a[1]>>, S)

RECURSIVE Eval(_, _, _, _), EvalAll(_, _, _, _), Body(_, _, _, _), Cases(_, _, _, _, _), CallFun(_, _, _, _),
          Enter(_, _, _, _), Force(_, _, _), Clean(_, _, _), Dictionary(_, _, _, _), GlobalValue(_, _), While(_, _, _, _)

DefOf(D, x) == D[CHOOSE i \in DOMAIN D : D[i][1] = x]

GlobalValue(D, x) ==
  LET d == DefOf(D, x)
  IN  CASE d[2] = "builtin"                  -> <<"builtin", d[3]>>
        [] d[2] = "instance" /\ d[3] = <<>>  -> <<"methods", [i \in DOMAIN d[4] |-> Eval(D, d[4][i], <<>>, [w |-> World, defers |-> <<>>, ctl |-> "next"]).v]>>
        [] d[2] = "instance" /\ d[3] # <<>>  -> <<"maker", x>>
        [] d[2] = "value" /\ d[3] # <<>>     -> <<"fun", d[3] \o [i \in DOMAIN d[4][2] |-> d[4][2][i][1]], d[4][4], <<>>>>
        [] OTHER                             -> Eval(D, d[4], <<>>, [w |-> World, defers |-> <<>>, ctl |-> "next"]).v

\* The methods an instance, a parameter or a constructed instance stands for.
Dictionary(D, c, env, S) ==
  CASE c[1] = "inst"  -> GlobalValue(D, c[2])
    [] c[1] = "fwd"   -> env[c[2]]
    [] c[1] = "chain" -> LET d == DefOf(D, c[2]) IN
         <<"methods", [i \in DOMAIN d[4] |-> Eval(D, d[4][i], (d[3][1] :> Dictionary(D, c[3], env, S)), S).v]>>

EvalAll(D, es, env, S) ==
  IF es = <<>> THEN Got(<<>>, S)
  ELSE LET h == Eval(D, Head(es), env, S)
           t == EvalAll(D, Tail(es), env, h.S)
       IN  IF h.S.ctl = "fail" THEN h ELSE IF t.S.ctl = "fail" THEN t ELSE Got(<<h.v>> \o t.v, t.S)

Eval(D, e, env, S) ==
  LET sub(x) == Eval(D, x, env, S)
      all(xs) == EvalAll(D, xs, env, S)
  IN  CASE S.ctl = "fail" -> Got(Nothing, S)
        [] e[1] = "lit"   -> Got(e[2], S)
        [] e[1] = "id"    -> Got(IF e[2] \in DOMAIN env THEN env[e[2]] ELSE GlobalValue(D, e[2]), S)
        [] e[1] = "value" -> Got(GlobalValue(D, e[2]), S)
        [] e[1] = "ctor"  -> Got(IF e[3] = 0 THEN <<"variant", e[2], <<>>>> ELSE <<"make", e[2]>>, S)
        [] e[1] = "method" -> Got(Dictionary(D, e[2], env, S)[2][e[3]], S)
        [] e[1] = "call"  ->
             LET r == all(<<e[2]>> \o e[4])
                 ds == [i \in DOMAIN e[3] |-> Dictionary(D, e[3][i], env, S)]
             IN  IF r.S.ctl = "fail" THEN r ELSE CallFun(D, Head(r.v), ds \o Tail(r.v), r.S)
        [] e[1] = "pipe"  -> Eval(D, <<"call", e[3], e[4], <<e[2]>> \o e[5]>>, env, S)
        [] e[1] \in {"and", "or"} ->
             LET l == sub(e[2]) IN IF l.v[2] # (e[1] = "and") THEN l ELSE Eval(D, e[3], env, l.S)
        [] e[1] = "bin"   -> LET r == all(<<e[3], e[4]>>) IN
             IF e[2] \in {"add", "sub", "mul"} THEN Got(<<"int", Arith(e[2], r.v[1][2], r.v[2][2])>>, r.S)
             ELSE IF e[2] \in {"eq", "ne"} THEN Got(<<"bool", Compare(e[2], r.v[1], r.v[2])>>, r.S)
             ELSE Got(<<"bool", Compare(e[2], r.v[1][2], r.v[2][2])>>, r.S)
        [] e[1] = "not"   -> LET r == sub(e[2]) IN Got(<<"bool", ~r.v[2]>>, r.S)
        [] e[1] = "tuple" -> LET r == all(e[2]) IN Got(<<"tuple", r.v>>, r.S)
        [] e[1] = "elem"  -> LET r == sub(e[2]) IN Got(r.v[2][e[3]], r.S)
        [] e[1] = "list"  -> LET r == all(e[3]) IN
             Got(<<"list", FlattenSeq([i \in DOMAIN e[3] |-> IF e[2][i] = "elem" THEN <<r.v[i]>> ELSE r.v[i][2]])>>, r.S)
        [] e[1] = "if"    ->
             LET s == sub(e[2])
                 r == Cases(D, s.v, <<<<e[3], e[4]>>>> \o [i \in DOMAIN e[5] |-> <<<<"_">>, e[5][i]>>], env, s.S)
             IN  IF e[5] = <<>> /\ r.S.ctl # "fail" THEN Got(Nothing, r.S) ELSE r
        [] e[1] = "when"  -> LET s == sub(e[2]) IN Cases(D, s.v, e[3], env, s.S)
        [] e[1] = "while" -> While(D, e, env, S)
        [] e[1] = "fun"   -> Got(<<"fun", [i \in DOMAIN e[2] |-> e[2][i][1]], e[4], env>>, S)
        [] e[1] = "defer" -> Got(Nothing, [S EXCEPT !.defers = <<<<"fun", <<>>, <<e[2]>>, env>>>> \o @])
        [] e[1] = "using" -> Body(D, e[2], env, S)
        [] e[1] = "try"   ->
             LET t == sub(e[3])
                 f == Force(D, t.v, t.S.w)
                 S2 == [t.S EXCEPT !.w = f.S.w, !.ctl = f.S.ctl]
             IN  IF f.S.ctl = "fail" THEN Got(f.v, S2) ELSE Body(D, e[4], (e[2] :> f.v) @@ env, S2)

\* A body in a scope of its own: its value is that of its last expression.
Body(D, body, env, S) ==
  LET e == Head(body)
      r == Eval(D, IF e[1] = "let" THEN e[3] ELSE e, env, S)
      m == Matches(e[2], r.v, env)
  IN  CASE body = <<>>                 -> Got(Nothing, S)
        [] r.S.ctl = "fail"            -> r
        [] Len(body) = 1               -> IF e[1] = "let" THEN Got(Nothing, r.S) ELSE r
        [] OTHER                       -> Body(D, Tail(body), IF e[1] = "let" THEN m.env ELSE env, r.S)

Cases(D, v, cases, env, S) ==
  IF cases = <<>> \/ S.ctl = "fail" THEN Got(Nothing, S)
  ELSE LET m == Matches(Head(cases)[1], v, env)
       IN  IF m.ok THEN Body(D, Head(cases)[2], m.env, S) ELSE Cases(D, v, Tail(cases), env, S)

While(D, e, env, S) ==
  LET s == Eval(D, e[2], env, S)
      m == Matches(e[3], s.v, env)
      b == Body(D, e[4], m.env, s.S)
  IN  IF ~m.ok THEN Got(Nothing, s.S) ELSE IF b.S.ctl = "fail" THEN b ELSE While(D, e, env, b.S)

Clean(D, cs, w) == IF cs = <<>> THEN w ELSE Clean(D, Tail(cs), Enter(D, Head(cs), <<>>, w).S.w)

\* Run a function's body, then its cleanups.
Enter(D, f, args, w) ==
  LET env == [x \in ToSet(f[2]) |-> args[CHOOSE i \in DOMAIN f[2] : f[2][i] = x]] @@ f[4]
      r   == Body(D, f[3], env, [w |-> w, defers |-> <<>>, ctl |-> "next"])
  IN  [r EXCEPT !.S.w = Clean(D, r.S.defers, @)]

\* A function that awaits makes a task and runs when the task is awaited.
CallFun(D, f, args, S) ==
  CASE f[1] = "builtin" -> Builtin(f[2], args, S)
    [] f[1] = "make"    -> Got(<<"variant", f[2], args>>, S)
    [] f[1] = "fun" /\ HasTry(f[3])  -> Got(<<"task", "cold", f, args>>, S)
    [] f[1] = "fun" /\ ~HasTry(f[3]) -> LET r == Enter(D, f, args, S.w) IN Got(r.v, [S EXCEPT !.w = r.S.w])

Force(D, t, w) ==
  CASE t[2] = "ok"   -> Got(t[3], [w |-> w, defers |-> <<>>, ctl |-> "next"])
    [] t[2] = "err"  -> Got(t[3], [w |-> w, defers |-> <<>>, ctl |-> "fail"])
    [] t[2] = "cold" -> LET r == Enter(D, t[3], t[4], w)
                        IN  IF r.S.ctl = "fail" THEN r ELSE Force(D, r.v, r.S.w)

\* What running the program shows.
Meaning(D) ==
  LET main == GlobalValue(D, "main")
      r    == CallFun(D, main, <<Nothing>>, [w |-> World, defers |-> <<>>, ctl |-> "next"])
      f    == IF r.v[1] = "task" THEN Force(D, r.v, r.S.w) ELSE r
  IN  [end |-> IF f.S.ctl = "fail" THEN "fail" ELSE "ret", value |-> f.v, out |-> f.S.w.out]
=============================================================================

------------------------------- MODULE Lower -------------------------------
(***************************************************************************)
(* Lowering a checked program to the IR (ir/src/lower.rs): every           *)
(* expression becomes an atom, its work statements of the current          *)
(* function; a `fun` becomes a function of its own with the variables it   *)
(* captures; a body in tail position returns instead of binding a result.  *)
(*                                                                         *)
(* The state L is [scopes, fns, globals, ok]: the stack of functions being *)
(* lowered, those finished, the number of every global, and whether the    *)
(* definition can still be lowered.  A lowering returns [L, at], at being  *)
(* an atom (a pattern for lower_pattern); after an error it does nothing.  *)
(***************************************************************************)
EXTENDS IR

Top(L) == L.scopes[Len(L.scopes)]
Lowered(L, at) == [L |-> L, at |-> at]

push_scope(L, params, preprs, ret) ==
  [L EXCEPT !.scopes = Append(@,
     [params |-> [i \in DOMAIN params |-> i - 1], caps |-> <<>>,
      locals |-> [i \in DOMAIN params |-> <<params[i], i - 1>>],
      next |-> Len(params), stmts |-> <<>>, async |-> FALSE, preprs |-> preprs, ret |-> ret])]

\* Finish the current function: it joins the program under the next number.
finish_scope(L) ==
  LET sc == Top(L)
  IN  [L EXCEPT !.scopes = Front(@),
                !.fns = Append(@, [params |-> sc.params, caps |-> [i \in DOMAIN sc.caps |-> sc.caps[i][2]],
                                   async |-> sc.async, body |-> sc.stmts, preprs |-> sc.preprs,
                                   ret |-> sc.ret, reprs |-> <<>>])]

push_stmt(L, st)    == [L EXCEPT !.scopes[Len(L.scopes)].stmts = Append(@, st)]
alloc_var(L)        == [L EXCEPT !.scopes[Len(L.scopes)].next = @ + 1]
emit_let(L, rv)     == Lowered(push_stmt(alloc_var(L), Let(Top(L).next, rv)), Var(Top(L).next))
push_local(L, x, v) == [L EXCEPT !.scopes[Len(L.scopes)].locals = Append(@, <<x, v>>)]
take_stmts(L)       == [L EXCEPT !.scopes[Len(L.scopes)].stmts = <<>>]
restore_stmts(L2, L) == [L2 EXCEPT !.scopes[Len(L.scopes)].stmts = Top(L).stmts]
Muttruncate(L2, L)  == L2   \* mutant: a case's names stay in scope
truncate(L2, L)     == [L2 EXCEPT !.scopes[Len(L.scopes)].locals = Top(L).locals]

-----------------------------------------------------------------------------
(* Names: the innermost binding of a function's locals, else a variable    *)
(* captured from the function around it, else a global.                    *)

RECURSIVE resolve_at(_, _, _)
resolve_at(L, i, x) ==
  LET sc     == L.scopes[i]
      local  == {j \in DOMAIN sc.locals : sc.locals[j][1] = x}
      cap    == {j \in DOMAIN sc.caps : sc.caps[j][1] = x}
      outer  == resolve_at(L, i - 1, x)
  IN  CASE local # {}              -> Lowered(L, Var(sc.locals[Max(local)][2]))
        [] local = {} /\ cap # {}  -> Lowered(L, Var(sc.caps[Min(cap)][2]))
        [] local = {} /\ cap = {} /\ i > 1 /\ outer.at[1] = "var" ->
             Lowered([outer.L EXCEPT !.scopes[i].caps = Append(@, <<x, sc.next, outer.at>>),
                                     !.scopes[i].next = @ + 1], Var(sc.next))
        [] OTHER                   -> Lowered(L, <<"global", x>>)

resolve(L, x) == resolve_at(L, Len(L.scopes), x)

lower_identifier(x, L) ==
  LET r == resolve(L, x)
  IN  IF r.at[1] = "var" THEN r ELSE emit_let(L, <<"global", L.globals[x], <<>>>>)

RECURSIVE lower_expr(_, _), lower_all(_, _), lower_pattern(_, _), lower_patterns(_, _), lower_stmts_into(_, _, _),
          lower_body(_, _), lower_body_tail(_, _), lower_tail(_, _), lower_cases(_, _, _), lower_dict_atom(_, _),
          lower_let(_, _)

lower_all(es, L) ==
  IF ~L.ok \/ es = <<>> THEN Lowered(L, <<>>)
  ELSE LET h == lower_expr(Head(es), L)
           t == lower_all(Tail(es), h.L)
       IN  Lowered(t.L, <<h.at>> \o t.at)

lower_pattern(p, L) ==
  CASE ~L.ok \/ p[1] = "_" -> Lowered(L, <<"wild">>)
    [] p[1] = "name" -> Lowered(push_local(alloc_var(L), p[2], Top(L).next), <<"bind", Top(L).next>>)
    [] p[1] = "lit"  -> Lowered(L, p)
    [] p[1] = "con"  -> LET r == lower_patterns(p[3], L) IN Lowered(r.L, <<"variant", p[2], r.at>>)
    [] p[1] = "tup"  -> LET r == lower_patterns(p[2], L) IN Lowered(r.L, <<"tuple", r.at>>)
lower_patterns(ps, L) ==
  IF ps = <<>> THEN Lowered(L, <<>>)
  ELSE LET h == lower_pattern(Head(ps), L)
           t == lower_patterns(Tail(ps), h.L)
       IN  Lowered(t.L, <<h.at>> \o t.at)

-----------------------------------------------------------------------------
(* Trait dispatch: the dictionary of methods an instance provides, a       *)
(* parameter that forwards one, or the result of an instance's constructor *)
(* applied to others.                                                      *)

lower_dict_atom(c, L) ==
  CASE c[1] = "inst"  -> emit_let(L, <<"global", L.globals[c[2]], <<>>>>)
    [] c[1] = "fwd"   -> resolve(L, c[2])
    [] c[1] = "chain" ->
         LET ctor  == emit_let(L, <<"global", L.globals[c[2]], <<>>>>)
             inner == lower_dict_atom(c[3], ctor.L)
         IN  emit_let(inner.L, <<"callclosure", 0, <<ctor.at, inner.at>>>>)

lower_dispatch(c, i, L) ==
  LET d == lower_dict_atom(c, L) IN emit_let(d.L, <<"method", i, <<d.at>>>>)

RECURSIVE lower_dicts(_, _)
lower_dicts(cs, L) ==
  IF cs = <<>> THEN Lowered(L, <<>>)
  ELSE LET h == lower_dict_atom(Head(cs), L)
           t == lower_dicts(Tail(cs), h.L)
       IN  Lowered(t.L, <<h.at>> \o t.at)

-----------------------------------------------------------------------------
(* Expressions. *)

\* <<"call", callee, dictionaries, arguments>>: the callee first, then the
\* dictionaries, then the arguments.
lower_call(e, L, kind) ==
  LET c == lower_expr(e[2], L)
      d == lower_dicts(e[3], c.L)
      a == lower_all(e[4], d.L)
  IN  emit_let(a.L, <<kind, 0, <<c.at>> \o d.at \o a.at>>)

\* <<"and"|"or", left, right>>: the right operand runs only when it matters.
lower_short_circuit(e, L) ==
  LET isAnd  == e[1] = "and"
      l      == lower_expr(e[2], L)
      result == Top(l.L).next
      L1     == alloc_var(l.L)
      r      == lower_expr(e[3], take_stmts(L1))
      rhs    == Append(Top(r.L).stmts, Let(result, Use(r.at)))
      short  == <<Let(result, Use(Const(<<"bool", ~isAnd>>)))>>
  IN  Lowered(push_stmt(restore_stmts(r.L, L1),
                Match(l.at, << <<<<"lit", <<"bool", TRUE>>>>, IF isAnd THEN rhs ELSE short>>,
                               <<<<"wild">>, IF isAnd THEN short ELSE rhs>> >>)), Var(result))

\* A block of its own; result is a variable to bind or -1.
lower_block_of(body, result, L) ==
  LET r == lower_stmts_into(body, result, take_stmts(L))
  IN  [L |-> restore_stmts(r, L), block |-> Top(r).stmts]

lower_stmts_into(body, result, L) ==
  LET assign(L2, at) == IF result = -1 THEN L2 ELSE push_stmt(L2, Let(result, Use(at)))
      isLet == Head(body)[1] = "let"
      r     == IF isLet THEN Lowered(lower_let(Head(body), L), UnitAtom) ELSE lower_expr(Head(body), L)
  IN  CASE ~L.ok          -> L
        [] body = <<>>    -> assign(L, UnitAtom)
        [] Len(body) = 1  -> assign(r.L, r.at)
        [] OTHER          -> lower_stmts_into(Tail(body), result, r.L)

\* The cases of a `when`, each with its pattern's names in scope for it alone.
lower_cases(cases, result, L) ==
  IF ~L.ok \/ cases = <<>> THEN [L |-> L, arms |-> <<>>]
  ELSE LET p == lower_pattern(Head(cases)[1], L)
           b == lower_block_of(Head(cases)[2], result, p.L)
           t == lower_cases(Tail(cases), result, truncate(b.L, L))
       IN  [L |-> t.L, arms |-> << <<p.at, b.block>> >> \o t.arms]

\* <<"if", subject, pattern, body, else bodies>>, the last with none or one.
\* The locals of an else body are not taken back.
lower_if(e, L) ==
  LET s      == lower_expr(e[2], L)
      result == Top(s.L).next
      L1     == alloc_var(s.L)
      then   == lower_cases(<<<<e[3], e[4]>>>>, IF e[5] = <<>> THEN -1 ELSE result, L1)
      else   == lower_block_of(e[5][1], result, then.L)
  IN  Lowered(IF e[5] = <<>> THEN push_stmt(then.L, Match(s.at, then.arms))
              ELSE push_stmt(else.L, Match(s.at, Append(then.arms, <<<<"wild">>, else.block>>))), Var(result))

lower_when(e, L) ==
  LET s == lower_expr(e[2], L)
      c == lower_cases(e[3], Top(s.L).next, alloc_var(s.L))
  IN  Lowered(push_stmt(c.L, Match(s.at, c.arms)), Var(Top(s.L).next))

\* <<"while", subject, pattern, body>>
lower_while(e, L) ==
  LET s == lower_expr(e[2], take_stmts(L))
      c == lower_cases(<<<<e[3], e[4]>>>>, -1, s.L)
      m == Match(s.at, << <<c.arms[1][1], Append(c.arms[1][2], Continue)>>, <<<<"wild">>, <<Break>>>> >>)
  IN  Lowered(push_stmt(restore_stmts(c.L, L), Loop(Append(Top(c.L).stmts, m))), UnitAtom)

\* A function of its own; the closure holds what it captured.
lower_closure(params, preprs, ret, body, L) ==
  LET b    == lower_body_tail(body, push_scope(L, params, preprs, ret))
      caps == Top(b).caps
      f    == finish_scope(b)
  IN  emit_let(f, <<"closure", Len(f.fns), [i \in DOMAIN caps |-> caps[i][3]]>>)

\* <<"fun", parameters with their representations, the result's, body>>
lower_fun(e, L) ==
  lower_closure([i \in DOMAIN e[2] |-> e[2][i][1]], [i \in DOMAIN e[2] |-> e[2][i][2]], e[3], e[4], L)

lower_defer(e, L) ==
  LET c == lower_closure(<<>>, <<>>, "Boxed", <<e[2]>>, L)
  IN  Lowered(push_stmt(c.L, <<"defer", c.at>>), UnitAtom)

\* <<"try", name, task, rest>>: await the task, bind its value, go on.
lower_try(e, L) ==
  LET t == lower_expr(e[3], [L EXCEPT !.scopes[Len(L.scopes)].async = TRUE])
      a == emit_let(t.L, <<"await", 0, <<t.at>>>>)
  IN  lower_body(e[4], push_local(a.L, e[2], a.at[2]))

\* <<"let", pattern, value>>: a name for a variable is an alias of it.
lower_let(e, L) ==
  LET v == lower_expr(e[3], L)
      p == lower_pattern(e[2], v.L)
  IN  CASE e[2][1] = "name" /\ v.at[1] = "var" -> push_local(v.L, e[2][2], v.at[2])
        [] e[2][1] = "name" /\ v.at[1] # "var" ->
             LET b == emit_let(v.L, Use(v.at)) IN push_local(b.L, e[2][2], b.at[2])
        [] e[2][1] = "_" -> v.L
        [] OTHER -> push_stmt(p.L, Match(v.at, <<<<p.at, <<>>>>>>))

\* A builtin named where no call follows is wrapped in a function.
lower_builtin_value_ref(x, arity, L) ==
  LET f == [params |-> [i \in 1..arity |-> i - 1], caps |-> <<>>, async |-> FALSE,
            body |-> <<Let(arity, <<"global", L.globals[x], <<>>>>),
                       Let(arity + 1, <<"callclosure", 0, [i \in 1..(arity + 1) |-> Var(IF i = 1 THEN arity ELSE i - 2)]>>),
                       Return(Var(arity + 1))>>,
            preprs |-> [i \in 1..arity |-> "Boxed"], ret |-> "Boxed", reprs |-> <<>>]
  IN  emit_let([L EXCEPT !.fns = Append(@, f)], <<"closure", Len(L.fns) + 1, <<>>>>)

\* <<"pipe", left, callee, dictionaries, arguments>>: a call of a constrained
\* function in a pipe is an error.
lower_chain(e, L) ==
  LET c == lower_expr(e[3], L)
      a == lower_all(<<e[2]>> \o e[5], c.L)
  IN  IF e[4] # <<>> THEN Lowered([L EXCEPT !.ok = FALSE], UnitAtom)
      ELSE emit_let(a.L, <<"callclosure", 0, <<c.at>> \o a.at>>)

lower_expr(e, L) ==
  CASE ~L.ok          -> Lowered(L, UnitAtom)
    [] e[1] = "lit"   -> Lowered(L, Const(e[2]))
    [] e[1] = "pipe"  -> lower_chain(e, L)
    [] e[1] = "id"    -> lower_identifier(e[2], L)
    [] e[1] = "value" -> lower_builtin_value_ref(e[2], e[3], L)
    [] e[1] = "call"  -> lower_call(e, L, "callclosure")
    [] e[1] = "method" -> lower_dispatch(e[2], e[3], L)
    [] e[1] \in {"and", "or"} -> lower_short_circuit(e, L)
    [] e[1] = "bin"   -> LET r == lower_all(<<e[3], e[4]>>, L) IN emit_let(r.L, <<"bin", e[2], r.at>>)
    [] e[1] = "not"   -> LET r == lower_expr(e[2], L) IN emit_let(r.L, <<"not", 0, <<r.at>>>>)
    [] e[1] = "tuple" -> LET r == lower_all(e[2], L) IN emit_let(r.L, <<"tuple", 0, r.at>>)
    [] e[1] = "elem"  -> LET r == lower_expr(e[2], L) IN emit_let(r.L, <<"elem", e[3], <<r.at>>>>)
    [] e[1] = "list"  -> LET r == lower_all(e[3], L) IN emit_let(r.L, <<"list", e[2], r.at>>)
    [] e[1] = "ctor"  -> emit_let(L, IF e[3] = 0 THEN <<"variant", e[2], <<>>>> ELSE <<"ctor", e[2], <<>>>>)
    [] e[1] = "if"    -> lower_if(e, L)
    [] e[1] = "when"  -> lower_when(e, L)
    [] e[1] = "while" -> lower_while(e, L)
    [] e[1] = "fun"   -> lower_fun(e, L)
    [] e[1] = "defer" -> lower_defer(e, L)
    [] e[1] = "try"   -> lower_try(e, L)
    [] e[1] = "using" -> lower_body(e[2], L)

lower_body(body, L) ==
  LET r == IF Head(body)[1] = "let" THEN Lowered(lower_let(Head(body), L), UnitAtom) ELSE lower_expr(Head(body), L)
  IN  CASE ~L.ok \/ body = <<>> -> Lowered(L, UnitAtom)
        [] Len(body) = 1 -> r
        [] OTHER         -> lower_body(Tail(body), r.L)

-----------------------------------------------------------------------------
(* Tail position: every path ends in a return. *)

lower_body_tail(body, L) ==
  LET isLet == Head(body)[1] = "let"
      next  == IF isLet THEN lower_let(Head(body), L) ELSE lower_expr(Head(body), L).L
  IN  CASE ~L.ok                     -> L
        [] body = <<>>               -> push_stmt(L, Return(UnitAtom))
        [] Len(body) = 1 /\ isLet    -> push_stmt(next, Return(UnitAtom))
        [] Len(body) = 1 /\ ~isLet   -> lower_tail(Head(body), L)
        [] OTHER                     -> lower_body_tail(Tail(body), next)

lower_tail_block(body, L) ==
  LET r == lower_body_tail(body, take_stmts(L)) IN [L |-> restore_stmts(r, L), block |-> Top(r).stmts]

RECURSIVE lower_tail_cases(_, _)
lower_tail_cases(cases, L) ==
  IF ~L.ok \/ cases = <<>> THEN [L |-> L, arms |-> <<>>]
  ELSE LET p == lower_pattern(Head(cases)[1], L)
           b == lower_tail_block(Head(cases)[2], p.L)
           t == lower_tail_cases(Tail(cases), truncate(b.L, L))
       IN  [L |-> t.L, arms |-> << <<p.at, b.block>> >> \o t.arms]

lower_when_tail(subject, cases, L) ==
  LET s == lower_expr(subject, L)
      c == lower_tail_cases(cases, s.L)
  IN  push_stmt(push_stmt(c.L, Match(s.at, c.arms)), Return(UnitAtom))

lower_if_tail(e, L) ==
  lower_when_tail(e[2], <<<<e[3], e[4]>>>> \o [i \in DOMAIN e[5] |-> <<<<"_">>, e[5][i]>>], L)

lower_call_tail(e, L) ==
  LET r == lower_call(e, L, "tailcall") IN push_stmt(r.L, Return(r.at))

lower_tail(e, L) ==
  CASE e[1] = "when" -> lower_when_tail(e[2], e[3], L)
    [] e[1] = "if"   -> lower_if_tail(e, L)
    [] e[1] = "call" -> lower_call_tail(e, L)
    [] OTHER         -> LET r == lower_expr(e, L) IN push_stmt(r.L, Return(r.at))

-----------------------------------------------------------------------------
(* Definitions: <<name, "value", dictionary parameters, expression>>,       *)
(* <<name, "builtin", tag, representation>> or <<name, "instance",          *)
(* dictionary parameters, methods>>.                                        *)

\* A function that takes no arguments and returns the definition's value.
lower_thunk(e, L) == finish_scope(lower_tail(e, push_scope(L, <<>>, <<>>, "Boxed")))

ThunkReturning(fid, L) ==
  LET c == emit_let(push_scope(L, <<>>, <<>>, "Boxed"), <<"closure", fid, <<>>>>)
  IN  finish_scope(push_stmt(c.L, Return(c.at)))

\* A constrained function takes its dictionaries before its parameters.
lower_constrained_def(dicts, e, L) ==
  LET params == dicts \o [i \in DOMAIN e[2] |-> e[2][i][1]]
      f      == finish_scope(lower_body_tail(e[4], push_scope(L, params, [i \in DOMAIN params |-> "Boxed"], "Boxed")))
  IN  ThunkReturning(Len(f.fns), f)

\* The dictionary of an instance, or the constructor of a conditional one.
build_dict_body(dicts, methods, L) ==
  LET m == lower_all(methods, push_scope(L, dicts, [i \in DOMAIN dicts |-> "Boxed"], "Boxed"))
      d == emit_let(m.L, <<"methods", 0, m.at>>)
  IN  finish_scope(push_stmt(d.L, Return(d.at)))

lower_instance(dicts, methods, L) ==
  LET b == build_dict_body(dicts, methods, L)
  IN  IF dicts = <<>> THEN b ELSE ThunkReturning(Len(b.fns), b)

\* A definition that could not be lowered becomes a thunk of nothing.
poison_global(L, L1) ==
  [L EXCEPT !.fns = Append(L1.fns, [params |-> <<>>, caps |-> <<>>, async |-> FALSE, body |-> <<Return(UnitAtom)>>,
                                    preprs |-> <<>>, ret |-> "Boxed", reprs |-> <<>>])]

lower_value_def(def, r) ==
  LET L1 == CASE def[2] = "builtin"                      -> r.L
              [] def[2] = "instance"                     -> lower_instance(def[3], def[4], r.L)
              [] def[2] = "value" /\ def[3] # <<>>       -> lower_constrained_def(def[3], def[4], r.L)
              [] OTHER                                   -> lower_thunk(def[4], r.L)
      L2 == IF L1.ok THEN L1 ELSE poison_global(r.L, L1)
  IN  [L |-> L2, inits |-> Append(r.inits, IF def[2] = "builtin" THEN <<"builtin", def[3], def[4]>>
                                           ELSE <<"thunk", Len(L2.fns)>>)]

\* __entry__: read main, call it, return what it gives.
build_entry(L) ==
  LET g == emit_let(push_scope(L, <<>>, <<>>, "Boxed"), <<"global", L.globals["main"], <<>>>>)
      c == emit_let(g.L, <<"callclosure", 0, <<g.at, UnitAtom>>>>)
  IN  finish_scope(push_stmt(c.L, Return(c.at)))

lower(defs) ==
  LET number == [x \in {defs[i][1] : i \in DOMAIN defs} |-> CHOOSE i \in DOMAIN defs : defs[i][1] = x]
      r      == FoldLeft(LAMBDA acc, d : lower_value_def(d, acc),
                         [L |-> [scopes |-> <<>>, fns |-> <<>>, globals |-> number, ok |-> TRUE], inits |-> <<>>], defs)
      L      == build_entry(r.L)
  IN  [fns |-> L.fns, globals |-> r.inits, entry |-> Len(L.fns), typed |-> FALSE]
=============================================================================

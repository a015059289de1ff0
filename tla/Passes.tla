------------------------------- MODULE Passes -------------------------------
(***************************************************************************)
(* The passes that reshape a lowered program before its representations    *)
(* are chosen: ir/src/simplify.rs, ir/src/resolve.rs, ir/src/loopify.rs.   *)
(* Each walks every block; a walk is a recursive operator that rebuilds a  *)
(* block from its rewritten parts.                                         *)
(***************************************************************************)
EXTENDS IR

EachFn(P, F(_)) == [P EXCEPT !.fns = [i \in DOMAIN P.fns |-> F(i)]]

-----------------------------------------------------------------------------
(* A match on a boolean literal becomes a two-way branch. *)

IsBoolLit(p, b) == p = <<"lit", <<"bool", b>>>>
is_catch_all(p) == p = <<"wild">>
OtherBool(p, b) == is_catch_all(p) \/ IsBoolLit(p, b)

fold_one(s) ==
  LET arms == s[3]
  IN  CASE s[1] # "match" -> s
        [] s[1] = "match" /\ Len(arms) = 1 /\ IsBoolLit(arms[1][1], TRUE) -> If(s[2], arms[1][2], <<>>)
        [] s[1] = "match" /\ Len(arms) = 2 /\ IsBoolLit(arms[1][1], TRUE) /\ OtherBool(arms[2][1], FALSE) ->
             If(s[2], arms[1][2], arms[2][2])
        [] s[1] = "match" /\ Len(arms) = 2 /\ IsBoolLit(arms[1][1], FALSE) /\ OtherBool(arms[2][1], TRUE) ->
             If(s[2], arms[2][2], arms[1][2])
        [] OTHER -> s

RECURSIVE fold_block(_)
fold_block(b) ==
  [i \in DOMAIN b |-> fold_one(WithBlocks(b[i], [j \in DOMAIN Blocks(b[i]) |-> fold_block(Blocks(b[i])[j])]))]

fold_bool_matches(P) == EachFn(P, LAMBDA i : [P.fns[i] EXCEPT !.body = fold_block(@)])

-----------------------------------------------------------------------------
(* Calls through a global whose value is known become direct calls. *)

\* The function that a thunk returns, with nothing captured, or 0.
closure_returned_by(f) ==
  IF /\ Len(f.body) = 2 /\ IsLet(f.body[1], "closure") /\ f.body[1][3][3] = <<>>
     /\ f.body[2] = Return(Var(f.body[1][2]))
  THEN f.body[1][3][2] ELSE 0

direct_call_targets(P) ==
  [g \in {h \in DOMAIN P.globals : P.globals[h][1] = "thunk" /\ closure_returned_by(P.fns[P.globals[h][2]]) # 0} |->
     closure_returned_by(P.fns[P.globals[g][2]])]

builtin_call_targets(P) ==
  [g \in {h \in DOMAIN P.globals : P.globals[h][1] = "builtin"} |-> <<P.globals[g][2], P.globals[g][3]>>]

\* The variables bound to a global, and to which.
collect_var_globals(f) ==
  LET refs == {s \in ToSet(Stmts(f.body)) : IsLet(s, "global")}
  IN  [v \in {s[2] : s \in refs} |-> (CHOOSE s \in refs : s[2] = v)[3][2]]

\* The target of a call through variable of a global that has one, in a set.
TargetOf(rv, vg, targets) ==
  IF rv[1] \in {"callclosure", "tailcall"} /\ rv[3][1][1] = "var" /\ rv[3][1][2] \in DOMAIN vg
     /\ vg[rv[3][1][2]] \in DOMAIN targets
  THEN {targets[vg[rv[3][1][2]]]} ELSE {}

rewrite_rvalue(rv, vg, targets) ==
  LET t == TargetOf(rv, vg, targets)
  IN  IF t = {} THEN rv
      ELSE <<IF rv[1] = "tailcall" THEN "taildirect" ELSE "call", CHOOSE f \in t : TRUE, Tail(rv[3])>>

rewrite_builtin_rvalue(rv, vg, builtins) ==
  LET t == TargetOf(rv, vg, builtins)
  IN  IF t = {} THEN rv ELSE <<"builtin", CHOOSE x \in t : TRUE, Tail(rv[3])>>

RECURSIVE rewrite_block(_, _, _, _), retain(_, _)
rewrite_block(b, vg, targets, builtin) ==
  LET Rewritten(rv) == IF builtin THEN rewrite_builtin_rvalue(rv, vg, targets) ELSE rewrite_rvalue(rv, vg, targets)
  IN  [i \in DOMAIN b |->
         CASE b[i][1] = "let"     -> Let(b[i][2], Rewritten(b[i][3]))
           [] b[i][1] = "discard" -> <<"discard", Rewritten(b[i][2])>>
           [] OTHER -> WithBlocks(b[i], [j \in DOMAIN Blocks(b[i]) |-> rewrite_block(Blocks(b[i])[j], vg, targets, builtin)])]

retain(b, used) ==
  LET kept == SelectSeq(b, LAMBDA s : ~(IsLet(s, "global") /\ s[2] \notin used))
  IN  [i \in DOMAIN kept |->
         WithBlocks(kept[i], [j \in DOMAIN Blocks(kept[i]) |-> retain(Blocks(kept[i])[j], used)])]

used_vars(body) == UNION {Reads(s) : s \in ToSet(Stmts(body))}
prune_dead_global_refs(body) == retain(body, used_vars(body))

Resolved(P, targets, builtin) ==
  EachFn(P, LAMBDA i : [P.fns[i] EXCEPT !.body =
              prune_dead_global_refs(rewrite_block(@, collect_var_globals(P.fns[i]), targets, builtin))])

resolve_direct_calls(P) == Resolved(P, direct_call_targets(P), FALSE)
resolve_builtins(P)     == Resolved(P, builtin_call_targets(P), TRUE)

-----------------------------------------------------------------------------
(* A function that only calls itself in tail position becomes a loop over  *)
(* its parameters.                                                         *)

is_dispatch(s) == s[1] \in {"match", "if"}
SelfCall(s, id) == IsLet(s, "taildirect") /\ s[3][2] = id

RECURSIVE check_block(_, _, _)
\* The self calls of a dispatch that end one of its blocks, or -1 when a
\* block ends in something a loop body cannot.
check_dispatch(id, s, arity) ==
  LET bs == Blocks(s)
      cs == [i \in DOMAIN bs |-> check_block(id, bs[i], arity)]
  IN  IF (s[1] = "match" /\ Last(s[3])[1] # <<"wild">>) \/ \E i \in DOMAIN cs : cs[i] = -1 THEN -1
      ELSE FoldLeft(LAMBDA x, y : x + y, 0, cs)

check_block(id, b, arity) ==
  LET n == Len(b)
  IN  CASE n = 0 -> -1
        [] n >= 2 /\ SelfCall(b[n - 1], id) /\ b[n] = Return(Var(b[n - 1][2])) /\ Len(b[n - 1][3][3]) = arity -> 1
        [] OTHER -> IF b[n][1] = "return" THEN 0
                    ELSE IF is_dispatch(b[n]) THEN check_dispatch(id, b[n], arity) ELSE -1

count_self_tailcalls(id, body) == Len(SelectSeq(Stmts(body), LAMBDA s : SelfCall(s, id)))

\* Assign the arguments to the parameters through temporaries, so that an
\* argument reads the parameters of this iteration.
MutTemps(params, args, n) == [t |-> <<>>,
                              sets |-> SelectSeq([i \in DOMAIN params |-> Let(params[i], Use(args[i]))],
                                                 LAMBDA s : s[3][3][1] # Var(s[2]))]   \* mutant: assigned one by one
Temps(params, args, n) ==
  LET moved == SelectSeq([i \in DOMAIN params |-> i], LAMBDA i : args[i] # Var(params[i]))
  IN  [t    |-> [k \in DOMAIN moved |-> Let(n + k - 1, Use(args[moved[k]]))],
       sets |-> [k \in DOMAIN moved |-> Let(params[moved[k]], Use(Var(n + k - 1)))]]
emit_reassign(params, args, n) == LET r == Temps(params, args, n) IN r.t \o r.sets

RECURSIVE transform_block(_, _, _, _, _), TransformAll(_, _, _, _, _)
\* [b, n]: the block with its returns as breaks and its self calls as
\* iterations, and the next unused variable.
transform_block(id, b, params, result, n) ==
  LET k    == Len(b)
      last == b[k]
      r    == TransformAll(id, Blocks(last), params, result, n)
  IN  CASE k >= 2 /\ SelfCall(b[k - 1], id) /\ last[1] = "return" ->
             LET re == emit_reassign(params, b[k - 1][3][3], n)
             IN  [b |-> SubSeq(b, 1, k - 2) \o re \o <<Continue>>, n |-> n + Len(re) \div 2]
        [] ~(k >= 2 /\ SelfCall(b[k - 1], id)) /\ last[1] = "return" ->
             [b |-> Front(b) \o <<Let(result, Use(last[2])), Break>>, n |-> n]
        [] OTHER -> [b |-> Append(Front(b), WithBlocks(last, r.bs)), n |-> r.n]
TransformAll(id, bs, params, result, n) ==
  IF bs = <<>> THEN [bs |-> <<>>, n |-> n]
  ELSE LET h == transform_block(id, Head(bs), params, result, n)
           t == TransformAll(id, Tail(bs), params, result, h.n)
       IN  [bs |-> <<h.b>> \o t.bs, n |-> t.n]

loopify_fn(id, f) ==
  LET n    == Len(f.body)
      d    == IF n >= 2 /\ f.body[n][1] = "return" /\ is_dispatch(f.body[n - 1]) THEN n - 1
              ELSE IF n >= 1 /\ is_dispatch(f.body[n]) THEN n ELSE 0
      rec  == check_dispatch(id, f.body[d], Len(f.params))
      v    == next_var(f)
      body == transform_block(id, <<f.body[d]>>, f.params, v, v + 1).b
  IN  IF d = 0 \/ (d > 0 /\ (rec <= 0 \/ rec # count_self_tailcalls(id, f.body))) THEN f
      ELSE [f EXCEPT !.body = <<Loop(SubSeq(@, 1, d - 1) \o body), Return(Var(v))>>]

loopify(P) == EachFn(P, LAMBDA i : loopify_fn(i, P.fns[i]))
=============================================================================

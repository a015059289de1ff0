-------------------------------- MODULE Cps --------------------------------
(***************************************************************************)
(* Functions that await, as state machines (ir/src/cps.rs and              *)
(* wasm/src/async_lower.rs).  A body is cut into basic blocks at every     *)
(* await and every branch; a poll function dispatches on the block to run, *)
(* and what is live across an await travels in a state record.             *)
(*                                                                         *)
(* A block is [stmts, term, resume]: resume is the variable an await binds *)
(* when this block continues after it, -1 when its result is discarded,    *)
(* and -2 for every other block.  A terminator is <<"jump", b>>,           *)
(* <<"branch", atom, b, b>>, <<"match", atom, arms>>, <<"ret", atom>> or   *)
(* <<"suspend", task, bind, b>>.                                           *)
(***************************************************************************)
EXTENDS IR

IsAwait(s) == (s[1] = "let" /\ s[3][1] = "await") \/ (s[1] = "discard" /\ s[2][1] = "await")
block_has_await(b) == \E s \in ToSet(Stmts(b)) : IsAwait(s)
block_has_defer(b) == \E s \in ToSet(Stmts(b)) : s[1] = "defer"
eligible(f) == f.async /\ block_has_await(f.body)

Simple(s) == (s[1] \in {"let", "discard"} /\ ~IsAwait(s)) \/ s[1] = "defer"

new_block(G, stmts, term) == [G |-> Append(G, [stmts |-> stmts, term |-> term, resume |-> -2]), b |-> Len(G) + 1]

-----------------------------------------------------------------------------
(* Cutting a body into blocks. *)

RECURSIVE build(_, _, _, _), BuildAll(_, _, _, _)
\* The chain of blocks that runs stmts, then goes to block next; ctx is the
\* header and the exit of the loop around it.
build(stmts, next, ctx, G) ==
  LET cut    == {i \in DOMAIN stmts : ~Simple(stmts[i])}
      at     == IF cut = {} THEN Len(stmts) + 1 ELSE Min(cut)
      simple == SubSeq(stmts, 1, at - 1)
      s      == stmts[at]
      rest   == build(SubSeq(stmts, at + 1, Len(stmts)), next, ctx, G)
      arms   == BuildAll(Blocks(s), rest.b, ctx, rest.G)
  IN  CASE cut = {} -> new_block(G, simple, <<"jump", next>>)
        [] cut # {} /\ s[1] = "return"   -> new_block(G, simple, <<"ret", s[2]>>)
        [] cut # {} /\ s[1] = "break"    -> new_block(G, simple, <<"jump", ctx.exit>>)
        [] cut # {} /\ s[1] = "continue" -> new_block(G, simple, <<"jump", ctx.header>>)
        [] cut # {} /\ s[1] = "let" ->
             new_block([rest.G EXCEPT ![rest.b].resume = s[2]], simple, <<"suspend", s[3][3][1], s[2], rest.b>>)
        [] cut # {} /\ s[1] = "discard" ->
             new_block([rest.G EXCEPT ![rest.b].resume = -1], simple, <<"suspend", s[2][3][1], -1, rest.b>>)
        [] cut # {} /\ s[1] = "if"    -> new_block(arms.G, simple, <<"branch", s[2], arms.bs[1], arms.bs[2]>>)
        [] cut # {} /\ s[1] = "match" ->
             new_block(arms.G, simple, <<"match", s[2], [i \in DOMAIN s[3] |-> <<s[3][i][1], arms.bs[i]>>]>>)
        [] cut # {} /\ s[1] = "loop" ->
             LET header == new_block(rest.G, <<>>, <<"jump", rest.b>>)
                 body   == build(s[2], header.b, [header |-> header.b, exit |-> rest.b], header.G)
             IN  new_block([body.G EXCEPT ![header.b].term = <<"jump", body.b>>], simple, <<"jump", header.b>>)
BuildAll(bs, next, ctx, G) ==
  IF bs = <<>> THEN [G |-> G, bs |-> <<>>]
  ELSE LET h == build(Head(bs), next, ctx, G)
           t == BuildAll(Tail(bs), next, ctx, h.G)
       IN  [G |-> t.G, bs |-> <<h.b>> \o t.bs]

term_successors(t) ==
  CASE t[1] = "jump"    -> <<t[2]>>
    [] t[1] = "suspend" -> <<t[4]>>
    [] t[1] = "branch"  -> <<t[3], t[4]>>
    [] t[1] = "match"   -> [i \in DOMAIN t[3] |-> t[3][i][2]]
    [] t[1] = "ret"     -> <<>>

remap_term(t, m) ==
  CASE t[1] = "jump"    -> <<"jump", m[t[2]]>>
    [] t[1] = "suspend" -> <<"suspend", t[2], t[3], m[t[4]]>>
    [] t[1] = "branch"  -> <<"branch", t[2], m[t[3]], m[t[4]]>>
    [] t[1] = "match"   -> <<"match", t[2], [i \in DOMAIN t[3] |-> <<t[3][i][1], m[t[3][i][2]]>>]>>
    [] t[1] = "ret"     -> t

RECURSIVE Discover(_, _, _)
\* The reachable blocks, depth first.
Discover(G, stack, order) ==
  IF stack = <<>> THEN order
  ELSE LET b == Last(stack)
       IN  IF b \in ToSet(order) THEN Discover(G, Front(stack), order)
           ELSE Discover(G, Front(stack) \o term_successors(G[b].term), Append(order, b))

\* Blocks 0, 1, ... with the entry first; the unreachable ones dropped.
renumber(G, entry) ==
  LET order == Discover(G, <<entry>>, <<>>)
      m     == [b \in ToSet(order) |-> (CHOOSE i \in DOMAIN order : order[i] = b) - 1]
  IN  [k \in 0..(Len(order) - 1) |-> [G[order[k + 1]] EXCEPT !.term = remap_term(@, m)]]

-----------------------------------------------------------------------------
(* What is live into each block. *)

TermReads(t) == IF t[1] = "jump" THEN {} ELSE VarsOf(<<t[2]>>)
TermBinds(t) == IF t[1] = "match" THEN UNION {PatternBinds(t[3][i][1]) : i \in DOMAIN t[3]} ELSE {}
Killed(bb, i) == {bb.resume} \cup {bb.stmts[j][2] : j \in {k \in 1..i : bb.stmts[k][1] = "let"}}

Gen(bb, captures) ==
  (UNION {Reads(bb.stmts[i]) \ Killed(bb, i - 1) : i \in DOMAIN bb.stmts}
   \cup (TermReads(bb.term) \ Killed(bb, Len(bb.stmts)))) \ captures
Kill(bb) == Killed(bb, Len(bb.stmts)) \cup TermBinds(bb.term)

RECURSIVE Fixpoint(_, _)
Fixpoint(B, live) ==
  LET Out(b) == UNION {live[s] : s \in ToSet(term_successors(B[b].term))}
      next   == [b \in DOMAIN B |-> live[b] \cup (Out(b) \ Kill(B[b]))]
  IN  IF next = live THEN live ELSE Fixpoint(B, next)

Mutliveness(B, captures) == [b \in DOMAIN B |-> Gen(B[b], captures)]   \* mutant: one pass, no fixpoint
liveness(B, captures) == Fixpoint(B, [b \in DOMAIN B |-> Gen(B[b], captures)])

-----------------------------------------------------------------------------
(* The poll function. *)

set_pc(pc, b) == Let(pc, Use(Const(<<"int", b>>)))
GetField(v, name) == <<"field", name, <<Var(v)>>>>

\* A tail call would return past the ready it must be wrapped in.
Detco(s) ==
  CASE IsLet(s, "tailcall")   -> Let(s[2], <<"callclosure", s[3][2], s[3][3]>>)
    [] IsLet(s, "taildirect") -> Let(s[2], <<"call", s[3][2], s[3][3]>>)
    [] OTHER                  -> s

\* What a block loads first: the arguments on entry; after an await its
\* result, the variables that were live and the cleanups.
Prologue(f, b, bb, live, v, hasDefer) ==
  LET vars  == SetToSortSeq(live[b], <)
      carry == IF hasDefer THEN <<Let(v.defers, GetField(v.state, <<"defers">>))>> ELSE <<>>
  IN  IF b = 0
      THEN [i \in DOMAIN f.params |-> Let(f.params[i], GetField(v.state, <<"a", i>>))]
           \o (IF hasDefer THEN <<Let(v.defers, <<"list", <<>>, <<>>>>)>> ELSE <<>>)
      ELSE IF bb.resume = -2 THEN <<>>
      ELSE (IF bb.resume = -1 THEN <<>> ELSE <<Let(bb.resume, Use(Var(v.resume)))>>)
           \o [i \in DOMAIN vars |-> Let(vars[i], GetField(v.state, <<"v", vars[i]>>))] \o carry

PollStmt(s, v) ==
  IF s[1] = "defer" THEN Let(v.defers, <<"list", <<"spread", "elem">>, <<Var(v.defers), s[2]>>>>) ELSE Detco(s)

\* A block ends by returning ready or pending, or sets pc for the next turn.
suspend_fields(live, t, v, hasDefer) ==
  LET vars == SetToSortSeq(live[t[4]] \ {t[3]}, <)
  IN  <<"record", <<<<"tag">>>> \o [i \in DOMAIN vars |-> <<"v", vars[i]>>] \o (IF hasDefer THEN <<<<"defers">>>> ELSE <<>>),
        <<Const(<<"int", t[4]>>)>> \o [i \in DOMAIN vars |-> Var(vars[i])] \o (IF hasDefer THEN <<Var(v.defers)>> ELSE <<>>)>>

Terminator(b, t, live, v, hasDefer) ==
  LET x == v.fresh + 2 * b
  IN  CASE t[1] = "ret" ->
             <<Let(x, <<"variant", "ready", <<t[2]>> \o (IF hasDefer THEN <<Var(v.defers)>> ELSE <<>>)>>), Return(Var(x))>>
        [] t[1] = "suspend" ->
             <<Let(x, suspend_fields(live, t, v, hasDefer)), Let(x + 1, <<"variant", "pending", <<t[2], Var(x)>>>>), Return(Var(x + 1))>>
        [] t[1] = "jump"   -> <<set_pc(v.pc, t[2])>>
        [] t[1] = "branch" -> <<If(t[2], <<set_pc(v.pc, t[3])>>, <<set_pc(v.pc, t[4])>>)>>
        [] t[1] = "match"  -> <<Match(t[2], [i \in DOMAIN t[3] |-> <<t[3][i][1], <<set_pc(v.pc, t[3][i][2])>>>>])>>

build_poll_fn(f) ==
  LET trap == new_block(<<>>, <<>>, <<"ret", UnitAtom>>)
      g    == build(f.body, trap.b, [header |-> 0, exit |-> 0], trap.G)
      B    == renumber(g.G, g.b)
      live == liveness(B, ToSet(f.caps))
      n    == next_var(f)
      v    == [state |-> n, resume |-> n + 1, pc |-> n + 2, defers |-> n + 3, fresh |-> n + 4]
      d    == block_has_defer(f.body)
      last == Cardinality(DOMAIN B) - 1
      Arm(b) == <<IF b = last THEN <<"wild">> ELSE <<"lit", <<"int", b>>>>,
                  Prologue(f, b, B[b], live, v, d) \o [i \in DOMAIN B[b].stmts |-> PollStmt(B[b].stmts[i], v)]
                  \o Terminator(b, B[b].term, live, v, d)>>
  IN  [params |-> <<v.state, v.resume>>, caps |-> f.caps, async |-> FALSE,
       body |-> <<Let(v.pc, GetField(v.state, <<"tag">>)),
                  Loop(<<Match(Var(v.pc), [i \in 1..(last + 1) |-> Arm(i - 1)])>>), Return(UnitAtom)>>,
       preprs |-> <<"Boxed", "Boxed">>, ret |-> "Boxed", reprs |-> <<>>]

\* The function itself now makes a cold task: its poll closure and the state
\* that holds its arguments.
TaskConstructor(f, poll) ==
  LET used == {0} \cup ToSet(f.params) \cup ToSet(f.caps)
      m    == Max(used)
  IN  [f EXCEPT !.async = FALSE,
        !.body = <<Let(m + 1, <<"closure", poll, [i \in DOMAIN f.caps |-> Var(f.caps[i])]>>),
                   Let(m + 2, <<"record", <<<<"tag">>>> \o [i \in DOMAIN f.params |-> <<"a", i>>],
                                <<Const(<<"int", 0>>)>> \o [i \in DOMAIN f.params |-> Var(f.params[i])]>>),
                   Let(m + 3, <<"variant", "__task", <<Var(m + 1), Var(m + 2)>>>>), Return(Var(m + 3))>>]

async_lower(P) ==
  LET polled == SelectSeq([i \in DOMAIN P.fns |-> i], LAMBDA i : eligible(P.fns[i]))
      At(i)  == CHOOSE k \in DOMAIN polled : polled[k] = i
  IN  [P EXCEPT !.fns = [i \in DOMAIN P.fns |-> IF i \in ToSet(polled) THEN TaskConstructor(P.fns[i], Len(P.fns) + At(i))
                                                ELSE P.fns[i]]
                        \o [k \in DOMAIN polled |-> build_poll_fn(P.fns[polled[k]])]]
=============================================================================

------------------------------- MODULE Typing -------------------------------
(***************************************************************************)
(* The analysis of one module (analyze of analyzer.rs): its constraints    *)
(* are generated, the equations solved one at a time, the generalized      *)
(* names instantiated one scheme at a time, the try and ?? expressions     *)
(* whose carrier became known linked to it and everything solved again,    *)
(* until nothing is left; then the traits and the when expressions are     *)
(* checked.  A source is a module or, to look at the solver alone, a list  *)
(* of equations.                                                           *)
(***************************************************************************)
EXTENDS Types

CONSTANTS Sources,          \* [kind |-> "module", defs] or [kind |-> "equations", eqs, n, vars, tuples]
          ConstrainModule(_),     \* Infer!constrain
          Exhaustive(_, _),       \* Matching!check_when_exhaustive
          EndOf(_),               \* Running!Ends
          Grounds(_, _, _)        \* the ground substitutions tried for the types and rows of a source

VARIABLES src, phase, cs, work, part, others, solved, subst, next, ok, tries, whens, fresh

vars == <<src, phase, cs, work, part, others, solved, subst, next, ok, tries, whens, fresh>>

Init ==
  /\ src \in Sources
  /\ phase = "constrain"
  /\ cs = <<>> /\ work = <<>> /\ others = <<>> /\ solved = <<>> /\ tries = <<>> /\ whens = <<>> /\ fresh = <<>>
  /\ part = Empty /\ subst = Empty
  /\ next = 1 /\ ok = TRUE

Constrain ==
  /\ phase = "constrain" /\ phase' = "unify"
  /\ IF src.kind = "module"
     THEN \E R \in {ConstrainModule(src.defs)} :
            /\ cs' = R.cs /\ next' = R.n /\ tries' = R.tries /\ whens' = R.whens /\ ok' = R.ok
     ELSE cs' = src.eqs /\ next' = src.n /\ UNCHANGED <<tries, whens, ok>>
  /\ UNCHANGED <<src, work, part, others, solved, subst, fresh>>

IsEq(c) == c[1] = "eq"
Sides(eqs) == [i \in DOMAIN eqs |-> <<eqs[i][2], eqs[i][3]>>]

\* unify: the equations first, then the rest.
Unify ==
  /\ phase = "unify" /\ phase' = "solve"
  /\ work' = Sides(SelectSeq(cs, IsEq))
  /\ others' = SelectSeq(cs, LAMBDA c : ~IsEq(c))
  /\ part' = Empty /\ solved' = <<>>
  /\ UNCHANGED <<src, cs, subst, next, ok, tries, whens, fresh>>

\* One turn of the loop of unify_eq_constraints.
Solve ==
  /\ phase = "solve" /\ work # <<>>
  /\ \E o \in UnifyPair(Head(work)[1], Head(work)[2], part, next) :
       /\ work' = o.push \o Tail(work)
       /\ part' = o.s /\ next' = o.n /\ ok' = (ok /\ o.ok)
       /\ phase' = IF Endless(o.s) THEN "stuck" ELSE phase
  /\ UNCHANGED <<src, cs, others, solved, subst, tries, whens, fresh>>

Settle ==
  /\ phase = "solve" /\ work = <<>> /\ phase' = "generalize"
  /\ \E s \in {Normalized(part)} :
       /\ solved' = Append(solved, s)
       /\ others' = apply_to_constraints(s, others)
  /\ UNCHANGED <<src, cs, work, part, subst, next, ok, tries, whens, fresh>>

-----------------------------------------------------------------------------
(* Schemes *)

\* A scheme: the variables and rows of a type, and the class constraints on
\* them, each once.  The scope around is the module's, which binds none.
generalize_with_constraints(ty, pool) ==
  [vars |-> free_vars(ty), rows |-> free_row_vars(ty), ty |-> ty,
   classes |-> SetToSeq({c \in ToSet(pool) : c[1] = "class" /\ free_vars(c[3]) \cap free_vars(ty) # {}})]

\* Fresh copies of a scheme's variables, rows and constraints.
instantiate_scheme_with_constraints(s, n) ==
  LET vs == SetToSeq(s.vars)
      rs == SetToSeq(s.rows)
      at(xs, x) == CHOOSE i \in DOMAIN xs : xs[i] = x
      copy == [types |-> [x \in s.vars |-> Var(n + at(vs, x) - 1)],
               rows  |-> [x \in s.rows |-> Row(<<>>, <<>>, n + Len(vs) + at(rs, x) - 1)]]
  IN  [ty |-> apply_to_type(copy, s.ty), classes |-> apply_to_constraints(copy, s.classes), n |-> n + Len(vs) + Len(rs)]

\* Every use of a scheme is an equation with a copy of its own.
instantiate_constraints(insts, ty, pool) ==
  LET s == generalize_with_constraints(ty, pool)
      size == Cardinality(s.vars) + Cardinality(s.rows)
      copies == [i \in DOMAIN insts |-> instantiate_scheme_with_constraints(s, next + (i - 1) * size)]
  IN  [eqs |-> [i \in DOMAIN insts |-> <<insts[i][3], copies[i].ty>>],
       classes |-> FlattenSeq([i \in DOMAIN insts |-> copies[i].classes]),
       n |-> next + Len(insts) * size]

\* unify_gen_inst_constraints: the first generalized name, its uses.
Generalize ==
  /\ phase = "generalize" /\ phase' = "solve"
  /\ \E g \in {i \in DOMAIN others : others[i][1] = "gen" /\ \A j \in 1..(i - 1) : others[j][1] # "gen"} :
       LET uses(c) == c[1] = "inst" /\ c[2] = others[g][2]
           rest    == SelectSeq(RemoveAt(others, g), LAMBDA c : ~uses(c))
       IN  \E R \in {instantiate_constraints(SelectSeq(others, uses), others[g][3], rest)} :
             /\ work' = R.eqs
             /\ others' = rest \o R.classes
             /\ fresh' = fresh \o R.classes
             /\ next' = R.n
  /\ part' = Empty
  /\ UNCHANGED <<src, cs, solved, subst, ok, tries, whens>>

Unified ==
  /\ phase = "generalize" /\ phase' = "dispatch"
  /\ \A i \in DOMAIN others : others[i][1] # "gen"
  /\ subst' = FoldRight(compose, solved, Empty)
  /\ UNCHANGED <<src, cs, work, part, others, solved, next, ok, tries, whens, fresh>>

-----------------------------------------------------------------------------
(* try and ?? *)

Linked(t, state, new, n)  == [t |-> [t EXCEPT !.state = state], cs |-> new, n |-> n, ok |-> TRUE, handled |-> TRUE]
Refused(t, state, n)      == [t |-> [t EXCEPT !.state = state], cs |-> <<>>, n |-> n, ok |-> FALSE, handled |-> TRUE]
NotYet(t, n)              == [t |-> t, cs |-> <<>>, n |-> n, ok |-> TRUE, handled |-> FALSE]
Same(a, b)                == <<"eq", a, b>>

\* A try on a task stays a try: its function's result becomes a task.
DispatchAwait(t, v, n) ==
  CASE t.state = "task"  -> NotYet(t, n)
    [] t.state = "empty" \/ (t.state = "open" /\ ~t.simple) -> Refused(t, "task", n)
    [] OTHER -> LET base == <<Same(t.alpha, v[3][1]), Same(t.whole, t.last)>>
                IN  IF t.tail = <<>> THEN Linked(t, "task", base, n)
                    ELSE Linked(t, "task", Append(base, Same(t.tail[1], Con("task", <<Var(n), v[3][2]>>))), n + 1)

\* A try on an option or a result becomes a call of then: the rest yields
\* the same carrier, with the same error.
do_try_dispatch(t, v, n) ==
  LET carrier == Con(v[1], [v[3] EXCEPT ![1] = Var(n)])
  IN  CASE v[1] = "task" -> DispatchAwait(t, v, n)
        [] v[1] # "task" /\ (t.state = "empty" \/ v[1] \notin {"option", "result"} \/ ~t.simple) -> Refused(t, "done", n)
        [] OTHER -> Linked(t, "done", <<Same(t.alpha, v[3][1]), Same(t.last, carrier), Same(t.whole, carrier),
                                        Same(Var(n + 1), FunOf(<<t.alpha>>, t.last))>>, n + 3)

\* a ?? b becomes a call of or-else, with b in a function.
do_coalesce_dispatch(t, v, n) ==
  IF v[1] \notin {"option", "result", "task"} THEN Refused(t, "done", n)
  ELSE Linked(t, "done", <<Same(IF v[1] = "task" THEN v ELSE v[3][1], t.whole),
                           Same(Var(n), FunOf(<<Con("nothing", <<>>)>>, t.last))>>, n + 2)

Dispatched(t, n) ==
  LET v == apply_to_type(subst, t.value)
  IN  CASE t.state = "done" \/ IsVar(v)             -> NotYet(t, n)
        [] t.state # "done" /\ ~IsVar(v) /\ t.kind = "try"  -> do_try_dispatch(t, v, n)
        [] t.state # "done" /\ ~IsVar(v) /\ t.kind = "else" -> do_coalesce_dispatch(t, v, n)

\* What a rewritten expression holds is now inside a function.
Enclosed(ts, i) ==
  IF ts[i].state # "done" THEN ts
  ELSE [j \in DOMAIN ts |-> IF j \in ts[i].within /\ ts[j].tail = ts[i].tail THEN [ts[j] EXCEPT !.tail = <<ts[i].last>>] ELSE ts[j]]

\* dispatch_try_nodes: every expression once, the inner ones first.
DispatchAll ==
  FoldLeft(LAMBDA W, i : LET d == Dispatched(W.ts[i], W.n)
                         IN  [ts |-> Enclosed([W.ts EXCEPT ![i] = d.t], i), n |-> d.n, cs |-> W.cs \o d.cs,
                              ok |-> W.ok /\ d.ok, any |-> W.any \/ d.handled],
           [ts |-> tries, n |-> next, cs |-> <<>>, ok |-> ok, any |-> FALSE], [i \in DOMAIN tries |-> i])

\* The fixpoint: links are solved with all that was there before.
Dispatch ==
  /\ phase = "dispatch"
  /\ \E W \in {DispatchAll} :
       /\ tries' = W.ts /\ next' = W.n /\ ok' = W.ok
       /\ cs' = cs \o W.cs
       /\ phase' = IF W.any THEN "unify" ELSE "check"
  /\ UNCHANGED <<src, work, part, others, solved, subst, whens, fresh>>

-----------------------------------------------------------------------------

\* The prelude's instances the sources ask for.
Instances == {<<"numeric", "int">>, <<"ord", "int">>, <<"ord", "string">>}
discharge ==
  \A c \in ToSet(cs \o fresh) : c[1] = "class" =>
    LET ty == apply_to_type(subst, c[3]) IN IsVar(ty) \/ <<c[2], ty[1]>> \in Instances

report_unresolved_try_nodes == \A i \in DOMAIN tries : tries[i].state \in {"done", "task"}

fill_in_placeholder(ty) == IF IsVar(ty) THEN apply_to_type(subst, ty) ELSE ty

Check ==
  /\ phase = "check"
  /\ ok' = (/\ ok /\ report_unresolved_try_nodes /\ discharge
            /\ \A w \in ToSet(whens) : Exhaustive(fill_in_placeholder(w[1]), w[2]))
  /\ phase' = IF ok' THEN "accepted" ELSE "rejected"
  /\ UNCHANGED <<src, cs, work, part, others, solved, subst, next, tries, whens, fresh>>

Done == phase \in {"accepted", "rejected", "stuck"} /\ UNCHANGED vars

Next == Constrain \/ Unify \/ Solve \/ Settle \/ Generalize \/ Unified \/ Dispatch \/ Check \/ Done

Spec == Init /\ [][Next]_vars

-----------------------------------------------------------------------------

RECURSIVE Canon(_)
\* A type up to the order of fields.
Canon(ty) ==
  IF ty[1] \in {"record", "partial"} THEN <<ty[1], {<<ty[2][i], Canon(ty[3][i])>> : i \in DOMAIN ty[3]}, ty[4]>>
  ELSE <<ty[1], [i \in DOMAIN ty[3] |-> Canon(ty[3][i])], ty[4]>>

Agree(s, a, b) == Canon(apply_to_type(s, a)) = Canon(apply_to_type(s, b))

\* When the constraints were solved without an error, the substitution the
\* batches compose to makes the sides of every equation of the module equal,
\* those of every batch and of every earlier round included, and applying it
\* twice is applying it once, which the single lookup of apply_to_type
\* relies on.
SolutionUnifies ==
  phase \in {"dispatch", "accepted"} /\ ok =>
    /\ \A c \in ToSet(cs) : IsEq(c) => Agree(subst, c[2], c[3])
    /\ \A v \in DOMAIN subst.types : Canon(apply_to_type(subst, subst.types[v])) = Canon(subst.types[v])

\* A type with neither variables nor rows nor a field twice.
RECURSIVE IsGround(_)
IsGround(ty) ==
  /\ ty[1] \notin {"var", "partial"} /\ ty[4] = 0
  /\ Cardinality(ToSet(ty[2])) = Len(ty[2])
  /\ \A i \in DOMAIN ty[3] : IsGround(ty[3][i])

Unifies(g, eqs) ==
  \A c \in ToSet(eqs) : IsGround(apply_to_type(g, c[2])) /\ IsGround(apply_to_type(g, c[3])) /\ Agree(g, c[2], c[3])

\* g is the solution followed by a choice for what it leaves open.
Factors(g, s, names) ==
  \A ty \in names : Canon(apply_to_type(g, apply_to_type(s, ty))) = Canon(apply_to_type(g, ty))

\* The solver loses no solution: equations some ground types satisfy are
\* solved without an error, and every such choice of types is an instance of
\* the substitution found, whatever the order the shared fields of two
\* records are taken in.
SolutionIsMostGeneral ==
  src.kind = "equations" /\ phase \in {"accepted", "rejected"} =>
    \A g \in Grounds(src, src.vars, (1..(src.n - 1)) \ src.vars) :
      Unifies(g, src.eqs) =>
        /\ ok
        /\ \E f \in Grounds(src, {}, src.n..(next - 1)) :
             Factors([g EXCEPT !.rows = f.rows @@ @], subst, {c[2] : c \in ToSet(src.eqs)} \cup {c[3] : c \in ToSet(src.eqs)})

\* A module the analyzer accepts does not go wrong when it runs: nothing is
\* called, projected, added or matched as what it is not, through
\* polymorphic definitions, open records and tuples, references and carriers
\* alike, and every when has a case for its subject.
AcceptedProgramsRun == src.kind = "module" /\ phase = "accepted" => EndOf(src.defs) # "wrong"
=============================================================================

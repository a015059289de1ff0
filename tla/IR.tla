--------------------------------- MODULE IR ---------------------------------
(***************************************************************************)
(* The intermediate representation of ir/src/types.rs and what the code    *)
(* wasm/src/emit.rs generates for it does when it runs.                    *)
(*                                                                         *)
(* A statement is a tuple <<kind, ...>>.  An rvalue is always              *)
(* <<kind, info, atoms>>: info is static (an operator, a function, a tag)  *)
(* and atoms are its operands in order, so that one operator, Operands,    *)
(* stands for every hand-written walk over the operands.  A value is a     *)
(* tuple whose first element is its kind; lists and dictionaries live in   *)
(* the heap, because two passes turn updates of them into mutations.       *)
(*                                                                         *)
(* Before the representation pass every value is boxed.  Once a program    *)
(* is "typed" an unboxed integer has kind "i64" and an unboxed bool "i32", *)
(* and an operation handed the wrong one traps: WebAssembly would refuse   *)
(* the module.                                                             *)
(***************************************************************************)
EXTENDS Integers, Sequences, FiniteSets, SequencesExt

Var(v)   == <<"var", v>>
Const(c) == <<"const", c>>
Unit     == <<"unit">>
UnitAtom == Const(Unit)

Let(v, rv)    == <<"let", v, rv>>
Return(a)     == <<"return", a>>
Match(a, as)  == <<"match", a, as>>
If(a, t, e)   == <<"if", a, t, e>>
Loop(b)       == <<"loop", b>>
Break         == <<"break">>
Continue      == <<"continue">>
Use(a)        == <<"use", 0, <<a>>>>

IsLet(s, kind) == s[1] = "let" /\ s[3][1] = kind

-----------------------------------------------------------------------------
(* The shape of statements. *)

\* The blocks nested directly in a statement.
Blocks(s) ==
  CASE s[1] = "if"    -> <<s[3], s[4]>>
    [] s[1] = "match" -> [i \in DOMAIN s[3] |-> s[3][i][2]]
    [] s[1] = "loop"  -> <<s[2]>>
    [] OTHER          -> <<>>

WithBlocks(s, bs) ==
  CASE s[1] = "if"    -> <<"if", s[2], bs[1], bs[2]>>
    [] s[1] = "match" -> <<"match", s[2], [i \in DOMAIN bs |-> <<s[3][i][1], bs[i]>>]>>
    [] s[1] = "loop"  -> <<"loop", bs[1]>>
    [] OTHER          -> s

\* The operands a statement itself reads, those of nested blocks left out.
Operands(s) ==
  CASE s[1] = "let"                                -> s[3][3]
    [] s[1] = "discard"                            -> s[2][3]
    [] s[1] \in {"if", "match", "return", "defer"} -> <<s[2]>>
    [] OTHER                                       -> <<>>

VarsOf(atoms) == {atoms[i][2] : i \in {j \in DOMAIN atoms : atoms[j][1] = "var"}}
Reads(s)      == VarsOf(Operands(s))

RECURSIVE PatternBinds(_), Stmts(_), StmtsOf(_)
\* The variables a pattern binds.
PatternBinds(p) ==
  LET All(ps) == UNION {PatternBinds(ps[i]) : i \in DOMAIN ps}
  IN  CASE p[1] = "bind"    -> {p[2]}
        [] p[1] = "variant" -> All(p[3])
        [] p[1] = "tuple"   -> All(p[2])
        [] p[1] = "list"    -> All(p[2]) \cup (IF p[3] = <<"bound">> THEN {p[4]} ELSE {})
        [] OTHER            -> {}

\* Every statement of a block, nested ones included, in the order of the text.
Stmts(b) == IF b = <<>> THEN <<>> ELSE StmtsOf(Head(b)) \o Stmts(Tail(b))
StmtsOf(s) == <<s>> \o FlattenSeq([i \in DOMAIN Blocks(s) |-> Stmts(Blocks(s)[i])])

\* Every variable a statement assigns: its target, or what its patterns bind.
Binds(s) == IF s[1] = "let" THEN {s[2]}
            ELSE IF s[1] = "match" THEN UNION {PatternBinds(s[3][i][1]) : i \in DOMAIN s[3]}
            ELSE {}

\* One past the greatest variable of a function.
next_var(f) ==
  LET all == UNION {Reads(s) \cup Binds(s) : s \in ToSet(Stmts(f.body))}
             \cup ToSet(f.params) \cup ToSet(f.caps)
  IN  IF all = {} THEN 0 ELSE Max(all) + 1

-----------------------------------------------------------------------------
(* Values. *)

IntKind(P)  == IF P.typed THEN "i64" ELSE "int"
BoolKind(P) == IF P.typed THEN "i32" ELSE "bool"
ReprKind(r) == CASE r = "I64" -> "i64" [] r = "I32" -> "i32" [] OTHER -> "boxed"
\* Is v represented the way r says?
HasRepr(v, r) == IF r = "Boxed" THEN v[1] \notin {"i64", "i32"} ELSE v[1] = ReprKind(r)

box(v)   == CASE v[1] = "i64" -> <<"int", v[2]>> [] v[1] = "i32" -> <<"bool", v[2]>> [] OTHER -> v
Unboxed(k) == CASE k = "int" -> "i64" [] k = "bool" -> "i32" [] OTHER -> "none"

AtomValue(P, a, env) ==
  CASE a[1] = "var"                          -> env[a[2]]
    [] a[1] = "const" /\ a[2][1] = "int"     -> <<IntKind(P), a[2][2]>>
    [] a[1] = "const" /\ a[2][1] = "bool"    -> <<BoolKind(P), a[2][2]>>
    [] OTHER                                 -> a[2]

RECURSIVE Deep(_, _)
\* A value with the heap read through, as a caller can observe it.
Deep(v, heap) ==
  CASE v[1] = "list"    -> <<"list", [i \in DOMAIN heap[v[2]].elems |-> Deep(heap[v[2]].elems[i], heap)]>>
    [] v[1] = "dict"    -> <<"dict", {<<e[1], Deep(e[2], heap)>> : e \in heap[v[2]].entries}>>
    [] v[1] = "tuple"   -> <<"tuple", [i \in DOMAIN v[2] |-> Deep(v[2][i], heap)]>>
    [] v[1] = "variant" -> <<"variant", v[2], [i \in DOMAIN v[3] |-> Deep(v[3][i], heap)]>>
    [] v[1] = "closure" -> <<"closure">>
    [] OTHER            -> v

arith(op, x, y) == CASE op = "add" -> x + y [] op = "sub" -> x - y [] op = "mul" -> x * y
compare(op, x, y) == CASE op = "lt" -> x < y [] op = "le" -> x <= y [] op = "gt" -> x > y
                       [] op = "ge" -> x >= y [] op = "eqi" -> x = y [] op = "nei" -> x # y

RECURSIVE TestPattern(_, _, _, _), TestAll(_, _, _, _)
\* Test a pattern against a value.  The result is [ok, env]; a binding made
\* before a later part fails stays made, as in the generated code.
TestPattern(p, v, env, heap) ==
  CASE p[1] = "wild"    -> [ok |-> TRUE, env |-> env]
    [] p[1] = "bind"    -> [ok |-> TRUE, env |-> [env EXCEPT ![p[2]] = v]]
    [] p[1] = "lit"     -> [ok |-> v = p[2], env |-> env]
    [] p[1] = "variant" -> IF v[1] # "variant" \/ v[2] # p[2] THEN [ok |-> FALSE, env |-> env]
                           ELSE TestAll(p[3], v[3], env, heap)
    [] p[1] = "tuple"   -> TestAll(p[2], v[2], env, heap)
    [] p[1] = "list"    -> LET es == heap[v[2]].elems IN
                           IF Len(es) # Len(p[2]) THEN [ok |-> FALSE, env |-> env]
                           ELSE TestAll(p[2], es, env, heap)
TestAll(ps, vs, env, heap) ==
  IF ps = <<>> THEN [ok |-> TRUE, env |-> env]
  ELSE LET r == TestPattern(Head(ps), Head(vs), env, heap)
       IN  IF r.ok THEN TestAll(Tail(ps), Tail(vs), r.env, heap) ELSE r

-----------------------------------------------------------------------------
(* Running.  A machine is [heap, out, glob, fuel]; a frame adds the        *)
(* function, its environment, its deferred closures and where control      *)
(* stands: ctl is "next", "ret", "brk", "cont", "fail" (an awaited task    *)
(* failed), "trap" or "fuel" (the bound on calls and iterations is spent). *)

Alloc(s, obj) == [s EXCEPT !.m.heap = Append(@, obj)]
Result(s, v)  == [s EXCEPT !.v = v]
Trap(s)       == [s EXCEPT !.ctl = "trap"]
NewRef(s)     == Len(s.m.heap) + 1

RECURSIVE Exec(_, _, _), Step(_, _, _), Rvalue(_, _, _), Run(_, _, _, _, _), Call(_, _, _, _, _),
          Apply(_, _, _, _), Drive(_, _, _), Poll(_, _, _, _, _), RunAll(_, _, _),
          Arms(_, _, _, _), Iterate(_, _, _)

\* The items of a list literal: plain elements, and spread lists unrolled.
emit_list_items(kinds, vs, heap) ==
  FlattenSeq([i \in DOMAIN kinds |->
                IF kinds[i] = "elem" THEN <<vs[i]>> ELSE heap[vs[i][2]].elems])

Inserted(es, k, v) == {e \in es : e[1] # k} \cup {<<k, v>>}

\* What a builtin does.  dict-insert-into mutates a dictionary that the
\* loop's token owns; list-push mutates its list.
host_call(tag, a, s) ==
  CASE tag = "dict-empty" -> Result(Alloc(s, [kind |-> "dict", entries |-> {}, owner |-> 0]), <<"dict", NewRef(s)>>)
    [] tag = "dict-insert" ->
         Result(Alloc(s, [kind |-> "dict", owner |-> 0,
                          entries |-> Inserted(s.m.heap[a[2][2]].entries, a[3], a[4])]), <<"dict", NewRef(s)>>)
    [] tag = "dict-mint-token" -> Result(Alloc(s, [kind |-> "token"]), <<"token", NewRef(s)>>)
    [] tag = "dict-insert-into" ->
         LET d == s.m.heap[a[2][2]]
             e == Inserted(d.entries, a[3], a[4])
         IN  IF d.owner = a[5][2] THEN [Result(s, a[2]) EXCEPT !.m.heap[a[2][2]].entries = e]
             ELSE Result(Alloc(s, [kind |-> "dict", owner |-> a[5][2], entries |-> e]), <<"dict", NewRef(s)>>)
    [] tag = "dict-size"  -> Result(s, <<"int", Cardinality(s.m.heap[a[1][2]].entries)>>)
    [] tag = "list-push"  -> [Result(s, Unit) EXCEPT !.m.heap[a[1][2]].elems = Append(@, a[2])]
    [] tag = "ref-new"    -> Result(Alloc(s, [kind |-> "ref", value |-> a[1]]), <<"ref", NewRef(s)>>)
    [] tag = "ref-get"    -> Result(s, s.m.heap[a[1][2]].value)
    [] tag = "ref-set"    -> [Result(s, Unit) EXCEPT !.m.heap[a[1][2]].value = a[2]]
    [] tag = "print"      -> [Result(s, Unit) EXCEPT !.m.out = Append(@, Deep(a[1], s.m.heap))]
    [] tag = "task-ok"    -> Result(s, <<"task", "ok", a[1]>>)
    [] tag = "task-fail"  -> Result(s, <<"task", "err", a[1]>>)

\* The outcome of a callee, seen by the frame s of its caller.
Returned(s, r) == [s EXCEPT !.m = r.m, !.v = r.v, !.ctl = IF r.ctl = "ret" THEN "next" ELSE r.ctl]

\* A call in tail position gives up its frame, so the cleanups it has
\* registered would be skipped, and the callee must return what this function
\* does: a function with a defer, or with another result, calls normally.
IsTail(s, ret) == ~s.defer /\ ret = s.ret
TailReturned(s, ret, r) ==
  IF IsTail(s, ret) /\ r.ctl = "ret" THEN [Returned(s, r) EXCEPT !.ctl = "ret"] ELSE Returned(s, r)

Rvalue(P, rv, s) ==
  LET a    == [i \in DOMAIN rv[3] |-> AtomValue(P, rv[3][i], s.env)]
      k    == rv[1]
      args == Tail(a)
      \* operands that the operation reads unboxed
      raw  == k = "bin" /\ rv[2] \notin {"eq", "ne"}
      bad  == \/ raw /\ \E i \in DOMAIN a : a[i][1] # IntKind(P)
              \/ k = "not" /\ a[1][1] # BoolKind(P)
              \/ /\ k \notin {"bin", "not", "use", "box", "call", "taildirect"} \/ (k = "bin" /\ ~raw)
                 /\ \E i \in DOMAIN a : ~HasRepr(a[i], "Boxed")
              \/ /\ P.typed /\ k \in {"call", "taildirect"}
                 /\ \E i \in DOMAIN a : ~HasRepr(a[i], P.fns[rv[2]].preprs[i])
              \/ k = "unbox" /\ (rv[2] = "Boxed" \/ Unboxed(a[1][1]) # ReprKind(rv[2]))
  IN  CASE bad -> Trap(s)
        [] k = "use" -> Result(s, a[1])
        [] k = "box" -> Result(s, box(a[1]))
        [] k = "unbox" -> Result(s, <<Unboxed(a[1][1]), a[1][2]>>)
        [] k = "not" -> Result(s, <<BoolKind(P), ~a[1][2]>>)
        [] k = "bin" /\ rv[2] \in {"add", "sub", "mul"} -> Result(s, <<IntKind(P), arith(rv[2], a[1][2], a[2][2])>>)
        [] k = "bin" /\ rv[2] \in {"eq", "ne"} ->
             Result(s, <<BoolKind(P), (Deep(a[1], s.m.heap) = Deep(a[2], s.m.heap)) = (rv[2] = "eq")>>)
        [] k = "bin" -> Result(s, <<BoolKind(P), compare(rv[2], a[1][2], a[2][2])>>)
        [] k = "tuple" -> Result(s, <<"tuple", a>>)
        [] k = "elem" -> Result(s, a[1][2][rv[2]])
        [] k = "list" -> Result(Alloc(s, [kind |-> "list", elems |-> emit_list_items(rv[2], a, s.m.heap)]), <<"list", NewRef(s)>>)
        [] k = "variant" -> Result(s, <<"variant", rv[2], a>>)
        [] k = "ctor" -> Result(s, <<"ctor", rv[2]>>)
        [] k = "record" -> Result(s, <<"record", [f \in ToSet(rv[2]) |-> a[CHOOSE i \in DOMAIN rv[2] : rv[2][i] = f]]>>)
        [] k = "field" -> Result(s, a[1][2][rv[2]])
        [] k = "methods" -> Result(s, <<"methods", a>>)
        [] k = "method" -> Result(s, a[1][2][rv[2]])
        [] k = "closure" -> Result(s, <<"closure", rv[2], a>>)
        [] k = "global" -> LET g == P.globals[rv[2]] IN
             IF g[1] = "builtin" THEN Result(s, g)
             ELSE IF s.m.glob[rv[2]] # <<"unset">> THEN Result(s, s.m.glob[rv[2]])
             ELSE LET r == Run(P, g[2], <<>>, <<>>, s.m) IN [Returned(s, r) EXCEPT !.m.glob[rv[2]] = r.v]
        [] k = "call" -> Returned(s, Call(P, rv[2], <<>>, a, s.m))
        [] k = "taildirect" -> TailReturned(s, P.fns[rv[2]].ret, Call(P, rv[2], <<>>, a, s.m))
        [] k = "builtin" -> LET r == host_call(rv[2][1], a, s)
                            IN  IF P.typed /\ rv[2][2] = "I64" THEN Result(r, <<"i64", r.v[2]>>) ELSE r
        [] k = "callclosure" -> Returned(s, Apply(P, a[1], args, s.m))
        [] k = "tailcall" -> TailReturned(s, "Boxed", Apply(P, a[1], args, s.m))
        [] k = "await" -> Returned(s, Drive(P, a[1], s.m))

\* Call a function value: a builtin, a variant constructor or a closure.
Apply(P, c, args, m) ==
  CASE c[1] = "builtin" -> [host_call(c[2], args, [m |-> m, ctl |-> "next", v |-> Unit]) EXCEPT !.ctl = "ret"]
    [] c[1] = "ctor"    -> [m |-> m, ctl |-> "ret", v |-> <<"variant", c[2], args>>]
    [] c[1] = "closure" -> Call(P, c[2], c[3], args, m)
    [] OTHER            -> [m |-> m, ctl |-> "trap", v |-> Unit]

\* Run deferred closures in order, ignoring what they return.
RunAll(P, cs, m) ==
  IF cs = <<>> THEN m ELSE RunAll(P, Tail(cs), Apply(P, Head(cs), <<Unit>>, m).m)

Arms(P, v, arms, s) ==
  IF arms = <<>> THEN s
  ELSE LET t == TestPattern(Head(arms)[1], v, s.env, s.m.heap)
       IN  IF t.ok THEN Exec(P, Head(arms)[2], [s EXCEPT !.env = t.env])
           ELSE Arms(P, v, Tail(arms), [s EXCEPT !.env = t.env])

Iterate(P, b, s) ==
  IF s.m.fuel = 0 THEN [s EXCEPT !.ctl = "fuel"]
  ELSE LET r == Exec(P, b, [s EXCEPT !.m.fuel = @ - 1])
       IN  CASE r.ctl \in {"next", "cont"} -> Iterate(P, b, [r EXCEPT !.ctl = "next"])
             [] r.ctl = "brk" -> [r EXCEPT !.ctl = "next"]
             [] OTHER -> r

Step(P, st, s) ==
  LET a == IF st[1] \in {"if", "match", "return", "defer"} THEN AtomValue(P, st[2], s.env) ELSE Unit
  IN  CASE st[1] = "let" -> LET r == Rvalue(P, st[3], s)
                            IN  IF r.ctl = "next" THEN [r EXCEPT !.env[st[2]] = r.v] ELSE r
        [] st[1] = "discard" -> Rvalue(P, st[2], s)
        [] st[1] = "if" -> IF a[1] # BoolKind(P) THEN Trap(s) ELSE Exec(P, IF a[2] THEN st[3] ELSE st[4], s)
        [] st[1] = "match" -> IF ~HasRepr(a, "Boxed") THEN Trap(s) ELSE Arms(P, a, st[3], s)
        [] st[1] = "loop" -> Iterate(P, st[2], s)
        [] st[1] = "break" -> [s EXCEPT !.ctl = "brk"]
        [] st[1] = "continue" -> [s EXCEPT !.ctl = "cont"]
        [] st[1] = "defer" -> [s EXCEPT !.defers = <<a>> \o @]
        [] st[1] = "return" -> IF P.typed /\ ~HasRepr(a, s.ret) THEN Trap(s)
                               ELSE [s EXCEPT !.m = RunAll(P, s.defers, @), !.v = a, !.ctl = "ret"]

Exec(P, b, s) ==
  IF b = <<>> \/ s.ctl # "next" THEN s ELSE Exec(P, Tail(b), Step(P, Head(b), s))

Frame(f, caps, args, m) ==
  [m |-> [m EXCEPT !.fuel = @ - 1], ctl |-> "next", v |-> Unit, defers |-> <<>>, ret |-> f.ret,
   defer |-> \E s \in ToSet(Stmts(f.body)) : s[1] = "defer",
   env |-> [v \in 0..(next_var(f) - 1) |->
              IF v \in ToSet(f.params) THEN args[CHOOSE i \in DOMAIN f.params : f.params[i] = v]
              ELSE IF v \in ToSet(f.caps) THEN caps[CHOOSE i \in DOMAIN f.caps : f.caps[i] = v]
              ELSE Unit]]

Run(P, fid, caps, args, m) ==
  IF m.fuel = 0 THEN [m |-> m, ctl |-> "fuel", v |-> Unit]
  ELSE LET r == Exec(P, P.fns[fid].body, Frame(P.fns[fid], caps, args, m))
           c == IF r.ctl = "next" THEN "ret" ELSE r.ctl
       IN  [m |-> IF c = "fail" THEN RunAll(P, r.defers, r.m) ELSE r.m, ctl |-> c, v |-> r.v]

\* Call a function.  One that still awaits makes a task that runs when it is
\* driven; a failure it awaits ends it, its cleanups first.
Call(P, fid, caps, args, m) ==
  IF P.fns[fid].async THEN [m |-> m, ctl |-> "ret", v |-> <<"task", "cold", fid, caps, args>>]
  ELSE Run(P, fid, caps, args, m)

-----------------------------------------------------------------------------
(* The task driver, one fiber of it (Scheduler has the rest): a task runs   *)
(* to its value, or to its failure.                                         *)

Drive(P, t, m) ==
  CASE t[1] = "task" /\ t[2] = "ok"   -> [m |-> m, ctl |-> "ret", v |-> t[3]]
    [] t[1] = "task" /\ t[2] = "err"  -> [m |-> m, ctl |-> "fail", v |-> t[3]]
    [] t[1] = "task" /\ t[2] = "cold" ->
         LET r == Run(P, t[3], t[4], t[5], m)
         IN  IF r.ctl = "ret" THEN Drive(P, r.v, r.m) ELSE r
    [] t[1] = "variant" /\ t[2] = "__task" -> Poll(P, t[3][1], t[3][2], Unit, m)
    [] OTHER -> [m |-> m, ctl |-> "trap", v |-> Unit]

\* Advance a poll function: ready runs its cleanups, last pushed first, then
\* the task it returned; pending drives the subtask and resumes or, when it
\* fails, runs the cleanups the state record carries.
Poll(P, pc, st, resume, m) ==
  LET r == Apply(P, pc, <<st, resume>>, m)
      Cleanups(l) == Reverse(r.m.heap[l[2]].elems)
  IN  IF r.ctl # "ret" THEN r
      ELSE IF r.v[2] = "ready"
      THEN Drive(P, r.v[3][1], IF Len(r.v[3]) = 2 THEN RunAll(P, Cleanups(r.v[3][2]), r.m) ELSE r.m)
      ELSE LET d  == Drive(P, r.v[3][1], r.m)
               st2 == r.v[3][2]
           IN  CASE d.ctl = "ret" -> Poll(P, pc, st2, d.v, d.m)
                 [] d.ctl = "fail" /\ <<"defers">> \in DOMAIN st2[2] ->
                      [d EXCEPT !.m = RunAll(P, Reverse(@.heap[st2[2][<<"defers">>][2]].elems), @)]
                 [] OTHER -> d

\* What running the program shows: how it ended, the value, what was printed.
Observe(P, fuel) ==
  LET m0 == [heap |-> <<>>, out |-> <<>>, fuel |-> fuel,
             glob |-> [g \in DOMAIN P.globals |-> <<"unset">>]]
      r  == Run(P, P.entry, <<>>, <<>>, m0)
      d  == IF r.ctl = "ret" /\ r.v[1] \in {"task", "variant"} /\ (r.v[1] = "variant" => r.v[2] = "__task")
            THEN Drive(P, r.v, r.m) ELSE r
  IN  [end |-> d.ctl, value |-> Deep(d.v, d.m.heap), out |-> d.m.out]
=============================================================================

------------------------------ MODULE Compile ------------------------------
(***************************************************************************)
(* The middle end as emit_with_options of wasm/src/lib.rs runs it: a       *)
(* program is lowered and then rewritten by one pass after another.  A     *)
(* behaviour compiles one program; each step is one pass over the whole    *)
(* of it.  Record shape specialization is left out: no program here has a  *)
(* record.                                                                 *)
(***************************************************************************)
EXTENDS Passes, Cps, Reuse, Repr

CONSTANTS LowerSource(_),    \* lowering (Lower!lower)
          RunSource(_),      \* what a source program does (Source!Meaning)
          RunIR(_, _),       \* what an IR program does (IR!Observe)
          Programs,          \* the programs compiled
          Fuel               \* the bound on calls and iterations of a run

ASSUME CompileAssumption == Fuel \in Nat

VARIABLES src, expect, prog, stage

vars == <<src, expect, prog, stage>>

Init ==
  /\ src \in Programs
  /\ stage = "source" /\ prog = <<>>
  /\ expect = RunSource(src)

\* One pass: the program that comes out of it, and the next stage.
Pass(from, to, out) ==
  /\ stage = from /\ stage' = to
  /\ prog' = out
  /\ UNCHANGED <<src, expect>>

RunLower       == Pass("source", "lowered", LowerSource(src))
FoldBools      == Pass("lowered", "folded", fold_bool_matches(prog))
LowerAsync     == Pass("folded", "polled", async_lower(prog))
ResolveDirect  == Pass("polled", "direct", resolve_direct_calls(prog))
Loopify        == Pass("direct", "looped", loopify(prog))
ResolveBuiltin == Pass("looped", "builtins", resolve_builtins(prog))
ReuseInPlace   == Pass("builtins", "reused", reuse(prog))
Monomorphize   == Pass("reused", "signed", monomorphize_signatures(prog))
Represent      == Pass("signed", "typed", represent(prog))
Emit           == Pass("typed", "emitted", Emitted(prog))
Done           == stage = "emitted" /\ UNCHANGED vars

Next ==
  \/ RunLower \/ FoldBools \/ LowerAsync \/ ResolveDirect \/ Loopify
  \/ ResolveBuiltin \/ ReuseInPlace \/ Monomorphize \/ Represent \/ Emit \/ Done

Spec == Init /\ [][Next]_vars

-----------------------------------------------------------------------------

\* A run of the compiled program ends the way the source program's does,
\* with the same value and the same output in the same order.
SameMeaning == RunIR(prog, Fuel) = expect

\* Lowering (lower.rs) and the folding of boolean matches keep the meaning:
\* names resolve to the binding the source gives them, every operand runs
\* once and in order, every path of a tail position returns.
LoweringKeepsMeaning == stage \in {"lowered", "folded"} => SameMeaning

\* Functions that await keep their meaning as state machines (cps.rs,
\* async_lower.rs): each variable read after an await holds what it held
\* before it, loops and branches around an await go on where they should,
\* and the cleanups of a function run once, last first, also when an
\* awaited task fails.
AwaitKeepsMeaning == stage = "polled" => SameMeaning

\* Direct calls, loops in place of tail calls and resolved builtins keep the
\* meaning (resolve.rs, loopify.rs): the arguments of the next iteration all
\* read the parameters of this one.
LoopsKeepMeaning == stage \in {"direct", "looped", "builtins"} => SameMeaning

\* Updating a dictionary or a list in place is never seen (reuse.rs): not by
\* the caller that passed it, not through another parameter, a closure, a
\* tuple or a memoized global.
InPlaceKeepsMeaning == stage \in {"reused", "signed"} => SameMeaning

\* Unboxed parameters, results and variables keep the meaning (repr.rs,
\* lib.rs), for functions also used as values too, and the functions left
\* out of the module are never called.  Every operand has the representation
\* its reader takes, in every function, reachable or not (validate_reprs).
UnboxedKeepsMeaning ==
  stage \in {"typed", "emitted"} => SameMeaning /\ \A i \in DOMAIN prog.fns : validate_reprs(prog, prog.fns[i])
=============================================================================

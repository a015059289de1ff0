----------------------------- MODULE Structured ------------------------------
(***************************************************************************)
(* What structured concurrency promises, without tables, generations or    *)
(* queues. Tasks run inside scopes and scopes inside scopes. The task that *)
(* opens a scope waits for it. A task ends on its own when it waits for no *)
(* scope, or because a scope around it is unwinding; a scope closes when   *)
(* nothing is left inside; while one unwinds, nothing new is started.      *)
(***************************************************************************)
CONSTANTS TaskRefs, ScopeRefs,   \* the references tasks and scopes may have
          Main                   \* that of the program's first task

VARIABLES
    running,    \* the tasks underway, each with the scopes it is inside
    ended,      \* the references of tasks that have ended
    open,       \* the open scopes, with the scopes around them and who opened them
    closed,     \* the references of scopes that have closed
    unwinding   \* the references of open scopes that are ending

structuredVars == <<running, ended, open, closed, unwinding>>

Inside(r) == {x \in running \cup open : r \in x.within}
Waits(t)  == \E s \in open : s.opener = t.ref

Init == /\ running = {[ref |-> Main, within |-> {}]}
        /\ ended = {} /\ open = {} /\ closed = {} /\ unwinding = {}

\* A task starts in an open scope; a reference never comes to name another task.
Start(s, r) ==
    /\ unwinding = {}
    /\ r \notin ended \cup {t.ref : t \in running}
    /\ running' = running \cup {[ref |-> r, within |-> s.within \cup {s.ref}]}
    /\ UNCHANGED <<ended, open, closed, unwinding>>

\* A task that waits for no scope opens one inside its own.
Enter(t, r) ==
    /\ unwinding = {} /\ ~Waits(t)
    /\ r \notin closed \cup {s.ref : s \in open}
    /\ open' = open \cup {[ref |-> r, within |-> t.within, opener |-> t.ref]}
    /\ UNCHANGED <<running, ended, closed, unwinding>>

\* A task ends, on its own or as a scope around it unwinds. A scope whose body it
\* was unwinds from then on.
End(t) ==
    /\ (~Waits(t) /\ unwinding = {}) \/ t.within \cap unwinding # {}
    /\ running' = running \ {t}
    /\ ended' = ended \cup {t.ref}
    /\ unwinding' = unwinding \/ \E r \in t.within : unwinding' = unwinding \cup {r}
    /\ UNCHANGED <<open, closed>>

\* A scope is cancelled.
Unwind(s) == unwinding' = unwinding \cup {s.ref} /\ UNCHANGED <<running, ended, open, closed>>

\* An unwinding scope closes: no task or scope is inside, at any depth.
Close(s) ==
    /\ s.ref \in unwinding /\ Inside(s.ref) = {}
    /\ open' = open \ {s} /\ closed' = closed \cup {s.ref}
    /\ unwinding' = unwinding \ {s.ref}
    /\ UNCHANGED <<running, ended>>

Next == \/ \E s \in open : Unwind(s) \/ Close(s) \/ \E r \in TaskRefs : Start(s, r)
        \/ \E t \in running : End(t) \/ \E r \in ScopeRefs : Enter(t, r)

Spec == Init /\ [][Next]_structuredVars
=============================================================================

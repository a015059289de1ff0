------------------------------ MODULE Scheduler ------------------------------
(***************************************************************************)
(* The structured-concurrency scheduler of the Pluma runtime: the code     *)
(* that wasm/src/helpers/task.rs emits for run_task and the functions it   *)
(* calls. Fibers and scopes are rows of two tables; a fiber id or scope id *)
(* is an index, and the rows of ended fibers and scopes go on free lists   *)
(* from which later spawns take them.                                      *)
(*                                                                         *)
(* What a fiber computes is left open: while it is pumped it may do any    *)
(* sequence of scheduler operations its scope handles allow, then it parks *)
(* or ends. cancel_scope, reap_fiber and try_finalize call each other; the *)
(* calls still to be made are kept in `work`, the next one first.          *)
(*                                                                         *)
(* Every reference to a row (ready entry, timer, waiter, handle, ...)      *)
(* carries the generation of the row it was made for. The code has no such *)
(* field: no guard reads it, and only properties do.                       *)
(***************************************************************************)
EXTENDS Integers, Sequences, SequencesExt, FiniteSets

CONSTANTS
  MaxFibers,    \* bound: rows of the fiber table
  MaxScopes,    \* bound: rows of the scope table
  MaxGen,       \* bound: how often one row is handed out
  MaxTimers,    \* bound: timers armed at a time
  MaxPending,   \* bound: cancellations queued at a time
  MaxQueue,     \* bound: entries in the ready queue when a fiber yields
  Durations,    \* lengths of sleeps and deadlines
  Ops,          \* operations the program uses
  StaleRefs,    \* may a row be handed out again while something still names it?
  CaptureInner, \* may a task use a handle of a scope nested in its own?
  AnyDrainer,   \* may fibers other than a scope's body drain it?
  NestedFree    \* free lists a nested run_task of a cleanup may leave

AllOps == {"spawn", "cancel", "cancel-after", "yield", "sleep", "await", "await-manual",
           "next", "scope", "manual", "io", "fail", "defer-cancel", "defer-spawn", "defer-task"}

ASSUME SchedulerAssumption ==
  /\ MaxFibers \in Nat \ {0} /\ MaxScopes \in Nat \ {0} /\ MaxGen \in Nat \ {0}
  /\ MaxTimers \in Nat /\ MaxPending \in Nat /\ MaxQueue \in Nat
  /\ Durations \subseteq Nat \ {0}
  /\ Ops \subseteq AllOps
  /\ StaleRefs \in BOOLEAN /\ CaptureInner \in BOOLEAN /\ AnyDrainer \in BOOLEAN
  /\ NestedFree \subseteq Seq(0..(MaxFibers - 1)) \X Seq(0..(MaxScopes - 1))

Fid == 0..(MaxFibers - 1)
Sid == 0..(MaxScopes - 1)
Root == 0
ROOT_SCOPE == 0
NO_SCOPE   == -1
NoFiber    == -1

Outcome == {"none", "ok", "err", "cancelled"}
Wait    == {"none", "sleep", "handle", "next", "scope", "io"}

Ref(id, gen) == [id |-> id, gen |-> gen]
FidRef == [id : Fid, gen : Nat]
SidRef == [id : Sid, gen : Nat]
None   == [id |-> -1, gen |-> 0]

Fiber ==
  [alive : BOOLEAN, scope : Sid, runs_scope : Sid \cup {NO_SCOPE}, res_kind : Outcome,
   wait_kind : Wait, wait_arg : FidRef \cup SidRef \cup {None}, waiters : Seq(FidRef),
   knows : SUBSET SidRef, gen : Nat]

Scope ==
  [manual : BOOLEAN, cancelled : BOOLEAN, finalized : BOOLEAN, body : Fid,
   children : Seq(FidRef), awaiter : FidRef \cup {None}, bd_kind : Outcome,
   fail_set : BOOLEAN, completed : Nat, next_waiters : Seq(FidRef), live : Int,
   enclosing : SUBSET SidRef, gen : Nat]

Entry == [fid : FidRef, focus : {"start", "resume"}]
Timer == [at : Nat, kind : {"wake"}, arg : FidRef] \cup [at : Nat, kind : {"deadline"}, arg : SidRef]
Call  == [fn : {"reap_child", "reap_fiber", "run_defers"}, id : Fid, of : Sid]
         \cup [fn : {"cancel_scope", "mark_cancelled", "reap_children", "try_finalize",
                    "fire_timers"}, id : Sid, of : Sid]

VARIABLES
  fibers,      \* the fiber table
  nfibers,     \* its length
  scopes,      \* the scope table
  nscopes,     \* its length
  free_fibers, \* recycled fiber rows, a stack
  free_scopes, \* recycled scope rows, a stack
  ready,       \* ready[rhead..]: the queue of fibers to pump
  timers,      \* armed timers, at = time left
  pending,     \* scopes to cancel between steps, a stack
  root_kind,   \* outcome of the root fiber
  current,     \* current_fiber while one is pumped
  starting,    \* the scope whose body function start_scope is calling
  work,        \* calls of the cancel / reap / finalize functions to make
  halted       \* run_task left its loop

tables  == <<fibers, nfibers, scopes, nscopes, free_fibers, free_scopes>>
queues  == <<ready, timers, pending>>
control == <<root_kind, current, starting, work, halted>>
vars == <<tables, queues, control>>

-----------------------------------------------------------------------------
(* Rows. *)

\* A row handed out: fiber_fields, scope_fields.
NewFiber(s, runs, knows, old) ==
  [alive |-> TRUE, scope |-> s, runs_scope |-> runs, res_kind |-> "none",
   wait_kind |-> "none", wait_arg |-> None, waiters |-> <<>>, knows |-> knows,
   gen |-> old.gen + 1]

NewScope(manual, awaiter, enclosing, old) ==
  [manual |-> manual, cancelled |-> FALSE, finalized |-> FALSE, body |-> Root,
   children |-> <<>>, awaiter |-> awaiter, bd_kind |-> "none", fail_set |-> FALSE,
   completed |-> 0, next_waiters |-> <<>>, live |-> 0, enclosing |-> enclosing,
   gen |-> old.gen + 1]

NoFiberRow == [NewFiber(ROOT_SCOPE, NO_SCOPE, {}, [gen |-> -1]) EXCEPT !.alive = FALSE]
NoScopeRow == [NewScope(FALSE, None, {}, [gen |-> -1]) EXCEPT !.finalized = TRUE]

FiberRef(f) == Ref(f, fibers[f].gen)
ScopeRef(s) == Ref(s, scopes[s].gen)

\* acquire_slot: the last recycled index, else a fresh one at the table's end.
Slot(free, n) == IF free # <<>> THEN Last(free) ELSE n
FreeAfter(free) == IF free # <<>> THEN Front(free) ELSE free
MutLenAfter(free, n) == n + 1   \* a table grown even when a row is reused
LenAfter(free, n) == IF free # <<>> THEN n ELSE n + 1

\* Queue entries, timers and waiter lists that name the fiber row f; cancellations
\* and deadlines that name the scope row s.
NamesFiber(f) ==
  \/ \E i \in DOMAIN ready : ready[i].fid.id = f
  \/ \E i \in DOMAIN timers : timers[i].kind = "wake" /\ timers[i].arg.id = f
  \/ \E c \in Fid : fibers[c].alive /\ \E i \in DOMAIN fibers[c].waiters :
       fibers[c].waiters[i].id = f
  \/ \E s \in Sid : \E i \in DOMAIN scopes[s].next_waiters :
       scopes[s].next_waiters[i].id = f
NamesScope(s) ==
  \/ \E i \in DOMAIN pending : pending[i].id = s
  \/ \E i \in DOMAIN timers : timers[i].kind = "deadline" /\ timers[i].arg.id = s

\* The bounds of the model leave a row to hand out. Without StaleRefs only those
\* executions are considered in which nothing names a row that is handed out again.
FiberSlotLeft(free, n) ==
  IF free # <<>>
  THEN fibers[Last(free)].gen < MaxGen /\ (StaleRefs \/ ~NamesFiber(Last(free)))
  ELSE n < MaxFibers
ScopeSlotLeft ==
  IF free_scopes # <<>>
  THEN scopes[Last(free_scopes)].gen < MaxGen /\ (StaleRefs \/ ~NamesScope(Last(free_scopes)))
  ELSE nscopes < MaxScopes

MutPush(f, focus) == <<[fid |-> f, focus |-> focus]>> \o ready   \* queued first
Push(f, focus) == Append(ready, [fid |-> f, focus |-> focus])

Init ==
  /\ fibers = [f \in Fid |-> IF f = Root THEN NewFiber(ROOT_SCOPE, NO_SCOPE, {}, NoFiberRow)
                                         ELSE NoFiberRow]
  /\ nfibers = 1
  /\ scopes = [s \in Sid |-> IF s = ROOT_SCOPE THEN NewScope(FALSE, None, {}, NoScopeRow)
                                               ELSE NoScopeRow]
  /\ nscopes = 1
  /\ free_fibers = <<>> /\ free_scopes = <<>>
  /\ ready = <<[fid |-> Ref(Root, 1), focus |-> "start"]>>
  /\ timers = <<>> /\ pending = <<>>
  /\ root_kind = "none"
  /\ current = NoFiber /\ starting = None
  /\ work = <<>>
  /\ halted = FALSE

-----------------------------------------------------------------------------
(* Operations of the fiber being pumped. Those of the first group are plain  *)
(* calls; a scope's body function may make them too while start_scope runs   *)
(* it on the creating fiber.                                                 *)

Pumping == current # NoFiber /\ work = <<>>
Handles == fibers[current].knows \cup ({starting} \ {None})

\* sched_spawn, on behalf of a fiber that has the handle h: nothing asks whether
\* the scope is still open.
SpawnInto(h, handles) ==
  LET f == Slot(free_fibers, nfibers)
      knows == IF CaptureInner THEN handles ELSE scopes[h.id].enclosing \cup {h}
  IN /\ FiberSlotLeft(free_fibers, nfibers)
     /\ fibers' = [fibers EXCEPT ![f] = NewFiber(h.id, NO_SCOPE, knows, @)]
     /\ free_fibers' = FreeAfter(free_fibers)
     /\ nfibers' = LenAfter(free_fibers, nfibers)
     /\ scopes' = [scopes EXCEPT ![h.id].children = Append(@, Ref(f, fibers[f].gen + 1)),
                                 ![h.id].live = @ + 1]
     /\ ready' = Push(Ref(f, fibers[f].gen + 1), "start")

Spawn(h) ==
  /\ "spawn" \in Ops /\ Pumping /\ h \in Handles
  /\ SpawnInto(h, Handles)
  /\ starting # None => FiberSlotLeft(FreeAfter(free_fibers), LenAfter(free_fibers, nfibers))
  /\ UNCHANGED <<nscopes, free_scopes, timers, pending, control>>

\* sched_cancel queues the scope; the loop cancels it between steps.
Cancel(h) ==
  /\ "cancel" \in Ops /\ Pumping /\ h \in Handles
  /\ Len(pending) < MaxPending
  /\ pending' = Append(pending, h)
  /\ UNCHANGED <<tables, ready, timers, control>>

\* sched_cancel_after arms a deadline that nothing disarms.
CancelAfter(h, d) ==
  /\ "cancel-after" \in Ops /\ Pumping /\ h \in Handles
  /\ Len(timers) < MaxTimers
  /\ timers' = Append(timers, [at |-> d, kind |-> "deadline", arg |-> h])
  /\ UNCHANGED <<tables, ready, pending, control>>

\* The second group ends the pump. run_task then calls park.
Park(kind, arg) ==
  /\ fibers' = [fibers EXCEPT ![current].wait_kind = kind, ![current].wait_arg = arg]
  /\ current' = NoFiber

CanSuspend == Pumping /\ starting = None

Yield ==
  /\ "yield" \in Ops /\ CanSuspend
  /\ Len(ready) < MaxQueue
  /\ ready' = Push(FiberRef(current), "resume")
  /\ current' = NoFiber
  /\ UNCHANGED <<tables, timers, pending, root_kind, starting, work, halted>>

Sleep(d) ==
  /\ "sleep" \in Ops /\ CanSuspend
  /\ Len(timers) < MaxTimers
  /\ timers' = Append(timers, [at |-> d, kind |-> "wake", arg |-> FiberRef(current)])
  /\ Park("sleep", None)
  /\ UNCHANGED <<nfibers, scopes, nscopes, free_fibers, free_scopes, ready, pending,
                 root_kind, starting, work, halted>>

\* A handle is a child's row index; a settled child's outcome continues the fiber
\* at once, so only the parking case is a step.
AwaitHandle(h, c) ==
  /\ (IF scopes[h.id].manual THEN "await-manual" ELSE "await") \in Ops /\ CanSuspend
  /\ h \in Handles /\ c \in Range(scopes[h.id].children)
  /\ fibers[c.id].res_kind = "none"
  /\ fibers' = [fibers EXCEPT ![current].wait_kind = "handle", ![current].wait_arg = c,
                              ![c.id].waiters = Append(@, FiberRef(current))]
  /\ current' = NoFiber
  /\ UNCHANGED <<nfibers, scopes, nscopes, free_fibers, free_scopes, queues, root_kind,
                 starting, work, halted>>

\* s.next is there on the handle of a manual scope only.
CanDrain(h) ==
  /\ "next" \in Ops /\ CanSuspend
  /\ h \in Handles /\ scopes[h.id].manual
  /\ AnyDrainer \/ fibers[current].runs_scope = h.id

\* drain_next: a settled child is handed out; with every child done the answer is
\* none, which changes nothing; else the fiber parks.
TakeSettled(h) ==
  /\ CanDrain(h)
  /\ scopes[h.id].completed > 0
  /\ scopes' = [scopes EXCEPT ![h.id].completed = @ - 1]
  /\ UNCHANGED <<fibers, nfibers, nscopes, free_fibers, free_scopes, queues, control>>

AwaitNext(h) ==
  /\ CanDrain(h)
  /\ scopes[h.id].completed = 0 /\ scopes[h.id].live # 0
  /\ scopes' = [scopes EXCEPT ![h.id].next_waiters = Append(@, FiberRef(current))]
  /\ Park("next", h)
  /\ UNCHANGED <<nfibers, nscopes, free_fibers, free_scopes, queues, root_kind, starting,
                 work, halted>>

\* net_settle on would-block: the reactor wakes the fiber later.
AwaitIo ==
  /\ "io" \in Ops /\ CanSuspend
  /\ Park("io", None)
  /\ UNCHANGED <<nfibers, scopes, nscopes, free_fibers, free_scopes, queues, root_kind,
                 starting, work, halted>>

\* start_scope stores the scope's row, then calls the body function ...
StartScope(manual) ==
  LET s == Slot(free_scopes, nscopes)
      h == Ref(s, scopes[s].gen + 1)
  IN /\ (IF manual THEN "manual" ELSE "scope") \in Ops /\ CanSuspend
     /\ ScopeSlotLeft /\ FiberSlotLeft(free_fibers, nfibers)
     /\ scopes' = [scopes EXCEPT ![s] =
                     NewScope(manual, FiberRef(current), fibers[current].knows, @)]
     /\ free_scopes' = FreeAfter(free_scopes)
     /\ nscopes' = LenAfter(free_scopes, nscopes)
     /\ starting' = h
     /\ UNCHANGED <<fibers, nfibers, free_fibers, queues, root_kind, current, work, halted>>

\* ... and then queues the body fiber and parks the creator on the scope.
StartBody ==
  LET s == starting.id
      f == Slot(free_fibers, nfibers)
  IN /\ Pumping /\ starting # None
     /\ FiberSlotLeft(free_fibers, nfibers)
     /\ fibers' = [fibers EXCEPT ![f] = NewFiber(s, s, fibers[current].knows \cup {starting}, @),
                                 ![current].wait_kind = "scope",
                                 ![current].wait_arg = starting]
     /\ free_fibers' = FreeAfter(free_fibers)
     /\ nfibers' = LenAfter(free_fibers, nfibers)
     /\ scopes' = [scopes EXCEPT ![s].body = f]
     /\ ready' = Push(Ref(f, fibers[f].gen + 1), "start")
     /\ current' = NoFiber
     /\ starting' = None
     /\ UNCHANGED <<nscopes, free_scopes, timers, pending, root_kind, work, halted>>

-----------------------------------------------------------------------------
(* fiber_completed, by the role of the fiber. *)

Do(fn, id, of) == [fn |-> fn, id |-> id, of |-> of]

MutSettled(f, kind) == [fibers EXCEPT ![f].res_kind = kind]   \* ALIVE left set
Settled(f, kind) == [fibers EXCEPT ![f].alive = FALSE, ![f].res_kind = kind]

CanComplete(kind) ==
  /\ CanSuspend
  /\ kind = "err" => "fail" \in Ops

\* Row 0 is the root: its outcome is the program's.
CompleteRoot(kind) ==
  /\ CanComplete(kind) /\ current = Root
  /\ fibers' = Settled(Root, kind)
  /\ root_kind' = kind
  /\ current' = NoFiber
  /\ UNCHANGED <<nfibers, scopes, nscopes, free_fibers, free_scopes, queues, starting, work,
                 halted>>

\* on_body_done: the children still running are reaped, then the scope finalized.
CompleteBody(kind) ==
  LET s == fibers[current].runs_scope
  IN /\ CanComplete(kind) /\ current # Root /\ s # NO_SCOPE
     /\ fibers' = Settled(current, kind)
     /\ scopes' = [scopes EXCEPT ![s].bd_kind = kind,
                                 ![s].fail_set = IF kind = "err" /\ ~scopes[s].manual THEN TRUE ELSE @]
     /\ work' = <<Do("reap_children", s, s), Do("try_finalize", s, s)>>
     /\ current' = NoFiber
     /\ UNCHANGED <<nfibers, nscopes, free_fibers, free_scopes, queues, root_kind, starting,
                    halted>>

\* on_child_done: waiters are resumed, a drainer is handed the outcome or it is
\* queued, and a failure nobody waited for cancels the scope.
Observed(f) == fibers[f].waiters # <<>>

FailsFast(f, s, kind) ==
  /\ kind = "err" /\ ~Observed(f)
  /\ ~scopes[s].manual /\ ~scopes[s].cancelled /\ ~scopes[s].fail_set

MutWokenOne(f, s) ==             \* a drainer goes before, and instead of, waiters
  IF scopes[s].next_waiters # <<>> THEN <<Head(scopes[s].next_waiters)>> ELSE <<>>
Woken(f, s) ==
  fibers[f].waiters \o
    (IF scopes[s].next_waiters # <<>> THEN <<Head(scopes[s].next_waiters)>> ELSE <<>>)

\* A child's row is recycled at once where only s.next can read its outcome.
MutRecycles(s) == TRUE            \* although a handle may still be awaited
Recycles(s) == scopes[s].next_waiters # <<>> \/ scopes[s].manual

CompleteChild(kind) ==
  LET f == current
      s == fibers[f].scope
      drained == scopes[s].next_waiters # <<>>
      woken == Woken(f, s)
  IN /\ CanComplete(kind) /\ f # Root /\ fibers[f].runs_scope = NO_SCOPE
     /\ fibers' = [Settled(f, kind) EXCEPT ![f].waiters = <<>>]
     /\ ready' = ready \o [i \in DOMAIN woken |-> [fid |-> woken[i], focus |-> "resume"]]
     /\ scopes' = [scopes EXCEPT
          ![s].live = @ - 1,
          ![s].next_waiters = IF drained THEN Tail(@) ELSE @,
          ![s].completed = IF drained THEN @ ELSE @ + 1,
          ![s].fail_set = IF FailsFast(f, s, kind) THEN TRUE ELSE @]
     /\ free_fibers' = IF Recycles(s) THEN Append(free_fibers, f) ELSE free_fibers
     /\ work' = <<Do(IF FailsFast(f, s, kind) THEN "cancel_scope" ELSE "try_finalize", s, s)>>
     /\ current' = NoFiber
     /\ UNCHANGED <<nfibers, nscopes, free_scopes, timers, pending, root_kind, starting,
                    halted>>

-----------------------------------------------------------------------------
(* The functions that cancel, reap and finalize. *)

Calling(fn) == work # <<>> /\ Head(work).fn = fn
Callee == Head(work).id
Then(calls) == work' = calls \o Tail(work)

CancelScope ==
  LET s == Callee
      b == scopes[s].body
  IN /\ Calling("cancel_scope")
     /\ IF scopes[s].cancelled \/ scopes[s].finalized
        THEN Then(<<>>) /\ UNCHANGED scopes
        ELSE /\ scopes' = [scopes EXCEPT ![s].cancelled = TRUE]
             /\ Then((IF fibers[b].alive
                      THEN <<Do("reap_fiber", b, s), Do("mark_cancelled", s, s)>>
                      ELSE <<>>)
                     \o <<Do("reap_children", s, s), Do("try_finalize", s, s)>>)
     /\ UNCHANGED <<fibers, nfibers, nscopes, free_fibers, free_scopes, queues, root_kind,
                    current, starting, halted>>

\* The tail of the body's branch in cancel_scope: a body that never ended.
MutEndedBody(kind) == kind      \* a reaped body's outcome left open
EndedBody(kind) == IF kind = "none" THEN "cancelled" ELSE kind

MarkCancelled ==
  LET s == Callee
  IN /\ Calling("mark_cancelled")
     /\ scopes' = [scopes EXCEPT ![s].bd_kind = EndedBody(@)]
     /\ Then(<<>>)
     /\ UNCHANGED <<fibers, nfibers, nscopes, free_fibers, free_scopes, queues, root_kind,
                    current, starting, halted>>

\* The loop over CHILDREN: its length is read once, before the first reap.
ReapChildren ==
  LET s == Callee
      kids == scopes[s].children
  IN /\ Calling("reap_children")
     /\ Then([i \in DOMAIN kids |-> Do("reap_child", kids[i].id, s)])
     /\ UNCHANGED <<tables, queues, root_kind, current, starting, halted>>

\* A row that has gone to another scope is left alone.
ReapChild ==
  LET f == Callee
      s == Head(work).of
  IN /\ Calling("reap_child")
     /\ Then(IF fibers[f].alive /\ fibers[f].scope = s THEN <<Do("reap_fiber", f, s)>>
                                                       ELSE <<>>)
     /\ UNCHANGED <<tables, queues, root_kind, current, starting, halted>>

\* A reaped child, unlike a body, leaves its scope's live count.
MutLiveAfterReap(f) == [scopes EXCEPT ![fibers[f].scope].live = @ - 1]   \* bodies too
LiveAfterReap(f) ==
  IF fibers[f].runs_scope = NO_SCOPE
  THEN [scopes EXCEPT ![fibers[f].scope].live = @ - 1] ELSE scopes

\* The cascade into the scope a reaped fiber awaits.
MutCascade(f) == <<>>           \* the awaited scope left running
Cascade(f) ==
  IF fibers[f].wait_kind = "scope"
  THEN <<Do("cancel_scope", fibers[f].wait_arg.id, fibers[f].wait_arg.id)>> ELSE <<>>

\* reap_fiber: the fiber is dead at once; a scope it awaits is cancelled, then its
\* cleanups run. Its entries in ready, timers and waiter lists stay.
ReapFiber ==
  LET f == Callee
  IN /\ Calling("reap_fiber")
     /\ IF fibers[f].alive
        THEN /\ fibers' = Settled(f, "cancelled")
             /\ scopes' = LiveAfterReap(f)
             /\ Then(Cascade(f) \o <<Do("run_defers", f, fibers[f].scope)>>)
        ELSE Then(<<>>) /\ UNCHANGED <<fibers, scopes>>
     /\ UNCHANGED <<nfibers, nscopes, free_fibers, free_scopes, queues, root_kind, current,
                    starting, halted>>

\* poll_defers_state: user cleanups of a fiber that ran at all. A plain cleanup may
\* use the fiber's scope handles; one that is a task is driven by a nested
\* run_task, after which every scheduler global but the free lists is restored.
HasRun(f) ==
  \A i \in DOMAIN ready : ~(ready[i].fid = FiberRef(f) /\ ready[i].focus = "start")

RunDefers ==
  LET f == Callee
      handles == fibers[f].knows
  IN /\ Calling("run_defers")
     /\ Then(<<>>)
     /\ \/ UNCHANGED <<tables, queues>>
        \/ /\ "defer-cancel" \in Ops /\ HasRun(f)
           /\ Len(pending) < MaxPending
           /\ \E h \in handles : pending' = Append(pending, h)
           /\ UNCHANGED <<tables, ready, timers>>
        \/ /\ "defer-spawn" \in Ops /\ HasRun(f)
           /\ \E h \in handles : SpawnInto(h, handles)
           /\ UNCHANGED <<nscopes, free_scopes, timers, pending>>
        \/ /\ "defer-task" \in Ops /\ HasRun(f)
           /\ \E nested \in NestedFree : free_fibers' = nested[1] /\ free_scopes' = nested[2]
           /\ UNCHANGED <<fibers, nfibers, scopes, nscopes, queues>>
     /\ UNCHANGED <<root_kind, current, starting, halted>>

\* reclaim_scope of a scope that is not manual: all its rows are recycled, its own
\* only when a fiber awaits it.
Reclaimed(s) ==
  LET kids == scopes[s].children
  IN /\ free_fibers' = free_fibers \o [i \in DOMAIN kids |-> kids[i].id] \o <<scopes[s].body>>
     /\ free_scopes' = IF scopes[s].awaiter # None THEN Append(free_scopes, s) ELSE free_scopes
     /\ scopes' = [scopes EXCEPT ![s].finalized = TRUE, ![s].children = <<>>,
                                 ![s].completed = 0, ![s].next_waiters = <<>>]

CanFinalize(s) ==
  ~scopes[s].finalized /\ scopes[s].bd_kind # "none" /\ scopes[s].live = 0

\* try_finalize_scope: body and children have settled, so the awaiter is resumed.
TryFinalize ==
  LET s == Callee
      a == scopes[s].awaiter
      wakes == a # None /\ fibers[a.id].alive
  IN /\ Calling("try_finalize")
     /\ Then(<<>>)
     /\ IF ~CanFinalize(s)
        THEN UNCHANGED <<fibers, scopes, free_fibers, free_scopes, ready>>
        ELSE /\ IF scopes[s].manual
                THEN /\ scopes' = [scopes EXCEPT ![s].finalized = TRUE]
                     /\ UNCHANGED <<free_fibers, free_scopes>>
                ELSE Reclaimed(s)
             /\ fibers' = IF wakes THEN [fibers EXCEPT ![a.id].wait_kind = "none"] ELSE fibers
             /\ ready' = IF wakes THEN Push(a, "resume") ELSE ready
     /\ UNCHANGED <<nfibers, nscopes, timers, pending, root_kind, current, starting, halted>>

-----------------------------------------------------------------------------
(* The loop of run_task, between pumps. *)

Looping == current = NoFiber /\ work = <<>> /\ ~halted

\* Queued cancellations go first, the latest first.
DrainPending ==
  /\ Looping /\ pending # <<>>
  /\ pending' = Front(pending)
  /\ work' = <<Do("cancel_scope", Last(pending).id, Last(pending).id)>>
  /\ UNCHANGED <<tables, ready, timers, root_kind, current, starting, halted>>

\* Then the loop ends if the root has settled.
RootSettled ==
  /\ Looping /\ pending = <<>> /\ root_kind # "none"
  /\ halted' = TRUE
  /\ UNCHANGED <<tables, queues, root_kind, current, starting, work>>

Turn == Looping /\ pending = <<>> /\ root_kind = "none"

\* The next entry is taken; a dead fiber's is dropped.
Dequeue ==
  LET f == Head(ready).fid.id
  IN /\ Turn /\ ready # <<>>
     /\ ready' = Tail(ready)
     /\ IF fibers[f].alive
        THEN /\ current' = f
             /\ fibers' = [fibers EXCEPT ![f].wait_kind = "none"]
        ELSE UNCHANGED <<current, fibers>>
     /\ UNCHANGED <<nfibers, scopes, nscopes, free_fibers, free_scopes, timers, pending,
                    root_kind, starting, work, halted>>

IoWaiters == {f \in Fid : f < nfibers /\ fibers[f].alive /\ fibers[f].wait_kind = "io"}

\* io_block_step: the reactor returns a fiber to start again ...
IoWake(f) ==
  /\ Turn /\ ready = <<>> /\ f \in IoWaiters
  /\ fibers' = [fibers EXCEPT ![f].wait_kind = "none"]
  /\ ready' = Push(FiberRef(f), "resume")
  /\ UNCHANGED <<nfibers, scopes, nscopes, free_fibers, free_scopes, timers, pending, control>>

\* ... or times out; without I/O waits the timers come straight away. run_timers
\* jumps to the earliest deadline ...
RunTimers ==
  /\ Turn /\ ready = <<>>
  /\ \E i \in DOMAIN timers :
       /\ \A j \in DOMAIN timers : timers[i].at <= timers[j].at
       /\ timers' = [j \in DOMAIN timers |-> [timers[j] EXCEPT !.at = @ - timers[i].at]]
  /\ work' = <<Do("fire_timers", ROOT_SCOPE, ROOT_SCOPE)>>
  /\ UNCHANGED <<tables, ready, pending, root_kind, current, starting, halted>>

\* ... and fires every timer due then, in the order they were armed: a sleeper that
\* is alive is resumed, a deadline queues the cancellation of its scope.
Due(i) == timers[i].at = 0
Wakes(t) == t.kind = "wake" /\ fibers[t.arg.id].alive
MutCancels(t) == t.kind = "deadline" /\ scopes[t.arg.id].live # 0   \* childless scope skipped
Cancels(t) == t.kind = "deadline"

FireTimer(i) ==
  LET t == timers[i]
  IN /\ Calling("fire_timers")
     /\ Due(i) /\ \A j \in DOMAIN timers : j < i => ~Due(j)
     /\ timers' = RemoveAt(timers, i)
     /\ fibers' = IF Wakes(t) THEN [fibers EXCEPT ![t.arg.id].wait_kind = "none"] ELSE fibers
     /\ ready' = IF Wakes(t) THEN Push(t.arg, "resume") ELSE ready
     /\ pending' = IF Cancels(t) THEN Append(pending, t.arg) ELSE pending
     /\ UNCHANGED <<nfibers, scopes, nscopes, free_fibers, free_scopes, control>>

TimersFired ==
  /\ Calling("fire_timers") /\ \A i \in DOMAIN timers : ~Due(i)
  /\ Then(<<>>)
  /\ UNCHANGED <<tables, queues, root_kind, current, starting, halted>>

\* timers_or_exit with no timer: nothing can run any more.
Quiesce ==
  /\ Turn /\ ready = <<>> /\ timers = <<>> /\ IoWaiters = {}
  /\ halted' = TRUE
  /\ UNCHANGED <<tables, queues, root_kind, current, starting, work>>

-----------------------------------------------------------------------------
AllHandles == (UNION {fibers[f].knows : f \in Fid}) \cup ({starting} \ {None})

ProgramStep ==
  \/ \E h \in AllHandles : Spawn(h) \/ Cancel(h) \/ TakeSettled(h) \/ AwaitNext(h)
  \/ \E h \in AllHandles, d \in Durations : CancelAfter(h, d)
  \/ \E h \in AllHandles : \E c \in Range(scopes[h.id].children) : AwaitHandle(h, c)
  \/ Yield \/ AwaitIo \/ StartBody
  \/ \E d \in Durations : Sleep(d)
  \/ \E manual \in BOOLEAN : StartScope(manual)
  \/ \E kind \in {"ok", "err"} : CompleteRoot(kind) \/ CompleteBody(kind) \/ CompleteChild(kind)

CallStep ==
  CancelScope \/ MarkCancelled \/ ReapChildren \/ ReapChild \/ ReapFiber \/ RunDefers
    \/ TryFinalize

LoopStep ==
  \/ DrainPending \/ RootSettled \/ Dequeue \/ RunTimers \/ TimersFired \/ Quiesce
  \/ \E i \in DOMAIN timers : FireTimer(i)
  \/ \E f \in Fid : IoWake(f)

Next == ProgramStep \/ CallStep \/ LoopStep

Spec == Init /\ [][Next]_vars

\* Every pump ends, since the program's loops suspend, and the loop goes on.
FairSpec == Spec /\ WF_vars(Next)

-----------------------------------------------------------------------------
(* Properties. *)

TypeOK ==
  /\ fibers \in [Fid -> Fiber] /\ nfibers \in 0..MaxFibers
  /\ scopes \in [Sid -> Scope] /\ nscopes \in 0..MaxScopes
  /\ free_fibers \in Seq(Fid) /\ free_scopes \in Seq(Sid)
  /\ ready \in Seq(Entry) /\ timers \in Seq(Timer) /\ pending \in Seq(SidRef)
  /\ root_kind \in Outcome
  /\ current \in Fid \cup {NoFiber} /\ starting \in SidRef \cup {None}
  /\ work \in Seq(Call)
  /\ \A f \in Fid : fibers[f].wait_kind = "scope" => fibers[f].wait_arg \in SidRef
  /\ halted \in BOOLEAN

IsChild(f, s) == f # Root /\ fibers[f].scope = s /\ fibers[f].runs_scope = NO_SCOPE

\* The live-child counter that try_finalize trusts instead of scanning CHILDREN
\* is exactly the number of children of the scope that have not settled.
LiveCount ==
  \A s \in Sid \ {ROOT_SCOPE} :
    scopes[s].live = Cardinality({f \in Fid : fibers[f].alive /\ IsChild(f, s)})

\* The structural guarantee: a scope that has ended, and whose awaiter goes on,
\* has no running body or child left.
NothingOutlivesScope ==
  \A s \in Sid \ {ROOT_SCOPE} : scopes[s].finalized =>
    \A f \in Fid \ {Root} : fibers[f].scope = s => ~fibers[f].alive

\* The tree of fibers is intact between steps: a live fiber's scope is open, and
\* the fiber that opened the scope is alive and waiting for it, so that a
\* cancellation from above reaches every fiber below.
TreeIntact ==
  Looping => \A f \in Fid \ {Root} : fibers[f].alive =>
    LET s == scopes[fibers[f].scope]
        a == s.awaiter
    IN /\ ~s.finalized /\ a # None
       /\ fibers[a.id].alive /\ fibers[a.id].gen = a.gen
       /\ fibers[a.id].wait_kind = "scope" /\ fibers[a.id].wait_arg.id = fibers[f].scope

\* A cancellation is complete when it returns to the loop: however deep the tree
\* below, the cancelled scope has ended and its awaiter was resumed.
CancelEnds == Looping => \A s \in Sid : scopes[s].cancelled => scopes[s].finalized

\* The rows on the free lists are those of ended fibers and scopes, each at most
\* once: a spawn never overwrites a row in use.
FreeRowsEnded ==
  /\ IsInjective(free_fibers) /\ IsInjective(free_scopes)
  /\ \A f \in Range(free_fibers) : ~fibers[f].alive
  /\ \A s \in Range(free_scopes) : scopes[s].finalized

\* A spawn never takes the row of a live fiber.
LiveRowKept ==
  [][\A f \in Fid : fibers[f].alive => fibers'[f].gen = fibers[f].gen]_vars

\* What may start or resume the fiber f: its entries in the ready queue, wake
\* timers, waiter lists of live children, drained scopes with a live child, the
\* open scope it awaits, the reactor.
Occurrences(seq, P(_)) == Cardinality({i \in DOMAIN seq : P(seq[i])})

WakeSources(f) ==
  LET r == FiberRef(f)
      Holding(S) == Cardinality(S)
  IN Occurrences(ready, LAMBDA e : e.fid = r)
     + Occurrences(timers, LAMBDA t : t.kind = "wake" /\ t.arg = r)
     + Holding({c \in Fid : fibers[c].alive /\ r \in Range(fibers[c].waiters)})
     + Holding({s \in Sid : scopes[s].live > 0 /\ r \in Range(scopes[s].next_waiters)})
     + Holding({s \in Sid : scopes[s].awaiter = r /\ ~scopes[s].finalized})
     + (IF fibers[f].wait_kind = "io" THEN 1 ELSE 0)

\* No lost and no double wakeup: a live fiber that is not being pumped is held by
\* exactly one source that will start or resume it.
OneWakeSource ==
  Looping => \A f \in Fid : fibers[f].alive => WakeSources(f) = 1

\* An outcome, once settled, is final: neither a late completion nor a reap
\* changes what awaiters of that fiber read.
SettledOnce ==
  [][\A f \in Fid : fibers[f].res_kind # "none" /\ fibers'[f].gen = fibers[f].gen =>
       fibers'[f].res_kind = fibers[f].res_kind /\ ~fibers'[f].alive]_vars

\* A failed child of a fail-fast scope either fails its scope or was awaited by a
\* fiber that could still observe the failure.
FailureIsSeen ==
  [][\A f \in Fid : LET s == fibers[f].scope IN
       /\ fibers[f].alive /\ IsChild(f, s) /\ fibers'[f].res_kind = "err"
       /\ ~scopes[s].manual /\ ~scopes[s].cancelled
       => \/ scopes'[s].fail_set
          \/ \E w \in Range(fibers[f].waiters) :
               fibers[w.id].alive /\ fibers[w.id].gen = w.gen]_vars

\* The queue is fair: a queued live fiber is pumped, unless it is reaped or the
\* program ends first.
Queued(f) == fibers[f].alive /\ \E i \in DOMAIN ready : ready[i].fid.id = f
ReadyServed ==
  \A f \in Fid : Queued(f) ~> (current = f \/ ~fibers[f].alive \/ halted)

\* A deadline takes effect: its scope ends, or the program does, as long as the ready
\* queue empties again and again. The timers are looked at only then, so fibers that
\* yield for ever keep every deadline from firing.
DeadlineFires ==
  []<>(Looping /\ ready = <<>>) => \A s \in Sid :
    (\E i \in DOMAIN timers : timers[i].kind = "deadline" /\ timers[i].arg = ScopeRef(s))
      ~> (scopes[s].finalized \/ halted)
=============================================================================

----------------------------- MODULE WakeProofs ------------------------------
(***************************************************************************)
(* The inductive invariant of the scheduler's tree of scopes, and the half *)
(* of it that is about wakeups: who waits for a scope or a handle, and     *)
(* which queue entries, timers and waiter lists name it. Tables have any   *)
(* size and the program is any that is Disciplined. ScopeProofs holds the  *)
(* half about the tree, and the theorems that follow from both.            *)
(***************************************************************************)
EXTENDS SchedulerProofs, FiniteSetTheorems

\* No row is handed out while a queue still names it, a task uses the handles of
\* its own scope and of those around it, and a cleanup neither spawns nor leaves
\* rows on the free lists.
Disciplined ==
  /\ ~StaleRefs /\ ~CaptureInner /\ "defer-spawn" \notin Ops
  /\ NestedFree \subseteq {<<(<<>>), (<<>>)>>}

-----------------------------------------------------------------------------
(* The inductive invariant. An open scope has been started and has not been *)
(* finalized; Up(s) are the handles that its fibers have.                   *)

Open(s) == s # ROOT_SCOPE /\ ~scopes[s].finalized
Up(s) == scopes[s].enclosing \cup {ScopeRef(s)}
LiveIn(f, s) == f # Root /\ fibers[f].alive /\ fibers[f].scope = s
InWork(c) == \E j \in DOMAIN work : work[j] = c

\* A live fiber belongs to an open scope and has the handles of that scope.
FiberRows ==
  /\ fibers[Root].knows = {} /\ fibers[Root].scope = ROOT_SCOPE
  /\ fibers[Root].runs_scope = NO_SCOPE
  /\ \A f \in Fid \ {Root} : fibers[f].alive =>
       /\ Open(fibers[f].scope) /\ fibers[f].knows = Up(fibers[f].scope)
       /\ fibers[f].runs_scope # NO_SCOPE =>
            /\ fibers[f].runs_scope = fibers[f].scope
            /\ scopes[fibers[f].scope].body = f
            /\ scopes[fibers[f].scope].bd_kind = "none"

\* The scopes around an open scope are open, and form a chain.
NestedIn(s, h) ==
  /\ Open(h.id) /\ h = ScopeRef(h.id)
  /\ scopes[h.id].enclosing \subseteq scopes[s].enclosing
  /\ \E k \in Up(s) : scopes[k.id].enclosing = Up(h.id)
Nesting ==
  \A s \in Sid : Open(s) =>
    /\ ScopeRef(s) \notin scopes[s].enclosing
    /\ \A h \in scopes[s].enclosing : NestedIn(s, h)

\* The fiber that started an open scope waits for it, or it has ended and the
\* scope is being cancelled or about to be.
Waits(f, s) ==
  \/ starting = ScopeRef(s) /\ current = f
  \/ fibers[f].wait_kind = "scope" /\ fibers[f].wait_arg = ScopeRef(s)
Awaits(a, s) ==
  /\ a = FiberRef(a.id) /\ fibers[a.id].knows = scopes[s].enclosing /\ Waits(a.id, s)
Awaited ==
  \A s \in Sid : Open(s) =>
    /\ scopes[s].awaiter # None
    /\ fibers[scopes[s].awaiter.id].alive => Awaits(scopes[s].awaiter, s)
    /\ ~fibers[scopes[s].awaiter.id].alive =>
         scopes[s].cancelled \/ InWork(Do("cancel_scope", s, s))

\* A fiber waits for a scope that it started itself; one being started has no body.
Awaiting ==
  /\ \A f \in Fid : fibers[f].alive /\ fibers[f].wait_kind = "scope" =>
       /\ Open(fibers[f].wait_arg.id)
       /\ fibers[f].wait_arg = ScopeRef(fibers[f].wait_arg.id)
       /\ scopes[fibers[f].wait_arg.id].awaiter = FiberRef(f)
  /\ starting # None =>
       /\ current # NoFiber /\ Open(starting.id) /\ starting = ScopeRef(starting.id)
       /\ scopes[starting.id].awaiter = FiberRef(current)
       /\ scopes[starting.id].bd_kind = "none"
       /\ \A f \in Fid : LiveIn(f, starting.id) => fibers[f].runs_scope = NO_SCOPE
  /\ current # NoFiber => fibers[current].wait_kind = "none"

\* A scope ends once it is cancelled or its body has ended. The calls for that are on
\* the stack: the scope is finalized after its fibers have been reaped and its body
\* marked.
Ending(s) == scopes[s].cancelled \/ scopes[s].bd_kind # "none"
Reaps(c, f, s) ==
  \/ c = Do("reap_fiber", f, s) \/ c = Do("reap_child", f, s)
  \/ c = Do("reap_children", s, s) /\ fibers[f].runs_scope = NO_SCOPE
Finishes(s, j) ==
  /\ work[j] = Do("try_finalize", s, s)
  /\ \A f \in Fid : LiveIn(f, s) => \E i \in 1..(j - 1) : Reaps(work[i], f, s)
  /\ scopes[s].bd_kind = "none" => \E i \in 1..(j - 1) : work[i] = Do("mark_cancelled", s, s)
Cancelling ==
  \A s \in Sid : Open(s) /\ Ending(s) => \E j \in DOMAIN work : Finishes(s, j)

\* What the calls on the stack are about, and that the root scope is never among
\* the scopes to cancel.
CallOK(j) ==
  /\ work[j].fn # "fire_timers" => work[j].of # ROOT_SCOPE
  /\ work[j].fn \in {"cancel_scope", "mark_cancelled", "reap_children", "try_finalize"} =>
       work[j].id = work[j].of
  /\ work[j].fn = "reap_fiber" =>
       work[j].id # Root /\ (fibers[work[j].id].alive => fibers[work[j].id].scope = work[j].of)
  /\ work[j].fn \in {"reap_children", "reap_child", "reap_fiber"} /\ Open(work[j].of) =>
       scopes[work[j].of].cancelled \/ scopes[work[j].of].bd_kind # "none"
  /\ work[j].fn = "mark_cancelled" /\ Open(work[j].of) =>
       /\ scopes[work[j].of].cancelled
       /\ fibers[scopes[work[j].of].body].alive =>
            j > 1 /\ work[j - 1] = Do("reap_fiber", scopes[work[j].of].body, work[j].of)
Calls ==
  /\ \A j \in DOMAIN work : CallOK(j)
  /\ ~scopes[ROOT_SCOPE].cancelled
  /\ \A f \in Fid : \A h \in fibers[f].knows : h.id # ROOT_SCOPE
  /\ \A i \in DOMAIN pending : pending[i].id # ROOT_SCOPE
  /\ \A i \in DOMAIN timers : timers[i].kind = "deadline" => timers[i].arg.id # ROOT_SCOPE

\* Inner scopes come first: no call waits behind one for a scope around its own.
Order ==
  \A i, j \in DOMAIN work : i < j /\ Open(work[j].of) =>
    ScopeRef(work[i].of) \notin scopes[work[j].of].enclosing

\* The rows of an open scope's body, and of the children whose handles can still be
\* awaited, stay with the scope.
Owned(f, s, r) ==
  /\ f # Root /\ f < nfibers /\ fibers[f].scope = s /\ fibers[f].runs_scope = r
  /\ \A i \in DOMAIN free_fibers : free_fibers[i] # f
Bodies ==
  \A s \in Sid : Open(s) /\ starting # ScopeRef(s) =>
    /\ Owned(scopes[s].body, s, s)
    /\ scopes[s].bd_kind = "none" =>
         fibers[scopes[s].body].alive \/ InWork(Do("mark_cancelled", s, s))
Kids ==
  \A s \in Sid : Open(s) =>
    /\ \A f \in Fid : LiveIn(f, s) /\ fibers[f].runs_scope = NO_SCOPE =>
         \E i \in DOMAIN scopes[s].children : scopes[s].children[i].id = f
    /\ ~scopes[s].manual =>
         /\ scopes[s].next_waiters = <<>>
         /\ \A i, j \in DOMAIN scopes[s].children :
              scopes[s].children[i].id = scopes[s].children[j].id => i = j
         /\ \A i \in DOMAIN scopes[s].children : Owned(scopes[s].children[i].id, s, NO_SCOPE)

\* The free lists, and the rows no table has reached yet.
FreeRows ==
  /\ IsInjective(free_fibers) /\ IsInjective(free_scopes)
  /\ \A i \in DOMAIN free_fibers :
       free_fibers[i] # Root /\ free_fibers[i] < nfibers /\ ~fibers[free_fibers[i]].alive
  /\ \A i \in DOMAIN free_scopes :
       free_scopes[i] # ROOT_SCOPE /\ free_scopes[i] < nscopes /\ scopes[free_scopes[i]].finalized
  /\ nfibers > 0 /\ nscopes > 0
  /\ \A f \in Fid : f >= nfibers => ~fibers[f].alive
  /\ \A s \in Sid : s >= nscopes => scopes[s].finalized

\* No fiber is named twice by what may start or resume it, and the fiber being
\* pumped and those parked on a scope or on I/O are not named at all.
Unawaited(f) ==
  /\ \A c \in Fid : fibers[c].alive =>
       \A i \in DOMAIN fibers[c].waiters : fibers[c].waiters[i].id # f
  /\ \A s \in Sid : \A i \in DOMAIN scopes[s].next_waiters : scopes[s].next_waiters[i].id # f
ReadyOnce ==
  \A i \in DOMAIN ready : fibers[ready[i].fid.id].alive =>
    /\ ready[i].fid.id # current
    /\ fibers[ready[i].fid.id].wait_kind \in {"none", "handle", "next"}
    /\ \A j \in DOMAIN ready : ready[j].fid.id = ready[i].fid.id => j = i
    /\ Unawaited(ready[i].fid.id)
TimerOnce ==
  \A i \in DOMAIN timers : timers[i].kind = "wake" /\ fibers[timers[i].arg.id].alive =>
    /\ timers[i].arg.id # current /\ fibers[timers[i].arg.id].wait_kind = "sleep"
    /\ \A j \in DOMAIN timers : timers[j].kind = "wake" /\ timers[j].arg.id = timers[i].arg.id =>
         j = i
WaiterOnce ==
  \A c \in Fid : fibers[c].alive => \A i \in DOMAIN fibers[c].waiters :
    fibers[fibers[c].waiters[i].id].alive =>
      /\ fibers[c].waiters[i].id # current
      /\ fibers[fibers[c].waiters[i].id].wait_kind = "handle"
      /\ fibers[fibers[c].waiters[i].id].wait_arg.id = c
      /\ \A j \in DOMAIN fibers[c].waiters :
           fibers[c].waiters[j].id = fibers[c].waiters[i].id => j = i
DrainerOnce ==
  \A s \in Sid : \A i \in DOMAIN scopes[s].next_waiters :
    fibers[scopes[s].next_waiters[i].id].alive =>
      /\ scopes[s].next_waiters[i].id # current
      /\ fibers[scopes[s].next_waiters[i].id].wait_kind = "next"
      /\ fibers[scopes[s].next_waiters[i].id].wait_arg.id = s
      /\ \A j \in DOMAIN scopes[s].next_waiters :
           scopes[s].next_waiters[j].id = scopes[s].next_waiters[i].id => j = i
\* Only rows that were handed out are named.
Reached ==
  \A f \in Fid : NamesFiber(f) => f < nfibers

WakeInv == ReadyOnce /\ TimerOnce /\ WaiterOnce /\ DrainerOnce /\ Reached
TreeInv ==
  /\ FiberRows /\ Nesting /\ Awaited /\ Awaiting /\ Bodies /\ Kids /\ FreeRows /\ LiveCount
  /\ Cancelling /\ Calls /\ Order
ScopeInv == RowsInv /\ TreeInv /\ WakeInv

-----------------------------------------------------------------------------
(* Sequences. *)

\* The entries of a sequence that got one more.
LEMMA Appended ==
  ASSUME NEW S, NEW s \in Seq(S), NEW e \in S, NEW t, t = Append(s, e)
  PROVE  /\ t \in Seq(S) /\ Len(s) \in Nat /\ DOMAIN s = 1..Len(s)
         /\ DOMAIN t = 1..(Len(s) + 1) /\ t[Len(s) + 1] = e
         /\ \A i \in DOMAIN s : i \in DOMAIN t /\ t[i] = s[i]
         /\ \A i \in DOMAIN t : \/ i \in DOMAIN s /\ t[i] = s[i]
                                \/ i = Len(s) + 1 /\ i \notin DOMAIN s /\ t[i] = e
<1>1. /\ t \in Seq(S) /\ Len(t) = Len(s) + 1 /\ t[Len(s) + 1] = e
      /\ \A i \in 1..Len(s) : t[i] = s[i]
  BY AppendProperties
<1>2. Len(s) \in Nat /\ DOMAIN s = 1..Len(s) /\ DOMAIN t = 1..Len(t)
  BY <1>1, LenProperties
<1> QED
  BY <1>1, <1>2

\* Those of a sequence that lost its first.
LEMMA Dropped ==
  ASSUME NEW S, NEW s \in Seq(S), s # <<>>, NEW t, t = Tail(s)
  PROVE  /\ t \in Seq(S) /\ Len(s) \in Nat \ {0} /\ DOMAIN s = 1..Len(s)
         /\ Head(s) = s[1] /\ 1 \in DOMAIN s /\ Len(t) = Len(s) - 1
         /\ DOMAIN t = 1..(Len(s) - 1)
         /\ \A i \in DOMAIN t : i + 1 \in DOMAIN s /\ t[i] = s[i + 1] /\ i \in Nat /\ i + 1 # 1
<1>1. /\ t \in Seq(S) /\ Len(t) = Len(s) - 1 /\ \A i \in 1..Len(t) : t[i] = s[i + 1]
  BY HeadTailProperties
<1>2. Len(s) \in Nat \ {0} /\ DOMAIN s = 1..Len(s) /\ DOMAIN t = 1..Len(t)
  BY <1>1, LenProperties, EmptySeq
<1>3. Head(s) = s[1]
  OBVIOUS
<1> QED
  BY <1>1, <1>2, <1>3

\* Those of a timer list that lost one.
LEMMA Removed ==
  ASSUME NEW S, NEW s \in Seq(S), NEW i \in DOMAIN s, NEW t, t = RemoveAt(s, i)
  PROVE  /\ DOMAIN s \subseteq Nat
         /\ \A j \in DOMAIN t :
              /\ j \in Nat
              /\ j < i => j \in DOMAIN s /\ t[j] = s[j]
              /\ j >= i => j + 1 \in DOMAIN s /\ t[j] = s[j + 1]
<1>1. Len(s) \in Nat /\ i \in 1..Len(s) /\ DOMAIN s = 1..Len(s)
  BY LenProperties
<1> DEFINE p == SubSeq(s, 1, i - 1)
           q == SubSeq(s, i + 1, Len(s))
<1>2. \A k \in 1..Len(s) : s[k] \in S
  BY ElementOfSeq
<1>3. /\ p \in Seq(S) /\ Len(p) = i - 1 /\ \A k \in 1..(i - 1) : p[k] = s[k]
  <2>1. \A k \in 1..(i - 1) : s[k] \in S
    BY <1>1, <1>2
  <2>2. /\ p \in Seq(S) /\ Len(p) = (IF 1 <= i - 1 THEN i - 1 - 1 + 1 ELSE 0)
        /\ \A k \in 1..(i - 1 - 1 + 1) : p[k] = s[1 + k - 1]
    BY <1>1, <2>1, SubSeqProperties
  <2> QED
    BY <1>1, <2>2
<1>4. /\ q \in Seq(S) /\ Len(q) = Len(s) - i /\ \A k \in 1..(Len(s) - i) : q[k] = s[i + k]
  <2>1. \A k \in (i + 1)..Len(s) : s[k] \in S
    BY <1>1, <1>2
  <2>2. /\ q \in Seq(S) /\ Len(q) = (IF i + 1 <= Len(s) THEN Len(s) - (i + 1) + 1 ELSE 0)
        /\ \A k \in 1..(Len(s) - (i + 1) + 1) : q[k] = s[i + 1 + k - 1]
    BY <1>1, <2>1, SubSeqProperties
  <2> QED
    BY <1>1, <2>2, SMTT(30)
<1>5. t = p \o q
  BY DEF RemoveAt
<1> HIDE DEF p, q
<1>6. /\ Len(t) = Len(s) - 1 /\ t \in Seq(S)
      /\ \A k \in 1..(Len(s) - 1) : t[k] = IF k <= i - 1 THEN p[k] ELSE q[k - (i - 1)]
  <2>1. /\ Len(t) = Len(p) + Len(q) /\ t \in Seq(S)
        /\ \A k \in 1..(Len(p) + Len(q)) : t[k] = IF k <= Len(p) THEN p[k] ELSE q[k - Len(p)]
    <3>1. p \in Seq(S) /\ q \in Seq(S)
      BY <1>3, <1>4
    <3> QED
      BY <1>5, <3>1, ConcatProperties
  <2>2. Len(p) + Len(q) = Len(s) - 1 /\ Len(p) = i - 1
    BY <1>1, <1>3, <1>4
  <2> QED
    BY <2>1, <2>2
<1>7. DOMAIN t = 1..(Len(s) - 1)
  BY <1>6, LenProperties
<1>8. \A k \in DOMAIN t : k >= i => t[k] = s[k + 1] /\ k + 1 \in DOMAIN s
  <2> SUFFICES ASSUME NEW k \in DOMAIN t, k >= i
               PROVE  t[k] = s[k + 1] /\ k + 1 \in DOMAIN s
    OBVIOUS
  <2>1. k \in Int /\ k - (i - 1) \in 1..(Len(s) - i) /\ ~(k <= i - 1)
    BY <1>1, <1>7
  <2>2. t[k] = q[k - (i - 1)]
    BY <1>6, <1>7, <2>1
  <2>3. q[k - (i - 1)] = s[i + (k - (i - 1))]
    BY <1>4, <2>1
  <2>4. i + (k - (i - 1)) = k + 1 /\ k + 1 \in 1..Len(s)
    BY <1>1, <1>7, <2>1
  <2> QED
    BY <1>1, <2>2, <2>3, <2>4
<1>9. \A k \in DOMAIN t : k < i => t[k] = s[k] /\ k \in DOMAIN s
  BY <1>1, <1>3, <1>6, <1>7
<1> QED
  BY <1>1, <1>7, <1>8, <1>9

\* The stack after a call was replaced by the calls it makes.
LEMMA ThenWork ==
  ASSUME work \in Seq(Call), work # <<>>, NEW calls \in Seq(Call), Then(calls)
  PROVE  /\ Len(calls) \in Nat /\ Len(work) \in Nat \ {0} /\ DOMAIN work = 1..Len(work)
         /\ Head(work) = work[1]
         /\ DOMAIN work' = 1..(Len(calls) + Len(work) - 1)
         /\ \A i \in 1..Len(calls) : work'[i] = calls[i]
         /\ \A j \in 2..Len(work) : /\ Len(calls) + j - 1 \in DOMAIN work'
                                    /\ work'[Len(calls) + j - 1] = work[j]
         /\ \A k \in DOMAIN work' : k > Len(calls) =>
              /\ k - Len(calls) + 1 \in 2..Len(work)
              /\ work'[k] = work[k - Len(calls) + 1]
<1> DEFINE t == Tail(work)
<1>1. /\ t \in Seq(Call) /\ Len(work) \in Nat \ {0} /\ DOMAIN work = 1..Len(work)
      /\ Head(work) = work[1] /\ Len(t) = Len(work) - 1 /\ DOMAIN t = 1..(Len(work) - 1)
      /\ \A i \in DOMAIN t : t[i] = work[i + 1]
  BY Dropped
<1>2. work' = calls \o t
  BY DEF Then
<1>3. Len(calls) \in Nat
  BY LenProperties
<1> HIDE DEF t
<1>4. /\ work' \in Seq(Call) /\ Len(work') = Len(calls) + Len(t)
      /\ \A i \in 1..(Len(calls) + Len(t)) :
           work'[i] = IF i <= Len(calls) THEN calls[i] ELSE t[i - Len(calls)]
  BY <1>1, <1>2, ConcatProperties, ZenonT(40)
<1>5. DOMAIN work' = 1..(Len(calls) + Len(work) - 1)
  BY <1>1, <1>3, <1>4, LenProperties
<1>6. \A k \in DOMAIN work' : k > Len(calls) =>
              /\ k - Len(calls) + 1 \in 2..Len(work)
              /\ work'[k] = work[k - Len(calls) + 1]
  <2> SUFFICES ASSUME NEW k \in DOMAIN work', k > Len(calls)
               PROVE  /\ k - Len(calls) + 1 \in 2..Len(work)
                      /\ work'[k] = work[k - Len(calls) + 1]
    OBVIOUS
  <2>1. k \in Int /\ k - Len(calls) \in 1..(Len(work) - 1)
    BY <1>1, <1>3, <1>5
  <2>2. k \in 1..(Len(calls) + Len(t)) /\ ~(k <= Len(calls))
    BY <1>1, <1>3, <1>5, <2>1
  <2>3. work'[k] = t[k - Len(calls)]
    BY <1>4, <2>2
  <2>4. k - Len(calls) + 1 \in 2..Len(work) /\ k - Len(calls) \in DOMAIN t
    BY <1>1, <1>3, <2>1
  <2> QED
    BY <1>1, <2>3, <2>4
<1>7. \A j \in 2..Len(work) : /\ Len(calls) + j - 1 \in DOMAIN work'
                              /\ work'[Len(calls) + j - 1] = work[j]
  <2> SUFFICES ASSUME NEW j \in 2..Len(work)
               PROVE  /\ Len(calls) + j - 1 \in DOMAIN work'
                      /\ work'[Len(calls) + j - 1] = work[j]
    OBVIOUS
  <2>1. Len(calls) + j - 1 \in DOMAIN work' /\ Len(calls) + j - 1 > Len(calls)
    BY <1>1, <1>3, <1>5
  <2>2. (Len(calls) + j - 1) - Len(calls) + 1 = j
    BY <1>1, <1>3
  <2> QED
    BY <1>6, <2>1, <2>2
<1>8. \A i \in 1..Len(calls) : work'[i] = calls[i]
  BY <1>1, <1>3, <1>4
<1> QED
  BY <1>1, <1>3, <1>5, <1>6, <1>7, <1>8

\* The entries of two sequences put together.
LEMMA Joined ==
  ASSUME NEW S, NEW s \in Seq(S), NEW t \in Seq(S), NEW u, u = s \o t
  PROVE  /\ u \in Seq(S) /\ Len(s) \in Nat /\ Len(t) \in Nat
         /\ DOMAIN s = 1..Len(s) /\ DOMAIN t = 1..Len(t) /\ DOMAIN u = 1..(Len(s) + Len(t))
         /\ \A i \in DOMAIN s : i \in DOMAIN u /\ u[i] = s[i]
         /\ \A i \in DOMAIN t : Len(s) + i \in DOMAIN u /\ u[Len(s) + i] = t[i]
         /\ \A i \in DOMAIN u : \/ i \in DOMAIN s /\ u[i] = s[i]
                                \/ /\ i \notin DOMAIN s /\ i \in Nat /\ i - Len(s) \in DOMAIN t
                                   /\ u[i] = t[i - Len(s)]
<1>1. /\ Len(s) \in Nat /\ Len(t) \in Nat /\ DOMAIN s = 1..Len(s) /\ DOMAIN t = 1..Len(t)
  BY LenProperties
<1>2. /\ u \in Seq(S) /\ Len(u) = Len(s) + Len(t)
      /\ \A i \in 1..(Len(s) + Len(t)) : u[i] = IF i <= Len(s) THEN s[i] ELSE t[i - Len(s)]
  BY ConcatProperties
<1>3. DOMAIN u = 1..(Len(s) + Len(t))
  BY <1>2, LenProperties
<1>4. \A i \in DOMAIN s : i \in DOMAIN u /\ u[i] = s[i]
  BY <1>1, <1>2, <1>3
<1>5. ASSUME NEW i \in DOMAIN t
      PROVE  Len(s) + i \in DOMAIN u /\ u[Len(s) + i] = t[i]
  <2>1. Len(s) + i \in 1..(Len(s) + Len(t)) /\ ~(Len(s) + i <= Len(s)) /\ Len(s) + i - Len(s) = i
    BY <1>1
  <2>2. u[Len(s) + i] = t[Len(s) + i - Len(s)]
    BY <1>2, <2>1
  <2> QED
    BY <1>3, <2>1, <2>2
<1>6. ASSUME NEW i \in DOMAIN u
      PROVE  \/ i \in DOMAIN s /\ u[i] = s[i]
             \/ /\ i \notin DOMAIN s /\ i \in Nat /\ i - Len(s) \in DOMAIN t
                /\ u[i] = t[i - Len(s)]
  <2>1. CASE i <= Len(s)
    BY <1>1, <1>2, <1>3, <2>1
  <2>2. CASE ~(i <= Len(s))
    <3>1. i \notin DOMAIN s /\ i \in Nat /\ i - Len(s) \in DOMAIN t
      BY <1>1, <1>3, <2>2
    <3>2. u[i] = t[i - Len(s)]
      BY <1>2, <1>3, <2>2
    <3> QED
      BY <3>1, <3>2
  <2> QED
    BY <2>1, <2>2
<1> QED
  BY <1>1, <1>2, <1>3, <1>4, <1>5, <1>6

-----------------------------------------------------------------------------
(* Rows handed out. *)

\* A stack without its last entry.
LEMMA Popped ==
  ASSUME NEW S, NEW s \in Seq(S), s # <<>>, IsInjective(s), NEW t, t = Front(s)
  PROVE  /\ t \in Seq(S) /\ Len(s) \in DOMAIN s /\ Last(s) = s[Len(s)]
         /\ IsInjective(t)
         /\ \A i \in DOMAIN t : i \in DOMAIN s /\ t[i] = s[i] /\ t[i] # Last(s)
<1>1. Len(s) \in Nat \ {0} /\ DOMAIN s = 1..Len(s)
  BY LenProperties, EmptySeq
<1>2. \A k \in 1..(Len(s) - 1) : s[k] \in S
  BY <1>1, ElementOfSeq
<1>3. /\ t \in Seq(S) /\ Len(t) = (IF 1 <= Len(s) - 1 THEN Len(s) - 1 - 1 + 1 ELSE 0)
      /\ \A k \in 1..(Len(s) - 1 - 1 + 1) : t[k] = s[1 + k - 1]
  BY <1>1, <1>2, SubSeqProperties DEF Front
<1>4. t \in Seq(S) /\ Len(t) = Len(s) - 1 /\ \A k \in 1..(Len(s) - 1) : t[k] = s[k]
  <2> DEFINE m == Len(s)
  <2>1. m \in Nat \ {0}
    BY <1>1
  <2>2. /\ Len(t) = (IF 1 <= m - 1 THEN m - 1 - 1 + 1 ELSE 0)
        /\ \A k \in 1..(m - 1 - 1 + 1) : t[k] = s[1 + k - 1]
    BY <1>3
  <2> HIDE DEF m
  <2>3. Len(t) = m - 1 /\ \A k \in 1..(m - 1) : t[k] = s[k]
    BY <2>1, <2>2
  <2> QED
    BY <1>3, <2>3 DEF m
<1>5. DOMAIN t = 1..(Len(s) - 1)
  BY <1>4, LenProperties
<1>6. \A i \in DOMAIN t : i \in DOMAIN s /\ t[i] = s[i] /\ i # Len(s)
  BY <1>1, <1>4, <1>5
<1>7. Last(s) = s[Len(s)] /\ Len(s) \in DOMAIN s
  BY <1>1 DEF Last
<1>8. \A i, j \in DOMAIN s : s[i] = s[j] => i = j
  BY DEF IsInjective
<1>9. \A i, j \in DOMAIN t : t[i] = t[j] => i = j
  BY <1>6, <1>8
<1> QED
  BY <1>4, <1>6, <1>7, <1>8, <1>9 DEF IsInjective

\* acquire_slot on the fiber table: the row is that of an ended fiber or a new one,
\* it is on the free list no longer and nothing names it.
LEMMA FiberSlot ==
  ASSUME Typed, FreeRows, Reached, ~StaleRefs, FiberSlotLeft(free_fibers, nfibers),
         NEW f, f = Slot(free_fibers, nfibers),
         NEW free, free = FreeAfter(free_fibers),
         NEW n, n = LenAfter(free_fibers, nfibers)
  PROVE  /\ f \in Fid /\ f # Root /\ ~fibers[f].alive /\ ~NamesFiber(f)
         /\ n \in 0..MaxFibers /\ f < n /\ nfibers <= n /\ nfibers \in 0..MaxFibers
         /\ free \in Seq(Fid) /\ IsInjective(free)
         /\ \A i \in DOMAIN free : /\ i \in DOMAIN free_fibers /\ free[i] = free_fibers[i]
                                   /\ free[i] # f
         /\ \A k \in Fid : k < nfibers /\ (\A i \in DOMAIN free_fibers : free_fibers[i] # k) =>
              k # f
<1>0. free_fibers \in Seq(Fid) /\ nfibers \in 0..MaxFibers /\ nfibers \in Nat /\ MaxFibers \in Nat
  BY SchedulerAssumption DEF Typed, TablesOK
<1>1. CASE free_fibers # <<>>
  <2>1. f = Last(free_fibers) /\ free = Front(free_fibers) /\ n = nfibers
    BY <1>1 DEF Slot, FreeAfter, LenAfter
  <2>2. IsInjective(free_fibers)
    BY DEF FreeRows
  <2>3. /\ free \in Seq(Fid) /\ Len(free_fibers) \in DOMAIN free_fibers
        /\ f = free_fibers[Len(free_fibers)] /\ IsInjective(free)
        /\ \A i \in DOMAIN free : /\ i \in DOMAIN free_fibers /\ free[i] = free_fibers[i]
                                  /\ free[i] # f
    BY <1>0, <1>1, <2>1, <2>2, Popped
  <2>4. f \in Fid
    BY <1>0, <1>1, <2>1, FrontLastType
  <2>5. ~NamesFiber(f)
    BY <1>1, <2>1 DEF FiberSlotLeft
  <2>6. f # Root /\ ~fibers[f].alive /\ f < nfibers
    BY <2>3 DEF FreeRows
  <2> QED
    BY <1>0, <2>1, <2>3, <2>4, <2>5, <2>6
<1>2. CASE free_fibers = <<>>
  <2>1. f = nfibers /\ free = <<>> /\ n = nfibers + 1 /\ nfibers < MaxFibers
    BY <1>2 DEF Slot, FreeAfter, LenAfter, FiberSlotLeft
  <2>2. f \in Fid
    BY <1>0, <2>1 DEF Fid
  <2>3. f # Root /\ ~fibers[f].alive
    BY <1>0, <2>1, <2>2 DEF FreeRows, Root
  <2>4. ~NamesFiber(f)
    BY <1>0, <2>1, <2>2 DEF Reached
  <2>5. free \in Seq(Fid) /\ DOMAIN free = {}
    BY <2>1, EmptySeq
  <2>6. IsInjective(free)
    BY <2>5 DEF IsInjective
  <2>7. \A k \in Fid : k < nfibers => k # f
    BY <1>0, <2>1 DEF Fid
  <2>8. n \in 0..MaxFibers /\ f < n /\ nfibers <= n
    BY <1>0, <2>1
  <2> QED
    BY <1>0, <2>2, <2>3, <2>4, <2>5, <2>6, <2>7, <2>8
<1> QED
  BY <1>1, <1>2

\* ... and on the scope table.
LEMMA ScopeSlot ==
  ASSUME Typed, FreeRows, ScopeSlotLeft,
         NEW s, s = Slot(free_scopes, nscopes),
         NEW free, free = FreeAfter(free_scopes),
         NEW n, n = LenAfter(free_scopes, nscopes)
  PROVE  /\ s \in Sid /\ s # ROOT_SCOPE /\ scopes[s].finalized
         /\ n > 0 /\ \A k \in Sid : k >= n => k >= nscopes /\ k # s
         /\ IsInjective(free)
         /\ \A i \in DOMAIN free : /\ i \in DOMAIN free_scopes /\ free[i] = free_scopes[i]
                                   /\ free[i] # s
<1>0. /\ free_scopes \in Seq(Sid) /\ nscopes \in 0..MaxScopes /\ nscopes \in Nat
      /\ MaxScopes \in Nat /\ nscopes > 0
  BY SchedulerAssumption DEF Typed, TablesOK, FreeRows
<1>1. CASE free_scopes # <<>>
  <2>1. s = Last(free_scopes) /\ free = Front(free_scopes) /\ n = nscopes
    BY <1>1 DEF Slot, FreeAfter, LenAfter
  <2>2. IsInjective(free_scopes)
    BY DEF FreeRows
  <2>3. /\ Len(free_scopes) \in DOMAIN free_scopes
        /\ s = free_scopes[Len(free_scopes)] /\ IsInjective(free)
        /\ \A i \in DOMAIN free : /\ i \in DOMAIN free_scopes /\ free[i] = free_scopes[i]
                                  /\ free[i] # s
    BY <1>0, <1>1, <2>1, <2>2, Popped
  <2>4. s \in Sid
    BY <1>0, <1>1, <2>1, FrontLastType
  <2>5. s # ROOT_SCOPE /\ scopes[s].finalized /\ s < nscopes
    BY <2>3 DEF FreeRows
  <2>6. \A k \in Sid : k >= n => k >= nscopes /\ k # s
    BY <1>0, <2>1, <2>4, <2>5 DEF Sid
  <2> QED
    BY <1>0, <2>1, <2>3, <2>4, <2>5, <2>6
<1>2. CASE free_scopes = <<>>
  <2>1. s = nscopes /\ free = <<>> /\ n = nscopes + 1 /\ nscopes < MaxScopes
    BY <1>2 DEF Slot, FreeAfter, LenAfter, ScopeSlotLeft
  <2>2. s \in Sid
    BY <1>0, <2>1 DEF Sid
  <2>3. s # ROOT_SCOPE /\ scopes[s].finalized
    BY <1>0, <2>1, <2>2 DEF FreeRows, ROOT_SCOPE
  <2>4. DOMAIN free = {}
    BY <2>1
  <2>5. IsInjective(free)
    BY <2>4 DEF IsInjective
  <2>6. \A k \in Sid : k >= n => k >= nscopes /\ k # s
    BY <1>0, <2>1 DEF Sid
  <2> QED
    BY <1>0, <2>1, <2>2, <2>3, <2>4, <2>5, <2>6
<1> QED
  BY <1>1, <1>2

-----------------------------------------------------------------------------
(* Wakeups: no fiber is named twice. *)

\* What names fibers names rows of the table.
LEMMA NamesTyped ==
  ASSUME Typed
  PROVE  /\ \A i \in DOMAIN ready : ready[i].fid.id \in Fid
         /\ \A i \in DOMAIN timers : timers[i].kind = "wake" => timers[i].arg.id \in Fid
         /\ \A c \in Fid : \A i \in DOMAIN fibers[c].waiters : fibers[c].waiters[i].id \in Fid
         /\ \A s \in Sid : \A i \in DOMAIN scopes[s].next_waiters :
              scopes[s].next_waiters[i].id \in Fid
<1>1. \A i \in DOMAIN ready : ready[i] \in Entry
  BY LenProperties, ElementOfSeq DEF Typed, QueuesOK
<1>2. \A i \in DOMAIN timers : timers[i] \in Timer
  BY LenProperties, ElementOfSeq DEF Typed, QueuesOK
<1>3. \A seq \in Seq(FidRef) : \A i \in DOMAIN seq : seq[i].id \in Fid
  <2> SUFFICES ASSUME NEW seq \in Seq(FidRef), NEW i \in DOMAIN seq
               PROVE  seq[i].id \in Fid
    OBVIOUS
  <2>1. seq[i] \in FidRef
    BY LenProperties, ElementOfSeq
  <2> QED
    BY <2>1 DEF FidRef
<1>4. \A c \in Fid : fibers[c].waiters \in Seq(FidRef)
  BY FiberFields DEF Typed, TablesOK
<1>5. \A s \in Sid : scopes[s].next_waiters \in Seq(FidRef)
  BY ScopeFields DEF Typed, TablesOK
<1> QED
  BY <1>1, <1>2, <1>3, <1>4, <1>5 DEF Entry, Timer, FidRef

\* Nothing names the fiber being pumped or one parked on a scope or on I/O.
LEMMA Unnamed ==
  ASSUME Typed, WakeInv, NEW f \in Fid, fibers[f].alive,
         f = current \/ fibers[f].wait_kind \in {"scope", "io"}
  PROVE  ~NamesFiber(f)
<1>1. \A i \in DOMAIN ready : ready[i].fid.id # f
  BY DEF WakeInv, ReadyOnce
<1>2. \A i \in DOMAIN timers : ~(timers[i].kind = "wake" /\ timers[i].arg.id = f)
  BY DEF WakeInv, TimerOnce
<1>3. \A c \in Fid : fibers[c].alive =>
        \A i \in DOMAIN fibers[c].waiters : fibers[c].waiters[i].id # f
  BY DEF WakeInv, WaiterOnce
<1>4. \A s \in Sid : \A i \in DOMAIN scopes[s].next_waiters : scopes[s].next_waiters[i].id # f
  BY DEF WakeInv, DrainerOnce
<1> QED
  BY <1>1, <1>2, <1>3, <1>4 DEF NamesFiber

\* A row that is alive after the step was so before, and waits as before.
KeepsWait(f) ==
  fibers'[f].alive =>
    /\ fibers[f].alive /\ fibers'[f].waiters = fibers[f].waiters
    /\ fibers'[f].wait_kind = fibers[f].wait_kind /\ fibers'[f].wait_arg = fibers[f].wait_arg
\* ... except that the fiber being pumped may park.
Parks(f) ==
  f = current /\ (fibers'[f].alive => fibers[f].alive /\ fibers'[f].waiters = fibers[f].waiters)
NextKept == \A s \in Sid : scopes'[s].next_waiters \in {scopes[s].next_waiters, <<>>}
TimersKept ==
  \A i \in DOMAIN timers' : timers'[i].kind = "wake" =>
    i \in DOMAIN timers /\ timers[i].kind = "wake" /\ timers'[i].arg = timers[i].arg

\* Timers that stay, of fibers that sleep on or end.
LEMMA TimersStay ==
  ASSUME Typed, WakeInv, TimersKept, current' = current \/ current' = NoFiber,
         \A f \in Fid : \/ KeepsWait(f) \/ Parks(f)
                        \/ \A i \in DOMAIN timers : ~(timers[i].kind = "wake" /\ timers[i].arg.id = f)
  PROVE  TimerOnce'
<1>1. \A i \in DOMAIN timers : timers[i].kind = "wake" => timers[i].arg.id \in Fid
  BY NamesTyped
<1>2. \A f \in Fid : f # NoFiber
  BY DEF Fid, NoFiber
<1> SUFFICES ASSUME NEW i \in DOMAIN timers', timers'[i].kind = "wake",
                    fibers'[timers'[i].arg.id].alive
             PROVE  /\ timers'[i].arg.id # current'
                    /\ fibers'[timers'[i].arg.id].wait_kind = "sleep"
                    /\ \A j \in DOMAIN timers' : timers'[j].kind = "wake"
                         /\ timers'[j].arg.id = timers'[i].arg.id => j = i
  BY DEF TimerOnce
<1>3. PICK g \in Fid : g = timers[i].arg.id /\ timers'[i].arg.id = g
  BY <1>1 DEF TimersKept
<1>4. i \in DOMAIN timers /\ timers[i].kind = "wake"
  BY DEF TimersKept
<1>5. fibers[g].alive
  BY <1>3, <1>4 DEF KeepsWait, Parks
<1>6. /\ g # current /\ fibers[g].wait_kind = "sleep"
      /\ \A j \in DOMAIN timers : timers[j].kind = "wake" /\ timers[j].arg.id = g => j = i
  BY <1>3, <1>4, <1>5 DEF WakeInv, TimerOnce
<1>7. fibers'[g].wait_kind = "sleep"
  BY <1>3, <1>4, <1>6 DEF KeepsWait, Parks
<1>8. \A j \in DOMAIN timers' : timers'[j].kind = "wake" /\ timers'[j].arg.id = g => j = i
  BY <1>6 DEF TimersKept
<1> QED
  BY <1>2, <1>3, <1>6, <1>7, <1>8

\* A step that adds no name, but for the timers.
LEMMA NamesLess ==
  ASSUME Typed, WakeInv, NextKept, ready' = ready,
         \A f \in Fid : KeepsWait(f) \/ Parks(f),
         current' = current \/ current' = NoFiber
  PROVE  /\ ReadyOnce' /\ WaiterOnce' /\ DrainerOnce'
         /\ \A f \in Fid : NamesFiber(f)' => \/ NamesFiber(f)
                                          \/ \E i \in DOMAIN timers' : timers'[i].kind = "wake"
                                                                    /\ timers'[i].arg.id = f
<1>0. /\ \A i \in DOMAIN ready : ready[i].fid.id \in Fid
      /\ \A c \in Fid : \A i \in DOMAIN fibers[c].waiters : fibers[c].waiters[i].id \in Fid
      /\ \A s \in Sid : \A i \in DOMAIN scopes[s].next_waiters :
           scopes[s].next_waiters[i].id \in Fid
  BY NamesTyped
<1>1. \A f \in Fid : /\ fibers'[f].alive => fibers[f].alive /\ fibers'[f].waiters = fibers[f].waiters
                     /\ fibers'[f].alive /\ f # current =>
                          /\ fibers'[f].wait_kind = fibers[f].wait_kind
                          /\ fibers'[f].wait_arg = fibers[f].wait_arg
  BY DEF KeepsWait, Parks
<1>2. \A s \in Sid : \A i \in DOMAIN scopes'[s].next_waiters :
        i \in DOMAIN scopes[s].next_waiters /\ scopes'[s].next_waiters = scopes[s].next_waiters
  BY DEF NextKept
<1>3. \A f \in Fid : f # NoFiber
  BY DEF Fid, NoFiber
<1>4. ReadyOnce'
  <2>1. \A f \in Fid : Unawaited(f) => Unawaited(f)'
    BY <1>1, <1>2 DEF Unawaited
  <2> QED
    BY <1>0, <1>1, <1>3, <2>1 DEF WakeInv, ReadyOnce
<1>6. WaiterOnce'
  BY <1>0, <1>1, <1>3 DEF WakeInv, WaiterOnce
<1>7. DrainerOnce'
  BY <1>0, <1>1, <1>2, <1>3, SMTT(30) DEF WakeInv, DrainerOnce
<1>8. \A f \in Fid : NamesFiber(f)' => \/ NamesFiber(f)
                                     \/ \E i \in DOMAIN timers' : timers'[i].kind = "wake"
                                                               /\ timers'[i].arg.id = f
  BY <1>1, <1>2 DEF NamesFiber
<1> QED
  BY <1>4, <1>6, <1>7, <1>8

\* A step that adds no name.
LEMMA WakeLess ==
  ASSUME Typed, WakeInv, NextKept, TimersKept, ready' = ready, nfibers' = nfibers,
         \A f \in Fid : KeepsWait(f) \/ Parks(f),
         current' = current \/ current' = NoFiber
  PROVE  WakeInv'
<1>1. /\ ReadyOnce' /\ WaiterOnce' /\ DrainerOnce'
      /\ \A f \in Fid : NamesFiber(f)' => \/ NamesFiber(f)
                                       \/ \E i \in DOMAIN timers' : timers'[i].kind = "wake"
                                                                 /\ timers'[i].arg.id = f
  BY NamesLess
<1>2. \A f \in Fid : NamesFiber(f)' => NamesFiber(f)
  BY <1>1 DEF NamesFiber, TimersKept
<1>3. Reached'
  BY <1>2 DEF WakeInv, Reached
<1>4. TimerOnce'
  BY TimersStay
<1> QED
  BY <1>1, <1>3, <1>4 DEF WakeInv

\* A step that queues a fiber that nothing names any more, or a new one.
LEMMA WakeAdded ==
  ASSUME Typed, WakeInv, NextKept, TimerOnce', NEW r \in FidRef, NEW focus,
         ready' = Push(r, focus), focus \in {"start", "resume"},
         \A i \in DOMAIN ready : ready[i].fid.id # r.id,
         Unawaited(r.id),
         fibers'[r.id].wait_kind = "none",
         \/ fibers[r.id].alive /\ fibers'[r.id].waiters = fibers[r.id].waiters
         \/ fibers'[r.id].waiters = <<>>,
         \A i \in DOMAIN timers' : timers'[i].kind = "wake" =>
           /\ timers'[i].arg.id # r.id
           /\ \E j \in DOMAIN timers : timers[j].kind = "wake" /\ timers'[i].arg = timers[j].arg,
         nfibers \in Nat, nfibers' \in Nat, nfibers <= nfibers', r.id < nfibers',
         \A f \in Fid \ {r.id} : KeepsWait(f) \/ Parks(f),
         current' = current \/ current' = NoFiber, r.id # current'
  PROVE  WakeInv'
<1>0. /\ \A i \in DOMAIN ready : ready[i].fid.id \in Fid
      /\ \A i \in DOMAIN timers : timers[i].kind = "wake" => timers[i].arg.id \in Fid
      /\ \A c \in Fid : \A i \in DOMAIN fibers[c].waiters : fibers[c].waiters[i].id \in Fid
      /\ \A s \in Sid : \A i \in DOMAIN scopes[s].next_waiters :
           scopes[s].next_waiters[i].id \in Fid
  BY NamesTyped
<1>1. \A f \in Fid \ {r.id} :
        /\ fibers'[f].alive => fibers[f].alive /\ fibers'[f].waiters = fibers[f].waiters
        /\ fibers'[f].alive /\ f # current =>
             /\ fibers'[f].wait_kind = fibers[f].wait_kind
             /\ fibers'[f].wait_arg = fibers[f].wait_arg
  BY DEF KeepsWait, Parks
<1>2. \A s \in Sid : \A i \in DOMAIN scopes'[s].next_waiters :
        i \in DOMAIN scopes[s].next_waiters /\ scopes'[s].next_waiters = scopes[s].next_waiters
  BY DEF NextKept
<1>3. (\A f \in Fid : f # NoFiber) /\ r.id \in Fid
  BY DEF Fid, NoFiber, FidRef
<1>4. /\ \A i \in DOMAIN ready' : \/ i \in DOMAIN ready /\ ready'[i] = ready[i]
                                  \/ /\ i = Len(ready) + 1 /\ i \notin DOMAIN ready
                                     /\ ready'[i].fid = r
  <2>1. [fid |-> r, focus |-> focus] \in Entry
    BY DEF Entry
  <2>2. ready \in Seq(Entry)
    BY DEF Typed, QueuesOK
  <2> QED
    BY <2>1, <2>2, Appended DEF Push
<1>5. \A c \in Fid : fibers'[c].alive => \A i \in DOMAIN fibers'[c].waiters :
        /\ c # r.id \/ fibers[r.id].alive
        /\ fibers[c].alive
        /\ i \in DOMAIN fibers[c].waiters /\ fibers'[c].waiters = fibers[c].waiters
  <2>1. DOMAIN <<>> = {}
    OBVIOUS
  <2> QED
    BY <1>1, <2>1
<1>6. ReadyOnce'
  <2>1. \A f \in Fid : Unawaited(f) => Unawaited(f)'
    BY <1>2, <1>5 DEF Unawaited
  <2> SUFFICES ASSUME NEW i \in DOMAIN ready', NEW g, g = ready'[i].fid.id, fibers'[g].alive
               PROVE  /\ g # current' /\ fibers'[g].wait_kind \in {"none", "handle", "next"}
                      /\ \A j \in DOMAIN ready' : ready'[j].fid.id = g => j = i
                      /\ Unawaited(g)'
    BY DEF ReadyOnce, Unawaited
  <2>2. CASE i \in DOMAIN ready /\ ready'[i] = ready[i]
    <3>1. g = ready[i].fid.id /\ g \in Fid \ {r.id} /\ fibers[g].alive
      BY <1>0, <1>1, <2>2
    <3>2. /\ g # current /\ fibers[g].wait_kind \in {"none", "handle", "next"}
          /\ \A j \in DOMAIN ready : ready[j].fid.id = g => j = i
          /\ Unawaited(g)
      BY <2>2, <3>1 DEF WakeInv, ReadyOnce
    <3>3. \A j \in DOMAIN ready' : ready'[j].fid.id = g => j = i
      BY <1>4, <3>1, <3>2
    <3> QED
      BY <1>1, <1>3, <2>1, <3>1, <3>2, <3>3
  <2>3. CASE i = Len(ready) + 1 /\ ready'[i].fid = r
    <3>1. \A j \in DOMAIN ready' : ready'[j].fid.id = r.id => j = i
      BY <1>4, <2>3
    <3> QED
      BY <1>3, <2>1, <2>3, <3>1
  <2> QED
    BY <1>4, <2>2, <2>3
<1>7. WaiterOnce'
  <2> SUFFICES ASSUME NEW c \in Fid, fibers'[c].alive, NEW i \in DOMAIN fibers'[c].waiters,
                      fibers'[fibers'[c].waiters[i].id].alive
               PROVE  /\ fibers'[c].waiters[i].id # current'
                      /\ fibers'[fibers'[c].waiters[i].id].wait_kind = "handle"
                      /\ fibers'[fibers'[c].waiters[i].id].wait_arg.id = c
                      /\ \A j \in DOMAIN fibers'[c].waiters :
                           fibers'[c].waiters[j].id = fibers'[c].waiters[i].id => j = i
    BY DEF WaiterOnce
  <2>1. /\ fibers[c].alive /\ i \in DOMAIN fibers[c].waiters
        /\ fibers'[c].waiters = fibers[c].waiters
    BY <1>5
  <2>2. fibers[c].waiters[i].id \in Fid \ {r.id} /\ fibers[fibers[c].waiters[i].id].alive
    BY <1>0, <1>1, <2>1 DEF Unawaited
  <2>3. /\ fibers[c].waiters[i].id # current
        /\ fibers[fibers[c].waiters[i].id].wait_kind = "handle"
        /\ fibers[fibers[c].waiters[i].id].wait_arg.id = c
        /\ \A j \in DOMAIN fibers[c].waiters :
             fibers[c].waiters[j].id = fibers[c].waiters[i].id => j = i
    BY <2>1, <2>2 DEF WakeInv, WaiterOnce
  <2> QED
    BY <1>1, <1>3, <2>1, <2>2, <2>3
<1>8. DrainerOnce'
  <2> SUFFICES ASSUME NEW s \in Sid, NEW i \in DOMAIN scopes'[s].next_waiters,
                      fibers'[scopes'[s].next_waiters[i].id].alive
               PROVE  /\ scopes'[s].next_waiters[i].id # current'
                      /\ fibers'[scopes'[s].next_waiters[i].id].wait_kind = "next"
                      /\ fibers'[scopes'[s].next_waiters[i].id].wait_arg.id = s
                      /\ \A j \in DOMAIN scopes'[s].next_waiters :
                           scopes'[s].next_waiters[j].id = scopes'[s].next_waiters[i].id => j = i
    BY DEF DrainerOnce
  <2>1. i \in DOMAIN scopes[s].next_waiters /\ scopes'[s].next_waiters = scopes[s].next_waiters
    BY <1>2
  <2>2. /\ scopes[s].next_waiters[i].id \in Fid \ {r.id}
        /\ fibers[scopes[s].next_waiters[i].id].alive
    BY <1>0, <1>1, <2>1 DEF Unawaited
  <2>3. /\ scopes[s].next_waiters[i].id # current
        /\ fibers[scopes[s].next_waiters[i].id].wait_kind = "next"
        /\ fibers[scopes[s].next_waiters[i].id].wait_arg.id = s
        /\ \A j \in DOMAIN scopes[s].next_waiters :
             scopes[s].next_waiters[j].id = scopes[s].next_waiters[i].id => j = i
    BY <2>1, <2>2 DEF WakeInv, DrainerOnce
  <2> QED
    BY <1>1, <1>3, <2>1, <2>2, <2>3
<1>9. Reached'
  <2>1. \A f \in Fid : NamesFiber(f)' => NamesFiber(f) \/ f = r.id
    BY <1>2, <1>4, <1>5 DEF NamesFiber
  <2>2. \A f \in Fid : f \in Int
    BY DEF Fid
  <2> QED
    BY <1>3, <2>1, <2>2 DEF WakeInv, Reached
<1> QED
  BY <1>6, <1>7, <1>8, <1>9 DEF WakeInv


-----------------------------------------------------------------------------
(* What the operations change, field by field. *)

\* The fields of a scope's row that only a few operations touch.
SameScope(s) ==
  /\ scopes'[s].manual = scopes[s].manual /\ scopes'[s].cancelled = scopes[s].cancelled
  /\ scopes'[s].finalized = scopes[s].finalized /\ scopes'[s].body = scopes[s].body
  /\ scopes'[s].awaiter = scopes[s].awaiter /\ scopes'[s].bd_kind = scopes[s].bd_kind
  /\ scopes'[s].enclosing = scopes[s].enclosing /\ scopes'[s].gen = scopes[s].gen
\* Those of a fiber's row.
SameFiber(f) ==
  /\ fibers'[f].alive = fibers[f].alive /\ fibers'[f].scope = fibers[f].scope
  /\ fibers'[f].runs_scope = fibers[f].runs_scope /\ fibers'[f].knows = fibers[f].knows
  /\ fibers'[f].gen = fibers[f].gen

\* A handle of the fiber being pumped.
LEMMA HandleSid ==
  ASSUME Typed, NEW h \in Handles, Pumping
  PROVE  h \in SidRef /\ h.id \in Sid
<1>1. current \in Fid
  BY CurrentType DEF Pumping
<1>2. fibers[current].knows \in SUBSET SidRef
  BY <1>1, FiberFields DEF Typed, TablesOK
<1>3. starting \in SidRef \cup {None}
  BY DEF Typed, ControlOK
<1> QED
  BY <1>2, <1>3 DEF Handles, SidRef

\* The row f becomes a child of the scope of the handle h.
Spawned(f, h) ==
  /\ \A g \in Fid \ {f} : fibers'[g] = fibers[g]
  /\ fibers'[f].alive /\ fibers'[f].scope = h.id /\ fibers'[f].runs_scope = NO_SCOPE
  /\ fibers'[f].wait_kind = "none" /\ fibers'[f].waiters = <<>>
  /\ fibers'[f].knows = scopes[h.id].enclosing \cup {h}
  /\ fibers'[f].gen = fibers[f].gen + 1
  /\ \A s \in Sid \ {h.id} : scopes'[s] = scopes[s]
  /\ SameScope(h.id)
  /\ scopes'[h.id].next_waiters = scopes[h.id].next_waiters
  /\ scopes'[h.id].children = Append(scopes[h.id].children, Ref(f, fibers[f].gen + 1))
  /\ scopes'[h.id].live = scopes[h.id].live + 1

\* sched_spawn fills a row of the fiber table and adds a child to the scope.
LEMMA SpawnDelta ==
  ASSUME Typed, NEW h, h.id \in Sid, NEW handles, SpawnInto(h, handles), ~CaptureInner,
         NEW f, f = Slot(free_fibers, nfibers), f \in Fid
  PROVE  Spawned(f, h)
<1>1. fibers \in [Fid -> FiberOK] /\ scopes \in [Sid -> Scope]
  BY DEF Typed, TablesOK
<1>2. fibers' = [fibers EXCEPT ![f] = NewFiber(h.id, NO_SCOPE, scopes[h.id].enclosing \cup {h}, @)]
  BY DEF SpawnInto
<1>3. scopes' = [scopes EXCEPT ![h.id].children = Append(@, Ref(f, fibers[f].gen + 1)),
                               ![h.id].live = @ + 1]
  BY DEF SpawnInto
<1>4. /\ \A g \in Fid \ {f} : fibers'[g] = fibers[g]
      /\ fibers'[f] = NewFiber(h.id, NO_SCOPE, scopes[h.id].enclosing \cup {h}, fibers[f])
  BY <1>1, <1>2
<1>5. /\ fibers'[f].alive /\ fibers'[f].scope = h.id /\ fibers'[f].runs_scope = NO_SCOPE
      /\ fibers'[f].wait_kind = "none" /\ fibers'[f].waiters = <<>>
      /\ fibers'[f].knows = scopes[h.id].enclosing \cup {h}
      /\ fibers'[f].gen = fibers[f].gen + 1
  BY <1>4 DEF NewFiber
<1>6. scopes[h.id] \in Scope
  BY <1>1
<1>7. /\ \A s \in Sid \ {h.id} : scopes'[s] = scopes[s]
      /\ scopes'[h.id] = [scopes[h.id] EXCEPT
                            !.children = Append(scopes[h.id].children, Ref(f, fibers[f].gen + 1)),
                            !.live = scopes[h.id].live + 1]
  BY <1>1, <1>3
<1>8. /\ SameScope(h.id)
      /\ scopes'[h.id].next_waiters = scopes[h.id].next_waiters
      /\ scopes'[h.id].children = Append(scopes[h.id].children, Ref(f, fibers[f].gen + 1))
      /\ scopes'[h.id].live = scopes[h.id].live + 1
  <2> DEFINE kids == Append(scopes[h.id].children, Ref(f, fibers[f].gen + 1))
             more == scopes[h.id].live + 1
             r == scopes[h.id]
  <2>1. scopes'[h.id] = [r EXCEPT !.children = kids, !.live = more]
    BY <1>7
  <2>2. r \in Scope
    BY <1>6
  <2> HIDE DEF kids, more, r
  <2>3. /\ scopes'[h.id].manual = r.manual /\ scopes'[h.id].cancelled = r.cancelled
        /\ scopes'[h.id].finalized = r.finalized /\ scopes'[h.id].body = r.body
        /\ scopes'[h.id].awaiter = r.awaiter /\ scopes'[h.id].bd_kind = r.bd_kind
        /\ scopes'[h.id].enclosing = r.enclosing /\ scopes'[h.id].gen = r.gen
        /\ scopes'[h.id].next_waiters = r.next_waiters
        /\ scopes'[h.id].children = kids /\ scopes'[h.id].live = more
    BY <2>1, <2>2 DEF Scope
  <2> QED
    BY <2>3 DEF SameScope, kids, more, r
<1> QED
  BY <1>4, <1>5, <1>7, <1>8 DEF Spawned

\* The row f becomes the body of the scope that the fiber c starts.
BodyQueued(f, c) ==
  /\ starting.id \in Sid
  /\ \A g \in Fid \ {f, c} : fibers'[g] = fibers[g]
  /\ fibers'[f].alive /\ fibers'[f].scope = starting.id
  /\ fibers'[f].runs_scope = starting.id
  /\ fibers'[f].wait_kind = "none" /\ fibers'[f].waiters = <<>>
  /\ fibers'[f].knows = fibers[c].knows \cup {starting}
  /\ fibers'[f].gen = fibers[f].gen + 1
  /\ SameFiber(c) /\ fibers'[c].waiters = fibers[c].waiters
  /\ fibers'[c].wait_kind = "scope" /\ fibers'[c].wait_arg = starting
  /\ scopes' = [scopes EXCEPT ![starting.id].body = f]

\* start_scope's second half fills a row for the body and parks the creator.
LEMMA StartBodyDelta ==
  ASSUME Typed, StartBody, NEW f \in Fid, f = Slot(free_fibers, nfibers),
         NEW c \in Fid, c = current, f # c
  PROVE  BodyQueued(f, c)
<1>1. fibers \in [Fid -> FiberOK]
  BY DEF Typed, TablesOK
<1>3. starting \in SidRef
  BY DEF Typed, ControlOK, StartBody
<1>4. starting.id \in Sid
  BY <1>3 DEF SidRef
<1> DEFINE s == starting.id
           n == NewFiber(s, s, fibers[c].knows \cup {starting}, fibers[f])
<1>5. fibers' = [fibers EXCEPT ![f] = n, ![c].wait_kind = "scope", ![c].wait_arg = starting]
  BY DEF StartBody
<1>6. /\ fibers'[f] = n /\ \A g \in Fid \ {f, c} : fibers'[g] = fibers[g]
      /\ fibers'[c] = [fibers[c] EXCEPT !.wait_kind = "scope", !.wait_arg = starting]
  <2> HIDE DEF n
  <2> QED
    BY <1>1, <1>5
<1>7. fibers[c] \in Fiber
  BY <1>1 DEF FiberOK
<1>8. /\ SameFiber(c) /\ fibers'[c].waiters = fibers[c].waiters
      /\ fibers'[c].wait_kind = "scope" /\ fibers'[c].wait_arg = starting
  BY <1>6, <1>7 DEF SameFiber, Fiber
<1>9. /\ fibers'[f].alive /\ fibers'[f].scope = starting.id
      /\ fibers'[f].runs_scope = starting.id
      /\ fibers'[f].wait_kind = "none" /\ fibers'[f].waiters = <<>>
      /\ fibers'[f].knows = fibers[c].knows \cup {starting}
      /\ fibers'[f].gen = fibers[f].gen + 1
  BY <1>6 DEF NewFiber
<1>10. scopes' = [scopes EXCEPT ![starting.id].body = f]
  BY DEF StartBody
<1> HIDE DEF n
<1> QED
  BY <1>4, <1>6, <1>8, <1>9, <1>10 DEF BodyQueued

\* A fiber parks.
Parked(c, kind, arg) == [fibers EXCEPT ![c].wait_kind = kind, ![c].wait_arg = arg]

\* Parking changes the fiber's wait and nothing else.
LEMMA ParkDelta ==
  ASSUME Typed, NEW c \in Fid, NEW kind, NEW arg, fibers' = Parked(c, kind, arg)
  PROVE  /\ \A g \in Fid \ {c} : fibers'[g] = fibers[g]
         /\ SameFiber(c) /\ fibers'[c].waiters = fibers[c].waiters
         /\ fibers'[c].wait_kind = kind /\ fibers'[c].wait_arg = arg
<1>1. fibers \in [Fid -> FiberOK]
  BY DEF Typed, TablesOK
<1>2. fibers[c] \in Fiber
  BY <1>1 DEF FiberOK
<1>3. fibers'[c] = [fibers[c] EXCEPT !.wait_kind = kind, !.wait_arg = arg]
  BY <1>1 DEF Parked
<1>4. \A g \in Fid \ {c} : fibers'[g] = fibers[g]
  BY <1>1 DEF Parked
<1>5. ASSUME NEW q \in Fiber, NEW r, r = [q EXCEPT !.wait_kind = kind, !.wait_arg = arg]
      PROVE  /\ r.alive = q.alive /\ r.scope = q.scope /\ r.runs_scope = q.runs_scope
             /\ r.knows = q.knows /\ r.gen = q.gen /\ r.waiters = q.waiters
             /\ r.wait_kind = kind /\ r.wait_arg = arg
  BY <1>5 DEF Fiber
<1>6. /\ fibers'[c].alive = fibers[c].alive /\ fibers'[c].scope = fibers[c].scope
      /\ fibers'[c].runs_scope = fibers[c].runs_scope /\ fibers'[c].knows = fibers[c].knows
      /\ fibers'[c].gen = fibers[c].gen /\ fibers'[c].waiters = fibers[c].waiters
      /\ fibers'[c].wait_kind = kind /\ fibers'[c].wait_arg = arg
  BY <1>2, <1>3, <1>5, ZenonT(40)
<1> QED
  BY <1>4, <1>6 DEF SameFiber

\* A fiber is resumed.
LEMMA ResumeDelta ==
  ASSUME Typed, NEW c \in Fid, fibers' = [fibers EXCEPT ![c].wait_kind = "none"]
  PROVE  /\ \A g \in Fid \ {c} : fibers'[g] = fibers[g]
         /\ SameFiber(c) /\ fibers'[c].waiters = fibers[c].waiters
         /\ fibers'[c].wait_kind = "none" /\ fibers'[c].wait_arg = fibers[c].wait_arg
<1>1. fibers \in [Fid -> FiberOK]
  BY DEF Typed, TablesOK
<1>2. fibers[c] \in Fiber
  BY <1>1 DEF FiberOK
<1>3. fibers'[c] = [fibers[c] EXCEPT !.wait_kind = "none"]
  BY <1>1
<1>4. \A g \in Fid \ {c} : fibers'[g] = fibers[g]
  BY <1>1
<1> QED
  BY <1>2, <1>3, <1>4 DEF SameFiber, Fiber

\* A fiber ends.
Ended(f) ==
  /\ \A g \in Fid \ {f} : fibers'[g] = fibers[g]
  /\ ~fibers'[f].alive /\ fibers'[f].scope = fibers[f].scope
  /\ fibers'[f].runs_scope = fibers[f].runs_scope /\ fibers'[f].knows = fibers[f].knows
  /\ fibers'[f].gen = fibers[f].gen

\* What a fiber's row looks like after complete_current or reap_fiber settled it.
LEMMA SettleDelta ==
  ASSUME Typed, NEW c \in Fid, NEW kind,
         \/ fibers' = Settled(c, kind)
         \/ fibers' = [Settled(c, kind) EXCEPT ![c].waiters = <<>>]
  PROVE  Ended(c)
<1>1. fibers \in [Fid -> FiberOK]
  BY DEF Typed, TablesOK
<1>2. fibers[c] \in Fiber
  BY <1>1 DEF FiberOK
<1>3. Settled(c, kind) = [fibers EXCEPT ![c].alive = FALSE, ![c].res_kind = kind]
  BY DEF Settled
<1> DEFINE t == Settled(c, kind)
<1>4. /\ \A g \in Fid \ {c} : t[g] = fibers[g]
      /\ t[c] = [fibers[c] EXCEPT !.alive = FALSE, !.res_kind = kind]
      /\ DOMAIN t = Fid
  BY <1>1, <1>3
<1>5. /\ ~t[c].alive /\ t[c].scope = fibers[c].scope
      /\ t[c].runs_scope = fibers[c].runs_scope /\ t[c].knows = fibers[c].knows
      /\ t[c].gen = fibers[c].gen
      /\ {"alive", "scope", "runs_scope", "knows", "gen"} \subseteq DOMAIN t[c]
  BY <1>2, <1>4 DEF Fiber
<1> HIDE DEF t
<1>6. CASE fibers' = t
  BY <1>4, <1>5, <1>6 DEF Ended
<1>7. CASE fibers' = [t EXCEPT ![c].waiters = <<>>]
  <2>1. /\ fibers'[c] = [t[c] EXCEPT !.waiters = <<>>]
        /\ \A g \in Fid \ {c} : fibers'[g] = fibers[g]
    BY <1>4, <1>7
  <2> QED
    BY <1>5, <2>1 DEF Ended
<1> QED
  BY <1>6, <1>7 DEF t

-----------------------------------------------------------------------------
(* The wakeups after each operation. *)

\* A step that leaves what names fibers alone.
LEMMA WakeSame ==
  ASSUME Typed, WakeInv, UNCHANGED <<fibers, nfibers, ready>>, NextKept, TimersKept,
         current' = current \/ current' = NoFiber
  PROVE  WakeInv'
<1>1. \A f \in Fid : KeepsWait(f)
  BY DEF KeepsWait
<1> QED
  BY <1>1, WakeLess

\* One that ends a fiber.
LEMMA WakeEnded ==
  ASSUME Typed, WakeInv, NEW c \in Fid, Ended(c), UNCHANGED <<nfibers, ready, timers>>, NextKept,
         current' = current \/ current' = NoFiber
  PROVE  WakeInv'
<1>1. \A f \in Fid : KeepsWait(f)
  BY DEF KeepsWait, Ended
<1>2. TimersKept
  BY DEF TimersKept
<1> QED
  BY <1>1, <1>2, WakeLess

\* sched_spawn.
LEMMA WakeSpawnInto ==
  ASSUME Typed, FreeRows, WakeInv, ~StaleRefs, ~CaptureInner,
         NEW h \in SidRef, NEW handles, SpawnInto(h, handles), UNCHANGED <<timers, current>>,
         current # NoFiber => fibers[current].alive
  PROVE  WakeInv'
<1> DEFINE f == Slot(free_fibers, nfibers)
<1>1. FiberSlotLeft(free_fibers, nfibers)
  BY DEF SpawnInto
<1>2. /\ f \in Fid /\ f # Root /\ ~fibers[f].alive /\ ~NamesFiber(f)
      /\ nfibers' \in 0..MaxFibers /\ f < nfibers' /\ nfibers <= nfibers' /\ nfibers \in 0..MaxFibers
  <2>1. nfibers' = LenAfter(free_fibers, nfibers)
    BY DEF SpawnInto
  <2> QED
    BY <1>1, <2>1, FiberSlot DEF WakeInv
<1>3. h.id \in Sid
  BY DEF SidRef
<1>4. ready' = Push(Ref(f, fibers[f].gen + 1), "start")
  BY DEF SpawnInto
<1> DEFINE r == Ref(f, fibers[f].gen + 1)
<1>5. r \in FidRef /\ r.id = f
  <2>1. fibers[f].gen \in Nat
    BY <1>2, FiberFields DEF Typed, TablesOK
  <2> QED
    BY <1>2, <2>1 DEF Ref, FidRef
<1>6. /\ \A g \in Fid \ {f} : fibers'[g] = fibers[g]
      /\ fibers'[f].wait_kind = "none" /\ fibers'[f].waiters = <<>>
      /\ \A s \in Sid \ {h.id} : scopes'[s] = scopes[s]
      /\ scopes'[h.id].next_waiters = scopes[h.id].next_waiters
  <2>1. Spawned(f, h)
    BY <1>2, <1>3, SpawnDelta
  <2> HIDE DEF f
  <2> QED
    BY <2>1 DEF Spawned
<1> HIDE DEF f, r
<1>7. NextKept /\ TimersKept
  BY <1>6 DEF NextKept, TimersKept
<1>8. /\ \A i \in DOMAIN ready : ready[i].fid.id # f
      /\ \A i \in DOMAIN timers : ~(timers[i].kind = "wake" /\ timers[i].arg.id = f)
      /\ Unawaited(f)
  BY <1>2 DEF NamesFiber, Unawaited
<1>9. \A g \in Fid \ {f} : KeepsWait(g)
  BY <1>6 DEF KeepsWait
<1>10. TimerOnce'
  BY <1>7, <1>8, <1>9, TimersStay
<1>11. f # current
  BY <1>2 DEF Fid, NoFiber
<1>12. nfibers \in Nat /\ nfibers' \in Nat
  BY <1>2, SchedulerAssumption
<1>13. \A i \in DOMAIN timers' : timers'[i].kind = "wake" =>
           /\ timers'[i].arg.id # f
           /\ \E j \in DOMAIN timers : timers[j].kind = "wake" /\ timers'[i].arg = timers[j].arg
  BY <1>8
<1> QED
  BY <1>2, <1>4, <1>5, <1>6, <1>7, <1>8, <1>9, <1>10, <1>11, <1>12, <1>13, WakeAdded DEF r

\* What the lemmas below take from the invariant.
LEMMA InvParts ==
  ASSUME ScopeInv
  PROVE  /\ Typed /\ AliveOpen /\ PumpedAlive /\ CallsAlone /\ WakeInv /\ Reached
         /\ FiberRows /\ Nesting /\ Awaited /\ Awaiting /\ Bodies /\ Kids /\ FreeRows
         /\ LiveCount /\ Cancelling /\ Calls /\ Order
         /\ fibers \in [Fid -> FiberOK] /\ scopes \in [Sid -> Scope]
BY DEF ScopeInv, RowsInv, TreeInv, WakeInv, Typed, TablesOK

\* The fiber being pumped is alive, named by nothing, and its row was handed out.
LEMMA Pumped ==
  ASSUME ScopeInv, current # NoFiber
  PROVE  /\ current \in Fid /\ fibers[current].alive /\ fibers[current].wait_kind = "none"
         /\ ~NamesFiber(current) /\ current < nfibers /\ FiberRef(current) \in FidRef
         /\ FiberRef(current).id = current
<1>1. Typed /\ PumpedAlive /\ Awaiting /\ WakeInv /\ FreeRows
  BY InvParts
<1>2. current \in Fid /\ FiberRef(current) \in FidRef
  BY <1>1, CurrentType
<1>3. fibers[current].alive /\ fibers[current].wait_kind = "none"
  BY <1>1 DEF PumpedAlive, Awaiting
<1>4. ~NamesFiber(current)
  BY <1>1, <1>2, <1>3, Unnamed
<1>5. current < nfibers
  <2>1. ~(current >= nfibers)
    BY <1>1, <1>2, <1>3 DEF FreeRows
  <2>2. current \in Int /\ nfibers \in Int
    BY <1>1, <1>2, SchedulerAssumption DEF Fid, Typed, TablesOK
  <2> QED
    BY <2>1, <2>2
<1> QED
  BY <1>2, <1>3, <1>4, <1>5 DEF FiberRef, Ref

\* The fiber being pumped yields.
LEMMA WakeYield ==
  ASSUME ScopeInv, Yield
  PROVE  WakeInv'
<1>0. Typed /\ WakeInv
  BY InvParts
<1>1. /\ current # NoFiber /\ ready' = Push(FiberRef(current), "resume") /\ current' = NoFiber
      /\ UNCHANGED <<fibers, nfibers, scopes, timers>>
  BY DEF Yield, CanSuspend, Pumping, tables
<1>2. /\ current \in Fid /\ fibers[current].alive /\ fibers[current].wait_kind = "none"
      /\ ~NamesFiber(current) /\ current < nfibers /\ FiberRef(current) \in FidRef
      /\ FiberRef(current).id = current
  BY <1>1, Pumped
<1>3. /\ \A i \in DOMAIN ready : ready[i].fid.id # current
      /\ \A i \in DOMAIN timers : ~(timers[i].kind = "wake" /\ timers[i].arg.id = current)
      /\ Unawaited(current)
  BY <1>2 DEF NamesFiber, Unawaited
<1>4. NextKept /\ TimersKept /\ \A f \in Fid : KeepsWait(f)
  BY <1>1 DEF NextKept, TimersKept, KeepsWait
<1>5. TimerOnce'
  BY <1>0, <1>1, <1>4, TimersStay
<1>6. nfibers \in Nat /\ nfibers <= nfibers
  BY <1>0, SchedulerAssumption DEF Typed, TablesOK
<1>7. current # NoFiber
  BY <1>1
<1>8. PICK r \in FidRef : r = FiberRef(current) /\ r.id = current
  BY <1>2
<1>9. /\ ready' = Push(r, "resume") /\ fibers'[r.id].wait_kind = "none"
      /\ fibers[r.id].alive /\ fibers'[r.id].waiters = fibers[r.id].waiters
      /\ nfibers' = nfibers /\ r.id < nfibers' /\ r.id # current'
  BY <1>1, <1>2, <1>8
<1>10. \A i \in DOMAIN timers' : timers'[i].kind = "wake" =>
           /\ timers'[i].arg.id # r.id
           /\ \E j \in DOMAIN timers : timers[j].kind = "wake" /\ timers'[i].arg = timers[j].arg
  BY <1>1, <1>3, <1>8
<1>11. (\A i \in DOMAIN ready : ready[i].fid.id # r.id) /\ Unawaited(r.id)
  BY <1>3, <1>8
<1> QED
  BY <1>0, <1>1, <1>4, <1>5, <1>6, <1>9, <1>10, <1>11, WakeAdded

\* A fiber sleeps: its wake timer is the only thing that names it.
LEMMA WakeSleep ==
  ASSUME ScopeInv, NEW d \in Durations, Sleep(d)
  PROVE  WakeInv'
<1>0. Typed /\ WakeInv
  BY InvParts
<1>1. current # NoFiber
  BY DEF Sleep, CanSuspend, Pumping
<1>2. PICK c \in Fid : c = current
  BY <1>1, Pumped
<1>3. /\ fibers[c].alive /\ ~NamesFiber(c) /\ c < nfibers /\ FiberRef(c) \in FidRef
      /\ FiberRef(c).id = c
  BY <1>1, <1>2, Pumped
<1>4. /\ timers' = Append(timers, [at |-> d, kind |-> "wake", arg |-> FiberRef(c)])
      /\ fibers' = Parked(c, "sleep", None)
      /\ current' = NoFiber /\ UNCHANGED <<nfibers, scopes, ready>>
  BY <1>2 DEF Sleep, Park, Parked
<1>5. /\ \A g \in Fid \ {c} : fibers'[g] = fibers[g]
      /\ SameFiber(c) /\ fibers'[c].waiters = fibers[c].waiters
      /\ fibers'[c].wait_kind = "sleep"
  BY <1>0, <1>4, ParkDelta
<1>6. \A f \in Fid : KeepsWait(f) \/ Parks(f)
  BY <1>2, <1>5 DEF KeepsWait, Parks, SameFiber
<1>7. NextKept
  BY <1>4 DEF NextKept
<1>8. PICK e \in Timer : e = [at |-> d, kind |-> "wake", arg |-> FiberRef(c)]
  <2>1. d \in Nat
    BY SchedulerAssumption
  <2> QED
    BY <1>3, <2>1 DEF Timer
<1>9. /\ \A i \in DOMAIN timers' : \/ i \in DOMAIN timers /\ timers'[i] = timers[i]
                                   \/ /\ i = Len(timers) + 1 /\ i \notin DOMAIN timers
                                      /\ timers'[i].kind = "wake" /\ timers'[i].arg.id = c
  <2>1. timers \in Seq(Timer)
    BY <1>0 DEF Typed, QueuesOK
  <2>2. /\ \A i \in DOMAIN timers' : \/ i \in DOMAIN timers /\ timers'[i] = timers[i]
                                     \/ i = Len(timers) + 1 /\ i \notin DOMAIN timers /\ timers'[i] = e
    BY <1>4, <1>8, <2>1, Appended
  <2> QED
    BY <1>3, <1>8, <2>2
<1>10. TimerOnce'
  <2>1. \A i \in DOMAIN timers : timers[i].kind = "wake" => timers[i].arg.id \in Fid \ {c}
    BY <1>0, <1>3, NamesTyped DEF NamesFiber
  <2>2. c # current'
    BY <1>4 DEF Fid, NoFiber
  <2> SUFFICES ASSUME NEW i \in DOMAIN timers', timers'[i].kind = "wake", NEW g,
                      g = timers'[i].arg.id, fibers'[g].alive
               PROVE  /\ g # current' /\ fibers'[g].wait_kind = "sleep"
                      /\ \A j \in DOMAIN timers' : timers'[j].kind = "wake"
                           /\ timers'[j].arg.id = g => j = i
    BY DEF TimerOnce
  <2>3. CASE i \in DOMAIN timers /\ timers'[i] = timers[i]
    <3>1. g \in Fid \ {c} /\ fibers[g].alive /\ timers[i].kind = "wake" /\ timers[i].arg.id = g
      BY <1>5, <2>1, <2>3
    <3>2. /\ fibers[g].wait_kind = "sleep"
          /\ \A j \in DOMAIN timers : timers[j].kind = "wake" /\ timers[j].arg.id = g => j = i
      BY <1>0, <2>3, <3>1 DEF WakeInv, TimerOnce
    <3>3. g # NoFiber
      BY <3>1 DEF Fid, NoFiber
    <3>4. \A j \in DOMAIN timers' : timers'[j].kind = "wake" /\ timers'[j].arg.id = g => j = i
      BY <1>9, <3>1, <3>2
    <3> QED
      BY <1>4, <1>5, <3>1, <3>2, <3>3, <3>4
  <2>4. CASE i = Len(timers) + 1 /\ timers'[i].arg.id = c
    <3>1. \A j \in DOMAIN timers' : timers'[j].kind = "wake" /\ timers'[j].arg.id = c => j = i
      BY <1>9, <2>1, <2>4
    <3> QED
      BY <1>5, <2>2, <2>4, <3>1
  <2> QED
    BY <1>9, <2>3, <2>4
<1>11. /\ ReadyOnce' /\ WaiterOnce' /\ DrainerOnce'
       /\ \A f \in Fid : NamesFiber(f)' => \/ NamesFiber(f)
                                        \/ \E i \in DOMAIN timers' : timers'[i].kind = "wake"
                                                                  /\ timers'[i].arg.id = f
  BY <1>0, <1>4, <1>6, <1>7, NamesLess
<1>12. Reached'
  <2>1. \A f \in Fid : NamesFiber(f)' => NamesFiber(f) \/ f = c
    BY <1>9, <1>11 DEF NamesFiber
  <2> QED
    BY <1>0, <1>3, <1>4, <2>1 DEF WakeInv, Reached
<1> QED
  BY <1>10, <1>11, <1>12 DEF WakeInv

\* A fiber waits for I/O.
LEMMA WakeAwaitIo ==
  ASSUME ScopeInv, AwaitIo
  PROVE  WakeInv'
<1>0. Typed /\ WakeInv
  BY InvParts
<1>1. current # NoFiber
  BY DEF AwaitIo, CanSuspend, Pumping
<1>2. PICK c \in Fid : c = current
  BY <1>1, Pumped
<1>3. /\ fibers' = Parked(c, "io", None)
      /\ current' = NoFiber /\ UNCHANGED <<nfibers, scopes, ready, timers>>
  BY <1>2 DEF AwaitIo, Park, Parked, queues
<1>4. /\ \A g \in Fid \ {c} : fibers'[g] = fibers[g]
      /\ SameFiber(c) /\ fibers'[c].waiters = fibers[c].waiters
  BY <1>0, <1>3, ParkDelta
<1>5. \A f \in Fid : KeepsWait(f) \/ Parks(f)
  BY <1>2, <1>4 DEF KeepsWait, Parks, SameFiber
<1>6. NextKept /\ TimersKept
  BY <1>3 DEF NextKept, TimersKept
<1> QED
  BY <1>0, <1>3, <1>5, <1>6, WakeLess

\* A fiber drains a scope: the scope's list is the only thing that names it.
LEMMA WakeAwaitNext ==
  ASSUME ScopeInv, NEW h, AwaitNext(h)
  PROVE  WakeInv'
<1>0. Typed /\ WakeInv
  BY InvParts
<1>1. current # NoFiber /\ h \in Handles /\ Pumping
  BY DEF AwaitNext, CanDrain, CanSuspend, Pumping
<1>2. PICK c \in Fid : c = current
  BY <1>1, Pumped
<1>3. /\ fibers[c].alive /\ ~NamesFiber(c) /\ c < nfibers /\ FiberRef(c) \in FidRef
      /\ FiberRef(c).id = c
  BY <1>1, <1>2, Pumped
<1>4. PICK x \in Sid : x = h.id
  BY <1>0, <1>1, HandleSid
<1>5. current' = NoFiber /\ nfibers' = nfibers /\ ready' = ready /\ timers' = timers
  BY <1>2, <1>4 DEF AwaitNext, Park, queues
<1>6. /\ \A g \in Fid \ {c} : fibers'[g] = fibers[g]
      /\ SameFiber(c) /\ fibers'[c].waiters = fibers[c].waiters
      /\ fibers'[c].wait_kind = "next" /\ fibers'[c].wait_arg.id = x
  <2>1. fibers' = Parked(c, "next", h)
    BY <1>2 DEF AwaitNext, Park, Parked
  <2>2. /\ \A g \in Fid \ {c} : fibers'[g] = fibers[g]
        /\ SameFiber(c) /\ fibers'[c].waiters = fibers[c].waiters
        /\ fibers'[c].wait_kind = "next" /\ fibers'[c].wait_arg = h
    BY <1>0, <2>1, ParkDelta
  <2> QED
    BY <1>4, <2>2
<1>7. PICK e \in FidRef : e = FiberRef(c) /\ e.id = c
  BY <1>3
<1>8. /\ \A s \in Sid \ {x} : scopes'[s] = scopes[s]
      /\ scopes'[x].next_waiters = Append(scopes[x].next_waiters, e)
  <2>1. scopes \in [Sid -> Scope]
    BY <1>0 DEF Typed, TablesOK
  <2>2. scopes[x] \in Scope
    BY <2>1
  <2>3. /\ \A s \in Sid \ {x} : scopes'[s] = scopes[s]
        /\ scopes'[x] = [scopes[x] EXCEPT !.next_waiters = Append(scopes[x].next_waiters, e)]
    BY <1>2, <1>4, <1>7, <2>1 DEF AwaitNext
  <2> QED
    BY <2>2, <2>3 DEF Scope
<1>9. \A s \in Sid : \A i \in DOMAIN scopes'[s].next_waiters :
        \/ /\ i \in DOMAIN scopes[s].next_waiters
           /\ scopes'[s].next_waiters[i] = scopes[s].next_waiters[i]
        \/ /\ s = x /\ i = Len(scopes[x].next_waiters) + 1
           /\ i \notin DOMAIN scopes[x].next_waiters
           /\ scopes'[s].next_waiters[i].id = c
  <2>1. scopes[x].next_waiters \in Seq(FidRef)
    BY <1>0, ScopeFields DEF Typed, TablesOK
  <2>2. \A i \in DOMAIN scopes'[x].next_waiters :
          \/ /\ i \in DOMAIN scopes[x].next_waiters
             /\ scopes'[x].next_waiters[i] = scopes[x].next_waiters[i]
          \/ /\ i = Len(scopes[x].next_waiters) + 1
             /\ i \notin DOMAIN scopes[x].next_waiters
             /\ scopes'[x].next_waiters[i] = e
    BY <1>8, <2>1, Appended
  <2> QED
    BY <1>7, <1>8, <2>2
<1>10. /\ \A i \in DOMAIN ready : ready[i].fid.id \in Fid \ {c}
       /\ \A i \in DOMAIN timers : timers[i].kind = "wake" => timers[i].arg.id \in Fid \ {c}
       /\ \A g \in Fid : fibers[g].alive => \A i \in DOMAIN fibers[g].waiters :
            fibers[g].waiters[i].id \in Fid \ {c}
       /\ \A s \in Sid : \A i \in DOMAIN scopes[s].next_waiters :
            scopes[s].next_waiters[i].id \in Fid \ {c}
  BY <1>0, <1>3, NamesTyped DEF NamesFiber
<1>11. \A g \in Fid : g # current'
  BY <1>5 DEF Fid, NoFiber
<1>12. \A g \in Fid : /\ fibers'[g].alive = fibers[g].alive /\ fibers'[g].waiters = fibers[g].waiters
                      /\ g # c => /\ fibers'[g].wait_kind = fibers[g].wait_kind
                                  /\ fibers'[g].wait_arg = fibers[g].wait_arg
  BY <1>6 DEF SameFiber
<1>13. ReadyOnce'
  <2>1. \A f \in Fid \ {c} : Unawaited(f) => Unawaited(f)'
    BY <1>9, <1>12 DEF Unawaited
  <2> QED
    BY <1>0, <1>5, <1>10, <1>11, <1>12, <2>1 DEF WakeInv, ReadyOnce
<1>14. TimerOnce'
  BY <1>0, <1>5, <1>10, <1>11, <1>12 DEF WakeInv, TimerOnce
<1>15. WaiterOnce'
  BY <1>0, <1>10, <1>11, <1>12, SMTT(30) DEF WakeInv, WaiterOnce
<1>16. DrainerOnce'
  <2> SUFFICES ASSUME NEW s \in Sid, NEW i \in DOMAIN scopes'[s].next_waiters, NEW g,
                      g = scopes'[s].next_waiters[i].id, fibers'[g].alive
               PROVE  /\ g # current' /\ fibers'[g].wait_kind = "next"
                      /\ fibers'[g].wait_arg.id = s
                      /\ \A j \in DOMAIN scopes'[s].next_waiters :
                           scopes'[s].next_waiters[j].id = g => j = i
    BY DEF DrainerOnce
  <2>1. CASE i \in DOMAIN scopes[s].next_waiters
             /\ scopes'[s].next_waiters[i] = scopes[s].next_waiters[i]
    <3>1. g \in Fid \ {c} /\ g = scopes[s].next_waiters[i].id /\ fibers[g].alive
      BY <1>10, <1>12, <2>1
    <3>2. /\ fibers[g].wait_kind = "next" /\ fibers[g].wait_arg.id = s
          /\ \A j \in DOMAIN scopes[s].next_waiters : scopes[s].next_waiters[j].id = g => j = i
      BY <1>0, <2>1, <3>1 DEF WakeInv, DrainerOnce
    <3>3. \A j \in DOMAIN scopes'[s].next_waiters : scopes'[s].next_waiters[j].id = g => j = i
      BY <1>9, <3>1, <3>2
    <3> QED
      BY <1>11, <1>12, <3>1, <3>2, <3>3
  <2>2. CASE s = x /\ i = Len(scopes[x].next_waiters) + 1 /\ g = c
    <3>1. \A j \in DOMAIN scopes'[x].next_waiters : scopes'[x].next_waiters[j].id = c => j = i
      BY <1>9, <1>10, <2>2
    <3> QED
      BY <1>6, <1>11, <2>2, <3>1
  <2> QED
    BY <1>9, <2>1, <2>2
<1>17. Reached'
  <2>1. \A f \in Fid : NamesFiber(f)' => NamesFiber(f) \/ f = c
    BY <1>5, <1>9, <1>12 DEF NamesFiber
  <2> QED
    BY <1>0, <1>3, <1>5, <2>1 DEF WakeInv, Reached
<1> QED
  BY <1>13, <1>14, <1>15, <1>16, <1>17 DEF WakeInv

\* A fiber waits for another's outcome.
AwaitDelta(c, w, e) ==
  \A g \in Fid :
    /\ SameFiber(g)
    /\ g # w => fibers'[g].waiters = fibers[g].waiters
    /\ g = w => fibers'[g].waiters = Append(fibers[g].waiters, e)
    /\ g # c => fibers'[g].wait_kind = fibers[g].wait_kind /\ fibers'[g].wait_arg = fibers[g].wait_arg
    /\ g = c => fibers'[g].wait_kind = "handle" /\ fibers'[g].wait_arg.id = w
Awaiter(c, k, e) ==
  [fibers EXCEPT ![c].wait_kind = "handle", ![c].wait_arg = k, ![k.id].waiters = Append(@, e)]

\* handle_await changes the waiting fiber's wait and the other's waiter list.
LEMMA AwaitHandleDelta ==
  ASSUME Typed, NEW c \in Fid, NEW k, k.id \in Fid, NEW e, fibers' = Awaiter(c, k, e)
  PROVE  AwaitDelta(c, k.id, e)
<1>1. fibers \in [Fid -> FiberOK]
  BY DEF Typed, TablesOK
<1> DEFINE t == [fibers EXCEPT ![c].wait_kind = "handle", ![c].wait_arg = k]
<1>2. fibers' = [t EXCEPT ![k.id].waiters = Append(@, e)]
  BY DEF Awaiter
<1>3. /\ DOMAIN t = Fid /\ \A g \in Fid \ {c} : t[g] = fibers[g]
      /\ t[c] = [fibers[c] EXCEPT !.wait_kind = "handle", !.wait_arg = k]
  BY <1>1
<1> HIDE DEF t
<1>4. /\ \A g \in Fid \ {k.id} : fibers'[g] = t[g]
      /\ fibers'[k.id] = [t[k.id] EXCEPT !.waiters = Append(t[k.id].waiters, e)]
  BY <1>2, <1>3
<1>5. \A g \in Fid : fibers[g] \in Fiber
  BY <1>1 DEF FiberOK
<1>6. ASSUME NEW q \in Fiber, NEW r, r = [q EXCEPT !.wait_kind = "handle", !.wait_arg = k]
      PROVE  /\ r.alive = q.alive /\ r.scope = q.scope /\ r.runs_scope = q.runs_scope
             /\ r.knows = q.knows /\ r.gen = q.gen /\ r.waiters = q.waiters
             /\ r.wait_kind = "handle" /\ r.wait_arg = k /\ DOMAIN r = DOMAIN q
  BY <1>6 DEF Fiber
<1>7. \A g \in Fid :
        /\ t[g].alive = fibers[g].alive /\ t[g].scope = fibers[g].scope
        /\ t[g].runs_scope = fibers[g].runs_scope /\ t[g].knows = fibers[g].knows
        /\ t[g].gen = fibers[g].gen /\ t[g].waiters = fibers[g].waiters
        /\ g # c => t[g].wait_kind = fibers[g].wait_kind /\ t[g].wait_arg = fibers[g].wait_arg
        /\ g = c => t[g].wait_kind = "handle" /\ t[g].wait_arg = k
        /\ DOMAIN t[g] = DOMAIN fibers[g]
  <2>1. /\ t[c].alive = fibers[c].alive /\ t[c].scope = fibers[c].scope
        /\ t[c].runs_scope = fibers[c].runs_scope /\ t[c].knows = fibers[c].knows
        /\ t[c].gen = fibers[c].gen /\ t[c].waiters = fibers[c].waiters
        /\ t[c].wait_kind = "handle" /\ t[c].wait_arg = k /\ DOMAIN t[c] = DOMAIN fibers[c]
    <3>1. PICK q \in Fiber : q = fibers[c]
      BY <1>5
    <3>2. PICK r : r = t[c] /\ r = [q EXCEPT !.wait_kind = "handle", !.wait_arg = k]
      BY <1>3, <3>1
    <3>3. /\ r.alive = q.alive /\ r.scope = q.scope /\ r.runs_scope = q.runs_scope
          /\ r.knows = q.knows /\ r.gen = q.gen /\ r.waiters = q.waiters
          /\ r.wait_kind = "handle" /\ r.wait_arg = k /\ DOMAIN r = DOMAIN q
      BY <1>6, <3>2
    <3> QED
      BY <3>1, <3>2, <3>3
  <2> QED
    BY <1>3, <2>1
<1>8. \A g \in Fid : {"alive", "scope", "runs_scope", "knows", "gen", "waiters", "wait_kind",
                      "wait_arg"} \subseteq DOMAIN fibers[g]
  BY <1>5 DEF Fiber
<1>9. \A g \in Fid :
        /\ fibers'[g].alive = t[g].alive /\ fibers'[g].scope = t[g].scope
        /\ fibers'[g].runs_scope = t[g].runs_scope /\ fibers'[g].knows = t[g].knows
        /\ fibers'[g].gen = t[g].gen
        /\ fibers'[g].wait_kind = t[g].wait_kind /\ fibers'[g].wait_arg = t[g].wait_arg
        /\ g # k.id => fibers'[g].waiters = t[g].waiters
        /\ g = k.id => fibers'[g].waiters = Append(t[g].waiters, e)
  <2> SUFFICES ASSUME NEW g \in Fid
               PROVE  /\ fibers'[g].alive = t[g].alive /\ fibers'[g].scope = t[g].scope
                      /\ fibers'[g].runs_scope = t[g].runs_scope /\ fibers'[g].knows = t[g].knows
                      /\ fibers'[g].gen = t[g].gen
                      /\ fibers'[g].wait_kind = t[g].wait_kind /\ fibers'[g].wait_arg = t[g].wait_arg
                      /\ g # k.id => fibers'[g].waiters = t[g].waiters
                      /\ g = k.id => fibers'[g].waiters = Append(t[g].waiters, e)
    OBVIOUS
  <2>1. CASE g # k.id
    BY <1>4, <2>1
  <2>2. CASE g = k.id
    <3>1. PICK q : q = t[g] /\ {"alive", "scope", "runs_scope", "knows", "gen", "waiters",
                                "wait_kind", "wait_arg"} \subseteq DOMAIN q
      BY <1>7, <1>8
    <3>2. PICK w : w = Append(q.waiters, e)
      OBVIOUS
    <3>3. PICK r : r = fibers'[g] /\ r = [q EXCEPT !.waiters = w]
      BY <1>4, <2>2, <3>1, <3>2
    <3>4. /\ r.alive = q.alive /\ r.scope = q.scope /\ r.runs_scope = q.runs_scope
          /\ r.knows = q.knows /\ r.gen = q.gen /\ r.waiters = w
          /\ r.wait_kind = q.wait_kind /\ r.wait_arg = q.wait_arg
      BY <3>1, <3>3
    <3> QED
      BY <2>2, <3>1, <3>2, <3>3, <3>4
  <2> QED
    BY <2>1, <2>2
<1> QED
  <2> SUFFICES ASSUME NEW g \in Fid
               PROVE  /\ SameFiber(g)
                      /\ g # k.id => fibers'[g].waiters = fibers[g].waiters
                      /\ g = k.id => fibers'[g].waiters = Append(fibers[g].waiters, e)
                      /\ g # c => /\ fibers'[g].wait_kind = fibers[g].wait_kind
                                  /\ fibers'[g].wait_arg = fibers[g].wait_arg
                      /\ g = c => fibers'[g].wait_kind = "handle" /\ fibers'[g].wait_arg.id = k.id
    BY DEF AwaitDelta
  <2>1. SameFiber(g)
    BY <1>7, <1>9 DEF SameFiber
  <2>2. /\ g # k.id => fibers'[g].waiters = fibers[g].waiters
        /\ g = k.id => fibers'[g].waiters = Append(fibers[g].waiters, e)
    BY <1>7, <1>9, ZenonT(40)
  <2>3. /\ g # c => /\ fibers'[g].wait_kind = fibers[g].wait_kind
                    /\ fibers'[g].wait_arg = fibers[g].wait_arg
        /\ g = c => fibers'[g].wait_kind = "handle" /\ fibers'[g].wait_arg.id = k.id
    BY <1>7, <1>9
  <2> QED
    BY <2>1, <2>2, <2>3

\* The awaited fiber's list is the only thing that names the fiber that waits.
LEMMA WakeAwaitHandle ==
  ASSUME ScopeInv, NEW h \in AllHandles, NEW k \in Range(scopes[h.id].children), AwaitHandle(h, k)
  PROVE  WakeInv'
<1>0. Typed /\ WakeInv
  BY InvParts
<1>1. current # NoFiber /\ h \in Handles /\ Pumping
  BY DEF AwaitHandle, CanSuspend, Pumping
<1>2. PICK c \in Fid : c = current
  BY <1>1, Pumped
<1>3. /\ fibers[c].alive /\ ~NamesFiber(c) /\ c < nfibers /\ FiberRef(c) \in FidRef
      /\ FiberRef(c).id = c
  BY <1>1, <1>2, Pumped
<1>4. k.id \in Fid
  <2>1. h.id \in Sid
    BY <1>0, <1>1, HandleSid
  <2>2. scopes[h.id].children \in Seq(FidRef)
    BY <1>0, <2>1, ScopeFields DEF Typed, TablesOK
  <2>3. k \in FidRef
    BY <2>2, RangeType
  <2> QED
    BY <2>3 DEF FidRef
<1>5. PICK w \in Fid : w = k.id
  BY <1>4
<1>6. PICK e \in FidRef : e = FiberRef(c) /\ e.id = c
  BY <1>3
<1>7. AwaitDelta(c, w, e)
  <2>1. fibers' = Awaiter(c, k, e)
    BY <1>2, <1>6 DEF AwaitHandle, Awaiter
  <2> QED
    BY <1>0, <1>4, <1>5, <2>1, AwaitHandleDelta
<1>8. /\ current' = NoFiber /\ nfibers' = nfibers /\ ready' = ready /\ timers' = timers
      /\ scopes' = scopes
  BY DEF AwaitHandle, queues
<1>9. \A g \in Fid : /\ fibers'[g].alive = fibers[g].alive
                     /\ g # c => /\ fibers'[g].wait_kind = fibers[g].wait_kind
                                 /\ fibers'[g].wait_arg = fibers[g].wait_arg
  BY <1>7 DEF AwaitDelta, SameFiber
<1>10. fibers'[c].wait_kind = "handle" /\ fibers'[c].wait_arg.id = w
  BY <1>7 DEF AwaitDelta
<1>11. \A g \in Fid : \A i \in DOMAIN fibers'[g].waiters :
        \/ i \in DOMAIN fibers[g].waiters /\ fibers'[g].waiters[i] = fibers[g].waiters[i]
        \/ /\ g = w /\ i = Len(fibers[w].waiters) + 1 /\ i \notin DOMAIN fibers[w].waiters
           /\ fibers'[g].waiters[i].id = c
  <2>1. fibers[w].waiters \in Seq(FidRef)
    BY <1>0, FiberFields DEF Typed, TablesOK
  <2>2. fibers'[w].waiters = Append(fibers[w].waiters, e)
    BY <1>7 DEF AwaitDelta
  <2>3. \A i \in DOMAIN fibers'[w].waiters :
          \/ i \in DOMAIN fibers[w].waiters /\ fibers'[w].waiters[i] = fibers[w].waiters[i]
          \/ /\ i = Len(fibers[w].waiters) + 1 /\ i \notin DOMAIN fibers[w].waiters
             /\ fibers'[w].waiters[i] = e
    BY <2>1, <2>2, Appended
  <2>4. \A g \in Fid \ {w} : fibers'[g].waiters = fibers[g].waiters
    BY <1>7 DEF AwaitDelta
  <2> QED
    BY <1>6, <2>3, <2>4
<1>12. /\ \A i \in DOMAIN ready : ready[i].fid.id \in Fid \ {c}
       /\ \A i \in DOMAIN timers : timers[i].kind = "wake" => timers[i].arg.id \in Fid \ {c}
       /\ \A g \in Fid : fibers[g].alive => \A i \in DOMAIN fibers[g].waiters :
            fibers[g].waiters[i].id \in Fid \ {c}
       /\ \A s \in Sid : \A i \in DOMAIN scopes[s].next_waiters :
            scopes[s].next_waiters[i].id \in Fid \ {c}
  BY <1>0, <1>3, NamesTyped DEF NamesFiber
<1>13. \A g \in Fid : g # current'
  BY <1>8 DEF Fid, NoFiber
<1>14. ReadyOnce'
  <2>1. \A f \in Fid \ {c} : Unawaited(f) => Unawaited(f)'
    BY <1>8, <1>9, <1>11 DEF Unawaited
  <2> QED
    BY <1>0, <1>8, <1>9, <1>12, <1>13, <2>1 DEF WakeInv, ReadyOnce
<1>15. TimerOnce'
  BY <1>0, <1>8, <1>9, <1>12, <1>13 DEF WakeInv, TimerOnce
<1>16. DrainerOnce'
  BY <1>0, <1>8, <1>9, <1>12, <1>13 DEF WakeInv, DrainerOnce
<1>17. WaiterOnce'
  <2> SUFFICES ASSUME NEW x \in Fid, fibers'[x].alive, NEW i \in DOMAIN fibers'[x].waiters, NEW g,
                      g = fibers'[x].waiters[i].id, fibers'[g].alive
               PROVE  /\ g # current' /\ fibers'[g].wait_kind = "handle"
                      /\ fibers'[g].wait_arg.id = x
                      /\ \A j \in DOMAIN fibers'[x].waiters : fibers'[x].waiters[j].id = g => j = i
    BY DEF WaiterOnce
  <2>0. fibers[x].alive
    BY <1>9
  <2>1. CASE i \in DOMAIN fibers[x].waiters /\ fibers'[x].waiters[i] = fibers[x].waiters[i]
    <3>1. g \in Fid \ {c} /\ g = fibers[x].waiters[i].id /\ fibers[g].alive
      BY <1>9, <1>12, <2>0, <2>1
    <3>2. /\ fibers[g].wait_kind = "handle" /\ fibers[g].wait_arg.id = x
          /\ \A j \in DOMAIN fibers[x].waiters : fibers[x].waiters[j].id = g => j = i
      BY <1>0, <2>0, <2>1, <3>1 DEF WakeInv, WaiterOnce
    <3>3. \A j \in DOMAIN fibers'[x].waiters : fibers'[x].waiters[j].id = g => j = i
      BY <1>11, <3>1, <3>2
    <3> QED
      BY <1>9, <1>13, <3>1, <3>2, <3>3
  <2>2. CASE x = w /\ i = Len(fibers[w].waiters) + 1 /\ g = c
    <3>1. \A j \in DOMAIN fibers'[w].waiters : fibers'[w].waiters[j].id = c => j = i
      BY <1>11, <1>12, <2>0, <2>2
    <3> QED
      BY <1>10, <1>13, <2>2, <3>1
  <2> QED
    BY <1>11, <2>1, <2>2
<1>18. Reached'
  <2>1. \A f \in Fid : NamesFiber(f)' => NamesFiber(f) \/ f = c
    BY <1>8, <1>9, <1>11 DEF NamesFiber
  <2> QED
    BY <1>0, <1>3, <1>8, <2>1 DEF WakeInv, Reached
<1> QED
  BY <1>14, <1>15, <1>16, <1>17, <1>18 DEF WakeInv

\* start_scope queues the body; its creator, parked on the scope, is not named.
LEMMA WakeStartBody ==
  ASSUME ScopeInv, Disciplined, StartBody
  PROVE  WakeInv'
<1>0. Typed /\ WakeInv /\ FreeRows /\ Reached /\ scopes \in [Sid -> Scope]
  BY InvParts
<1>1. current # NoFiber /\ ~StaleRefs
  BY DEF StartBody, Pumping, Disciplined
<1>2. PICK c \in Fid : c = current
  BY <1>1, Pumped
<1>3. fibers[c].alive
  BY <1>1, <1>2, Pumped
<1>4. PICK f : f = Slot(free_fibers, nfibers)
  OBVIOUS
<1>5. /\ f \in Fid /\ f # Root /\ ~fibers[f].alive /\ ~NamesFiber(f)
      /\ nfibers' \in 0..MaxFibers /\ f < nfibers' /\ nfibers <= nfibers' /\ nfibers \in 0..MaxFibers
  <2>1. FiberSlotLeft(free_fibers, nfibers) /\ nfibers' = LenAfter(free_fibers, nfibers)
    BY DEF StartBody
  <2> QED
    BY <1>0, <1>1, <1>4, <2>1, FiberSlot
<1>6. f # current /\ f # c
  BY <1>2, <1>3, <1>5
<1>7. /\ \A g \in Fid \ {f, c} : fibers'[g] = fibers[g]
      /\ fibers'[f].wait_kind = "none" /\ fibers'[f].waiters = <<>>
      /\ SameFiber(c) /\ fibers'[c].waiters = fibers[c].waiters
      /\ starting.id \in Sid
  <2>1. BodyQueued(f, c)
    BY <1>0, <1>2, <1>4, <1>5, <1>6, StartBodyDelta
  <2> QED
    BY <2>1 DEF BodyQueued
<1>8. PICK r \in FidRef : r.id = f /\ ready' = Push(r, "start")
  <2>1. fibers[f].gen \in Nat
    BY <1>0, <1>5, FiberFields DEF Typed, TablesOK
  <2>2. Ref(f, fibers[f].gen + 1) \in FidRef /\ Ref(f, fibers[f].gen + 1).id = f
    BY <1>5, <2>1 DEF Ref, FidRef
  <2>3. ready' = Push(Ref(f, fibers[f].gen + 1), "start")
    BY <1>4 DEF StartBody
  <2> QED
    BY <2>2, <2>3
<1>9. NextKept /\ TimersKept
  <2>1. scopes' = [scopes EXCEPT ![starting.id].body = f] /\ timers' = timers
    BY <1>4 DEF StartBody
  <2>2. \A s \in Sid \ {starting.id} : scopes'[s] = scopes[s]
    BY <1>0, <2>1
  <2>3. scopes'[starting.id].next_waiters = scopes[starting.id].next_waiters
    BY <1>0, <1>7, <2>1 DEF Scope
  <2> QED
    BY <2>1, <2>2, <2>3 DEF NextKept, TimersKept
<1>10. /\ \A i \in DOMAIN ready : ready[i].fid.id # f
       /\ \A i \in DOMAIN timers : ~(timers[i].kind = "wake" /\ timers[i].arg.id = f)
       /\ Unawaited(f)
  BY <1>5 DEF NamesFiber, Unawaited
<1>11. \A g \in Fid \ {f} : KeepsWait(g) \/ Parks(g)
  BY <1>2, <1>7 DEF KeepsWait, Parks, SameFiber
<1>12. current' = NoFiber /\ timers' = timers
  BY DEF StartBody
<1>13. TimerOnce'
  BY <1>0, <1>9, <1>10, <1>11, <1>12, TimersStay
<1>14. nfibers \in Nat /\ nfibers' \in Nat /\ f # current'
  BY <1>5, <1>12, SchedulerAssumption DEF Fid, NoFiber
<1>15. \A i \in DOMAIN timers' : timers'[i].kind = "wake" =>
           /\ timers'[i].arg.id # f
           /\ \E j \in DOMAIN timers : timers[j].kind = "wake" /\ timers'[i].arg = timers[j].arg
  BY <1>10, <1>12
<1> QED
  BY <1>0, <1>5, <1>7, <1>8, <1>9, <1>10, <1>11, <1>12, <1>13, <1>14, <1>15, WakeAdded

\* The loop takes the next entry of the queue.
LEMMA WakeDequeue ==
  ASSUME ScopeInv, Dequeue
  PROVE  WakeInv'
<1>0. Typed /\ WakeInv
  BY InvParts
<1>1. ready # <<>> /\ ready' = Tail(ready) /\ current = NoFiber
      /\ UNCHANGED <<nfibers, scopes, timers>>
  BY DEF Dequeue, Turn, Looping
<1>2. /\ ready \in Seq(Entry) /\ Head(ready) = ready[1] /\ 1 \in DOMAIN ready
      /\ \A i \in DOMAIN ready' : i + 1 \in DOMAIN ready /\ ready'[i] = ready[i + 1] /\ i \in Nat
                                  /\ i + 1 # 1
  <2>1. ready \in Seq(Entry)
    BY <1>0 DEF Typed, QueuesOK
  <2> QED
    BY <1>1, <2>1, Dropped
<1>3. PICK f \in Fid : f = ready[1].fid.id
  BY <1>0, <1>2, NamesTyped
<1>4. IF fibers[f].alive
      THEN current' = f /\ fibers' = [fibers EXCEPT ![f].wait_kind = "none"]
      ELSE current' = current /\ fibers' = fibers
  BY <1>2, <1>3 DEF Dequeue
<1>5. /\ \A g \in Fid : /\ fibers'[g].alive = fibers[g].alive
                        /\ fibers'[g].waiters = fibers[g].waiters
                        /\ g # f => /\ fibers'[g].wait_kind = fibers[g].wait_kind
                                    /\ fibers'[g].wait_arg = fibers[g].wait_arg
      /\ current' \in {f, NoFiber} /\ (~fibers[f].alive => fibers' = fibers /\ current' = NoFiber)
  <2>1. CASE fibers[f].alive
    <3>1. /\ \A g \in Fid \ {f} : fibers'[g] = fibers[g]
          /\ SameFiber(f) /\ fibers'[f].waiters = fibers[f].waiters
      BY <1>0, <1>4, <2>1, ResumeDelta
    <3> QED
      BY <1>4, <2>1, <3>1 DEF SameFiber
  <2>2. CASE ~fibers[f].alive
    BY <1>1, <1>4, <2>2
  <2> QED
    BY <2>1, <2>2
<1>6. /\ \A i \in DOMAIN ready : ready[i].fid.id \in Fid
      /\ \A i \in DOMAIN timers : timers[i].kind = "wake" => timers[i].arg.id \in Fid
      /\ \A c \in Fid : \A i \in DOMAIN fibers[c].waiters : fibers[c].waiters[i].id \in Fid
      /\ \A s \in Sid : \A i \in DOMAIN scopes[s].next_waiters :
           scopes[s].next_waiters[i].id \in Fid
      /\ \A g \in Fid : g # NoFiber
  BY <1>0, NamesTyped DEF Fid, NoFiber
<1>7. fibers[f].alive =>
        /\ fibers[f].wait_kind \in {"none", "handle", "next"}
        /\ \A j \in DOMAIN ready : ready[j].fid.id = f => j = 1
        /\ Unawaited(f)
  BY <1>0, <1>2, <1>3 DEF WakeInv, ReadyOnce
<1>8. ReadyOnce'
  <2> SUFFICES ASSUME NEW i \in DOMAIN ready', NEW g, g = ready'[i].fid.id, fibers'[g].alive
               PROVE  /\ g # current' /\ fibers'[g].wait_kind \in {"none", "handle", "next"}
                      /\ \A j \in DOMAIN ready' : ready'[j].fid.id = g => j = i
                      /\ Unawaited(g)'
    BY DEF ReadyOnce, Unawaited
  <2>1. i + 1 \in DOMAIN ready /\ g = ready[i + 1].fid.id /\ i + 1 # 1 /\ i \in Nat
    BY <1>2
  <2>2. g \in Fid /\ fibers[g].alive
    BY <1>5, <1>6, <2>1
  <2>3. /\ fibers[g].wait_kind \in {"none", "handle", "next"} /\ Unawaited(g)
        /\ \A j \in DOMAIN ready : ready[j].fid.id = g => j = i + 1
    BY <1>0, <2>1, <2>2 DEF WakeInv, ReadyOnce
  <2>4. g # f
    BY <1>2, <1>3, <2>1, <2>3
  <2>5. Unawaited(g)'
    BY <1>1, <1>5, <2>3 DEF Unawaited
  <2>6. \A j \in DOMAIN ready' : ready'[j].fid.id = g => j = i
    <3> SUFFICES ASSUME NEW j \in DOMAIN ready', ready'[j].fid.id = g
                 PROVE  j = i
      OBVIOUS
    <3>1. j + 1 = i + 1 /\ j \in Nat
      BY <1>2, <2>3
    <3> QED
      BY <2>1, <3>1
  <2> QED
    BY <1>5, <1>6, <2>2, <2>3, <2>4, <2>5, <2>6
<1>9. TimerOnce'
  <2>1. \A i \in DOMAIN timers : timers[i].kind = "wake" /\ fibers[timers[i].arg.id].alive =>
          timers[i].arg.id # f
    BY <1>0, <1>7 DEF WakeInv, TimerOnce
  <2> QED
    BY <1>0, <1>1, <1>5, <1>6, <2>1 DEF WakeInv, TimerOnce
<1>10. WaiterOnce'
  <2> SUFFICES ASSUME NEW x \in Fid, fibers'[x].alive, NEW i \in DOMAIN fibers'[x].waiters, NEW g,
                      g = fibers'[x].waiters[i].id, fibers'[g].alive
               PROVE  /\ g # current' /\ fibers'[g].wait_kind = "handle"
                      /\ fibers'[g].wait_arg.id = x
                      /\ \A j \in DOMAIN fibers'[x].waiters : fibers'[x].waiters[j].id = g => j = i
    BY DEF WaiterOnce
  <2>1. /\ fibers[x].alive /\ i \in DOMAIN fibers[x].waiters /\ g = fibers[x].waiters[i].id
        /\ fibers'[x].waiters = fibers[x].waiters
    BY <1>5
  <2>2. g \in Fid /\ fibers[g].alive
    BY <1>5, <1>6, <2>1
  <2>3. g # f
    BY <1>7, <2>1, <2>2 DEF Unawaited
  <2>4. /\ fibers[g].wait_kind = "handle" /\ fibers[g].wait_arg.id = x
        /\ \A j \in DOMAIN fibers[x].waiters : fibers[x].waiters[j].id = g => j = i
    BY <1>0, <2>1, <2>2 DEF WakeInv, WaiterOnce
  <2> QED
    BY <1>5, <1>6, <2>1, <2>2, <2>3, <2>4
<1>11. DrainerOnce'
  <2> SUFFICES ASSUME NEW s \in Sid, NEW i \in DOMAIN scopes'[s].next_waiters, NEW g,
                      g = scopes'[s].next_waiters[i].id, fibers'[g].alive
               PROVE  /\ g # current' /\ fibers'[g].wait_kind = "next"
                      /\ fibers'[g].wait_arg.id = s
                      /\ \A j \in DOMAIN scopes'[s].next_waiters :
                           scopes'[s].next_waiters[j].id = g => j = i
    BY DEF DrainerOnce
  <2>1. i \in DOMAIN scopes[s].next_waiters /\ g = scopes[s].next_waiters[i].id
    BY <1>1
  <2>2. g \in Fid /\ fibers[g].alive
    BY <1>5, <1>6, <2>1
  <2>3. g # f
    BY <1>7, <2>1, <2>2 DEF Unawaited
  <2>4. /\ fibers[g].wait_kind = "next" /\ fibers[g].wait_arg.id = s
        /\ \A j \in DOMAIN scopes[s].next_waiters : scopes[s].next_waiters[j].id = g => j = i
    BY <1>0, <2>1, <2>2 DEF WakeInv, DrainerOnce
  <2> QED
    BY <1>1, <1>5, <1>6, <2>2, <2>3, <2>4
<1>12. Reached'
  <2>1. \A g \in Fid : NamesFiber(g)' => NamesFiber(g)
    BY <1>1, <1>2, <1>5 DEF NamesFiber
  <2> QED
    BY <1>0, <1>1, <2>1 DEF WakeInv, Reached
<1> QED
  BY <1>8, <1>9, <1>10, <1>11, <1>12 DEF WakeInv

\* The reactor returns a fiber.
LEMMA WakeIoWake ==
  ASSUME ScopeInv, NEW f \in Fid, IoWake(f)
  PROVE  WakeInv'
<1>0. Typed /\ WakeInv /\ fibers \in [Fid -> FiberOK]
  BY InvParts
<1>1. /\ current = NoFiber /\ fibers[f].alive /\ fibers[f].wait_kind = "io" /\ f < nfibers
      /\ ready' = Push(FiberRef(f), "resume") /\ UNCHANGED <<nfibers, scopes, timers, current>>
  BY DEF IoWake, Turn, Looping, IoWaiters, control
<1>2. /\ \A g \in Fid \ {f} : fibers'[g] = fibers[g]
      /\ SameFiber(f) /\ fibers'[f].waiters = fibers[f].waiters /\ fibers'[f].wait_kind = "none"
  BY <1>0, ResumeDelta DEF IoWake
<1>3. /\ \A i \in DOMAIN ready : ready[i].fid.id # f
      /\ \A i \in DOMAIN timers : ~(timers[i].kind = "wake" /\ timers[i].arg.id = f)
      /\ Unawaited(f)
  <2>1. ~NamesFiber(f)
    BY <1>0, <1>1, Unnamed
  <2> QED
    BY <2>1 DEF NamesFiber, Unawaited
<1>4. NextKept /\ TimersKept /\ \A g \in Fid \ {f} : KeepsWait(g)
  BY <1>1, <1>2 DEF NextKept, TimersKept, KeepsWait
<1>5. TimerOnce'
  BY <1>0, <1>1, <1>3, <1>4, TimersStay
<1>6. nfibers \in Nat /\ nfibers <= nfibers /\ f # current
  BY <1>0, <1>1, SchedulerAssumption DEF Typed, TablesOK, Fid, NoFiber
<1>7. PICK r \in FidRef : r.id = f /\ ready' = Push(r, "resume")
  <2>1. fibers[f].gen \in Nat
    BY <1>0, FiberFields
  <2> QED
    BY <1>1, <2>1 DEF FiberRef, Ref, FidRef
<1>8. \A i \in DOMAIN timers' : timers'[i].kind = "wake" =>
           /\ timers'[i].arg.id # f
           /\ \E j \in DOMAIN timers : timers[j].kind = "wake" /\ timers'[i].arg = timers[j].arg
  BY <1>1, <1>3
<1> QED
  BY <1>0, <1>1, <1>2, <1>3, <1>4, <1>5, <1>6, <1>7, <1>8, WakeAdded

\* A timer is taken off the list, and its sleeper, if alive, resumed.
LEMMA TimerTaken ==
  ASSUME Typed, WakeInv, NEW i \in DOMAIN timers, timers' = RemoveAt(timers, i), current' = current,
         \A f \in Fid : \/ KeepsWait(f)
                        \/ timers[i].kind = "wake" /\ timers[i].arg.id = f /\ fibers[f].alive
  PROVE  /\ TimerOnce'
         /\ \A j \in DOMAIN timers' : timers'[j].kind = "wake" =>
              /\ timers[i].kind = "wake" /\ fibers[timers[i].arg.id].alive =>
                   timers'[j].arg.id # timers[i].arg.id
              /\ \E k \in DOMAIN timers : timers[k].kind = "wake" /\ timers'[j].arg = timers[k].arg
<1>1. /\ DOMAIN timers \subseteq Nat
      /\ \A j \in DOMAIN timers' :
           /\ j \in Nat
           /\ j < i => j \in DOMAIN timers /\ timers'[j] = timers[j]
           /\ j >= i => j + 1 \in DOMAIN timers /\ timers'[j] = timers[j + 1]
  <2>1. timers \in Seq(Timer)
    BY DEF Typed, QueuesOK
  <2> QED
    BY <2>1, Removed
<1> DEFINE at(j) == IF j < i THEN j ELSE j + 1
<1>2. \A j \in DOMAIN timers' : /\ at(j) \in DOMAIN timers /\ timers'[j] = timers[at(j)]
                                /\ at(j) # i
                                /\ \A k \in DOMAIN timers' : at(k) = at(j) => k = j
  <2>1. i \in Nat
    BY <1>1
  <2> QED
    BY <1>1, <2>1
<1>3. \A k \in DOMAIN timers : timers[k].kind = "wake" => timers[k].arg.id \in Fid
  BY NamesTyped
<1>4. \A k \in DOMAIN timers : timers[k].kind = "wake" /\ fibers[timers[k].arg.id].alive =>
         /\ timers[k].arg.id # current /\ fibers[timers[k].arg.id].wait_kind = "sleep"
         /\ \A j \in DOMAIN timers : timers[j].kind = "wake" /\ timers[j].arg.id = timers[k].arg.id =>
              j = k
  BY DEF WakeInv, TimerOnce
<1> HIDE DEF at
<1>5. TimerOnce'
  <2> SUFFICES ASSUME NEW j \in DOMAIN timers', timers'[j].kind = "wake", NEW g,
                      g = timers'[j].arg.id, fibers'[g].alive
               PROVE  /\ g # current' /\ fibers'[g].wait_kind = "sleep"
                      /\ \A k \in DOMAIN timers' : timers'[k].kind = "wake"
                           /\ timers'[k].arg.id = g => k = j
    BY DEF TimerOnce
  <2>1. /\ at(j) \in DOMAIN timers /\ timers[at(j)].kind = "wake" /\ timers[at(j)].arg.id = g
        /\ g \in Fid /\ at(j) # i
    BY <1>2, <1>3
  <2>2. fibers[g].alive
    BY <2>1 DEF KeepsWait
  <2>3. g # current /\ fibers[g].wait_kind = "sleep"
    BY <1>4, <2>1, <2>2
  <2>4. \A k \in DOMAIN timers : timers[k].kind = "wake" /\ timers[k].arg.id = g => k = at(j)
    BY <1>4, <2>1, <2>2
  <2>5. KeepsWait(g)
    BY <2>1, <2>4
  <2>6. fibers'[g].wait_kind = "sleep"
    BY <2>3, <2>5 DEF KeepsWait
  <2>7. \A k \in DOMAIN timers' : timers'[k].kind = "wake" /\ timers'[k].arg.id = g => k = j
    BY <1>2, <2>4
  <2> QED
    BY <2>3, <2>6, <2>7
<1> QED
  BY <1>2, <1>4, <1>5

\* A timer that fires wakes its fiber, or queues its scope's cancellation.
LEMMA WakeFireTimer ==
  ASSUME ScopeInv, NEW i \in DOMAIN timers, FireTimer(i)
  PROVE  WakeInv'
<1>0. Typed /\ WakeInv /\ CallsAlone
  BY InvParts
<1>1. /\ current = NoFiber /\ current' = current /\ timers' = RemoveAt(timers, i)
      /\ UNCHANGED <<nfibers, scopes>>
      /\ fibers' = IF Wakes(timers[i]) THEN [fibers EXCEPT ![timers[i].arg.id].wait_kind = "none"]
                   ELSE fibers
      /\ ready' = IF Wakes(timers[i]) THEN Push(timers[i].arg, "resume") ELSE ready
  BY <1>0 DEF FireTimer, control, CallsAlone, Calling
<1>2. NextKept
  BY <1>1 DEF NextKept
<1>3. CASE Wakes(timers[i])
  <2>1. PICK r \in FidRef : r = timers[i].arg
    <3>1. timers[i] \in Timer /\ timers[i].kind = "wake"
      BY <1>0, <1>3, LenProperties, ElementOfSeq DEF Typed, QueuesOK, Wakes
    <3> QED
      BY <3>1 DEF Timer
  <2>2. r.id \in Fid /\ fibers[r.id].alive /\ timers[i].kind = "wake"
    BY <1>3, <2>1 DEF Wakes, FidRef
  <2>3. PICK f \in Fid : f = r.id
    BY <2>2
  <2>4. /\ \A g \in Fid \ {f} : fibers'[g] = fibers[g]
        /\ SameFiber(f) /\ fibers'[f].waiters = fibers[f].waiters /\ fibers'[f].wait_kind = "none"
    <3>1. fibers' = [fibers EXCEPT ![f].wait_kind = "none"]
      BY <1>1, <1>3, <2>1, <2>3
    <3> QED
      BY <1>0, <3>1, ResumeDelta
  <2>5. \A g \in Fid \ {f} : KeepsWait(g)
    BY <2>4 DEF KeepsWait
  <2>6. /\ TimerOnce'
        /\ \A j \in DOMAIN timers' : timers'[j].kind = "wake" =>
             /\ timers'[j].arg.id # f
             /\ \E k \in DOMAIN timers : timers[k].kind = "wake" /\ timers'[j].arg = timers[k].arg
    BY <1>0, <1>1, <2>1, <2>2, <2>3, <2>5, TimerTaken
  <2>7. fibers[f].wait_kind = "sleep"
    BY <1>0, <2>1, <2>2, <2>3 DEF WakeInv, TimerOnce
  <2>8. \A j \in DOMAIN ready : ready[j].fid.id # f
    BY <1>0, <2>2, <2>3, <2>7 DEF WakeInv, ReadyOnce
  <2>9. Unawaited(f)
    BY <1>0, <2>2, <2>3, <2>7 DEF WakeInv, WaiterOnce, DrainerOnce, Unawaited
  <2>10. f < nfibers
    BY <1>0, <2>1, <2>2, <2>3 DEF WakeInv, Reached, NamesFiber
  <2>11. nfibers \in Nat /\ nfibers <= nfibers /\ f # NoFiber
    BY <1>0, SchedulerAssumption DEF Typed, TablesOK, Fid, NoFiber
  <2>12. ready' = Push(r, "resume")
    BY <1>1, <1>3, <2>1
  <2>13. current' = current /\ nfibers' = nfibers /\ f # current'
    BY <1>1, <2>11
  <2>14. fibers[f].alive /\ f = r.id
    BY <2>2, <2>3
  <2> QED
    BY <1>0, <1>2, <2>4, <2>5, <2>6, <2>8, <2>9, <2>10, <2>11, <2>12, <2>13, <2>14, WakeAdded
<1>4. CASE ~Wakes(timers[i])
  <2>1. fibers' = fibers /\ ready' = ready
    BY <1>1, <1>4
  <2>2. \A g \in Fid : KeepsWait(g)
    BY <2>1 DEF KeepsWait
  <2>3. /\ TimerOnce'
        /\ \A j \in DOMAIN timers' : timers'[j].kind = "wake" =>
             \E k \in DOMAIN timers : timers[k].kind = "wake" /\ timers'[j].arg = timers[k].arg
    BY <1>0, <1>1, <2>2, TimerTaken
  <2>4. /\ ReadyOnce' /\ WaiterOnce' /\ DrainerOnce'
        /\ \A f \in Fid : NamesFiber(f)' => \/ NamesFiber(f)
                                         \/ \E j \in DOMAIN timers' : timers'[j].kind = "wake"
                                                                   /\ timers'[j].arg.id = f
    BY <1>0, <1>1, <1>2, <2>1, <2>2, NamesLess
  <2>5. \A f \in Fid : NamesFiber(f)' => NamesFiber(f)
    BY <2>3, <2>4 DEF NamesFiber
  <2>6. Reached'
    BY <1>0, <1>1, <2>5 DEF WakeInv, Reached
  <2> QED
    BY <2>3, <2>4, <2>6 DEF WakeInv
<1> QED
  BY <1>3, <1>4

\* try_finalize_scope ends the scope's row, whose other fields stay readable.
Finalized(s) ==
  /\ \A t \in Sid \ {s} : scopes'[t] = scopes[t]
  /\ scopes'[s].finalized /\ scopes'[s].cancelled = scopes[s].cancelled
  /\ scopes'[s].live = scopes[s].live /\ scopes'[s].gen = scopes[s].gen
  /\ scopes'[s].awaiter = scopes[s].awaiter /\ scopes'[s].enclosing = scopes[s].enclosing
  /\ scopes'[s].next_waiters \in {scopes[s].next_waiters, <<>>}

\* Both ways in which try_finalize_scope writes the row finalize it.
LEMMA FinalizeDelta ==
  ASSUME Typed, NEW s \in Sid,
         \/ scopes' = [scopes EXCEPT ![s].finalized = TRUE]
         \/ scopes' = [scopes EXCEPT ![s].finalized = TRUE, ![s].children = <<>>,
                                     ![s].completed = 0, ![s].next_waiters = <<>>]
  PROVE  Finalized(s)
<1>1. scopes \in [Sid -> Scope] /\ scopes[s] \in Scope
  BY DEF Typed, TablesOK
<1>2. ASSUME NEW q \in Scope, NEW r,
             \/ r = [q EXCEPT !.finalized = TRUE]
             \/ r = [q EXCEPT !.finalized = TRUE, !.children = <<>>, !.completed = 0,
                              !.next_waiters = <<>>]
      PROVE  /\ r.finalized /\ r.cancelled = q.cancelled /\ r.live = q.live /\ r.gen = q.gen
             /\ r.awaiter = q.awaiter /\ r.enclosing = q.enclosing
             /\ r.next_waiters \in {q.next_waiters, <<>>}
  BY <1>2 DEF Scope
<1>3. \A t \in Sid \ {s} : scopes'[t] = scopes[t]
  BY <1>1
<1>4. \/ scopes'[s] = [scopes[s] EXCEPT !.finalized = TRUE]
      \/ scopes'[s] = [scopes[s] EXCEPT !.finalized = TRUE, !.children = <<>>, !.completed = 0,
                                        !.next_waiters = <<>>]
  BY <1>1
<1>5. PICK q \in Scope : q = scopes[s]
  BY <1>1
<1>6. PICK r : r = scopes'[s]
  OBVIOUS
<1>7. /\ r.finalized /\ r.cancelled = q.cancelled /\ r.live = q.live /\ r.gen = q.gen
      /\ r.awaiter = q.awaiter /\ r.enclosing = q.enclosing
      /\ r.next_waiters \in {q.next_waiters, <<>>}
  <2>1. \/ r = [q EXCEPT !.finalized = TRUE]
        \/ r = [q EXCEPT !.finalized = TRUE, !.children = <<>>, !.completed = 0,
                         !.next_waiters = <<>>]
    BY <1>4, <1>5, <1>6
  <2> QED
    BY <1>2, <2>1
<1> QED
  BY <1>3, <1>5, <1>6, <1>7 DEF Finalized

\* So the call finalizes a scope of either kind.
LEMMA Finalizes ==
  ASSUME Typed, TryFinalize, NEW s \in Sid, s = Callee, CanFinalize(s)
  PROVE  Finalized(s)
<1>1. CASE scopes[s].manual
  <2>1. scopes' = [scopes EXCEPT ![s].finalized = TRUE]
    BY <1>1 DEF TryFinalize
  <2> QED
    BY <2>1, FinalizeDelta
<1>2. CASE ~scopes[s].manual
  <2>1. Reclaimed(s)
    BY <1>2 DEF TryFinalize
  <2>2. scopes' = [scopes EXCEPT ![s].finalized = TRUE, ![s].children = <<>>,
                                 ![s].completed = 0, ![s].next_waiters = <<>>]
    BY <2>1 DEF Reclaimed
  <2> QED
    BY <2>2, FinalizeDelta
<1> QED
  BY <1>1, <1>2

\* The scope that the call at the top of the stack is about.
LEMMA TopScope ==
  ASSUME ScopeInv, NEW fn \in {"cancel_scope", "mark_cancelled", "reap_children", "try_finalize"},
         Calling(fn)
  PROVE  /\ Callee \in Sid /\ Callee # ROOT_SCOPE /\ work \in Seq(Call) /\ work # <<>>
         /\ 1 \in DOMAIN work /\ work[1] = Do(fn, Callee, Callee) /\ current = NoFiber
<1>0. Typed /\ Calls /\ CallsAlone
  BY InvParts
<1>1. work # <<>> /\ work \in Seq(Call) /\ Callee \in Sid /\ Head(work).fn = fn
  BY <1>0, CalleeType DEF Calling
<1>2. Head(work) = work[1] /\ 1 \in DOMAIN work
  BY <1>1, Dropped
<1>3. work[1] \in Call /\ work[1].fn = fn /\ work[1].id = Callee
  BY <1>1, <1>2, LenProperties, ElementOfSeq DEF Callee
<1>4. work[1].of # ROOT_SCOPE /\ work[1].id = work[1].of
  BY <1>0, <1>2, <1>3 DEF Calls, CallOK
<1>5. work[1] = Do(fn, Callee, Callee)
  <2>1. work[1] \in [fn : {"cancel_scope", "mark_cancelled", "reap_children", "try_finalize",
                           "fire_timers"}, id : Sid, of : Sid]
    BY <1>3 DEF Call
  <2> QED
    BY <1>3, <1>4, <2>1 DEF Do
<1> QED
  BY <1>0, <1>1, <1>2, <1>3, <1>4, <1>5 DEF CallsAlone

\* The fiber that waits for an open scope, seen between pumps.
LEMMA AwaiterWaits ==
  ASSUME ScopeInv, current = NoFiber, NEW s \in Sid, Open(s)
  PROVE  /\ scopes[s].awaiter \in FidRef /\ scopes[s].awaiter.id \in Fid
         /\ fibers[scopes[s].awaiter.id].alive =>
              /\ scopes[s].awaiter = FiberRef(scopes[s].awaiter.id)
              /\ fibers[scopes[s].awaiter.id].wait_kind = "scope"
              /\ fibers[scopes[s].awaiter.id].wait_arg = ScopeRef(s)
              /\ fibers[scopes[s].awaiter.id].knows = scopes[s].enclosing
<1>0. Typed /\ Awaited
  BY InvParts
<1>1. scopes[s].awaiter \in FidRef
  BY <1>0, ScopeFields DEF Typed, TablesOK, Awaited
<1>2. scopes[s].awaiter.id \in Fid
  BY <1>1 DEF FidRef
<1>3. scopes[s].awaiter.id # current
  BY <1>2 DEF Fid, NoFiber
<1> QED
  BY <1>0, <1>1, <1>2, <1>3 DEF Awaited, Awaits, Waits

\* The awaiter of a finalized scope is resumed.
LEMMA WakeTryFinalize ==
  ASSUME ScopeInv, TryFinalize
  PROVE  WakeInv'
<1>0. Typed /\ WakeInv /\ FreeRows /\ fibers \in [Fid -> FiberOK]
  BY InvParts
<1>1. PICK s \in Sid : s = Callee /\ s # ROOT_SCOPE
  BY TopScope DEF TryFinalize
<1>2. current = NoFiber /\ UNCHANGED <<nfibers, timers, current>>
  BY TopScope DEF TryFinalize
<1>3. CASE ~CanFinalize(s)
  <2>1. UNCHANGED <<fibers, scopes, ready>>
    BY <1>1, <1>3 DEF TryFinalize
  <2>2. NextKept /\ TimersKept
    BY <1>2, <2>1 DEF NextKept, TimersKept
  <2> QED
    BY <1>0, <1>2, <2>1, <2>2, WakeSame
<1>4. CASE CanFinalize(s)
  <2>1. PICK a : a = scopes[s].awaiter
    OBVIOUS
  <2>2. Open(s)
    BY <1>1, <1>4 DEF Open, CanFinalize
  <2>3. a \in FidRef /\ a.id \in Fid /\ a # None
    BY <1>2, <2>1, <2>2, AwaiterWaits DEF None, Fid
  <2>4. /\ fibers' = IF fibers[a.id].alive THEN [fibers EXCEPT ![a.id].wait_kind = "none"] ELSE fibers
        /\ ready' = IF fibers[a.id].alive THEN Push(a, "resume") ELSE ready
    BY <1>1, <1>4, <2>1, <2>3 DEF TryFinalize
  <2>5. Finalized(s)
    BY <1>0, <1>1, <1>4, Finalizes
  <2>6. NextKept /\ TimersKept
    BY <1>2, <2>5 DEF NextKept, TimersKept, Finalized
  <2>7. CASE ~fibers[a.id].alive
    BY <1>0, <1>2, <2>4, <2>6, <2>7, WakeSame
  <2>8. CASE fibers[a.id].alive
    <3>1. fibers[a.id].wait_kind = "scope"
      BY <1>2, <2>1, <2>2, <2>8, AwaiterWaits
    <3>2. PICK f \in Fid : f = a.id
      BY <2>3
    <3>3. /\ \A g \in Fid \ {f} : fibers'[g] = fibers[g]
          /\ SameFiber(f) /\ fibers'[f].waiters = fibers[f].waiters
          /\ fibers'[f].wait_kind = "none"
      <4>1. fibers' = [fibers EXCEPT ![f].wait_kind = "none"]
        BY <2>4, <2>8, <3>2
      <4> QED
        BY <1>0, <4>1, ResumeDelta
    <3>4. /\ \A i \in DOMAIN ready : ready[i].fid.id # f
          /\ \A i \in DOMAIN timers : ~(timers[i].kind = "wake" /\ timers[i].arg.id = f)
          /\ Unawaited(f)
      <4>1. ~NamesFiber(f)
        BY <1>0, <2>8, <3>1, <3>2, Unnamed
      <4> QED
        BY <4>1 DEF NamesFiber, Unawaited
    <3>5. \A g \in Fid \ {f} : KeepsWait(g)
      BY <3>3 DEF KeepsWait
    <3>6. TimerOnce'
      BY <1>0, <1>2, <2>6, <3>4, <3>5, TimersStay
    <3>7. nfibers \in Nat /\ nfibers <= nfibers /\ f # current /\ f < nfibers
      <4>1. ~(f >= nfibers) /\ f \in Int /\ nfibers \in Nat /\ f # NoFiber
        BY <1>0, <2>8, <3>2, SchedulerAssumption DEF FreeRows, Typed, TablesOK, Fid, NoFiber
      <4> QED
        BY <1>2, <4>1
    <3>8. \A i \in DOMAIN timers' : timers'[i].kind = "wake" =>
             /\ timers'[i].arg.id # f
             /\ \E j \in DOMAIN timers : timers[j].kind = "wake" /\ timers'[i].arg = timers[j].arg
      BY <1>2, <3>4
    <3>9. ready' = Push(a, "resume") /\ fibers[f].alive
      BY <2>4, <2>8, <3>2
    <3> QED
      BY <1>0, <1>2, <2>3, <2>6, <3>2, <3>3, <3>4, <3>5, <3>6, <3>7, <3>8, <3>9, WakeAdded
  <2> QED
    BY <2>7, <2>8
<1> QED
  BY <1>3, <1>4

\* A child ends: its scope counts one less, and hands the outcome to a drainer.
LEMMA ChildDelta ==
  ASSUME Typed, NEW kind, CompleteChild(kind), NEW f \in Fid, f = current,
         NEW s \in Sid, s = fibers[f].scope
  PROVE  /\ Ended(f)
         /\ \A t \in Sid \ {s} : scopes'[t] = scopes[t]
         /\ SameScope(s) /\ scopes'[s].children = scopes[s].children
         /\ scopes'[s].live = scopes[s].live - 1
         /\ scopes'[s].next_waiters = IF scopes[s].next_waiters # <<>>
                                      THEN Tail(scopes[s].next_waiters) ELSE scopes[s].next_waiters
<1>1. scopes \in [Sid -> Scope] /\ scopes[s] \in Scope
  BY DEF Typed, TablesOK
<1>2. Ended(f)
  <2>1. fibers' = [Settled(f, kind) EXCEPT ![f].waiters = <<>>]
    BY DEF CompleteChild
  <2> QED
    BY <2>1, SettleDelta
<1>3. PICK n, m, b : n = (IF scopes[s].next_waiters # <<>> THEN Tail(scopes[s].next_waiters)
                          ELSE scopes[s].next_waiters)
        /\ scopes' = [scopes EXCEPT ![s].live = @ - 1, ![s].next_waiters = n, ![s].completed = m,
                                    ![s].fail_set = b]
  <2> DEFINE n == IF scopes[s].next_waiters # <<>> THEN Tail(scopes[s].next_waiters)
                  ELSE scopes[s].next_waiters
             m == IF scopes[s].next_waiters # <<>> THEN scopes[s].completed ELSE scopes[s].completed + 1
             b == IF FailsFast(f, s, kind) THEN TRUE ELSE scopes[s].fail_set
  <2>1. scopes' = [scopes EXCEPT ![s].live = @ - 1, ![s].next_waiters = n, ![s].completed = m,
                                 ![s].fail_set = b]
    BY DEF CompleteChild
  <2> QED
    BY <2>1, ZenonT(40)
<1>4. /\ \A t \in Sid \ {s} : scopes'[t] = scopes[t]
      /\ scopes'[s] = [scopes[s] EXCEPT !.live = scopes[s].live - 1, !.next_waiters = n,
                                        !.completed = m, !.fail_set = b]
  BY <1>1, <1>3
<1>6. PICK l : l = scopes[s].live - 1
  OBVIOUS
<1>5. ASSUME NEW q \in Scope, NEW r,
             r = [q EXCEPT !.live = l, !.next_waiters = n, !.completed = m, !.fail_set = b]
      PROVE  /\ r.manual = q.manual /\ r.cancelled = q.cancelled /\ r.finalized = q.finalized
             /\ r.body = q.body /\ r.awaiter = q.awaiter /\ r.bd_kind = q.bd_kind
             /\ r.enclosing = q.enclosing /\ r.gen = q.gen /\ r.children = q.children
             /\ r.live = l /\ r.next_waiters = n
  BY <1>5 DEF Scope
<1>7. PICK q \in Scope : q = scopes[s]
  BY <1>1
<1>8. PICK r : r = scopes'[s]
  OBVIOUS
<1>9. /\ r.manual = q.manual /\ r.cancelled = q.cancelled /\ r.finalized = q.finalized
      /\ r.body = q.body /\ r.awaiter = q.awaiter /\ r.bd_kind = q.bd_kind
      /\ r.enclosing = q.enclosing /\ r.gen = q.gen /\ r.children = q.children
      /\ r.live = l /\ r.next_waiters = n
  <2>1. r = [q EXCEPT !.live = l, !.next_waiters = n, !.completed = m, !.fail_set = b]
    BY <1>4, <1>6, <1>7, <1>8
  <2> QED
    BY <1>5, <2>1, ZenonT(40)
<1>10. /\ SameScope(s) /\ scopes'[s].children = scopes[s].children
       /\ scopes'[s].live = scopes[s].live - 1 /\ scopes'[s].next_waiters = n
  BY <1>6, <1>7, <1>8, <1>9 DEF SameScope
<1> QED
  BY <1>2, <1>3, <1>4, <1>10

\* The fibers that an ending child resumes.
LEMMA WokenEntries ==
  ASSUME Typed, NEW kind, CompleteChild(kind), NEW f \in Fid, f = current,
         NEW s \in Sid, s = fibers[f].scope
  PROVE  /\ Len(ready) \in Nat /\ DOMAIN ready = 1..Len(ready) /\ DOMAIN ready' \subseteq Nat
         /\ \A i \in DOMAIN ready' :
              \/ i \in DOMAIN ready /\ ready'[i] = ready[i]
              \/ /\ i \notin DOMAIN ready /\ i - Len(ready) \in DOMAIN fibers[f].waiters
                 /\ ready'[i].fid = fibers[f].waiters[i - Len(ready)]
              \/ /\ i \notin DOMAIN ready /\ i = Len(ready) + Len(fibers[f].waiters) + 1
                 /\ scopes[s].next_waiters # <<>>
                 /\ ready'[i].fid = scopes[s].next_waiters[1]
<1>1. /\ ready \in Seq(Entry) /\ fibers[f].waiters \in Seq(FidRef)
      /\ scopes[s].next_waiters \in Seq(FidRef)
  BY FiberFields, ScopeFields DEF Typed, TablesOK, QueuesOK
<1>2. PICK a, b, w : /\ a = fibers[f].waiters /\ b = scopes[s].next_waiters
                     /\ w = a \o (IF b # <<>> THEN <<Head(b)>> ELSE <<>>)
  OBVIOUS
<1>3. a \in Seq(FidRef) /\ b \in Seq(FidRef)
  BY <1>1, <1>2
<1>4. /\ w \in Seq(FidRef) /\ Len(a) \in Nat
      /\ \A k \in DOMAIN w : \/ k \in DOMAIN a /\ w[k] = a[k]
                             \/ b # <<>> /\ k = Len(a) + 1 /\ w[k] = b[1]
  <2> DEFINE d == IF b # <<>> THEN <<Head(b)>> ELSE <<>>
  <2>1. d \in Seq(FidRef) /\ \A k \in DOMAIN d : b # <<>> /\ k = 1 /\ d[k] = b[1]
    <3>1. CASE b = <<>>
      <4>1. d = <<>> /\ DOMAIN <<>> = {} /\ <<>> \in Seq(FidRef)
        BY <3>1
      <4> QED
        BY <4>1
    <3>2. CASE b # <<>>
      <4>1. Head(b) = b[1] /\ b[1] \in FidRef
        BY <1>3, <3>2, HeadTailProperties
      <4>2. PICK x \in FidRef : x = Head(b)
        BY <4>1
      <4>3. /\ <<x>> \in Seq(FidRef) /\ DOMAIN <<x>> = {1} /\ <<x>>[1] = x
        OBVIOUS
      <4>4. d = <<x>>
        BY <3>2, <4>2
      <4> HIDE DEF d
      <4> QED
        BY <3>2, <4>1, <4>2, <4>3, <4>4
    <3> QED
      BY <3>1, <3>2
  <2>2. /\ w \in Seq(FidRef) /\ Len(a) \in Nat
        /\ \A k \in DOMAIN w : \/ k \in DOMAIN a /\ w[k] = a[k]
                               \/ k \in Nat /\ k - Len(a) \in DOMAIN d /\ w[k] = d[k - Len(a)]
    <3>1. w = a \o d
      BY <1>2
    <3> HIDE DEF d
    <3> QED
      BY <1>3, <2>1, <3>1, Joined
  <2> HIDE DEF d
  <2> SUFFICES ASSUME NEW k \in DOMAIN w, k \in Nat, k - Len(a) \in DOMAIN d, w[k] = d[k - Len(a)]
               PROVE  b # <<>> /\ k = Len(a) + 1 /\ w[k] = b[1]
    BY <2>2
  <2>3. b # <<>> /\ k - Len(a) = 1 /\ w[k] = b[1]
    BY <2>1
  <2> QED
    BY <2>2, <2>3
<1>5. ready' = ready \o [i \in DOMAIN w |-> [fid |-> w[i], focus |-> "resume"]]
  BY <1>2 DEF CompleteChild, Woken
<1>6. PICK e : e = [i \in DOMAIN w |-> [fid |-> w[i], focus |-> "resume"]]
  OBVIOUS
<1>7. e \in Seq(Entry) /\ Len(e) = Len(w) /\ Len(w) \in Nat /\ DOMAIN w = 1..Len(w)
      /\ \A k \in DOMAIN w : e[k].fid = w[k]
  <2>1. DOMAIN w = 1..Len(w) /\ Len(w) \in Nat /\ \A k \in DOMAIN w : w[k] \in FidRef
    BY <1>4, LenProperties, ElementOfSeq
  <2>2. \A k \in 1..Len(w) : [fid |-> w[k], focus |-> "resume"] \in Entry
    BY <2>1 DEF Entry
  <2>3. e \in [1..Len(w) -> Entry]
    BY <1>6, <2>1, <2>2
  <2>4. e \in Seq(Entry) /\ Len(e) = Len(w)
    BY <2>1, <2>3
  <2> QED
    BY <1>6, <2>1, <2>4
<1>8. /\ Len(ready) \in Nat /\ DOMAIN ready = 1..Len(ready)
      /\ \A i \in DOMAIN ready' : \/ i \in DOMAIN ready /\ ready'[i] = ready[i]
                                  \/ /\ i \notin DOMAIN ready /\ i \in Nat
                                     /\ i - Len(ready) \in DOMAIN w /\ ready'[i].fid = w[i - Len(ready)]
  <2>1. ready' = ready \o e
    BY <1>5, <1>6
  <2>2. /\ Len(ready) \in Nat /\ DOMAIN ready = 1..Len(ready) /\ DOMAIN e = 1..Len(e)
        /\ \A i \in DOMAIN ready' : \/ i \in DOMAIN ready /\ ready'[i] = ready[i]
                                    \/ /\ i \notin DOMAIN ready /\ i \in Nat
                                       /\ i - Len(ready) \in DOMAIN e /\ ready'[i] = e[i - Len(ready)]
    BY <1>1, <1>7, <2>1, Joined
  <2> QED
    BY <1>7, <2>2
<1>11. DOMAIN ready' \subseteq Nat
  BY <1>8
<1> SUFFICES ASSUME NEW i \in DOMAIN ready'
             PROVE  \/ i \in DOMAIN ready /\ ready'[i] = ready[i]
                    \/ /\ i \notin DOMAIN ready /\ i - Len(ready) \in DOMAIN a
                       /\ ready'[i].fid = a[i - Len(ready)]
                    \/ /\ i \notin DOMAIN ready /\ i = Len(ready) + Len(a) + 1
                       /\ b # <<>> /\ ready'[i].fid = b[1]
  BY <1>2, <1>8, <1>11
<1>9. CASE i \in DOMAIN ready /\ ready'[i] = ready[i]
  BY <1>9
<1>10. CASE /\ i \notin DOMAIN ready /\ i \in Nat
            /\ i - Len(ready) \in DOMAIN w /\ ready'[i].fid = w[i - Len(ready)]
  <2>1. PICK k : k = i - Len(ready)
    OBVIOUS
  <2>2. \/ k \in DOMAIN a /\ w[k] = a[k]
        \/ b # <<>> /\ k = Len(a) + 1 /\ w[k] = b[1]
    <3>1. k \in DOMAIN w
      BY <1>10, <2>1
    <3> QED
      BY <1>4, <3>1
  <2>3. k = Len(a) + 1 => i = Len(ready) + Len(a) + 1
    <3>1. Len(a) \in Nat /\ Len(ready) \in Nat /\ i \in Nat
      BY <1>4, <1>8, <1>10
    <3>2. PICK m \in Nat, n \in Nat : m = Len(a) /\ n = Len(ready)
      BY <3>1
    <3> QED
      BY <2>1, <3>1, <3>2
  <2> QED
    BY <1>10, <2>1, <2>2, <2>3
<1> QED
  BY <1>8, <1>9, <1>10

\* The fibers resumed by an ending child were parked on it or drain its scope, and
\* are named by nothing else.
LEMMA WakeCompleteChild ==
  ASSUME ScopeInv, NEW kind, CompleteChild(kind)
  PROVE  WakeInv'
<1>0. Typed /\ WakeInv /\ fibers \in [Fid -> FiberOK] /\ scopes \in [Sid -> Scope]
  BY InvParts
<1>1. current # NoFiber
  BY DEF CompleteChild, CanComplete, CanSuspend, Pumping
<1>2. PICK f \in Fid : f = current
  BY <1>1, Pumped
<1>3. PICK s \in Sid : s = fibers[f].scope
  BY <1>0, FiberFields
<1>4. fibers[f].alive
  BY <1>1, <1>2, Pumped
<1>5. current' = NoFiber /\ UNCHANGED <<nfibers, timers>>
  BY DEF CompleteChild
<1>6. /\ Ended(f) /\ \A t \in Sid \ {s} : scopes'[t] = scopes[t]
      /\ scopes'[s].next_waiters = IF scopes[s].next_waiters # <<>>
                                   THEN Tail(scopes[s].next_waiters) ELSE scopes[s].next_waiters
  BY <1>0, <1>2, <1>3, ChildDelta
<1>7. \A g \in Fid : fibers'[g].alive =>
        /\ g # f /\ fibers[g].alive /\ fibers'[g].waiters = fibers[g].waiters
        /\ fibers'[g].wait_kind = fibers[g].wait_kind /\ fibers'[g].wait_arg = fibers[g].wait_arg
  BY <1>6 DEF Ended
<1>8. \A g \in Fid : KeepsWait(g)
  BY <1>7 DEF KeepsWait
<1>9. TimersKept /\ \A g \in Fid : g # current'
  BY <1>5 DEF TimersKept, Fid, NoFiber
<1>10. TimerOnce'
  BY <1>0, <1>5, <1>8, <1>9, TimersStay
<1>11. /\ \A i \in DOMAIN ready : ready[i].fid.id \in Fid
       /\ \A c \in Fid : \A i \in DOMAIN fibers[c].waiters : fibers[c].waiters[i].id \in Fid
       /\ \A t \in Sid : \A i \in DOMAIN scopes[t].next_waiters :
            scopes[t].next_waiters[i].id \in Fid
  BY <1>0, NamesTyped
<1>12. PICK o \in {0, 1} : \A i \in DOMAIN scopes'[s].next_waiters :
         /\ i \in Nat /\ i + o \in DOMAIN scopes[s].next_waiters
         /\ scopes'[s].next_waiters[i] = scopes[s].next_waiters[i + o]
         /\ scopes[s].next_waiters # <<>> => i + o # 1
  <2>1. scopes[s].next_waiters \in Seq(FidRef)
    BY <1>0, ScopeFields
  <2>2. CASE scopes[s].next_waiters # <<>>
    <3>1. scopes'[s].next_waiters = Tail(scopes[s].next_waiters)
      BY <1>6, <2>2
    <3>2. \A i \in DOMAIN scopes'[s].next_waiters :
            /\ i \in Nat /\ i + 1 \in DOMAIN scopes[s].next_waiters
            /\ scopes'[s].next_waiters[i] = scopes[s].next_waiters[i + 1] /\ i + 1 # 1
      BY <2>1, <2>2, <3>1, Dropped
    <3> QED
      BY <3>2
  <2>3. CASE scopes[s].next_waiters = <<>>
    <3>1. scopes'[s].next_waiters = <<>> /\ DOMAIN <<>> = {}
      BY <1>6, <2>3
    <3>2. \A i \in DOMAIN scopes'[s].next_waiters :
            /\ i \in Nat /\ i + 0 \in DOMAIN scopes[s].next_waiters
            /\ scopes'[s].next_waiters[i] = scopes[s].next_waiters[i + 0]
            /\ scopes[s].next_waiters # <<>> => i + 0 # 1
      BY <3>1
    <3> QED
      BY <3>2
  <2> QED
    BY <2>2, <2>3
<1>13. \A t \in Sid : \A i \in DOMAIN scopes'[t].next_waiters :
         \E j \in DOMAIN scopes[t].next_waiters :
           scopes'[t].next_waiters[i] = scopes[t].next_waiters[j]
           /\ (t = s /\ scopes[s].next_waiters # <<>> => j # 1)
  BY <1>6, <1>12, ZenonT(40)
<1>14. \A g \in Fid : Unawaited(g) => Unawaited(g)'
  BY <1>7, <1>13 DEF Unawaited
<1>15. /\ Len(ready) \in Nat /\ DOMAIN ready = 1..Len(ready) /\ DOMAIN ready' \subseteq Nat
       /\ \A i \in DOMAIN ready' :
            \/ i \in DOMAIN ready /\ ready'[i] = ready[i]
            \/ /\ i \notin DOMAIN ready /\ i - Len(ready) \in DOMAIN fibers[f].waiters
               /\ ready'[i].fid = fibers[f].waiters[i - Len(ready)]
            \/ /\ i \notin DOMAIN ready /\ i = Len(ready) + Len(fibers[f].waiters) + 1
               /\ scopes[s].next_waiters # <<>>
               /\ ready'[i].fid = scopes[s].next_waiters[1]
  BY <1>0, <1>2, <1>3, WokenEntries
<1>16. scopes[s].next_waiters # <<>> => 1 \in DOMAIN scopes[s].next_waiters
  <2>1. scopes[s].next_waiters \in Seq(FidRef)
    BY <1>0, ScopeFields
  <2> QED
    BY <2>1, Dropped
<1>17. \A k \in DOMAIN fibers[f].waiters : fibers[fibers[f].waiters[k].id].alive =>
         /\ fibers[fibers[f].waiters[k].id].wait_kind = "handle"
         /\ fibers[fibers[f].waiters[k].id].wait_arg.id = f
         /\ \A j \in DOMAIN fibers[f].waiters :
              fibers[f].waiters[j].id = fibers[f].waiters[k].id => j = k
  BY <1>0, <1>4 DEF WakeInv, WaiterOnce
<1>18. \A t \in Sid : \A k \in DOMAIN scopes[t].next_waiters :
         fibers[scopes[t].next_waiters[k].id].alive =>
           /\ fibers[scopes[t].next_waiters[k].id].wait_kind = "next"
           /\ fibers[scopes[t].next_waiters[k].id].wait_arg.id = t
           /\ \A j \in DOMAIN scopes[t].next_waiters :
                scopes[t].next_waiters[j].id = scopes[t].next_waiters[k].id => j = k
  BY <1>0 DEF WakeInv, DrainerOnce
<1>19. \A i \in DOMAIN ready' : /\ i \in Int /\ ready'[i].fid.id \in Fid
                                /\ NamesFiber(ready'[i].fid.id)
  <2> SUFFICES ASSUME NEW i \in DOMAIN ready'
               PROVE  i \in Int /\ ready'[i].fid.id \in Fid /\ NamesFiber(ready'[i].fid.id)
    OBVIOUS
  <2>1. CASE i \in DOMAIN ready /\ ready'[i] = ready[i]
    BY <1>11, <1>15, <2>1 DEF NamesFiber
  <2>2. CASE /\ i - Len(ready) \in DOMAIN fibers[f].waiters
             /\ ready'[i].fid = fibers[f].waiters[i - Len(ready)]
    <3>1. ready'[i].fid.id \in Fid /\ NamesFiber(ready'[i].fid.id)
      BY <1>4, <1>11, <2>2 DEF NamesFiber
    <3> QED
      BY <1>15, <3>1
  <2>3. CASE /\ scopes[s].next_waiters # <<>> /\ ready'[i].fid = scopes[s].next_waiters[1]
    <3>1. ready'[i].fid.id \in Fid /\ NamesFiber(ready'[i].fid.id)
      BY <1>11, <1>16, <2>3 DEF NamesFiber
    <3> QED
      BY <1>15, <3>1
  <2> QED
    BY <1>15, <2>1, <2>2, <2>3
<1>20. ReadyOnce'
  <2> SUFFICES ASSUME NEW i \in DOMAIN ready', NEW g, g = ready'[i].fid.id, fibers'[g].alive
               PROVE  /\ g # current' /\ fibers'[g].wait_kind \in {"none", "handle", "next"}
                      /\ \A j \in DOMAIN ready' : ready'[j].fid.id = g => j = i
                      /\ Unawaited(g)'
    BY DEF ReadyOnce, Unawaited
  <2>0. g \in Fid /\ i \in Int
    BY <1>19
  <2>00. /\ g # current' /\ g # f /\ fibers[g].alive /\ fibers'[g].wait_kind = fibers[g].wait_kind
    BY <1>7, <1>9, <2>0
  <2>1. CASE i \in DOMAIN ready /\ ready'[i] = ready[i]
    <3>1. /\ fibers[g].wait_kind \in {"none", "handle", "next"} /\ Unawaited(g)
          /\ \A j \in DOMAIN ready : ready[j].fid.id = g => j = i
      BY <1>0, <2>00, <2>1 DEF WakeInv, ReadyOnce
    <3>2. \A k \in DOMAIN fibers[f].waiters : fibers[f].waiters[k].id # g
      BY <1>4, <3>1 DEF Unawaited
    <3>3. \A k \in DOMAIN scopes[s].next_waiters : scopes[s].next_waiters[k].id # g
      BY <3>1 DEF Unawaited
    <3>4. \A j \in DOMAIN ready' : ready'[j].fid.id = g => j = i
      BY <1>15, <1>16, <3>1, <3>2, <3>3
    <3> QED
      BY <1>14, <2>0, <2>00, <3>1, <3>4
  <2>2. CASE /\ i \notin DOMAIN ready /\ i - Len(ready) \in DOMAIN fibers[f].waiters
             /\ ready'[i].fid = fibers[f].waiters[i - Len(ready)]
    <3>1. PICK k \in DOMAIN fibers[f].waiters : k = i - Len(ready) /\ fibers[f].waiters[k].id = g
      BY <2>2
    <3>2. /\ fibers[g].wait_kind = "handle" /\ fibers[g].wait_arg.id = f
          /\ \A j \in DOMAIN fibers[f].waiters : fibers[f].waiters[j].id = g => j = k
      BY <1>17, <2>00, <3>1
    <3>3. \A j \in DOMAIN ready : ready[j].fid.id # g
      BY <1>0, <1>4, <2>00, <3>1 DEF WakeInv, ReadyOnce, Unawaited
    <3>4. \A t \in Sid : \A j \in DOMAIN scopes[t].next_waiters : scopes[t].next_waiters[j].id # g
      BY <1>18, <2>00, <3>2
    <3>5. \A c \in Fid \ {f} : fibers[c].alive =>
            \A j \in DOMAIN fibers[c].waiters : fibers[c].waiters[j].id # g
      BY <1>0, <2>00, <3>2 DEF WakeInv, WaiterOnce
    <3>6. Unawaited(g)'
      BY <1>7, <1>13, <3>4, <3>5 DEF Unawaited
    <3>7. \A j \in DOMAIN ready' : ready'[j].fid.id = g => j = i
      <4> SUFFICES ASSUME NEW j \in DOMAIN ready', ready'[j].fid.id = g
                   PROVE  j = i
        OBVIOUS
      <4>1. j - Len(ready) = k
        BY <1>15, <1>16, <3>2, <3>3, <3>4
      <4>2. j \in Int /\ Len(ready) \in Nat
        BY <1>15, <1>19
      <4> QED
        BY <2>0, <3>1, <4>1, <4>2
    <3> QED
      BY <2>00, <3>2, <3>6, <3>7
  <2>3. CASE /\ i \notin DOMAIN ready /\ i = Len(ready) + Len(fibers[f].waiters) + 1
             /\ scopes[s].next_waiters # <<>>
             /\ ready'[i].fid = scopes[s].next_waiters[1]
    <3>1. 1 \in DOMAIN scopes[s].next_waiters /\ scopes[s].next_waiters[1].id = g
      BY <1>16, <2>3
    <3>2. /\ fibers[g].wait_kind = "next" /\ fibers[g].wait_arg.id = s
          /\ \A j \in DOMAIN scopes[s].next_waiters : scopes[s].next_waiters[j].id = g => j = 1
      BY <1>18, <2>00, <3>1
    <3>3. \A j \in DOMAIN ready : ready[j].fid.id # g
      BY <1>0, <2>00, <3>1 DEF WakeInv, ReadyOnce, Unawaited
    <3>4. \A c \in Fid : fibers[c].alive =>
            \A j \in DOMAIN fibers[c].waiters : fibers[c].waiters[j].id # g
      BY <1>0, <2>00, <3>2 DEF WakeInv, WaiterOnce
    <3>5. \A t \in Sid \ {s} : \A j \in DOMAIN scopes[t].next_waiters :
            scopes[t].next_waiters[j].id # g
      BY <1>18, <2>00, <3>2
    <3>6. Unawaited(g)'
      <4>1. \A t \in Sid : \A j \in DOMAIN scopes'[t].next_waiters :
              scopes'[t].next_waiters[j].id # g
        BY <1>13, <2>3, <3>2, <3>5
      <4> QED
        BY <1>7, <3>4, <4>1 DEF Unawaited
    <3>7. \A j \in DOMAIN ready' : ready'[j].fid.id = g => j = i
      BY <1>4, <1>15, <2>3, <3>3, <3>4
    <3> QED
      BY <2>00, <3>2, <3>6, <3>7
  <2> QED
    BY <1>15, <2>1, <2>2, <2>3
<1>21. WaiterOnce'
  <2> SUFFICES ASSUME NEW x \in Fid, fibers'[x].alive, NEW i \in DOMAIN fibers'[x].waiters, NEW g,
                      g = fibers'[x].waiters[i].id, fibers'[g].alive
               PROVE  /\ g # current' /\ fibers'[g].wait_kind = "handle"
                      /\ fibers'[g].wait_arg.id = x
                      /\ \A j \in DOMAIN fibers'[x].waiters : fibers'[x].waiters[j].id = g => j = i
    BY DEF WaiterOnce
  <2>1. /\ fibers[x].alive /\ i \in DOMAIN fibers[x].waiters /\ g = fibers[x].waiters[i].id
        /\ fibers'[x].waiters = fibers[x].waiters /\ g \in Fid
    BY <1>7, <1>11
  <2>2. fibers[g].alive
    BY <1>7, <2>1
  <2>4. /\ fibers[g].wait_kind = "handle" /\ fibers[g].wait_arg.id = x
        /\ \A j \in DOMAIN fibers[x].waiters : fibers[x].waiters[j].id = g => j = i
    BY <1>0, <2>1, <2>2 DEF WakeInv, WaiterOnce
  <2> QED
    BY <1>7, <1>9, <2>1, <2>4
<1>22. DrainerOnce'
  <2> SUFFICES ASSUME NEW t \in Sid, NEW i \in DOMAIN scopes'[t].next_waiters, NEW g,
                      g = scopes'[t].next_waiters[i].id, fibers'[g].alive
               PROVE  /\ g # current' /\ fibers'[g].wait_kind = "next"
                      /\ fibers'[g].wait_arg.id = t
                      /\ \A j \in DOMAIN scopes'[t].next_waiters :
                           scopes'[t].next_waiters[j].id = g => j = i
    BY DEF DrainerOnce
  <2>1. PICK k \in DOMAIN scopes[t].next_waiters : scopes[t].next_waiters[k].id = g
    BY <1>13
  <2>2. g \in Fid
    BY <1>11, <2>1
  <2>3. fibers[g].alive
    BY <1>7, <2>2
  <2>4. /\ fibers[g].wait_kind = "next" /\ fibers[g].wait_arg.id = t
        /\ \A j \in DOMAIN scopes[t].next_waiters : scopes[t].next_waiters[j].id = g => j = k
    BY <1>18, <2>1, <2>3
  <2>5. CASE t # s
    BY <1>6, <1>7, <1>9, <2>2, <2>4, <2>5
  <2>6. CASE t = s
    <3>1. \A j \in DOMAIN scopes'[s].next_waiters : scopes'[s].next_waiters[j].id = g =>
            j \in Nat /\ j + o = k
      BY <1>12, <2>4, <2>6
    <3>2. \A j \in DOMAIN scopes'[s].next_waiters : scopes'[s].next_waiters[j].id = g => j = i
      BY <2>6, <3>1
    <3> QED
      BY <1>7, <1>9, <2>2, <2>4, <2>6, <3>2
  <2> QED
    BY <2>5, <2>6
<1>23. Reached'
  <2>1. \A g \in Fid : NamesFiber(g)' => NamesFiber(g)
    BY <1>5, <1>7, <1>13, <1>19 DEF NamesFiber
  <2> QED
    BY <1>0, <1>5, <2>1 DEF WakeInv, Reached
<1> QED
  BY <1>10, <1>20, <1>21, <1>22, <1>23 DEF WakeInv

\* What cancel_scope, on_body_done and reap_fiber leave alone in a scope's row.
SameRest(s) ==
  /\ scopes'[s].manual = scopes[s].manual /\ scopes'[s].finalized = scopes[s].finalized
  /\ scopes'[s].body = scopes[s].body /\ scopes'[s].children = scopes[s].children
  /\ scopes'[s].awaiter = scopes[s].awaiter
  /\ scopes'[s].next_waiters = scopes[s].next_waiters
  /\ scopes'[s].enclosing = scopes[s].enclosing /\ scopes'[s].gen = scopes[s].gen

\* The outcome of a scope's body is recorded.
BodyMarked(s, k) ==
  /\ \A t \in Sid \ {s} : scopes'[t] = scopes[t]
  /\ SameRest(s) /\ scopes'[s].cancelled = scopes[s].cancelled /\ scopes'[s].live = scopes[s].live
  /\ scopes'[s].bd_kind = k

\* on_body_done records the outcome, with or without a failure.
LEMMA BodyMarkedDelta ==
  ASSUME Typed, NEW s \in Sid, NEW k, NEW b,
         \/ scopes' = [scopes EXCEPT ![s].bd_kind = k]
         \/ scopes' = [scopes EXCEPT ![s].bd_kind = k, ![s].fail_set = b]
  PROVE  BodyMarked(s, k)
<1>1. scopes \in [Sid -> Scope] /\ scopes[s] \in Scope
  BY DEF Typed, TablesOK
<1>2. ASSUME NEW q \in Scope, NEW r,
             \/ r = [q EXCEPT !.bd_kind = k]
             \/ r = [q EXCEPT !.bd_kind = k, !.fail_set = b]
      PROVE  /\ r.manual = q.manual /\ r.cancelled = q.cancelled /\ r.finalized = q.finalized
             /\ r.body = q.body /\ r.awaiter = q.awaiter /\ r.bd_kind = k
             /\ r.enclosing = q.enclosing /\ r.gen = q.gen /\ r.children = q.children
             /\ r.live = q.live /\ r.next_waiters = q.next_waiters
  BY <1>2 DEF Scope
<1>3. PICK q \in Scope : q = scopes[s]
  BY <1>1
<1>4. PICK r : r = scopes'[s]
  OBVIOUS
<1>5. /\ r.manual = q.manual /\ r.cancelled = q.cancelled /\ r.finalized = q.finalized
      /\ r.body = q.body /\ r.awaiter = q.awaiter /\ r.bd_kind = k
      /\ r.enclosing = q.enclosing /\ r.gen = q.gen /\ r.children = q.children
      /\ r.live = q.live /\ r.next_waiters = q.next_waiters
  <2>1. \/ r = [q EXCEPT !.bd_kind = k]
        \/ r = [q EXCEPT !.bd_kind = k, !.fail_set = b]
    BY <1>1, <1>3, <1>4
  <2> QED
    BY <1>2, <2>1
<1>6. \A t \in Sid \ {s} : scopes'[t] = scopes[t]
  BY <1>1
<1> QED
  BY <1>3, <1>4, <1>5, <1>6 DEF BodyMarked, SameRest

\* A scope is marked as cancelled.
Marked(s) ==
  /\ \A t \in Sid \ {s} : scopes'[t] = scopes[t]
  /\ SameRest(s) /\ scopes'[s].bd_kind = scopes[s].bd_kind /\ scopes'[s].live = scopes[s].live
  /\ scopes'[s].cancelled

\* cancel_scope's first assignment marks the scope and nothing else.
LEMMA MarkedDelta ==
  ASSUME Typed, NEW s \in Sid, scopes' = [scopes EXCEPT ![s].cancelled = TRUE]
  PROVE  Marked(s)
<1>1. scopes \in [Sid -> Scope] /\ scopes[s] \in Scope
  BY DEF Typed, TablesOK
<1>2. scopes'[s] = [scopes[s] EXCEPT !.cancelled = TRUE]
  BY <1>1
<1>3. \A t \in Sid \ {s} : scopes'[t] = scopes[t]
  BY <1>1
<1> QED
  BY <1>1, <1>2, <1>3 DEF Marked, SameRest, Scope

\* A reaped child leaves the count.
CountedOff(s) ==
  /\ \A t \in Sid \ {s} : scopes'[t] = scopes[t]
  /\ SameRest(s) /\ scopes'[s].bd_kind = scopes[s].bd_kind
  /\ scopes'[s].cancelled = scopes[s].cancelled /\ scopes'[s].live = scopes[s].live - 1

\* reap_fiber's decrement of live changes nothing else.
LEMMA CountedOffDelta ==
  ASSUME Typed, NEW s \in Sid, scopes' = [scopes EXCEPT ![s].live = @ - 1]
  PROVE  CountedOff(s)
<1>1. scopes \in [Sid -> Scope] /\ scopes[s] \in Scope
  BY DEF Typed, TablesOK
<1>2. scopes'[s] = [scopes[s] EXCEPT !.live = scopes[s].live - 1]
  BY <1>1
<1>3. \A t \in Sid \ {s} : scopes'[t] = scopes[t]
  BY <1>1
<1> QED
  BY <1>1, <1>2, <1>3 DEF CountedOff, SameRest, Scope

\* start_scope fills a row of the scope table.
Started(s, manual, c) ==
  /\ \A t \in Sid \ {s} : scopes'[t] = scopes[t]
  /\ scopes'[s].manual = manual /\ ~scopes'[s].cancelled /\ ~scopes'[s].finalized
  /\ scopes'[s].children = <<>> /\ scopes'[s].awaiter = FiberRef(c)
  /\ scopes'[s].bd_kind = "none" /\ scopes'[s].next_waiters = <<>> /\ scopes'[s].live = 0
  /\ scopes'[s].enclosing = fibers[c].knows /\ scopes'[s].gen = scopes[s].gen + 1

\* start_scope writes the row it takes from the free list or the table's end.
LEMMA StartScopeDelta ==
  ASSUME Typed, NEW manual, StartScope(manual), NEW s \in Sid, s = Slot(free_scopes, nscopes),
         NEW c \in Fid, c = current
  PROVE  Started(s, manual, c) /\ starting' = Ref(s, scopes[s].gen + 1)
<1>1. scopes \in [Sid -> Scope]
  BY DEF Typed, TablesOK
<1>2. /\ scopes' = [scopes EXCEPT ![s] = NewScope(manual, FiberRef(c), fibers[c].knows, @)]
      /\ starting' = Ref(s, scopes[s].gen + 1)
  BY DEF StartScope
<1>3. /\ scopes'[s] = NewScope(manual, FiberRef(c), fibers[c].knows, scopes[s])
      /\ \A t \in Sid \ {s} : scopes'[t] = scopes[t]
  BY <1>1, <1>2
<1> QED
  BY <1>2, <1>3 DEF Started, NewScope

\* The operations of the fiber being pumped that name no fiber anew.
LEMMA WakeProgram ==
  ASSUME ScopeInv, Disciplined, ProgramStep
  PROVE  WakeInv'
<1>0. /\ Typed /\ WakeInv /\ FreeRows
      /\ fibers \in [Fid -> FiberOK] /\ scopes \in [Sid -> Scope]
  BY InvParts
<1>1. ASSUME NEW h \in AllHandles, Spawn(h)
      PROVE  WakeInv'
  <2>1. Pumping /\ h \in Handles /\ SpawnInto(h, Handles) /\ UNCHANGED <<timers, current>>
    BY <1>1 DEF Spawn, control
  <2>2. h \in SidRef
    BY <1>0, <2>1, HandleSid
  <2>3. fibers[current].alive
    BY <2>1, Pumped DEF Pumping
  <2> QED
    BY <1>0, <2>1, <2>2, <2>3, WakeSpawnInto DEF Disciplined
<1>2. ASSUME NEW h \in AllHandles, Cancel(h)
      PROVE  WakeInv'
  <2>1. UNCHANGED <<fibers, nfibers, scopes, ready, timers, current>>
    BY <1>2 DEF Cancel, tables, control
  <2>2. NextKept /\ TimersKept
    BY <2>1 DEF NextKept, TimersKept
  <2> QED
    BY <1>0, <2>1, <2>2, WakeSame
<1>3. ASSUME NEW h \in AllHandles, TakeSettled(h)
      PROVE  WakeInv'
  <2>1. UNCHANGED <<fibers, nfibers, ready, timers, current>>
    BY <1>3 DEF TakeSettled, control, queues
  <2>2. \A t \in Sid : scopes'[t].next_waiters = scopes[t].next_waiters
    <3>1. scopes' = [scopes EXCEPT ![h.id].completed = @ - 1]
      BY <1>3 DEF TakeSettled
    <3> QED
      BY <1>0, <3>1 DEF Scope
  <2>3. NextKept /\ TimersKept
    BY <2>1, <2>2 DEF NextKept, TimersKept
  <2> QED
    BY <1>0, <2>1, <2>3, WakeSame
<1>4. ASSUME NEW h \in AllHandles, NEW d \in Durations, CancelAfter(h, d)
      PROVE  WakeInv'
  <2>1. UNCHANGED <<fibers, nfibers, scopes, ready, current>>
    BY <1>4 DEF CancelAfter, tables, control
  <2>2. PICK e \in Timer : e.kind = "deadline" /\ timers' = Append(timers, e)
    <3>1. h \in SidRef /\ d \in Nat
      BY <1>0, <1>4, HandleSid, SchedulerAssumption DEF CancelAfter
    <3> QED
      BY <1>4, <3>1 DEF CancelAfter, Timer
  <2>3. timers \in Seq(Timer)
    BY <1>0 DEF Typed, QueuesOK
  <2>4. \A i \in DOMAIN timers' : \/ i \in DOMAIN timers /\ timers'[i] = timers[i]
                                  \/ timers'[i] = e
    BY <2>2, <2>3, Appended
  <2>5. NextKept /\ TimersKept
    BY <2>1, <2>2, <2>4 DEF NextKept, TimersKept
  <2> QED
    BY <1>0, <2>1, <2>5, WakeSame
<1>5. ASSUME NEW manual \in BOOLEAN, StartScope(manual)
      PROVE  WakeInv'
  <2>1. UNCHANGED <<fibers, nfibers, ready, timers, current>> /\ ScopeSlotLeft
    BY <1>5 DEF StartScope, queues
  <2>2. PICK s \in Sid : s = Slot(free_scopes, nscopes)
    BY <1>0, <2>1, ScopeSlot
  <2>3. PICK c \in Fid : c = current
    BY <1>5, Pumped DEF StartScope, CanSuspend, Pumping
  <2>4. Started(s, manual, c)
    BY <1>0, <1>5, <2>2, <2>3, StartScopeDelta
  <2>5. NextKept /\ TimersKept
    BY <2>1, <2>4 DEF NextKept, TimersKept, Started
  <2> QED
    BY <1>0, <2>1, <2>5, WakeSame
<1>6. ASSUME NEW kind, CompleteRoot(kind)
      PROVE  WakeInv'
  <2>1. UNCHANGED <<nfibers, scopes, ready, timers>> /\ current' = NoFiber /\ current # NoFiber
    BY <1>6 DEF CompleteRoot, queues, CanComplete, CanSuspend, Pumping
  <2>2. PICK c \in Fid : c = current
    BY <2>1, Pumped
  <2>3. Ended(c)
    BY <1>0, <1>6, <2>2, SettleDelta DEF CompleteRoot
  <2>4. NextKept
    BY <2>1 DEF NextKept
  <2> QED
    BY <1>0, <2>1, <2>3, <2>4, WakeEnded
<1>7. ASSUME NEW kind, CompleteBody(kind)
      PROVE  WakeInv'
  <2>1. UNCHANGED <<nfibers, ready, timers>> /\ current' = NoFiber /\ current # NoFiber
    BY <1>7 DEF CompleteBody, queues, CanComplete, CanSuspend, Pumping
  <2>2. PICK c \in Fid : c = current
    BY <2>1, Pumped
  <2>3. Ended(c)
    BY <1>0, <1>7, <2>2, SettleDelta DEF CompleteBody
  <2>4. PICK s \in Sid : s = fibers[c].runs_scope
    BY <1>0, <1>7, <2>2, FiberFields DEF CompleteBody
  <2>5. BodyMarked(s, kind)
    BY <1>0, <1>7, <2>2, <2>4, BodyMarkedDelta DEF CompleteBody
  <2>6. NextKept
    BY <2>5 DEF NextKept, BodyMarked, SameRest
  <2> QED
    BY <1>0, <2>1, <2>3, <2>6, WakeEnded
<1> QED
  BY <1>1, <1>2, <1>3, <1>4, <1>5, <1>6, <1>7, WakeAwaitNext, WakeAwaitHandle, WakeYield,
     WakeAwaitIo, WakeStartBody, WakeSleep, WakeCompleteChild DEF ProgramStep

\* The calls of the cancel, reap and finalize functions.
LEMMA WakeCalls ==
  ASSUME ScopeInv, Disciplined, CallStep
  PROVE  WakeInv'
<1>0. /\ Typed /\ WakeInv /\ fibers \in [Fid -> FiberOK] /\ scopes \in [Sid -> Scope]
  BY InvParts
<1>1. CASE CancelScope
  <2>1. UNCHANGED <<fibers, nfibers, ready, timers, current>>
    BY <1>1 DEF CancelScope, queues
  <2>2. PICK s \in Sid : s = Callee
    BY <1>1, TopScope DEF CancelScope
  <2>3. scopes' = scopes \/ scopes' = [scopes EXCEPT ![s].cancelled = TRUE]
    BY <1>1, <2>2 DEF CancelScope
  <2>4. scopes' = scopes \/ Marked(s)
    BY <1>0, <2>3, MarkedDelta
  <2>5. NextKept /\ TimersKept
    BY <2>1, <2>4 DEF NextKept, TimersKept, Marked, SameRest
  <2> QED
    BY <1>0, <2>1, <2>5, WakeSame
<1>2. CASE MarkCancelled
  <2>1. UNCHANGED <<fibers, nfibers, ready, timers, current>>
    BY <1>2 DEF MarkCancelled, queues
  <2>2. PICK s \in Sid : s = Callee
    BY <1>2, TopScope DEF MarkCancelled
  <2>3. PICK k : k = EndedBody(scopes[s].bd_kind)
    OBVIOUS
  <2>4. scopes' = [scopes EXCEPT ![s].bd_kind = k]
    BY <1>0, <1>2, <2>2, <2>3 DEF MarkCancelled
  <2>5. BodyMarked(s, k)
    BY <1>0, <2>4, BodyMarkedDelta
  <2>6. NextKept /\ TimersKept
    BY <2>1, <2>5 DEF NextKept, TimersKept, BodyMarked, SameRest
  <2> QED
    BY <1>0, <2>1, <2>6, WakeSame
<1>3. CASE ReapChildren \/ ReapChild
  <2>1. UNCHANGED <<fibers, nfibers, scopes, ready, timers, current>>
    BY <1>3 DEF ReapChildren, ReapChild, queues, tables
  <2>2. NextKept /\ TimersKept
    BY <2>1 DEF NextKept, TimersKept
  <2> QED
    BY <1>0, <2>1, <2>2, WakeSame
<1>4. CASE ReapFiber
  <2>1. UNCHANGED <<nfibers, ready, timers, current>>
    BY <1>4 DEF ReapFiber, queues
  <2>2. PICK f \in Fid : f = Callee
    BY <1>0, <1>4, CalleeType DEF ReapFiber
  <2>3. CASE fibers[f].alive
    <3>1. Ended(f)
      BY <1>0, <1>4, <2>2, <2>3, SettleDelta DEF ReapFiber
    <3>2. fibers[f].scope \in Sid
      BY <1>0, FiberFields
    <3>3. PICK s \in Sid : s = fibers[f].scope
      BY <3>2
    <3>4. scopes' = scopes \/ scopes' = [scopes EXCEPT ![s].live = @ - 1]
      BY <1>4, <2>2, <2>3, <3>3 DEF ReapFiber, LiveAfterReap
    <3>5. scopes' = scopes \/ CountedOff(s)
      BY <1>0, <3>4, CountedOffDelta
    <3>6. NextKept
      BY <3>5 DEF NextKept, CountedOff, SameRest
    <3> QED
      BY <1>0, <2>1, <3>1, <3>6, WakeEnded
  <2>4. CASE ~fibers[f].alive
    <3>1. UNCHANGED <<fibers, scopes>>
      BY <1>4, <2>2, <2>4 DEF ReapFiber
    <3>2. NextKept /\ TimersKept
      BY <2>1, <3>1 DEF NextKept, TimersKept
    <3> QED
      BY <1>0, <2>1, <3>1, <3>2, WakeSame
  <2> QED
    BY <2>3, <2>4
<1>5. CASE RunDefers
  <2>1. UNCHANGED <<fibers, nfibers, scopes, ready, timers, current>>
    BY <1>5 DEF RunDefers, tables, queues, Disciplined
  <2>2. NextKept /\ TimersKept
    BY <2>1 DEF NextKept, TimersKept
  <2> QED
    BY <1>0, <2>1, <2>2, WakeSame
<1> QED
  BY <1>1, <1>2, <1>3, <1>4, <1>5, WakeTryFinalize DEF CallStep

\* The loop of run_task.
LEMMA WakeLoop ==
  ASSUME ScopeInv, LoopStep
  PROVE  WakeInv'
<1>0. Typed /\ WakeInv
  BY InvParts
<1>1. CASE DrainPending \/ RootSettled \/ TimersFired \/ Quiesce
  <2>1. UNCHANGED <<fibers, nfibers, scopes, ready, timers, current>>
    BY <1>1 DEF DrainPending, RootSettled, TimersFired, Quiesce, tables, queues
  <2>2. NextKept /\ TimersKept
    BY <2>1 DEF NextKept, TimersKept
  <2> QED
    BY <1>0, <2>1, <2>2, WakeSame
<1>2. CASE RunTimers
  <2>1. UNCHANGED <<fibers, nfibers, scopes, ready, current>>
    BY <1>2 DEF RunTimers, tables
  <2>2. PICK i \in DOMAIN timers :
          timers' = [j \in DOMAIN timers |-> [timers[j] EXCEPT !.at = @ - timers[i].at]]
    BY <1>2 DEF RunTimers
  <2>3. \A j \in DOMAIN timers : timers[j] \in Timer
    BY <1>0, LenProperties, ElementOfSeq DEF Typed, QueuesOK
  <2>5. \A j \in DOMAIN timers : timers'[j].kind = timers[j].kind /\ timers'[j].arg = timers[j].arg
    BY <2>2, <2>3 DEF Timer
  <2>6. DOMAIN timers' = DOMAIN timers
    BY <2>2
  <2>7. NextKept /\ TimersKept
    BY <2>1, <2>5, <2>6 DEF NextKept, TimersKept
  <2> QED
    BY <1>0, <2>1, <2>7, WakeSame
<1> QED
  BY <1>1, <1>2, WakeDequeue, WakeFireTimer, WakeIoWake DEF LoopStep
=============================================================================

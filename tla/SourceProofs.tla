---------------------------- MODULE SourceProofs -----------------------------
(***************************************************************************)
(* No wakeup of the scheduler is lost or doubled. WakeProofs shows that a  *)
(* fiber is named at most once by what may start or resume it; here every  *)
(* live fiber that is not being pumped is shown to be held by something    *)
(* that will: between steps of the loop, by exactly one source. Tables     *)
(* have any size; the program is Careful.                                  *)
(***************************************************************************)
EXTENDS ScopeProofs

\* Besides being Disciplined, the program drains a scope from its body only and does
\* not await the children of a manual scope, whose rows are recycled when they end.
Careful == Disciplined /\ ~AnyDrainer /\ "await-manual" \notin Ops

-----------------------------------------------------------------------------
(* What holds a fiber that is parked or queued. *)

QueuedRef(r) == \E i \in DOMAIN ready : ready[i].fid = r
InReady(f) == QueuedRef(FiberRef(f))

TimerFor(r) == \E i \in DOMAIN timers : timers[i].kind = "wake" /\ timers[i].arg = r
Sleeps(f) == fibers[f].wait_kind = "sleep" /\ TimerFor(FiberRef(f))

\* A live child has the reference r in its waiter list.
ListedBy(r, c, s) ==
  fibers[c].alive /\ IsChild(c, s) /\ \E i \in DOMAIN fibers[c].waiters : fibers[c].waiters[i] = r
\* The fiber waits for a child of a scope whose handle it has; a child that is reaped
\* wakes nobody, but then its scope is ending, and with it every scope inside.
WaitsHandle(f) ==
  /\ fibers[f].wait_kind = "handle"
  /\ \E s \in Sid : /\ ScopeRef(s) \in fibers[f].knows
                    /\ Ending(s) \/ \E c \in Fid : ListedBy(FiberRef(f), c, s)

\* A drained scope has a child left to hand out, or is ending.
Feeds(s) == scopes[s].next_waiters # <<>> /\ (scopes[s].live > 0 \/ Ending(s))
Drains(f) ==
  fibers[f].wait_kind = "next" /\ fibers[f].runs_scope # NO_SCOPE /\ Feeds(fibers[f].runs_scope)

Held(f) ==
  InReady(f) \/ Sleeps(f) \/ WaitsHandle(f) \/ Drains(f) \/ fibers[f].wait_kind \in {"scope", "io"}

\* The invariant. The root scope has no awaiter; a row handed out is that of a live
\* fiber or has an outcome; only its body drains a scope, one s.next at a time.
RootUnawaited == scopes[ROOT_SCOPE].awaiter = None
Outcomes == \A f \in Fid : f < nfibers => fibers[f].alive \/ fibers[f].res_kind # "none"
Drainers ==
  \A s \in Sid : Open(s) =>
    \/ scopes[s].next_waiters = <<>>
    \/ starting # ScopeRef(s) /\ scopes[s].next_waiters = <<FiberRef(scopes[s].body)>>
AllHeld == \A f \in Fid : fibers[f].alive /\ f # current => Held(f)
SourceInv == RootUnawaited /\ Outcomes /\ Drainers /\ AllHeld

-----------------------------------------------------------------------------
(* Steps. *)

\* The scopes that a live fiber knows, and the one it runs.
KnownScopes ==
  \A f \in Fid : fibers[f].alive =>
    /\ \A h \in fibers[f].knows : h.id \in Sid /\ Open(h.id) /\ h = ScopeRef(h.id)
    /\ fibers[f].runs_scope # NO_SCOPE =>
         LET s == fibers[f].runs_scope IN
           s \in Sid /\ Open(s) /\ ScopeRef(s) \in fibers[f].knows /\ scopes[s].body = f

\* They are open.
LEMMA KnownAre == ScopeInv => KnownScopes
<1> SUFFICES ASSUME ScopeInv, NEW f \in Fid, fibers[f].alive
             PROVE  /\ \A h \in fibers[f].knows : h.id \in Sid /\ Open(h.id) /\ h = ScopeRef(h.id)
                    /\ fibers[f].runs_scope # NO_SCOPE =>
                         LET s == fibers[f].runs_scope IN
                         /\ s \in Sid /\ Open(s) /\ ScopeRef(s) \in fibers[f].knows
                         /\ scopes[s].body = f
  BY DEF KnownScopes
<1>1. \A h \in fibers[f].knows : h.id \in Sid /\ Open(h.id) /\ h = ScopeRef(h.id)
  BY KnownOpen
<1>2. ASSUME fibers[f].runs_scope # NO_SCOPE
      PROVE  LET s == fibers[f].runs_scope IN
             s \in Sid /\ Open(s) /\ ScopeRef(s) \in fibers[f].knows /\ scopes[s].body = f
  <2>1. f # Root /\ fibers[f].scope \in Sid
    BY <1>2, InvParts, FiberFields DEF FiberRows
  <2>2. /\ Open(fibers[f].scope) /\ fibers[f].knows = Up(fibers[f].scope)
        /\ fibers[f].runs_scope = fibers[f].scope /\ scopes[fibers[f].scope].body = f
    BY <1>2, <2>1, InvParts DEF FiberRows
  <2> QED
    BY <2>1, <2>2 DEF Up
<1> QED
  BY <1>1, <1>2

\* What a step does to a scope that stays open: an ending stays one, and what hangs
\* on a child, or on the scope's drain, still does, is queued, or the scope is ending.
KidCarried(c, s) ==
  fibers[c].alive /\ IsChild(c, s) =>
    \/ Ending(s)'
    \/ \A r : (\E i \in DOMAIN fibers[c].waiters : fibers[c].waiters[i] = r) =>
         QueuedRef(r)' \/ ListedBy(r, c, s)'
Carried(s) ==
  Open(s) /\ Open(s)' /\ scopes'[s].gen = scopes[s].gen =>
    /\ Ending(s) => Ending(s)'
    /\ \A c \in Fid : KidCarried(c, s)
    /\ Feeds(s) => Feeds(s)' \/ \A r : r = scopes[s].next_waiters[1] => QueuedRef(r)'

\* And to a fiber: it is held by something new, or is left as it was.
Rests(f) ==
  /\ fibers[f].alive /\ f # current /\ SameFiber(f)
  /\ fibers'[f].wait_kind = fibers[f].wait_kind
  /\ InReady(f) => InReady(f)'
  /\ TimerFor(FiberRef(f)) => TimerFor(FiberRef(f))' \/ InReady(f)'
Steady(f) == fibers'[f].alive /\ f # current' => Held(f)' \/ Rests(f)

\* Then every fiber stays held.
LEMMA HeldStep ==
  ASSUME ScopeInv, ScopeInv', Drainers, AllHeld,
         \A s \in Sid : Carried(s), \A f \in Fid : Steady(f)
  PROVE  AllHeld'
<1> SUFFICES ASSUME NEW f \in Fid, fibers'[f].alive, f # current'
             PROVE  Held(f)'
  BY DEF AllHeld
<1> SUFFICES ASSUME Rests(f)
             PROVE  Held(f)'
  BY DEF Steady
<1>0. KnownScopes /\ KnownScopes'
  <2>1. ScopeInv' => KnownScopes'
    BY KnownAre, PTL
  <2> QED
    BY <2>1, KnownAre
<1>1. /\ fibers[f].alive /\ f # current /\ fibers'[f].knows = fibers[f].knows
      /\ fibers'[f].runs_scope = fibers[f].runs_scope /\ fibers'[f].gen = fibers[f].gen
      /\ fibers'[f].wait_kind = fibers[f].wait_kind
  BY DEF Rests, SameFiber
<1>2. FiberRef(f)' = FiberRef(f)
  BY <1>1 DEF FiberRef
<1>3. Held(f)
  BY <1>1 DEF AllHeld
<1>4. CASE InReady(f)
  BY <1>4 DEF Rests, Held
<1>5. CASE Sleeps(f)
  BY <1>1, <1>5 DEF Rests, Held, Sleeps
<1>6. CASE fibers[f].wait_kind \in {"scope", "io"}
  BY <1>1, <1>6 DEF Held
<1>7. CASE WaitsHandle(f)
  <2>1. PICK s \in Sid : /\ ScopeRef(s) \in fibers[f].knows
                         /\ Ending(s) \/ \E c \in Fid : ListedBy(FiberRef(f), c, s)
    BY <1>7 DEF WaitsHandle
  <2>2. ScopeRef(s).id = s
    BY DEF ScopeRef, Ref
  <2>3. Open(s) /\ Open(s)' /\ ScopeRef(s) = ScopeRef(s)'
    BY <1>0, <1>1, <2>1, <2>2 DEF KnownScopes
  <2>4. scopes'[s].gen = scopes[s].gen
    BY <2>3 DEF ScopeRef, Ref
  <2>5. ScopeRef(s)' \in fibers'[f].knows /\ fibers'[f].wait_kind = "handle"
    BY <1>1, <1>7, <2>1, <2>3 DEF WaitsHandle
  <2>6. Carried(s)
    OBVIOUS
  <2>7. CASE Ending(s)
    <3>1. Ending(s)'
      BY <2>3, <2>4, <2>6, <2>7 DEF Carried
    <3> QED
      BY <2>5, <3>1 DEF WaitsHandle, Held
  <2>8. ASSUME NEW c \in Fid, ListedBy(FiberRef(f), c, s)
        PROVE  Held(f)'
    <3>1. PICK r : r = FiberRef(f)
      OBVIOUS
    <3>2. Ending(s)' \/ QueuedRef(r)' \/ ListedBy(r, c, s)'
      BY <2>3, <2>4, <2>6, <2>8, <3>1 DEF Carried, KidCarried, ListedBy
    <3>3. Ending(s)' \/ QueuedRef(FiberRef(f))' \/ ListedBy(FiberRef(f), c, s)'
      BY <1>2, <3>1, <3>2 DEF QueuedRef, ListedBy
    <3> QED
      BY <2>5, <3>3 DEF WaitsHandle, Held, InReady
  <2> QED
    BY <2>1, <2>7, <2>8
<1>8. CASE Drains(f)
  <2>1. PICK s \in Sid : s = fibers[f].runs_scope
    BY <1>0, <1>1, <1>8 DEF Drains, KnownScopes
  <2>2. s # NO_SCOPE /\ Feeds(s) /\ fibers[f].wait_kind = "next"
    BY <1>8, <2>1 DEF Drains
  <2>3. Open(s) /\ Open(s)' /\ ScopeRef(s) \in fibers[f].knows /\ scopes[s].body = f
    BY <1>0, <1>1, <2>1, <2>2 DEF KnownScopes
  <2>4. ScopeRef(s).id = s
    BY DEF ScopeRef, Ref
  <2>5. ScopeRef(s) = ScopeRef(s)'
    BY <1>0, <1>1, <2>3, <2>4 DEF KnownScopes
  <2>6. scopes'[s].gen = scopes[s].gen
    BY <2>5 DEF ScopeRef, Ref
  <2>7. PICK r : r = FiberRef(f)
    OBVIOUS
  <2>8. scopes[s].next_waiters = <<FiberRef(f)>>
    BY <2>2, <2>3 DEF Drainers, Feeds
  <2>9. Feeds(s)' \/ QueuedRef(r)'
    BY <2>2, <2>3, <2>6, <2>7, <2>8 DEF Carried
  <2>10. Feeds(s)' \/ QueuedRef(FiberRef(f))'
    BY <1>2, <2>7, <2>9 DEF QueuedRef
  <2> QED
    BY <1>1, <2>1, <2>2, <2>10 DEF Held, Drains, InReady
<1> QED
  BY <1>3, <1>4, <1>5, <1>6, <1>7, <1>8 DEF Held

\* The queues lose nothing.
ReadyGrows == \A r : QueuedRef(r) => QueuedRef(r)'
TimersGrow == \A r : TimerFor(r) => TimerFor(r)' \/ QueuedRef(r)'

\* A fiber whose row stays rests when the queues lose nothing.
LEMMA RestsWhen ==
  ASSUME NEW f \in Fid, fibers[f].alive, f # current, SameFiber(f),
         fibers'[f].wait_kind = fibers[f].wait_kind, ReadyGrows, TimersGrow
  PROVE  Steady(f)
<1>1. PICK r : r = FiberRef(f)
  OBVIOUS
<1>2. r = FiberRef(f)'
  BY <1>1 DEF SameFiber, FiberRef
<1>3. InReady(f) => InReady(f)'
  BY <1>1, <1>2 DEF ReadyGrows, InReady, QueuedRef
<1>4. TimerFor(FiberRef(f)) => TimerFor(FiberRef(f))' \/ InReady(f)'
  BY <1>1, <1>2 DEF TimersGrow, InReady, TimerFor, QueuedRef
<1> QED
  BY <1>3, <1>4 DEF Steady, Rests

\* A step that ends no fiber and takes nobody off a list.
KidRests(c) ==
  fibers[c].alive =>
    /\ SameFiber(c)
    /\ \A r : (\E i \in DOMAIN fibers[c].waiters : fibers[c].waiters[i] = r) =>
              \E i \in DOMAIN fibers'[c].waiters : fibers'[c].waiters[i] = r
ScopeRests(s) ==
  Open(s) /\ Open(s)' =>
    /\ scopes[s].cancelled => scopes'[s].cancelled
    /\ scopes[s].bd_kind # "none" => scopes'[s].bd_kind # "none"
    /\ scopes[s].next_waiters # <<>> => scopes'[s].next_waiters # <<>>
    /\ scopes[s].live > 0 => scopes'[s].live > 0

\* What hangs on scopes and children then still does.
LEMMA CarriedWhen ==
  ASSUME \A c \in Fid : KidRests(c), NEW s \in Sid, ScopeRests(s)
  PROVE  Carried(s)
<1> SUFFICES ASSUME Open(s), Open(s)'
             PROVE  /\ Ending(s) => Ending(s)'
                    /\ \A c \in Fid : KidCarried(c, s)
                    /\ Feeds(s) => Feeds(s)'
  BY DEF Carried
<1>1. Ending(s) => Ending(s)'
  BY DEF ScopeRests, Ending
<1>2. Feeds(s) => Feeds(s)'
  BY <1>1 DEF ScopeRests, Feeds
<1>3. ASSUME NEW c \in Fid
      PROVE  KidCarried(c, s)
  <2> SUFFICES ASSUME fibers[c].alive, IsChild(c, s),
                      NEW r, \E i \in DOMAIN fibers[c].waiters : fibers[c].waiters[i] = r
               PROVE  ListedBy(r, c, s)'
    BY DEF KidCarried
  <2>1. SameFiber(c) /\ \E i \in DOMAIN fibers'[c].waiters : fibers'[c].waiters[i] = r
    BY DEF KidRests
  <2>2. IsChild(c, s)' /\ fibers'[c].alive
    BY <2>1 DEF SameFiber, IsChild
  <2> QED
    BY <2>1, <2>2 DEF ListedBy
<1> QED
  BY <1>1, <1>2, <1>3

\* The drainer of a scope whose row stays is its body still.
DrainKept(s) ==
  Open(s)' =>
    \/ scopes'[s].next_waiters = <<>>
    \/ /\ Open(s) /\ scopes'[s].gen = scopes[s].gen /\ scopes'[s].body = scopes[s].body
       /\ scopes'[s].next_waiters = scopes[s].next_waiters

\* As long as no row is taken that a scope owns.
LEMMA DrainersStay ==
  ASSUME ScopeInv, Drainers, \A s \in Sid : DrainKept(s),
         \A s \in Sid : Open(s) /\ starting # ScopeRef(s) => starting' # ScopeRef(s),
         \A f \in Fid : fibers'[f].gen = fibers[f].gen \/ \A s, r : ~Owned(f, s, r)
  PROVE  Drainers'
<1> SUFFICES ASSUME NEW s \in Sid, Open(s)', scopes'[s].next_waiters # <<>>
             PROVE  /\ starting' # ScopeRef(s)'
                    /\ scopes'[s].next_waiters = <<FiberRef(scopes[s].body)'>>
  BY DEF Drainers
<1>1. /\ Open(s) /\ scopes'[s].gen = scopes[s].gen /\ scopes'[s].body = scopes[s].body
      /\ scopes'[s].next_waiters = scopes[s].next_waiters
  BY DEF DrainKept
<1>2. starting # ScopeRef(s) /\ scopes[s].next_waiters = <<FiberRef(scopes[s].body)>>
  BY <1>1 DEF Drainers
<1>3. ScopeRef(s)' = ScopeRef(s)
  BY <1>1 DEF ScopeRef
<1>4. Owned(scopes[s].body, s, s)
  BY <1>1, <1>2, InvParts DEF Bodies
<1>5. scopes[s].body \in Fid
  BY InvParts DEF Scope
<1>6. fibers'[scopes[s].body].gen = fibers[scopes[s].body].gen
  BY <1>4, <1>5
<1>7. FiberRef(scopes[s].body)' = FiberRef(scopes[s].body)
  BY <1>1, <1>6 DEF FiberRef
<1> QED
  BY <1>1, <1>2, <1>3, <1>7

\* None is no scope's handle.
LEMMA NoneStarted ==
  ASSUME starting' = starting \/ starting' = None
  PROVE  \A s \in Sid : Open(s) /\ starting # ScopeRef(s) => starting' # ScopeRef(s)
BY SchedulerAssumption DEF ScopeRef, Ref, None, Sid

\* Steps that leave the fibers and what is queued as they were.
LEMMA SourceQuiet ==
  ASSUME ScopeInv, ScopeInv', SourceInv,
         fibers' = fibers, ready' = ready, current' = current, TimersGrow,
         \A s \in Sid : ScopeRests(s) /\ DrainKept(s),
         scopes'[ROOT_SCOPE].awaiter = scopes[ROOT_SCOPE].awaiter,
         \A s \in Sid : Open(s) /\ starting # ScopeRef(s) => starting' # ScopeRef(s)
  PROVE  RootUnawaited' /\ Drainers' /\ AllHeld'
<1>1. RootUnawaited /\ Drainers /\ AllHeld
  BY DEF SourceInv
<1>2. RootUnawaited'
  BY <1>1 DEF RootUnawaited
<1>3. Drainers'
  BY <1>1, DrainersStay
<1>4. \A f \in Fid : KidRests(f) /\ SameFiber(f)
  BY DEF KidRests, SameFiber
<1>5. ReadyGrows
  BY DEF ReadyGrows, QueuedRef
<1>6. \A s \in Sid : Carried(s)
  BY <1>4, CarriedWhen
<1>7. ASSUME NEW f \in Fid
      PROVE  Steady(f)
  <2> SUFFICES ASSUME fibers'[f].alive, f # current'
               PROVE  Steady(f)
    BY DEF Steady
  <2> QED
    BY <1>4, <1>5, RestsWhen
<1>8. AllHeld'
  BY <1>1, <1>6, <1>7, HeldStep
<1> QED
  BY <1>2, <1>3, <1>8

\* Steps that end no fiber, take nobody off a list, and leave every fiber as it was but
\* for those that something holds afterwards.
LEMMA SourceHeld ==
  ASSUME ScopeInv, ScopeInv', SourceInv, ReadyGrows, TimersGrow,
         \A s \in Sid : ScopeRests(s), \A c \in Fid : KidRests(c),
         \A f \in Fid :
           \/ /\ SameFiber(f) /\ fibers'[f].wait_kind = fibers[f].wait_kind
              /\ f # current \/ current' = current
           \/ fibers'[f].alive /\ f # current' => Held(f)'
  PROVE  AllHeld'
<1>1. Drainers /\ AllHeld
  BY DEF SourceInv
<1>2. \A s \in Sid : Carried(s)
  BY CarriedWhen
<1>3. ASSUME NEW f \in Fid
      PROVE  Steady(f)
  <2> SUFFICES ASSUME fibers'[f].alive, f # current', ~Held(f)'
               PROVE  Steady(f)
    BY DEF Steady
  <2>1. /\ SameFiber(f) /\ fibers'[f].wait_kind = fibers[f].wait_kind
        /\ f # current
    OBVIOUS
  <2>2. fibers[f].alive
    BY <2>1 DEF SameFiber
  <2> QED
    BY <2>1, <2>2, RestsWhen
<1> QED
  BY <1>1, <1>2, <1>3, HeldStep

\* The queue after a fiber was put on it.
LEMMA PushGrows ==
  ASSUME Typed, NEW r \in FidRef, NEW focus \in {"start", "resume"}, ready' = Push(r, focus)
  PROVE  ReadyGrows /\ QueuedRef(r)'
<1>1. PICK e \in Entry : e.fid = r /\ ready' = Append(ready, e)
  BY DEF Push, Entry
<1>2. ready \in Seq(Entry)
  BY DEF Typed, QueuesOK
<1>3. /\ DOMAIN ready' = 1..(Len(ready) + 1) /\ ready'[Len(ready) + 1] = e /\ Len(ready) \in Nat
      /\ \A i \in DOMAIN ready : i \in DOMAIN ready' /\ ready'[i] = ready[i]
  BY <1>1, <1>2, Appended
<1>4. Len(ready) + 1 \in DOMAIN ready'
  BY <1>3
<1> QED
  BY <1>1, <1>3, <1>4 DEF ReadyGrows, QueuedRef

\* The timers after one was armed.
LEMMA ArmGrows ==
  ASSUME Typed, NEW e \in Timer, timers' = Append(timers, e)
  PROVE  TimersGrow /\ (e.kind = "wake" => \A r : r = e.arg => TimerFor(r)')
<1>1. timers \in Seq(Timer)
  BY DEF Typed, QueuesOK
<1>2. /\ DOMAIN timers' = 1..(Len(timers) + 1) /\ timers'[Len(timers) + 1] = e /\ Len(timers) \in Nat
      /\ \A i \in DOMAIN timers : i \in DOMAIN timers' /\ timers'[i] = timers[i]
  BY <1>1, Appended
<1>3. Len(timers) + 1 \in DOMAIN timers'
  BY <1>2
<1> QED
  BY <1>2, <1>3 DEF TimersGrow, TimerFor

\* A queue or list of timers that did not change.
LEMMA SameGrows ==
  /\ ready' = ready => ReadyGrows
  /\ timers' = timers => TimersGrow
BY DEF ReadyGrows, QueuedRef, TimersGrow, TimerFor

\* The fiber being pumped parks or yields, the scopes stay as they are.
LEMMA SourceParks ==
  ASSUME ScopeInv, ScopeInv', SourceInv,
         Yield \/ AwaitIo \/ \E d \in Durations : Sleep(d)
  PROVE  RootUnawaited' /\ Drainers' /\ AllHeld'
<1>0. Typed /\ RootUnawaited /\ Drainers
  BY InvParts DEF SourceInv
<1>1. /\ scopes' = scopes /\ starting' = starting /\ current' = NoFiber /\ current # NoFiber
  BY DEF Yield, AwaitIo, Sleep, CanSuspend, Pumping, tables, Park
<1>2. PICK c \in Fid : c = current
  BY <1>1, Pumped
<1>3. FiberRef(c) \in FidRef
  BY <1>1, <1>2, Pumped
<1>4. /\ \A g \in Fid \ {c} : fibers'[g] = fibers[g]
      /\ SameFiber(c) /\ fibers'[c].waiters = fibers[c].waiters
  <2>1. CASE Yield
    BY <2>1 DEF Yield, tables, SameFiber
  <2>2. CASE AwaitIo \/ \E d \in Durations : Sleep(d)
    <3>1. PICK kind : fibers' = Parked(c, kind, None)
      BY <1>2, <2>2 DEF AwaitIo, Sleep, Park, Parked
    <3> QED
      BY <1>0, <3>1, ParkDelta
  <2> QED
    BY <2>1, <2>2
<1>5. \A f \in Fid : KidRests(f) /\ fibers'[f].gen = fibers[f].gen /\ SameFiber(f)
  BY <1>4 DEF KidRests, SameFiber
<1>6. \A s \in Sid : ScopeRests(s) /\ DrainKept(s)
  BY <1>1 DEF ScopeRests, DrainKept, Open
<1>7. RootUnawaited' /\ Drainers'
  BY <1>0, <1>1, <1>5, <1>6, DrainersStay, NoneStarted DEF RootUnawaited
<1>8. PICK r \in FidRef : r = FiberRef(c)
  BY <1>3
<1>9. r = FiberRef(c)'
  BY <1>5, <1>8 DEF FiberRef
<1>10. ReadyGrows /\ TimersGrow /\ Held(c)'
  <2>1. CASE Yield
    <3>1. ready' = Push(r, "resume") /\ timers' = timers
      BY <1>2, <1>8, <2>1 DEF Yield
    <3>2. ReadyGrows /\ QueuedRef(r)' /\ TimersGrow
      BY <1>0, <3>1, PushGrows, SameGrows
    <3> QED
      BY <1>9, <3>2 DEF Held, InReady, QueuedRef
  <2>2. CASE AwaitIo
    <3>1. fibers' = Parked(c, "io", None) /\ ready' = ready /\ timers' = timers
      BY <1>2, <2>2 DEF AwaitIo, Park, Parked, queues
    <3>2. fibers'[c].wait_kind = "io"
      BY <1>0, <3>1, ParkDelta
    <3> QED
      BY <3>1, <3>2, SameGrows DEF Held
  <2>3. ASSUME NEW d \in Durations, Sleep(d)
        PROVE  ReadyGrows /\ TimersGrow /\ Held(c)'
    <3>1. fibers' = Parked(c, "sleep", None) /\ ready' = ready
      BY <1>2, <2>3 DEF Sleep, Park, Parked
    <3>2. PICK e \in Timer : e.kind = "wake" /\ e.arg = r /\ timers' = Append(timers, e)
      <4>1. d \in Nat
        BY SchedulerAssumption
      <4> QED
        BY <1>2, <1>8, <2>3, <4>1 DEF Sleep, Timer
    <3>3. fibers'[c].wait_kind = "sleep"
      BY <1>0, <3>1, ParkDelta
    <3>4. TimersGrow /\ TimerFor(r)'
      BY <1>0, <3>2, ArmGrows
    <3>5. Sleeps(c)'
      BY <1>9, <3>3, <3>4 DEF Sleeps, TimerFor
    <3> QED
      BY <3>1, <3>4, <3>5, SameGrows DEF Held
  <2> QED
    BY <2>1, <2>2, <2>3
<1>11. \A f \in Fid : \/ /\ SameFiber(f) /\ fibers'[f].wait_kind = fibers[f].wait_kind
                         /\ f # current
                      \/ Held(f)'
  BY <1>2, <1>4, <1>5, <1>10
<1> QED
  BY <1>5, <1>6, <1>7, <1>10, <1>11, SourceHeld

\* The body of a manual scope with children left waits for one to end.
LEMMA SourceAwaitNext ==
  ASSUME ScopeInv, ScopeInv', SourceInv, Careful, NEW h, AwaitNext(h)
  PROVE  RootUnawaited' /\ Drainers' /\ AllHeld'
<1>0. /\ Typed /\ WakeInv /\ LiveCount /\ RootUnawaited /\ Drainers
      /\ fibers \in [Fid -> FiberOK] /\ scopes \in [Sid -> Scope]
  BY InvParts DEF SourceInv
<1>1. /\ starting' = starting /\ starting = None /\ current' = NoFiber /\ Pumping /\ h \in Handles
      /\ ready' = ready /\ timers' = timers /\ current # NoFiber
  BY DEF AwaitNext, CanDrain, CanSuspend, Pumping, queues, Park
<1>2. PICK c \in Fid : c = current
  BY <1>1, Pumped
<1>3. fibers[c].alive /\ ~NamesFiber(c) /\ FiberRef(c).id = c
  BY <1>1, <1>2, Pumped
<1>4. PICK x \in Sid : x = h.id
  BY <1>1, HandleOpen
<1>5. Open(x) /\ fibers[c].runs_scope = x /\ scopes[x].live # 0 /\ x # NO_SCOPE
  BY <1>1, <1>2, <1>4, HandleOpen DEF AwaitNext, CanDrain, Careful, Sid, NO_SCOPE
<1>6. scopes[x].body = c
  BY <1>3, <1>5, KnownAre DEF KnownScopes
<1>7. starting # ScopeRef(x)
  BY <1>1, SchedulerAssumption DEF ScopeRef, Ref, None, Sid
<1>8. scopes[x].next_waiters = <<>>
  <2> SUFFICES ASSUME scopes[x].next_waiters = <<FiberRef(c)>>
               PROVE  FALSE
    BY <1>0, <1>5, <1>6 DEF Drainers
  <2>1. 1 \in DOMAIN scopes[x].next_waiters /\ scopes[x].next_waiters[1].id = c
    BY <1>3
  <2> QED
    BY <1>3, <2>1 DEF NamesFiber
<1>9. scopes[x].live > 0
  <2>1. scopes[x].live = Cardinality(Live(x))
    BY <1>0, <1>5 DEF LiveCount, Live, Open
  <2>2. scopes[x].live \in Nat
    BY <2>1, LiveFinite, FS_CardinalityType
  <2> QED
    BY <1>5, <2>2
<1>10. scopes' = [scopes EXCEPT ![x].next_waiters = <<FiberRef(c)>>]
  <2>1. scopes' = [scopes EXCEPT ![x].next_waiters = Append(@, FiberRef(c))]
    BY <1>2, <1>4 DEF AwaitNext
  <2>2. Append(<<>>, FiberRef(c)) = <<FiberRef(c)>>
    OBVIOUS
  <2> QED
    BY <1>0, <1>8, <2>1, <2>2
<1>11. /\ \A s \in Sid \ {x} : scopes'[s] = scopes[s]
       /\ SameScope(x) /\ scopes'[x].live = scopes[x].live
       /\ scopes'[x].next_waiters = <<FiberRef(c)>>
  BY <1>0, <1>10 DEF Scope, SameScope
<1>12. fibers' = Parked(c, "next", h)
  BY <1>2 DEF AwaitNext, Park, Parked
<1>13. /\ \A g \in Fid \ {c} : fibers'[g] = fibers[g]
       /\ SameFiber(c) /\ fibers'[c].waiters = fibers[c].waiters /\ fibers'[c].wait_kind = "next"
  BY <1>0, <1>12, ParkDelta
<1>14. \A f \in Fid : KidRests(f) /\ FiberRef(f)' = FiberRef(f) /\ SameFiber(f)
  BY <1>13 DEF KidRests, SameFiber, FiberRef
<1>15. \A s \in Sid : /\ scopes'[s].gen = scopes[s].gen /\ scopes'[s].body = scopes[s].body
                      /\ scopes'[s].awaiter = scopes[s].awaiter
                      /\ Open(s)' = Open(s) /\ ScopeRef(s)' = ScopeRef(s)
  BY <1>11 DEF SameScope, Open, ScopeRef
<1>16. \A s \in Sid : ScopeRests(s)
  <2>1. <<FiberRef(c)>> # <<>>
    OBVIOUS
  <2> QED
    BY <1>11, <2>1 DEF ScopeRests, SameScope
<1>17. RootUnawaited'
  BY <1>0, <1>15, RootSpared DEF RootUnawaited
<1>18. Drainers'
  <2> SUFFICES ASSUME NEW s \in Sid, Open(s)
               PROVE  \/ scopes'[s].next_waiters = <<>>
                      \/ /\ starting # ScopeRef(s)
                         /\ scopes'[s].next_waiters = <<FiberRef(scopes[s].body)>>
    <3>1. \A s \in Sid : FiberRef(scopes[s].body)' = FiberRef(scopes[s].body)
      <4>1. \A s \in Sid : scopes[s].body \in Fid
        BY <1>0 DEF Scope
      <4> QED
        BY <1>14, <1>15, <4>1 DEF FiberRef, SameFiber
    <3> QED
      BY <1>1, <1>15, <3>1 DEF Drainers
  <2>1. CASE s = x
    BY <1>6, <1>7, <1>11, <2>1
  <2>2. CASE s # x
    BY <1>0, <1>11, <2>2 DEF Drainers
  <2> QED
    BY <2>1, <2>2
<1>19. Held(c)'
  <2>1. Feeds(x)'
    <3>1. <<FiberRef(c)>> # <<>>
      OBVIOUS
    <3> QED
      BY <1>9, <1>11, <3>1 DEF Feeds
  <2>2. fibers'[c].runs_scope = x
    BY <1>5, <1>13 DEF SameFiber
  <2> QED
    BY <1>5, <1>13, <2>1, <2>2 DEF Held, Drains
<1>20. \A f \in Fid : \/ SameFiber(f) /\ fibers'[f].wait_kind = fibers[f].wait_kind /\ f # current
                      \/ Held(f)'
  BY <1>2, <1>13, <1>14, <1>19
<1> QED
  BY <1>1, <1>14, <1>16, <1>17, <1>18, <1>20, SourceHeld, SameGrows

\* A fiber waits for a child that has not settled, and so is alive.
LEMMA SourceAwaitHandle ==
  ASSUME ScopeInv, ScopeInv', SourceInv, Careful,
         NEW h \in AllHandles, NEW k \in Range(scopes[h.id].children), AwaitHandle(h, k)
  PROVE  RootUnawaited' /\ Drainers' /\ AllHeld'
<1>0. /\ Typed /\ Kids /\ RootUnawaited /\ Drainers /\ Outcomes
      /\ fibers \in [Fid -> FiberOK] /\ scopes \in [Sid -> Scope]
  BY InvParts DEF SourceInv
<1>1. /\ starting' = starting /\ starting = None /\ current' = NoFiber /\ Pumping /\ h \in Handles
      /\ ready' = ready /\ timers' = timers /\ current # NoFiber /\ scopes' = scopes
      /\ fibers[k.id].res_kind = "none" /\ ~scopes[h.id].manual
  BY DEF AwaitHandle, CanSuspend, Pumping, queues, Careful
<1>2. PICK c \in Fid : c = current
  BY <1>1, Pumped
<1>3. PICK s \in Sid : s = h.id
  BY <1>1, HandleOpen
<1>4. Open(s) /\ h = ScopeRef(s) /\ h \in fibers[c].knows
  BY <1>1, <1>2, <1>3, HandleOpen DEF Handles
<1>5. PICK i \in DOMAIN scopes[s].children : scopes[s].children[i] = k
  BY <1>3 DEF Range
<1>6. Owned(k.id, s, NO_SCOPE)
  BY <1>0, <1>1, <1>3, <1>4, <1>5 DEF Kids
<1>7. k.id \in Fid
  <2>1. scopes[s].children \in Seq(FidRef)
    BY <1>0 DEF Scope
  <2>2. k \in FidRef
    BY <1>5, <2>1, LenProperties, ElementOfSeq
  <2> QED
    BY <2>2 DEF FidRef
<1>8. fibers[k.id].alive /\ IsChild(k.id, s)
  BY <1>0, <1>1, <1>6, <1>7 DEF Outcomes, Owned, IsChild
<1>9. PICK e : e = FiberRef(c)
  OBVIOUS
<1>10. AwaitDelta(c, k.id, e)
  <2>1. fibers' = Awaiter(c, k, e)
    BY <1>2, <1>9 DEF AwaitHandle, Awaiter
  <2> QED
    BY <1>0, <1>7, <2>1, AwaitHandleDelta
<1>11. \A g \in Fid : /\ SameFiber(g) /\ FiberRef(g)' = FiberRef(g)
                      /\ g # c => fibers'[g].wait_kind = fibers[g].wait_kind
                      /\ g = c => fibers'[g].wait_kind = "handle"
                      /\ g # k.id => fibers'[g].waiters = fibers[g].waiters
                      /\ g = k.id => fibers'[g].waiters = Append(fibers[g].waiters, e)
  BY <1>10 DEF AwaitDelta, SameFiber, FiberRef
<1>12. /\ \A j \in DOMAIN fibers[k.id].waiters :
            /\ j \in DOMAIN fibers'[k.id].waiters
            /\ fibers'[k.id].waiters[j] = fibers[k.id].waiters[j]
       /\ \E j \in DOMAIN fibers'[k.id].waiters : fibers'[k.id].waiters[j] = e
  <2>1. fibers[k.id].waiters \in Seq(FidRef) /\ e \in FidRef
    BY <1>0, <1>1, <1>2, <1>7, <1>9, FiberFields, Pumped
  <2>2. fibers'[k.id].waiters = Append(fibers[k.id].waiters, e)
    BY <1>7, <1>11
  <2>3. PICK w \in Seq(FidRef) : w = fibers[k.id].waiters
    BY <2>1
  <2>4. PICK v : v = fibers'[k.id].waiters
    OBVIOUS
  <2>5. v = Append(w, e)
    BY <2>2, <2>3, <2>4
  <2>6. /\ Len(w) \in Nat /\ DOMAIN v = 1..(Len(w) + 1) /\ v[Len(w) + 1] = e
        /\ \A j \in DOMAIN w : j \in DOMAIN v /\ v[j] = w[j]
    BY <2>1, <2>5, Appended
  <2>7. Len(w) + 1 \in DOMAIN v
    BY <2>6
  <2> QED
    BY <2>3, <2>4, <2>6, <2>7
<1>13. \A f \in Fid : KidRests(f)
  BY <1>11, <1>12 DEF KidRests
<1>14. \A t \in Sid : ScopeRests(t) /\ DrainKept(t)
  BY <1>1 DEF ScopeRests, DrainKept, Open
<1>15. RootUnawaited' /\ Drainers'
  <2>1. \A f \in Fid : fibers'[f].gen = fibers[f].gen
    BY <1>11 DEF SameFiber
  <2> QED
    BY <1>0, <1>1, <1>14, <2>1, DrainersStay, NoneStarted DEF RootUnawaited
<1>16. Held(c)'
  <2>1. ListedBy(e, k.id, s)'
    <3>1. fibers'[k.id].alive /\ IsChild(k.id, s)'
      BY <1>7, <1>8, <1>11 DEF SameFiber, IsChild
    <3> QED
      BY <1>12, <3>1 DEF ListedBy
  <2>2. ListedBy(FiberRef(c), k.id, s)'
    BY <1>9, <1>11, <2>1 DEF ListedBy
  <2>3. ScopeRef(s)' \in fibers'[c].knows
    BY <1>1, <1>4, <1>11 DEF SameFiber, ScopeRef
  <2>4. fibers'[c].wait_kind = "handle"
    BY <1>11
  <2> QED
    BY <1>7, <2>2, <2>3, <2>4 DEF Held, WaitsHandle
<1>17. \A f \in Fid : \/ SameFiber(f) /\ fibers'[f].wait_kind = fibers[f].wait_kind /\ f # current
                      \/ Held(f)'
  BY <1>2, <1>11, <1>16
<1> QED
  BY <1>1, <1>13, <1>14, <1>15, <1>17, SourceHeld, SameGrows

\* A new child is queued.
LEMMA SourceSpawn ==
  ASSUME ScopeInv, ScopeInv', SourceInv, Careful, NEW h, Spawn(h)
  PROVE  RootUnawaited' /\ Drainers' /\ AllHeld'
<1>0. /\ Typed /\ RootUnawaited /\ Drainers /\ Disciplined
      /\ fibers \in [Fid -> FiberOK] /\ scopes \in [Sid -> Scope]
  BY InvParts DEF SourceInv, Careful
<1>1. /\ Pumping /\ h \in Handles /\ SpawnInto(h, Handles)
      /\ UNCHANGED <<timers, starting, current>>
  BY DEF Spawn, control
<1>2. PICK x \in Sid : x = h.id
  BY <1>1, HandleOpen
<1>3. PICK f : f = Slot(free_fibers, nfibers)
  OBVIOUS
<1>4. f \in Fid
  <2>1. FiberSlotLeft(free_fibers, nfibers)
    BY <1>1 DEF SpawnInto
  <2> QED
    BY <1>3, <2>1, SlotFree DEF Careful
<1>5. /\ \A g \in Fid \ {f} : fibers'[g] = fibers[g]
      /\ fibers'[f].gen = fibers[f].gen + 1
      /\ \A s \in Sid \ {x} : scopes'[s] = scopes[s]
      /\ SameScope(x) /\ scopes'[x].next_waiters = scopes[x].next_waiters
      /\ scopes'[x].live = scopes[x].live + 1
  <2>1. Spawned(f, h)
    BY <1>0, <1>1, <1>2, <1>3, <1>4, SpawnDelta DEF Disciplined
  <2> QED
    BY <1>2, <2>1 DEF Spawned
<1>6. Takes(f)
  BY <1>1, <1>3, <1>5 DEF Takes, SpawnInto, SameFiber
<1>7. ~fibers[f].alive /\ \A s, r : ~Owned(f, s, r)
  BY <1>0, <1>6, TakenRow
<1>8. \A g \in Fid : KidRests(g) /\ (g # f => SameFiber(g))
  BY <1>5, <1>7 DEF KidRests, SameFiber
<1>9. \A s \in Sid : SameScope(s) /\ scopes'[s].next_waiters = scopes[s].next_waiters
  BY <1>5 DEF SameScope
<1>10. \A s \in Sid : ScopeRests(s) /\ DrainKept(s)
  <2>1. \A s \in Sid : scopes[s].live > 0 => scopes'[s].live > 0
    <3>1. scopes[x].live \in Int
      BY <1>0 DEF Scope
    <3> QED
      BY <1>5, <3>1
  <2> QED
    BY <1>9, <2>1 DEF ScopeRests, DrainKept, SameScope, Open
<1>11. Drainers' /\ RootUnawaited'
  <2>1. \A g \in Fid : fibers'[g].gen = fibers[g].gen \/ \A s, r : ~Owned(g, s, r)
    BY <1>7, <1>8 DEF SameFiber
  <2> QED
    BY <1>0, <1>1, <1>9, <1>10, <2>1, DrainersStay, NoneStarted, RootSpared
    DEF RootUnawaited, SameScope
<1>12. PICK r \in FidRef : r = FiberRef(f)' /\ ready' = Push(r, "start")
  <2>1. fibers[f].gen \in Nat
    BY <1>0, <1>4, FiberFields
  <2>2. Ref(f, fibers[f].gen + 1) \in FidRef
    BY <1>4, <2>1 DEF Ref, FidRef
  <2>3. ready' = Push(Ref(f, fibers[f].gen + 1), "start")
    BY <1>1, <1>3 DEF SpawnInto
  <2>4. FiberRef(f)' = Ref(f, fibers[f].gen + 1)
    BY <1>5 DEF FiberRef
  <2> QED
    BY <2>2, <2>3, <2>4
<1>13. ReadyGrows /\ TimersGrow /\ QueuedRef(r)'
  BY <1>0, <1>1, <1>12, PushGrows, SameGrows
<1>14. Held(f)'
  BY <1>12, <1>13 DEF Held, InReady, QueuedRef
<1>15. \A g \in Fid : \/ SameFiber(g) /\ fibers'[g].wait_kind = fibers[g].wait_kind
                      \/ Held(g)'
  BY <1>5, <1>8, <1>14
<1> QED
  BY <1>1, <1>8, <1>10, <1>11, <1>13, <1>15, SourceHeld

\* The body of a new scope is queued, and its creator waits for the scope.
LEMMA SourceStartBody ==
  ASSUME ScopeInv, ScopeInv', SourceInv, Careful, StartBody
  PROVE  RootUnawaited' /\ Drainers' /\ AllHeld'
<1>0. /\ Typed /\ RootUnawaited /\ Drainers /\ Disciplined /\ Awaiting
      /\ fibers \in [Fid -> FiberOK] /\ scopes \in [Sid -> Scope]
  BY InvParts DEF SourceInv, Careful
<1>1. /\ current # NoFiber /\ starting # None /\ current' = NoFiber /\ starting' = None
      /\ timers' = timers
  BY DEF StartBody, Pumping
<1>2. PICK c \in Fid : c = current /\ fibers[c].alive
  BY <1>1, Pumped
<1>3. PICK x \in Sid : x = starting.id
  BY <1>0, <1>1 DEF Typed, ControlOK, SidRef
<1>4. Open(x) /\ starting = ScopeRef(x)
  BY <1>0, <1>1, <1>3 DEF Awaiting
<1>5. PICK f : f = Slot(free_fibers, nfibers)
  OBVIOUS
<1>6. f \in Fid /\ f # c
  <2>1. FiberSlotLeft(free_fibers, nfibers)
    BY DEF StartBody
  <2>2. f \in Fid /\ ~fibers[f].alive
    BY <1>5, <2>1, SlotFree DEF Careful
  <2> QED
    BY <1>2, <2>2
<1>7. /\ \A g \in Fid \ {f, c} : fibers'[g] = fibers[g]
      /\ fibers'[f].gen = fibers[f].gen + 1
      /\ SameFiber(c) /\ fibers'[c].waiters = fibers[c].waiters /\ fibers'[c].wait_kind = "scope"
      /\ scopes' = [scopes EXCEPT ![x].body = f]
  <2>1. BodyQueued(f, c)
    BY <1>0, <1>2, <1>5, <1>6, StartBodyDelta
  <2> QED
    BY <1>3, <2>1 DEF BodyQueued
<1>8. Takes(f)
  BY <1>5, <1>7 DEF Takes, StartBody, SameFiber
<1>9. ~fibers[f].alive /\ \A s, r : ~Owned(f, s, r)
  BY <1>0, <1>8, TakenRow
<1>10. \A g \in Fid : KidRests(g) /\ (g # f => SameFiber(g))
  BY <1>7, <1>9 DEF KidRests, SameFiber
<1>11. /\ \A s \in Sid \ {x} : scopes'[s] = scopes[s]
       /\ scopes'[x].finalized = scopes[x].finalized /\ scopes'[x].cancelled = scopes[x].cancelled
       /\ scopes'[x].bd_kind = scopes[x].bd_kind /\ scopes'[x].awaiter = scopes[x].awaiter
       /\ scopes'[x].next_waiters = scopes[x].next_waiters /\ scopes'[x].live = scopes[x].live
  BY <1>0, <1>7 DEF Scope
<1>12. \A s \in Sid : ScopeRests(s)
  BY <1>11 DEF ScopeRests
<1>13. scopes[x].next_waiters = <<>>
  BY <1>0, <1>4 DEF Drainers
<1>14. \A s \in Sid : DrainKept(s)
  BY <1>11, <1>13 DEF DrainKept, Open
<1>15. Drainers' /\ RootUnawaited'
  <2>1. \A g \in Fid : fibers'[g].gen = fibers[g].gen \/ \A s, r : ~Owned(g, s, r)
    BY <1>9, <1>10 DEF SameFiber
  <2>2. RootUnawaited'
    BY <1>0, <1>11, RootSpared DEF RootUnawaited
  <2> QED
    BY <1>0, <1>1, <1>14, <2>1, <2>2, DrainersStay, NoneStarted
<1>16. PICK r \in FidRef : r = FiberRef(f)' /\ ready' = Push(r, "start")
  <2>1. fibers[f].gen \in Nat
    BY <1>0, <1>6, FiberFields
  <2>2. Ref(f, fibers[f].gen + 1) \in FidRef
    BY <1>6, <2>1 DEF Ref, FidRef
  <2>3. ready' = Push(Ref(f, fibers[f].gen + 1), "start")
    BY <1>5 DEF StartBody
  <2>4. FiberRef(f)' = Ref(f, fibers[f].gen + 1)
    BY <1>7 DEF FiberRef
  <2> QED
    BY <2>2, <2>3, <2>4
<1>17. ReadyGrows /\ TimersGrow /\ QueuedRef(r)'
  BY <1>0, <1>1, <1>16, PushGrows, SameGrows
<1>18. Held(f)'
  BY <1>16, <1>17 DEF Held, InReady, QueuedRef
<1>19. Held(c)'
  BY <1>7 DEF Held
<1>20. \A g \in Fid : \/ SameFiber(g) /\ fibers'[g].wait_kind = fibers[g].wait_kind /\ g # current
                      \/ Held(g)'
  BY <1>2, <1>7, <1>10, <1>18, <1>19
<1> QED
  BY <1>10, <1>12, <1>15, <1>17, <1>20, SourceHeld

\* The operations that touch neither fibers nor the ready queue.
LEMMA SourceQueues ==
  ASSUME ScopeInv, ScopeInv', SourceInv,
         \/ \E h \in AllHandles : Cancel(h) \/ TakeSettled(h)
         \/ \E h \in AllHandles, d \in Durations : CancelAfter(h, d)
         \/ \E manual \in BOOLEAN : StartScope(manual)
  PROVE  RootUnawaited' /\ Drainers' /\ AllHeld'
<1>0. Typed /\ FreeRows /\ Awaiting /\ scopes \in [Sid -> Scope]
  BY InvParts
<1>1. ASSUME NEW h \in AllHandles, Cancel(h)
      PROVE  RootUnawaited' /\ Drainers' /\ AllHeld'
  <2>1. UNCHANGED <<fibers, scopes, ready, timers, current, starting>>
    BY <1>1 DEF Cancel, tables, control
  <2>2. \A s \in Sid : ScopeRests(s) /\ DrainKept(s)
    BY <2>1 DEF ScopeRests, DrainKept, Open
  <2> QED
    BY <2>1, <2>2, SourceQuiet, NoneStarted, SameGrows
<1>2. ASSUME NEW h \in AllHandles, TakeSettled(h)
      PROVE  RootUnawaited' /\ Drainers' /\ AllHeld'
  <2>1. UNCHANGED <<fibers, ready, timers, current, starting>>
    BY <1>2 DEF TakeSettled, control, queues
  <2>2. \A s \in Sid : SameScope(s) /\ scopes'[s].next_waiters = scopes[s].next_waiters
                       /\ scopes'[s].live = scopes[s].live
    <3>1. scopes' = [scopes EXCEPT ![h.id].completed = @ - 1]
      BY <1>2 DEF TakeSettled
    <3> QED
      BY <1>0, <3>1 DEF Scope, SameScope
  <2>3. \A s \in Sid : ScopeRests(s) /\ DrainKept(s)
    BY <2>2 DEF ScopeRests, DrainKept, Open, SameScope
  <2>4. scopes'[ROOT_SCOPE].awaiter = scopes[ROOT_SCOPE].awaiter
    BY <2>2, RootSpared DEF SameScope
  <2> QED
    BY <2>1, <2>3, <2>4, SourceQuiet, NoneStarted, SameGrows
<1>3. ASSUME NEW h \in AllHandles, NEW d \in Durations, CancelAfter(h, d)
      PROVE  RootUnawaited' /\ Drainers' /\ AllHeld'
  <2>1. UNCHANGED <<fibers, scopes, ready, current, starting>>
    BY <1>3 DEF CancelAfter, tables, control
  <2>2. PICK e \in Timer : timers' = Append(timers, e)
    <3>1. h \in SidRef /\ d \in Nat
      BY <1>0, <1>3, HandleSid, SchedulerAssumption DEF CancelAfter
    <3> QED
      BY <1>3, <3>1 DEF CancelAfter, Timer
  <2>3. TimersGrow
    BY <1>0, <2>2, ArmGrows
  <2>4. \A s \in Sid : ScopeRests(s) /\ DrainKept(s)
    BY <2>1 DEF ScopeRests, DrainKept, Open
  <2> QED
    BY <2>1, <2>3, <2>4, SourceQuiet, NoneStarted
<1>4. ASSUME NEW manual \in BOOLEAN, StartScope(manual)
      PROVE  RootUnawaited' /\ Drainers' /\ AllHeld'
  <2>1. UNCHANGED <<fibers, ready, timers, current>> /\ ScopeSlotLeft
    BY <1>4 DEF StartScope, queues
  <2>2. PICK x \in Sid : x = Slot(free_scopes, nscopes)
    BY <1>0, <2>1, ScopeSlot
  <2>3. x # ROOT_SCOPE /\ scopes[x].finalized
    BY <1>0, <2>1, <2>2, ScopeSlot
  <2>4. PICK c \in Fid : c = current
    BY <1>4, Pumped DEF StartScope, CanSuspend, Pumping
  <2>5. Started(x, manual, c) /\ starting' = Ref(x, scopes[x].gen + 1)
    BY <1>0, <1>4, <2>2, <2>4, StartScopeDelta
  <2>6. \A s \in Sid : ScopeRests(s) /\ DrainKept(s)
    BY <2>3, <2>5 DEF ScopeRests, DrainKept, Open, Started
  <2>7. \A s \in Sid : Open(s) => starting' # ScopeRef(s)
    BY <2>3, <2>5 DEF Open, ScopeRef, Ref
  <2>8. scopes'[ROOT_SCOPE].awaiter = scopes[ROOT_SCOPE].awaiter
    BY <2>3, <2>5, RootSpared DEF Started
  <2> QED
    BY <2>1, <2>6, <2>7, <2>8, SourceQuiet, SameGrows
<1> QED
  BY <1>1, <1>2, <1>3, <1>4

-----------------------------------------------------------------------------
(* A fiber ends. *)

\* Whoever waited for it is queued, or the scope it belonged to is ending.
LEMMA SourceEnds ==
  ASSUME ScopeInv, ScopeInv', SourceInv, NEW c \in Fid, Ended(c),
         current' = NoFiber, current = c \/ current = NoFiber, starting' = starting,
         ReadyGrows, TimersGrow, scopes'[ROOT_SCOPE].awaiter = scopes[ROOT_SCOPE].awaiter,
         \A s \in Sid : DrainKept(s),
         \A s \in Sid : Open(s) =>
           /\ Ending(s) => Ending(s)'
           /\ IsChild(c, s) => Ending(s)' \/ \A r :
                (\E i \in DOMAIN fibers[c].waiters : fibers[c].waiters[i] = r) => QueuedRef(r)'
           /\ Feeds(s) => Feeds(s)' \/ \A r : r = scopes[s].next_waiters[1] => QueuedRef(r)'
  PROVE  RootUnawaited' /\ Drainers' /\ AllHeld'
<1>0. RootUnawaited /\ Drainers /\ AllHeld
  BY DEF SourceInv
<1>1. \A g \in Fid \ {c} : fibers'[g] = fibers[g] /\ SameFiber(g)
  BY DEF Ended, SameFiber
<1>2. ~fibers'[c].alive /\ \A g \in Fid : fibers'[g].gen = fibers[g].gen
  BY DEF Ended
<1>3. RootUnawaited' /\ Drainers'
  BY <1>0, <1>2, DrainersStay, NoneStarted DEF RootUnawaited
<1>4. ASSUME NEW s \in Sid, Open(s)
      PROVE  \A k \in Fid : KidCarried(k, s)
  <2> SUFFICES ASSUME NEW k \in Fid, fibers[k].alive, IsChild(k, s), ~Ending(s)',
                      NEW r, \E i \in DOMAIN fibers[k].waiters : fibers[k].waiters[i] = r
               PROVE  QueuedRef(r)' \/ ListedBy(r, k, s)'
    BY DEF KidCarried
  <2>1. CASE k = c
    BY <1>4, <2>1
  <2>2. CASE k # c
    <3>1. fibers'[k] = fibers[k]
      BY <1>1, <2>2
    <3> QED
      BY <3>1 DEF ListedBy, IsChild
  <2> QED
    BY <2>1, <2>2
<1>5. \A s \in Sid : Carried(s)
  BY <1>4 DEF Carried
<1>6. ASSUME NEW f \in Fid
      PROVE  Steady(f)
  <2>1. CASE f = c
    BY <1>2, <2>1 DEF Steady
  <2>2. CASE f # c /\ fibers[f].alive
    <3>1. f # current
      BY <2>2 DEF NoFiber, Fid
    <3> QED
      BY <1>1, <2>2, <3>1, RestsWhen
  <2>3. CASE f # c /\ ~fibers[f].alive
    BY <1>1, <2>3 DEF Steady
  <2> QED
    BY <2>1, <2>2, <2>3
<1> QED
  BY <1>0, <1>3, <1>5, <1>6, HeldStep

\* The root ends: nobody waits for it.
LEMMA SourceCompleteRoot ==
  ASSUME ScopeInv, ScopeInv', SourceInv, NEW kind, CompleteRoot(kind)
  PROVE  RootUnawaited' /\ Drainers' /\ AllHeld'
<1>0. Typed
  BY InvParts
<1>1. /\ UNCHANGED <<scopes, ready, timers, starting>> /\ current' = NoFiber /\ current # NoFiber
      /\ current = Root
  BY DEF CompleteRoot, queues, CanComplete, CanSuspend, Pumping
<1>2. PICK c \in Fid : c = current
  BY <1>1, Pumped
<1>3. Ended(c)
  BY <1>0, <1>1, <1>2, SettleDelta DEF CompleteRoot
<1>4. \A s \in Sid : DrainKept(s) /\ ~IsChild(c, s) /\ Ending(s)' = Ending(s) /\ Feeds(s)' = Feeds(s)
  BY <1>1, <1>2 DEF DrainKept, Open, IsChild, Ending, Feeds
<1> QED
  BY <1>1, <1>2, <1>3, <1>4, SourceEnds, SameGrows

\* A body ends: nobody waits for it but the fiber that started its scope.
LEMMA SourceCompleteBody ==
  ASSUME ScopeInv, ScopeInv', SourceInv, NEW kind, kind # "none", CompleteBody(kind)
  PROVE  RootUnawaited' /\ Drainers' /\ AllHeld'
<1>0. Typed /\ fibers \in [Fid -> FiberOK]
  BY InvParts
<1>1. /\ UNCHANGED <<ready, timers, starting>> /\ current' = NoFiber /\ current # NoFiber
  BY DEF CompleteBody, queues, CanComplete, CanSuspend, Pumping
<1>2. PICK c \in Fid : c = current
  BY <1>1, Pumped
<1>3. Ended(c)
  BY <1>0, <1>2, SettleDelta DEF CompleteBody
<1>4. PICK x \in Sid : x = fibers[c].runs_scope
  BY <1>0, <1>2, FiberFields DEF CompleteBody
<1>5. BodyMarked(x, kind)
  BY <1>0, <1>2, <1>4, BodyMarkedDelta DEF CompleteBody
<1>6. fibers[c].runs_scope # NO_SCOPE
  BY <1>2 DEF CompleteBody
<1>7. \A s \in Sid : ~IsChild(c, s)
  BY <1>6 DEF IsChild
<1>8. \A s \in Sid : DrainKept(s)
  BY <1>5 DEF DrainKept, Open, BodyMarked, SameRest
<1>9. \A s \in Sid : Ending(s) => Ending(s)'
  BY <1>5 DEF Ending, BodyMarked
<1>10. \A s \in Sid : Feeds(s) => Feeds(s)'
  BY <1>5, <1>9 DEF Feeds, BodyMarked, SameRest
<1>11. scopes'[ROOT_SCOPE].awaiter = scopes[ROOT_SCOPE].awaiter
  BY <1>5, RootSpared DEF BodyMarked, SameRest
<1> QED
  BY <1>1, <1>2, <1>3, <1>7, <1>8, <1>9, <1>10, <1>11, SourceEnds, SameGrows

\* A fiber is reaped: its waiters are not woken, but its scope is ending.
LEMMA SourceReapFiber ==
  ASSUME ScopeInv, ScopeInv', SourceInv, ReapFiber, fibers[Callee].alive
  PROVE  RootUnawaited' /\ Drainers' /\ AllHeld'
<1>0. Typed /\ fibers \in [Fid -> FiberOK] /\ FiberRows
  BY InvParts
<1>1. /\ UNCHANGED <<ready, timers, current, starting>> /\ Calling("reap_fiber")
  BY DEF ReapFiber, queues
<1>2. PICK c \in Fid : c = Callee
  BY <1>1, TopFiber
<1>3. current = NoFiber /\ work[1] = Do("reap_fiber", c, work[1].of) /\ CallOK(1)
  BY <1>1, <1>2, TopFiber
<1>4. Ended(c)
  BY <1>0, <1>2, SettleDelta DEF ReapFiber
<1>5. PICK x \in Sid : x = fibers[c].scope
  BY <1>0, FiberFields
<1>6. scopes' = scopes \/ CountedOff(x)
  <2>1. scopes' = scopes \/ scopes' = [scopes EXCEPT ![x].live = @ - 1]
    BY <1>2, <1>5 DEF ReapFiber, LiveAfterReap
  <2> QED
    BY <1>0, <2>1, CountedOffDelta
<1>7. c # Root /\ x = work[1].of /\ work[1].fn = "reap_fiber"
  BY <1>2, <1>3, <1>5 DEF CallOK, Do
<1>8. Open(x)
  BY <1>0, <1>2, <1>5, <1>7 DEF FiberRows
<1>9. Ending(x)
  BY <1>3, <1>7, <1>8 DEF CallOK, Ending
<1>10. \A s \in Sid : /\ scopes'[s].gen = scopes[s].gen /\ scopes'[s].body = scopes[s].body
                      /\ scopes'[s].finalized = scopes[s].finalized
                      /\ scopes'[s].next_waiters = scopes[s].next_waiters
                      /\ scopes'[s].cancelled = scopes[s].cancelled
                      /\ scopes'[s].bd_kind = scopes[s].bd_kind
                      /\ scopes'[s].awaiter = scopes[s].awaiter
                      /\ s # x => scopes'[s].live = scopes[s].live
  BY <1>6 DEF CountedOff, SameRest
<1>11. \A s \in Sid : DrainKept(s)
  BY <1>10 DEF DrainKept, Open
<1>12. \A s \in Sid : Ending(s)' = Ending(s) /\ (IsChild(c, s) => s = x)
  BY <1>5, <1>10 DEF Ending, IsChild
<1>13. ASSUME NEW s \in Sid, Feeds(s)
       PROVE  Feeds(s)'
  <2>1. CASE s = x
    BY <1>9, <1>10, <1>12, <1>13, <2>1 DEF Feeds
  <2>2. CASE s # x
    BY <1>10, <1>12, <1>13, <2>2 DEF Feeds
  <2> QED
    BY <2>1, <2>2
<1> QED
  BY <1>1, <1>3, <1>4, <1>9, <1>10, <1>11, <1>12, <1>13, SourceEnds, SameGrows, RootSpared

\* Whom an ending child wakes.
LEMMA WokenQueued ==
  ASSUME Typed, NEW kind, CompleteChild(kind), NEW f \in Fid, f = current,
         NEW s \in Sid, s = fibers[f].scope
  PROVE  /\ ReadyGrows
         /\ \A r : (\E i \in DOMAIN fibers[f].waiters : fibers[f].waiters[i] = r) => QueuedRef(r)'
         /\ scopes[s].next_waiters # <<>> =>
              \A r : r = scopes[s].next_waiters[1] => QueuedRef(r)'
<1>1. /\ ready \in Seq(Entry) /\ fibers[f].waiters \in Seq(FidRef)
      /\ scopes[s].next_waiters \in Seq(FidRef)
  BY FiberFields, ScopeFields DEF Typed, TablesOK, QueuesOK
<1>2. PICK a, b, d, w : /\ a = fibers[f].waiters /\ b = scopes[s].next_waiters
                        /\ d = (IF b # <<>> THEN <<Head(b)>> ELSE <<>>) /\ w = a \o d
  OBVIOUS
<1>3. a \in Seq(FidRef) /\ b \in Seq(FidRef)
  BY <1>1, <1>2
<1>4. d \in Seq(FidRef) /\ (b # <<>> => 1 \in DOMAIN d /\ d[1] = b[1])
  <2>1. CASE b = <<>>
    BY <1>2, <2>1
  <2>2. CASE b # <<>>
    <3>0. Head(b) \in FidRef /\ Head(b) = b[1]
      BY <1>3, <2>2, HeadTailProperties
    <3>1. PICK x \in FidRef : x = Head(b) /\ x = b[1]
      BY <3>0
    <3>2. <<x>> \in Seq(FidRef) /\ DOMAIN <<x>> = {1} /\ <<x>>[1] = x
      OBVIOUS
    <3>3. d = <<x>>
      BY <1>2, <2>2, <3>1
    <3> QED
      BY <3>1, <3>2, <3>3
  <2> QED
    BY <2>1, <2>2
<1>5. /\ w \in Seq(FidRef) /\ Len(a) \in Nat
      /\ \A k \in DOMAIN a : k \in DOMAIN w /\ w[k] = a[k]
      /\ \A k \in DOMAIN d : Len(a) + k \in DOMAIN w /\ w[Len(a) + k] = d[k]
  <2>1. w = a \o d /\ d \in Seq(FidRef)
    BY <1>2, <1>4
  <2> QED
    BY <1>3, <2>1, Joined
<1>6. PICK e : e = [i \in DOMAIN w |-> [fid |-> w[i], focus |-> "resume"]]
  OBVIOUS
<1>7. ready' = ready \o e
  BY <1>2, <1>6 DEF CompleteChild, Woken
<1>8. e \in Seq(Entry) /\ DOMAIN e = DOMAIN w /\ \A k \in DOMAIN w : e[k].fid = w[k]
  <2>1. DOMAIN w = 1..Len(w) /\ Len(w) \in Nat /\ \A k \in DOMAIN w : w[k] \in FidRef
    BY <1>5, LenProperties, ElementOfSeq
  <2>2. \A k \in 1..Len(w) : [fid |-> w[k], focus |-> "resume"] \in Entry
    BY <2>1 DEF Entry
  <2>3. e \in [1..Len(w) -> Entry]
    BY <1>6, <2>1, <2>2
  <2> QED
    BY <1>6, <2>1, <2>3
<1>9. /\ \A i \in DOMAIN ready : i \in DOMAIN ready' /\ ready'[i] = ready[i]
      /\ \A k \in DOMAIN e : Len(ready) + k \in DOMAIN ready' /\ ready'[Len(ready) + k] = e[k]
  BY <1>1, <1>7, <1>8, Joined
<1>10. ReadyGrows
  BY <1>9 DEF ReadyGrows, QueuedRef
<1>11. \A k \in DOMAIN w : \A r : r = w[k] => QueuedRef(r)'
  BY <1>8, <1>9 DEF QueuedRef
<1>12. \A r : (\E i \in DOMAIN a : a[i] = r) => QueuedRef(r)'
  BY <1>5, <1>11
<1>13. b # <<>> => \A r : r = b[1] => QueuedRef(r)'
  BY <1>4, <1>5, <1>11
<1> QED
  BY <1>2, <1>10, <1>12, <1>13

\* A child ends: its waiters and the drainer of its scope are queued.
LEMMA SourceCompleteChild ==
  ASSUME ScopeInv, ScopeInv', SourceInv, NEW kind, CompleteChild(kind)
  PROVE  RootUnawaited' /\ Drainers' /\ AllHeld'
<1>0. Typed /\ fibers \in [Fid -> FiberOK] /\ Drainers /\ FiberRows
  BY InvParts DEF SourceInv
<1>1. /\ UNCHANGED <<timers, starting>> /\ current' = NoFiber /\ current # NoFiber /\ current # Root
  BY DEF CompleteChild, CanComplete, CanSuspend, Pumping
<1>2. PICK c \in Fid : c = current /\ fibers[c].alive
  BY <1>1, Pumped
<1>3. PICK x \in Sid : x = fibers[c].scope
  BY <1>0, FiberFields
<1>4. Open(x)
  BY <1>0, <1>1, <1>2, <1>3 DEF FiberRows
<1>5. /\ Ended(c)
      /\ \A t \in Sid \ {x} : scopes'[t] = scopes[t]
      /\ SameScope(x)
      /\ scopes'[x].next_waiters = IF scopes[x].next_waiters # <<>>
                                   THEN Tail(scopes[x].next_waiters) ELSE scopes[x].next_waiters
  BY <1>0, <1>2, <1>3, ChildDelta
<1>6. scopes'[x].next_waiters = <<>>
  <2>1. CASE scopes[x].next_waiters = <<>>
    BY <1>5, <2>1
  <2>2. CASE scopes[x].next_waiters # <<>>
    <3>1. PICK r : r = FiberRef(scopes[x].body)
      OBVIOUS
    <3>2. scopes[x].next_waiters = <<r>>
      BY <1>0, <1>4, <2>2, <3>1 DEF Drainers
    <3>3. Tail(<<r>>) = <<>>
      OBVIOUS
    <3> QED
      BY <1>5, <3>2, <3>3
  <2> QED
    BY <2>1, <2>2
<1>7. /\ ReadyGrows
      /\ \A r : (\E i \in DOMAIN fibers[c].waiters : fibers[c].waiters[i] = r) => QueuedRef(r)'
      /\ scopes[x].next_waiters # <<>> =>
           \A r : r = scopes[x].next_waiters[1] => QueuedRef(r)'
  BY <1>0, <1>2, <1>3, WokenQueued
<1>8. \A s \in Sid : DrainKept(s)
  BY <1>5, <1>6 DEF DrainKept, Open
<1>9. \A s \in Sid : Ending(s)' = Ending(s)
  BY <1>5 DEF Ending, SameScope
<1>10. \A s \in Sid : Feeds(s) => Feeds(s)' \/ \A r : r = scopes[s].next_waiters[1] => QueuedRef(r)'
  <2> SUFFICES ASSUME NEW s \in Sid, Feeds(s)
               PROVE  Feeds(s)' \/ \A r : r = scopes[s].next_waiters[1] => QueuedRef(r)'
    OBVIOUS
  <2>1. CASE s = x
    BY <1>7, <2>1 DEF Feeds
  <2>2. CASE s # x
    BY <1>5, <2>2 DEF Feeds, Ending
  <2> QED
    BY <2>1, <2>2
<1>11. scopes'[ROOT_SCOPE].awaiter = scopes[ROOT_SCOPE].awaiter
  BY <1>5, RootSpared DEF SameScope
<1> QED
  BY <1>1, <1>2, <1>5, <1>7, <1>8, <1>9, <1>10, <1>11, SourceEnds, SameGrows
-----------------------------------------------------------------------------
(* The calls that cancel, reap and finalize, and the loop. *)

\* Steps that leave the tables as they were, and arm no timer anew.
LEMMA SourceSame ==
  ASSUME ScopeInv, ScopeInv', SourceInv, TimersGrow,
         UNCHANGED <<fibers, scopes, ready, current, starting>>
  PROVE  RootUnawaited' /\ Drainers' /\ AllHeld'
<1>1. \A s \in Sid : ScopeRests(s) /\ DrainKept(s)
  BY DEF ScopeRests, DrainKept, Open
<1> QED
  BY <1>1, SourceQuiet, NoneStarted

\* A scope is marked: those in it are reaped by and by, and it is ending meanwhile.
LEMMA SourceMarks ==
  ASSUME ScopeInv, ScopeInv', SourceInv, CancelScope \/ MarkCancelled
  PROVE  RootUnawaited' /\ Drainers' /\ AllHeld'
<1>0. Typed
  BY InvParts
<1>1. UNCHANGED <<fibers, ready, timers, current, starting>>
  BY DEF CancelScope, MarkCancelled, queues
<1>2. PICK s \in Sid : s = Callee
  BY TopScope DEF CancelScope, MarkCancelled
<1>3. \/ scopes' = scopes \/ Marked(s)
      \/ \E k : k # "none" /\ BodyMarked(s, k)
  <2>1. CASE CancelScope
    <3>1. scopes' = scopes \/ scopes' = [scopes EXCEPT ![s].cancelled = TRUE]
      BY <1>2, <2>1 DEF CancelScope
    <3> QED
      BY <1>0, <3>1, MarkedDelta
  <2>2. CASE MarkCancelled
    <3>1. PICK k : k = EndedBody(scopes[s].bd_kind)
      OBVIOUS
    <3>2. k # "none"
      BY <3>1 DEF EndedBody
    <3>3. scopes' = [scopes EXCEPT ![s].bd_kind = k]
      BY <1>0, <1>2, <2>2, <3>1 DEF MarkCancelled, Typed, TablesOK
    <3>4. BodyMarked(s, k)
      BY <1>0, <3>3, BodyMarkedDelta
    <3> QED
      BY <3>2, <3>4
  <2> QED
    BY <2>1, <2>2
<1>4. CASE scopes' = scopes
  BY <1>1, <1>4, SourceSame, SameGrows
<1>5. CASE Marked(s)
  <2>1. \A t \in Sid : ScopeRests(t) /\ DrainKept(t)
    BY <1>5 DEF Marked, SameRest, ScopeRests, DrainKept, Open
  <2>2. scopes'[ROOT_SCOPE].awaiter = scopes[ROOT_SCOPE].awaiter
    BY <1>5, RootSpared DEF Marked, SameRest
  <2> QED
    BY <1>1, <2>1, <2>2, SourceQuiet, NoneStarted, SameGrows
<1>6. ASSUME NEW k, k # "none", BodyMarked(s, k)
      PROVE  RootUnawaited' /\ Drainers' /\ AllHeld'
  <2>1. \A t \in Sid : ScopeRests(t) /\ DrainKept(t)
    BY <1>6 DEF BodyMarked, SameRest, ScopeRests, DrainKept, Open
  <2>2. scopes'[ROOT_SCOPE].awaiter = scopes[ROOT_SCOPE].awaiter
    BY <1>6, RootSpared DEF BodyMarked, SameRest
  <2> QED
    BY <1>1, <2>1, <2>2, SourceQuiet, NoneStarted, SameGrows
<1> QED
  BY <1>3, <1>4, <1>5, <1>6

\* The last call for a scope: its awaiter is queued.
LEMMA SourceTryFinalize ==
  ASSUME ScopeInv, ScopeInv', SourceInv, TryFinalize
  PROVE  RootUnawaited' /\ Drainers' /\ AllHeld'
<1>0. Typed /\ RootUnawaited /\ Drainers
  BY InvParts DEF SourceInv
<1>1. PICK s \in Sid : s = Callee /\ s # ROOT_SCOPE
  BY TopScope DEF TryFinalize
<1>2. current = NoFiber /\ UNCHANGED <<timers, current, starting>>
  BY TopScope DEF TryFinalize
<1>3. CASE ~CanFinalize(s)
  <2>1. UNCHANGED <<fibers, scopes, ready>>
    BY <1>1, <1>3 DEF TryFinalize
  <2> QED
    BY <1>2, <2>1, SourceSame, SameGrows
<1>4. CASE CanFinalize(s)
  <2>1. PICK a : a = scopes[s].awaiter
    OBVIOUS
  <2>2. Open(s)
    BY <1>1, <1>4 DEF Open, CanFinalize
  <2>3. a \in FidRef /\ a.id \in Fid /\ a # None /\ (fibers[a.id].alive => a = FiberRef(a.id))
    BY <1>2, <2>1, <2>2, AwaiterWaits DEF None, Fid
  <2>4. /\ fibers' = IF fibers[a.id].alive THEN [fibers EXCEPT ![a.id].wait_kind = "none"] ELSE fibers
        /\ ready' = IF fibers[a.id].alive THEN Push(a, "resume") ELSE ready
    BY <1>1, <1>4, <2>1, <2>3 DEF TryFinalize
  <2>5. Finalized(s) /\ scopes'[ROOT_SCOPE] = scopes[ROOT_SCOPE]
    <3>1. ROOT_SCOPE \in Sid \ {s}
      BY <1>1, RootSpared
    <3>2. Finalized(s)
      BY <1>0, <1>1, <1>4, Finalizes
    <3> QED
      BY <3>1, <3>2 DEF Finalized
  <2>6. \A t \in Sid : ScopeRests(t) /\ DrainKept(t)
    BY <2>5 DEF Finalized, ScopeRests, DrainKept, Open
  <2>7. PICK f \in Fid : f = a.id
    BY <2>3
  <2>8. /\ \A g \in Fid \ {f} : fibers'[g] = fibers[g]
        /\ SameFiber(f) /\ fibers'[f].waiters = fibers[f].waiters
    <3>1. CASE fibers[f].alive
      BY <1>0, <2>4, <2>7, <3>1, ResumeDelta
    <3>2. CASE ~fibers[f].alive
      BY <2>4, <2>7, <3>2 DEF SameFiber
    <3> QED
      BY <3>1, <3>2
  <2>9. \A g \in Fid : KidRests(g) /\ SameFiber(g) /\ fibers'[g].gen = fibers[g].gen
    BY <2>8 DEF KidRests, SameFiber
  <2>10. RootUnawaited' /\ Drainers'
    BY <1>0, <1>2, <2>5, <2>6, <2>9, DrainersStay, NoneStarted DEF RootUnawaited
  <2>11. ReadyGrows /\ TimersGrow /\ (fibers'[f].alive => Held(f)')
    <3>1. CASE fibers[f].alive
      <4>1. ReadyGrows /\ QueuedRef(a)'
        BY <1>0, <2>3, <2>4, <2>7, <3>1, PushGrows
      <4>2. a = FiberRef(f)'
        BY <2>3, <2>7, <2>9, <3>1 DEF FiberRef
      <4> QED
        BY <1>2, <4>1, <4>2, SameGrows DEF Held, InReady, QueuedRef
    <3>2. CASE ~fibers[f].alive
      BY <1>2, <2>4, <2>7, <2>9, <3>2, SameGrows DEF SameFiber
    <3> QED
      BY <3>1, <3>2
  <2>12. \A g \in Fid : \/ SameFiber(g) /\ fibers'[g].wait_kind = fibers[g].wait_kind
                        \/ fibers'[g].alive => Held(g)'
    BY <2>8, <2>9, <2>11
  <2> QED
    BY <1>2, <2>6, <2>9, <2>10, <2>11, <2>12, SourceHeld
<1> QED
  BY <1>3, <1>4

\* Every call on the stack.
LEMMA SourceCalls ==
  ASSUME ScopeInv, ScopeInv', SourceInv, Disciplined, CallStep
  PROVE  RootUnawaited' /\ Drainers' /\ AllHeld'
<1>1. CASE ReapChildren \/ ReapChild
  <2>1. UNCHANGED <<fibers, scopes, ready, timers, current, starting>>
    BY <1>1 DEF ReapChildren, ReapChild, queues, tables
  <2> QED
    BY <2>1, SourceSame, SameGrows
<1>2. CASE RunDefers
  <2>1. UNCHANGED <<fibers, scopes, ready, timers, current, starting>>
    BY <1>2 DEF RunDefers, tables, queues, Disciplined
  <2> QED
    BY <2>1, SourceSame, SameGrows
<1>3. CASE ReapFiber /\ ~fibers[Callee].alive
  <2>1. UNCHANGED <<fibers, scopes, ready, timers, current, starting>>
    BY <1>3 DEF ReapFiber, queues
  <2> QED
    BY <2>1, SourceSame, SameGrows
<1> QED
  BY <1>1, <1>2, <1>3, SourceMarks, SourceReapFiber, SourceTryFinalize DEF CallStep
\* A queued fiber is pumped, or was dead and its entry is dropped.
LEMMA SourceDequeue ==
  ASSUME ScopeInv, ScopeInv', SourceInv, Dequeue
  PROVE  RootUnawaited' /\ Drainers' /\ AllHeld'
<1>0. Typed /\ WakeInv /\ RootUnawaited /\ Drainers /\ AllHeld
  BY InvParts DEF SourceInv
<1>1. ready # <<>> /\ ready' = Tail(ready) /\ current = NoFiber /\ UNCHANGED <<scopes, timers, starting>>
  BY DEF Dequeue, Turn, Looping
<1>2. /\ 1 \in DOMAIN ready /\ DOMAIN ready = 1..Len(ready) /\ DOMAIN ready' = 1..(Len(ready) - 1)
      /\ Head(ready) = ready[1] /\ Len(ready) \in Nat
      /\ \A i \in DOMAIN ready' : ready'[i] = ready[i + 1]
  <2>1. ready \in Seq(Entry)
    BY <1>0 DEF Typed, QueuesOK
  <2> QED
    BY <1>1, <2>1, Dropped
<1>3. PICK f \in Fid : f = ready[1].fid.id
  BY <1>0, <1>2, NamesTyped
<1>4. IF fibers[f].alive
      THEN current' = f /\ fibers' = [fibers EXCEPT ![f].wait_kind = "none"]
      ELSE current' = current /\ fibers' = fibers
  BY <1>2, <1>3 DEF Dequeue
<1>5. /\ \A g \in Fid \ {f} : fibers'[g] = fibers[g]
      /\ SameFiber(f) /\ fibers'[f].waiters = fibers[f].waiters
  <2>1. CASE fibers[f].alive
    BY <1>0, <1>4, <2>1, ResumeDelta
  <2>2. CASE ~fibers[f].alive
    BY <1>4, <2>2 DEF SameFiber
  <2> QED
    BY <2>1, <2>2
<1>6. \A g \in Fid : KidRests(g) /\ SameFiber(g) /\ fibers'[g].gen = fibers[g].gen
  BY <1>5 DEF KidRests, SameFiber
<1>7. \A t \in Sid : ScopeRests(t) /\ DrainKept(t)
  BY <1>1 DEF ScopeRests, DrainKept, Open
<1>8. RootUnawaited' /\ Drainers'
  BY <1>0, <1>1, <1>6, <1>7, DrainersStay, NoneStarted DEF RootUnawaited
<1>9. \A r : r.id # f /\ QueuedRef(r) => QueuedRef(r)'
  <2> SUFFICES ASSUME NEW r, r.id # f, NEW i \in DOMAIN ready, ready[i].fid = r
               PROVE  \E j \in DOMAIN ready' : ready'[j].fid = r
    BY DEF QueuedRef
  <2>1. i # 1
    BY <1>3
  <2>2. i - 1 \in DOMAIN ready' /\ (i - 1) + 1 = i
    BY <1>2, <2>1
  <2> QED
    BY <1>2, <2>2
<1>10. ASSUME NEW g \in Fid
       PROVE  Steady(g)
  <2> SUFFICES ASSUME fibers'[g].alive, g # current'
               PROVE  Rests(g)
    BY DEF Steady
  <2>1. g # f /\ fibers'[g] = fibers[g] /\ g # current /\ fibers[g].alive
    <3>1. g # f
      BY <1>4
    <3> QED
      BY <1>1, <1>5, <3>1 DEF NoFiber, Fid
  <2>2. PICK r : r = FiberRef(g)
    OBVIOUS
  <2>3. r = FiberRef(g)' /\ r.id # f
    BY <2>1, <2>2 DEF FiberRef, Ref
  <2>4. InReady(g) => InReady(g)'
    BY <1>9, <2>2, <2>3 DEF InReady, QueuedRef
  <2>5. TimerFor(FiberRef(g)) => TimerFor(FiberRef(g))'
    BY <1>1, <2>2, <2>3 DEF TimerFor
  <2> QED
    BY <1>6, <2>1, <2>4, <2>5 DEF Rests
<1>11. \A s \in Sid : Carried(s)
  BY <1>6, <1>7, CarriedWhen
<1> QED
  BY <1>0, <1>8, <1>10, <1>11, HeldStep

\* The reactor returns a fiber.
LEMMA SourceIoWake ==
  ASSUME ScopeInv, ScopeInv', SourceInv, NEW f \in Fid, IoWake(f)
  PROVE  RootUnawaited' /\ Drainers' /\ AllHeld'
<1>0. Typed /\ RootUnawaited /\ Drainers /\ fibers \in [Fid -> FiberOK]
  BY InvParts DEF SourceInv
<1>1. /\ ready' = Push(FiberRef(f), "resume") /\ UNCHANGED <<scopes, timers, current, starting>>
      /\ current = NoFiber
  BY DEF IoWake, Turn, Looping, control
<1>2. /\ \A g \in Fid \ {f} : fibers'[g] = fibers[g]
      /\ SameFiber(f) /\ fibers'[f].waiters = fibers[f].waiters
  BY <1>0, ResumeDelta DEF IoWake
<1>3. \A g \in Fid : KidRests(g) /\ SameFiber(g) /\ fibers'[g].gen = fibers[g].gen
  BY <1>2 DEF KidRests, SameFiber
<1>4. \A t \in Sid : ScopeRests(t) /\ DrainKept(t)
  BY <1>1 DEF ScopeRests, DrainKept, Open
<1>5. RootUnawaited' /\ Drainers'
  BY <1>0, <1>1, <1>3, <1>4, DrainersStay, NoneStarted DEF RootUnawaited
<1>6. PICK r \in FidRef : r = FiberRef(f) /\ r = FiberRef(f)'
  <2>1. fibers[f].gen \in Nat
    BY <1>0, FiberFields
  <2> QED
    BY <1>3, <2>1 DEF FiberRef, Ref, FidRef
<1>7. ReadyGrows /\ QueuedRef(r)' /\ TimersGrow
  BY <1>0, <1>1, <1>6, PushGrows, SameGrows
<1>8. Held(f)'
  BY <1>6, <1>7 DEF Held, InReady, QueuedRef
<1>9. \A g \in Fid :
           (SameFiber(g) /\ fibers'[g].wait_kind = fibers[g].wait_kind) \/ Held(g)'
  BY <1>2, <1>3, <1>8
<1> QED
  BY <1>1, <1>3, <1>4, <1>5, <1>7, <1>9, SourceHeld

\* The timer of a sleeping fiber that is alive is the one it armed.
LEMMA OwnTimer ==
  ASSUME ScopeInv, SourceInv, NEW i \in DOMAIN timers, Wakes(timers[i]), current = NoFiber
  PROVE  timers[i].arg.id \in Fid /\ timers[i].arg = FiberRef(timers[i].arg.id)
<1>0. Typed /\ WakeInv /\ AllHeld
  BY InvParts DEF SourceInv
<1>1. PICK f \in Fid : f = timers[i].arg.id
  BY <1>0, NamesTyped DEF Wakes
<1>2. fibers[f].alive /\ fibers[f].wait_kind = "sleep"
      /\ \A j \in DOMAIN timers : timers[j].kind = "wake" /\ timers[j].arg.id = f => j = i
  BY <1>0, <1>1 DEF WakeInv, TimerOnce, Wakes
<1>3. ~InReady(f)
  <2> SUFFICES ASSUME NEW k \in DOMAIN ready, ready[k].fid = FiberRef(f)
               PROVE  FALSE
    BY DEF InReady, QueuedRef
  <2>1. ready[k].fid.id = f
    BY DEF FiberRef, Ref
  <2>2. fibers[f].wait_kind \in {"none", "handle", "next"}
    BY <1>0, <1>2, <2>1 DEF WakeInv, ReadyOnce
  <2> QED
    BY <1>2, <2>2
<1>4. f # current
  BY DEF NoFiber, Fid
<1>5. Sleeps(f)
  BY <1>0, <1>2, <1>3, <1>4 DEF AllHeld, Held, WaitsHandle, Drains
<1>6. PICK j \in DOMAIN timers : timers[j].kind = "wake" /\ timers[j].arg = FiberRef(f)
  BY <1>5 DEF Sleeps, TimerFor
<1>7. FiberRef(f).id = f
  BY DEF FiberRef, Ref
<1> QED
  BY <1>1, <1>2, <1>6, <1>7
\* What a list of timers keeps when one is taken off it.
LEMMA KeptTimers ==
  ASSUME NEW S, NEW s \in Seq(S), NEW i \in DOMAIN s, NEW t, t = RemoveAt(s, i)
  PROVE  \A j \in DOMAIN s : j # i => \E k \in DOMAIN t : t[k] = s[j]
<1>1. Len(s) \in Nat /\ i \in 1..Len(s) /\ DOMAIN s = 1..Len(s)
  BY LenProperties
<1>2. PICK p, q : p = SubSeq(s, 1, i - 1) /\ q = SubSeq(s, i + 1, Len(s))
  OBVIOUS
<1>3. \A k \in 1..Len(s) : s[k] \in S
  BY ElementOfSeq
<1>4. /\ p \in Seq(S) /\ Len(p) = i - 1
  <2>1. \A k \in 1..(i - 1) : s[k] \in S
    BY <1>1, <1>3
  <2>2. /\ p \in Seq(S) /\ Len(p) = (IF 1 <= i - 1 THEN i - 1 - 1 + 1 ELSE 0)
    BY <1>1, <1>2, <2>1, SubSeqProperties
  <2> QED
    BY <1>1, <2>2
<1>5. /\ q \in Seq(S) /\ Len(q) = Len(s) - i
  <2>1. \A k \in (i + 1)..Len(s) : s[k] \in S
    BY <1>1, <1>3
  <2>2. /\ q \in Seq(S) /\ Len(q) = (IF i + 1 <= Len(s) THEN Len(s) - (i + 1) + 1 ELSE 0)
    BY <1>1, <1>2, <2>1, SubSeqProperties
  <2> QED
    BY <1>1, <2>2
<1>6. t = p \o q
  BY <1>2 DEF RemoveAt
<1>7. Len(t) = Len(s) - 1 /\ t \in Seq(S)
  <2>1. Len(t) = Len(p) + Len(q) /\ t \in Seq(S)
    BY <1>4, <1>5, <1>6, ConcatProperties
  <2> QED
    BY <1>1, <1>4, <1>5, <2>1
<1>8. DOMAIN t = 1..(Len(s) - 1)
  BY <1>7, LenProperties
<1>9. \A j \in DOMAIN t : /\ j < i => t[j] = s[j]
                          /\ j >= i => t[j] = s[j + 1]
  BY Removed
<1> SUFFICES ASSUME NEW j \in DOMAIN s, j # i
             PROVE  \E k \in DOMAIN t : t[k] = s[j]
  OBVIOUS
<1>10. CASE j < i
  BY <1>1, <1>8, <1>9, <1>10
<1>11. CASE j > i
  <2>1. j - 1 \in DOMAIN t /\ j - 1 >= i /\ (j - 1) + 1 = j
    BY <1>1, <1>8, <1>11
  <2> QED
    BY <1>9, <2>1
<1> QED
  BY <1>1, <1>10, <1>11

\* A timer fires: its sleeper is queued, if it is alive; the others sleep on.
LEMMA SourceFireTimer ==
  ASSUME ScopeInv, ScopeInv', SourceInv, NEW i \in DOMAIN timers, FireTimer(i)
  PROVE  RootUnawaited' /\ Drainers' /\ AllHeld'
<1>0. Typed /\ current = NoFiber /\ RootUnawaited /\ Drainers /\ AllHeld
  BY InvParts DEF SourceInv, FireTimer, Calling, CallsAlone
<1>1. /\ timers' = RemoveAt(timers, i)
      /\ UNCHANGED <<scopes, current, starting>>
      /\ fibers' = IF Wakes(timers[i]) THEN [fibers EXCEPT ![timers[i].arg.id].wait_kind = "none"]
                   ELSE fibers
      /\ ready' = IF Wakes(timers[i]) THEN Push(timers[i].arg, "resume") ELSE ready
  BY DEF FireTimer, control
<1>2. \A t \in Sid : ScopeRests(t) /\ DrainKept(t)
  BY <1>1 DEF ScopeRests, DrainKept, Open
<1>3. \A j \in DOMAIN timers : j # i => \E k \in DOMAIN timers' : timers'[k] = timers[j]
  <2>1. timers \in Seq(Timer)
    BY <1>0 DEF Typed, QueuesOK
  <2> QED
    BY <1>1, <2>1, KeptTimers
<1>4. /\ \A g \in Fid : KidRests(g) /\ SameFiber(g) /\ fibers'[g].gen = fibers[g].gen
      /\ ReadyGrows
      /\ \A g \in Fid : fibers[g].alive /\ timers[i].kind = "wake" /\ timers[i].arg.id = g => Held(g)'
      /\ \A g \in Fid : \/ timers[i].kind = "wake" /\ timers[i].arg.id = g
                        \/ fibers'[g].wait_kind = fibers[g].wait_kind
  <2>1. CASE Wakes(timers[i])
    <3>1. PICK f \in Fid : f = timers[i].arg.id /\ timers[i].arg = FiberRef(f)
      <4>1. timers[i].arg.id \in Fid /\ timers[i].arg = FiberRef(timers[i].arg.id)
        BY <1>0, <2>1, OwnTimer, Zenon
      <4> QED
        BY <4>1
    <3>2. /\ \A g \in Fid \ {f} : fibers'[g] = fibers[g]
          /\ SameFiber(f) /\ fibers'[f].waiters = fibers[f].waiters
      <4>1. fibers' = [fibers EXCEPT ![f].wait_kind = "none"]
        BY <1>1, <2>1, <3>1
      <4> QED
        BY <1>0, <4>1, ResumeDelta
    <3>3. \A g \in Fid : KidRests(g) /\ SameFiber(g) /\ fibers'[g].gen = fibers[g].gen
      BY <3>2 DEF KidRests, SameFiber
    <3>4. PICK r \in FidRef : r = FiberRef(f) /\ r = FiberRef(f)'
      <4>1. fibers[f].gen \in Nat
        BY <1>0, FiberFields DEF Typed, TablesOK
      <4> QED
        BY <3>3, <4>1 DEF FiberRef, Ref, FidRef
    <3>5. ReadyGrows /\ QueuedRef(r)'
      BY <1>0, <1>1, <2>1, <3>1, <3>4, PushGrows
    <3>6. Held(f)'
      BY <3>4, <3>5 DEF Held, InReady, QueuedRef
    <3> QED
      BY <2>1, <3>1, <3>2, <3>3, <3>5, <3>6 DEF Wakes
  <2>2. CASE ~Wakes(timers[i])
    <3>1. fibers' = fibers /\ ready' = ready
      BY <1>1, <2>2
    <3> QED
      BY <2>2, <3>1, SameGrows DEF Wakes, KidRests, SameFiber
  <2> QED
    BY <2>1, <2>2
<1>5. RootUnawaited' /\ Drainers'
  BY <1>0, <1>1, <1>2, <1>4, DrainersStay, NoneStarted DEF RootUnawaited
<1>6. \A s \in Sid : Carried(s)
  BY <1>2, <1>4, CarriedWhen
<1>7. ASSUME NEW g \in Fid
      PROVE  Steady(g)
  <2> SUFFICES ASSUME fibers'[g].alive, ~Held(g)'
               PROVE  Rests(g)
    BY DEF Steady
  <2>1. fibers[g].alive /\ SameFiber(g)
    BY <1>4 DEF SameFiber
  <2>2. ~(timers[i].kind = "wake" /\ timers[i].arg.id = g)
    BY <1>4, <2>1
  <2>3. fibers'[g].wait_kind = fibers[g].wait_kind /\ g # current
    BY <1>0, <1>4, <2>2 DEF NoFiber, Fid
  <2>4. PICK r : r = FiberRef(g)
    OBVIOUS
  <2>5. r = FiberRef(g)' /\ r.id = g
    BY <1>4, <2>4 DEF FiberRef, Ref
  <2>6. InReady(g) => InReady(g)'
    BY <1>4, <2>4, <2>5 DEF ReadyGrows, InReady, QueuedRef
  <2>7. TimerFor(r) => TimerFor(r)'
    <3> SUFFICES ASSUME NEW j \in DOMAIN timers, timers[j].kind = "wake", timers[j].arg = r
                 PROVE  TimerFor(r)'
      BY DEF TimerFor
    <3>1. j # i
      BY <2>2, <2>5
    <3> QED
      BY <1>3, <3>1 DEF TimerFor
  <2>8. TimerFor(FiberRef(g)) => TimerFor(FiberRef(g))'
    BY <2>4, <2>5, <2>7 DEF TimerFor
  <2> QED
    BY <2>1, <2>3, <2>6, <2>8 DEF Rests
<1> QED
  BY <1>0, <1>5, <1>6, <1>7, HeldStep

\* Every step of the loop.
LEMMA SourceLoop ==
  ASSUME ScopeInv, ScopeInv', SourceInv, LoopStep
  PROVE  RootUnawaited' /\ Drainers' /\ AllHeld'
<1>0. Typed
  BY InvParts
<1>1. CASE DrainPending \/ RootSettled \/ TimersFired \/ Quiesce
  <2>1. UNCHANGED <<fibers, scopes, ready, timers, current, starting>>
    BY <1>1 DEF DrainPending, RootSettled, TimersFired, Quiesce, tables, queues
  <2> QED
    BY <2>1, SourceSame, SameGrows
<1>2. CASE RunTimers
  <2>1. UNCHANGED <<fibers, scopes, ready, current, starting>>
    BY <1>2 DEF RunTimers, tables
  <2>2. PICK i \in DOMAIN timers :
          timers' = [j \in DOMAIN timers |-> [timers[j] EXCEPT !.at = @ - timers[i].at]]
    BY <1>2 DEF RunTimers
  <2>3. \A j \in DOMAIN timers : timers[j] \in Timer
    BY <1>0, LenProperties, ElementOfSeq DEF Typed, QueuesOK
  <2>4. \A j \in DOMAIN timers : timers'[j].kind = timers[j].kind /\ timers'[j].arg = timers[j].arg
    BY <2>2, <2>3 DEF Timer
  <2>5. DOMAIN timers' = DOMAIN timers
    BY <2>2
  <2>6. TimersGrow
    BY <2>4, <2>5 DEF TimersGrow, TimerFor
  <2> QED
    BY <2>1, <2>6, SourceSame
<1> QED
  BY <1>1, <1>2, SourceDequeue, SourceFireTimer, SourceIoWake DEF LoopStep
-----------------------------------------------------------------------------
(* The invariant, and the theorem. *)

\* A row that a table reaches is filled.
LEMMA RowsReached ==
  ASSUME ScopeInv, Disciplined, StartBody \/ \E h : Spawn(h)
  PROVE  \A f \in Fid : f < nfibers' => f < nfibers \/ fibers'[f].alive
<1>0. Typed /\ nfibers \in Nat /\ fibers \in [Fid -> FiberOK]
  <2>1. Typed /\ fibers \in [Fid -> FiberOK]
    BY InvParts
  <2>2. nfibers \in 0..MaxFibers
    BY <2>1 DEF Typed, TablesOK
  <2> QED
    BY <2>1, <2>2, SchedulerAssumption
<1>1. FiberSlotLeft(free_fibers, nfibers) /\ nfibers' = LenAfter(free_fibers, nfibers)
  BY DEF StartBody, Spawn, SpawnInto
<1>2. PICK x \in Fid : x = Slot(free_fibers, nfibers) /\ ~fibers[x].alive
  BY <1>1, SlotFree
<1>3. fibers'[x].alive
  <2>1. CASE StartBody
    <3>1. PICK c \in Fid : c = current /\ fibers[c].alive
      BY <2>1, Pumped DEF StartBody, Pumping
    <3>2. BodyQueued(x, c)
      BY <1>0, <1>2, <2>1, <3>1, StartBodyDelta
    <3> QED
      BY <3>2 DEF BodyQueued
  <2>2. ASSUME NEW h, Spawn(h)
        PROVE  fibers'[x].alive
    <3>0. SpawnInto(h, Handles)
      BY <2>2 DEF Spawn
    <3>1. PICK knows : fibers' = [fibers EXCEPT ![x] = NewFiber(h.id, NO_SCOPE, knows, @)]
      BY <1>2, <3>0 DEF SpawnInto
    <3>2. fibers'[x] = NewFiber(h.id, NO_SCOPE, knows, fibers[x])
      BY <1>0, <3>1
    <3> QED
      BY <3>2 DEF NewFiber
  <2> QED
    BY <2>1, <2>2
<1>4. CASE free_fibers = <<>>
  <2>1. x = nfibers /\ nfibers' = nfibers + 1
    BY <1>1, <1>2, <1>4 DEF Slot, LenAfter
  <2> QED
    BY <1>0, <1>3, <2>1 DEF Fid
<1>5. CASE free_fibers # <<>>
  BY <1>1, <1>5 DEF LenAfter
<1> QED
  BY <1>4, <1>5

\* Only these two hand out rows.
LEMMA RowsSame ==
  ASSUME ScopeInv, Disciplined, [Next]_vars, ~StartBody, ~\E h : Spawn(h)
  PROVE  nfibers' = nfibers
<1>1. CASE ProgramStep
  <2>1. ASSUME NEW h, Cancel(h) \/ TakeSettled(h) \/ AwaitNext(h)
        PROVE  nfibers' = nfibers
    <3>1. Cancel(h) => nfibers' = nfibers
      BY DEF Cancel, tables
    <3>2. TakeSettled(h) => nfibers' = nfibers
      BY DEF TakeSettled
    <3>3. AwaitNext(h) => nfibers' = nfibers
      BY DEF AwaitNext
    <3> QED
      BY <2>1, <3>1, <3>2, <3>3
  <2>2. ASSUME NEW h, NEW d, CancelAfter(h, d) \/ AwaitHandle(h, d)
        PROVE  nfibers' = nfibers
    <3>1. CancelAfter(h, d) => nfibers' = nfibers
      BY DEF CancelAfter, tables
    <3>2. AwaitHandle(h, d) => nfibers' = nfibers
      BY ZenonT(30) DEF AwaitHandle
    <3> QED
      BY <2>2, <3>1, <3>2
  <2>3. ASSUME NEW k, \/ Yield \/ AwaitIo \/ Sleep(k) \/ StartScope(k)
                      \/ CompleteRoot(k) \/ CompleteBody(k) \/ CompleteChild(k)
        PROVE  nfibers' = nfibers
    BY <2>3, ZenonT(30)
       DEF Yield, AwaitIo, Sleep, StartScope, CompleteRoot, CompleteBody, CompleteChild, tables
  <2> QED
    BY <1>1, <2>1, <2>2, <2>3 DEF ProgramStep
<1>2. CASE CallStep
  <2>1. CASE RunDefers
    BY <2>1 DEF RunDefers, tables, Disciplined
  <2> QED
    BY <1>2, <2>1 DEF CallStep, CancelScope, MarkCancelled, ReapChildren, ReapChild, ReapFiber,
                      TryFinalize, tables
<1>3. CASE LoopStep
  BY <1>3 DEF LoopStep, DrainPending, RootSettled, Dequeue, RunTimers, TimersFired, Quiesce,
              FireTimer, IoWake, tables
<1>4. CASE UNCHANGED vars
  BY <1>4 DEF vars, tables
<1> QED
  BY <1>1, <1>2, <1>3, <1>4 DEF Next

\* A row that was handed out is that of a live fiber, or has an outcome.
LEMMA OutcomesStep ==
  ASSUME ScopeInv, Disciplined, Outcomes, [Next]_vars
  PROVE  Outcomes'
<1>1. RowsStep
  BY RowsNext DEF ScopeInv
<1>2. \A f \in Fid : f < nfibers' => f < nfibers \/ fibers'[f].alive
  BY RowsReached, RowsSame
<1> SUFFICES ASSUME NEW f \in Fid, f < nfibers', ~fibers'[f].alive
             PROVE  fibers'[f].res_kind # "none"
  BY DEF Outcomes
<1>3. fibers[f].alive \/ fibers[f].res_kind # "none"
  BY <1>2 DEF Outcomes
<1>4. Keeps(f) \/ Ends(f)
  BY <1>1 DEF RowsStep, HandedOut
<1> QED
  BY <1>3, <1>4 DEF Keeps, Ends

\* Every operation of a careful program.
LEMMA SourceProgram ==
  ASSUME ScopeInv, ScopeInv', SourceInv, Careful, ProgramStep
  PROVE  RootUnawaited' /\ Drainers' /\ AllHeld'
<1>1. ASSUME NEW h \in AllHandles, Spawn(h) \/ Cancel(h) \/ TakeSettled(h) \/ AwaitNext(h)
      PROVE  RootUnawaited' /\ Drainers' /\ AllHeld'
  BY <1>1, SourceSpawn, SourceQueues, SourceAwaitNext
<1>2. ASSUME NEW h \in AllHandles, NEW d \in Durations, CancelAfter(h, d)
      PROVE  RootUnawaited' /\ Drainers' /\ AllHeld'
  BY <1>2, SourceQueues
<1>3. ASSUME NEW h \in AllHandles, NEW c \in Range(scopes[h.id].children), AwaitHandle(h, c)
      PROVE  RootUnawaited' /\ Drainers' /\ AllHeld'
  BY <1>3, SourceAwaitHandle
<1>4. ASSUME Yield \/ AwaitIo \/ StartBody \/ \E d \in Durations : Sleep(d)
      PROVE  RootUnawaited' /\ Drainers' /\ AllHeld'
  BY <1>4, SourceParks, SourceStartBody
<1>5. ASSUME NEW manual \in BOOLEAN, StartScope(manual)
      PROVE  RootUnawaited' /\ Drainers' /\ AllHeld'
  BY <1>5, SourceQueues
<1>6. ASSUME NEW kind \in {"ok", "err"},
             CompleteRoot(kind) \/ CompleteBody(kind) \/ CompleteChild(kind)
      PROVE  RootUnawaited' /\ Drainers' /\ AllHeld'
  <2>1. kind # "none"
    OBVIOUS
  <2> QED
    BY <1>6, <2>1, SourceCompleteRoot, SourceCompleteBody, SourceCompleteChild
<1> QED
  BY <1>1, <1>2, <1>3, <1>4, <1>5, <1>6 DEF ProgramStep

\* The invariant is kept by every step of a careful program.
LEMMA SourceStep ==
  ASSUME ScopeInv, SourceInv, Careful, [Next]_vars
  PROVE  ScopeInv' /\ SourceInv'
<1>0. Disciplined
  BY DEF Careful
<1>1. ScopeInv'
  BY <1>0, ScopeStep
<1>2. Outcomes'
  BY <1>0, OutcomesStep DEF SourceInv
<1>3. RootUnawaited' /\ Drainers' /\ AllHeld'
  <2>1. CASE UNCHANGED vars
    <3>1. UNCHANGED <<fibers, scopes, ready, timers, current, starting>>
      BY <2>1 DEF vars, tables, queues, control
    <3> QED
      BY <1>1, <3>1, SourceSame, SameGrows
  <2>2. CASE Next
    BY <1>0, <1>1, <2>2, SourceProgram, SourceCalls, SourceLoop DEF Next
  <2> QED
    BY <2>1, <2>2
<1> QED
  BY <1>1, <1>2, <1>3 DEF SourceInv

\* At first the root is queued.
LEMMA SourceInit == Init => SourceInv
<1> SUFFICES ASSUME Init
             PROVE  SourceInv
  OBVIOUS
<1>0. Root \in Fid /\ ROOT_SCOPE \in Sid
  BY SchedulerAssumption DEF Fid, Sid, Root, ROOT_SCOPE
<1>1. fibers[Root].alive /\ fibers[Root].gen = 1 /\ \A f \in Fid \ {Root} : ~fibers[f].alive
  <2>1. /\ fibers[Root] = NewFiber(ROOT_SCOPE, NO_SCOPE, {}, NoFiberRow)
        /\ \A f \in Fid \ {Root} : fibers[f] = NoFiberRow
    BY <1>0 DEF Init
  <2>2. NoFiberRow.gen = 0 /\ ~NoFiberRow.alive
    BY DEF NoFiberRow, NewFiber
  <2> QED
    BY <2>1, <2>2 DEF NewFiber
<1>2. /\ scopes[ROOT_SCOPE].awaiter = None
      /\ \A s \in Sid \ {ROOT_SCOPE} : scopes[s].finalized
  BY <1>0 DEF Init, NoScopeRow, NewScope
<1>3. RootUnawaited /\ Drainers
  BY <1>2 DEF RootUnawaited, Drainers, Open
<1>4. Outcomes
  <2>1. nfibers = 1
    BY DEF Init
  <2>2. \A f \in Fid : f < nfibers => f = Root
    BY <2>1 DEF Fid, Root
  <2> QED
    BY <1>1, <2>2 DEF Outcomes
<1>5. InReady(Root)
  <2>1. PICK r : r = FiberRef(Root) /\ r = Ref(Root, 1)
    BY <1>1 DEF FiberRef
  <2>2. PICK e : e = [fid |-> r, focus |-> "start"]
    OBVIOUS
  <2>3. ready = <<e>> /\ e.fid = r
    BY <2>1, <2>2 DEF Init
  <2>4. 1 \in DOMAIN ready /\ ready[1].fid = r
    BY <2>3
  <2> QED
    BY <2>1, <2>4 DEF InReady, QueuedRef
<1>6. AllHeld
  BY <1>1, <1>5 DEF AllHeld, Held
<1> QED
  BY <1>3, <1>4, <1>6 DEF SourceInv

\* The invariant holds throughout.
LEMMA SourceAlways ==
  ASSUME Careful
  PROVE  Spec => [](ScopeInv /\ SourceInv)
<1>1. Init => ScopeInv /\ SourceInv
  BY RowsInit, TreeInit, WakeInit, SourceInit DEF ScopeInv
<1>2. ScopeInv /\ SourceInv /\ [Next]_vars => (ScopeInv /\ SourceInv)'
  BY SourceStep
<1> QED
  BY <1>1, <1>2, PTL DEF Spec
-----------------------------------------------------------------------------
(* Between steps: what is counted as a source. *)

Entries(f) == {i \in DOMAIN ready : ready[i].fid = FiberRef(f)}
WakeTimers(f) == {i \in DOMAIN timers : timers[i].kind = "wake" /\ timers[i].arg = FiberRef(f)}
AwaitedKids(f) == {c \in Fid : fibers[c].alive /\ FiberRef(f) \in Range(fibers[c].waiters)}
DrainedScopes(f) ==
  {s \in Sid : scopes[s].live > 0 /\ FiberRef(f) \in Range(scopes[s].next_waiters)}
AwaitedScopes(f) == {s \in Sid : scopes[s].awaiter = FiberRef(f) /\ ~scopes[s].finalized}

\* The sources of a fiber are those five and the reactor.
LEMMA SourcesAre ==
  ASSUME NEW f
  PROVE  WakeSources(f) =
           Cardinality(Entries(f)) + Cardinality(WakeTimers(f)) + Cardinality(AwaitedKids(f))
           + Cardinality(DrainedScopes(f)) + Cardinality(AwaitedScopes(f))
           + (IF fibers[f].wait_kind = "io" THEN 1 ELSE 0)
BY DEF WakeSources, Occurrences, Entries, WakeTimers, AwaitedKids, DrainedScopes, AwaitedScopes

\* What names a fiber names its row.
LEMMA NamedRow ==
  ASSUME NEW f
  PROVE  /\ FiberRef(f).id = f
         /\ \A c : FiberRef(f) \in Range(fibers[c].waiters) =>
              \E i \in DOMAIN fibers[c].waiters : fibers[c].waiters[i].id = f
         /\ \A s : FiberRef(f) \in Range(scopes[s].next_waiters) =>
              \E i \in DOMAIN scopes[s].next_waiters : scopes[s].next_waiters[i].id = f
<1>1. FiberRef(f).id = f
  BY DEF FiberRef, Ref
<1> QED
  BY <1>1 DEF Range

\* A set of sources has at most one element, and the fiber waits for that.
AtMostOne(S, f, kinds) == S = {} \/ (fibers[f].wait_kind \in kinds /\ \E x : S = {x})

\* No source is there twice, and a fiber that is queued is waited for by nothing else.
LEMMA NoSourceTwice ==
  ASSUME ScopeInv, SourceInv, current = NoFiber, NEW f \in Fid, fibers[f].alive
  PROVE  /\ AtMostOne(Entries(f), f, {"none", "handle", "next"})
         /\ AtMostOne(WakeTimers(f), f, {"sleep"})
         /\ AtMostOne(AwaitedKids(f), f, {"handle"})
         /\ AtMostOne(DrainedScopes(f), f, {"next"})
         /\ AtMostOne(AwaitedScopes(f), f, {"scope"})
         /\ Entries(f) # {} => AwaitedKids(f) = {} /\ DrainedScopes(f) = {}
<1>0. ReadyOnce /\ TimerOnce /\ WaiterOnce /\ DrainerOnce /\ Awaited /\ RootUnawaited
  BY InvParts DEF WakeInv, SourceInv
<1>1. ASSUME NEW i \in Entries(f)
      PROVE  /\ fibers[f].wait_kind \in {"none", "handle", "next"} /\ Entries(f) = {i}
             /\ AwaitedKids(f) = {} /\ DrainedScopes(f) = {}
  <2>1. i \in DOMAIN ready /\ \A j \in Entries(f) : j \in DOMAIN ready /\ ready[j].fid.id = f
    BY <1>1, NamedRow DEF Entries
  <2>2. /\ fibers[f].wait_kind \in {"none", "handle", "next"} /\ Unawaited(f)
        /\ \A j \in DOMAIN ready : ready[j].fid.id = f => j = i
    BY <1>0, <1>1, <2>1 DEF ReadyOnce
  <2>3. Entries(f) = {i}
    BY <1>1, <2>1, <2>2
  <2>4. AwaitedKids(f) = {} /\ DrainedScopes(f) = {}
    BY <2>2, NamedRow DEF Unawaited, AwaitedKids, DrainedScopes
  <2> QED
    BY <2>2, <2>3, <2>4
<1>2. ASSUME NEW i \in WakeTimers(f)
      PROVE  fibers[f].wait_kind = "sleep" /\ WakeTimers(f) = {i}
  <2>1. \A j \in WakeTimers(f) :
          j \in DOMAIN timers /\ timers[j].kind = "wake" /\ timers[j].arg.id = f
    BY NamedRow DEF WakeTimers
  <2>2. /\ fibers[f].wait_kind = "sleep"
        /\ \A j \in DOMAIN timers : timers[j].kind = "wake" /\ timers[j].arg.id = f => j = i
    BY <1>0, <1>2, <2>1 DEF TimerOnce
  <2> QED
    BY <1>2, <2>1, <2>2
<1>3. ASSUME NEW c \in AwaitedKids(f)
      PROVE  fibers[f].wait_kind = "handle" /\ AwaitedKids(f) = {c}
  <2>1. \A k \in AwaitedKids(f) : /\ k \in Fid /\ fibers[k].alive
                                  /\ \E i \in DOMAIN fibers[k].waiters : fibers[k].waiters[i].id = f
    BY NamedRow DEF AwaitedKids
  <2>2. \A k \in AwaitedKids(f) : fibers[f].wait_kind = "handle" /\ fibers[f].wait_arg.id = k
    BY <1>0, <2>1 DEF WaiterOnce
  <2> QED
    BY <1>3, <2>2
<1>4. ASSUME NEW s \in DrainedScopes(f)
      PROVE  fibers[f].wait_kind = "next" /\ DrainedScopes(f) = {s}
  <2>1. \A k \in DrainedScopes(f) :
          k \in Sid /\ \E i \in DOMAIN scopes[k].next_waiters : scopes[k].next_waiters[i].id = f
    BY NamedRow DEF DrainedScopes
  <2>2. \A k \in DrainedScopes(f) : fibers[f].wait_kind = "next" /\ fibers[f].wait_arg.id = k
    BY <1>0, <2>1 DEF DrainerOnce
  <2> QED
    BY <1>4, <2>2
<1>5. ASSUME NEW s \in AwaitedScopes(f)
      PROVE  fibers[f].wait_kind = "scope" /\ AwaitedScopes(f) = {s}
  <2>1. ASSUME NEW k \in AwaitedScopes(f)
        PROVE  fibers[f].wait_kind = "scope" /\ fibers[f].wait_arg.id = k
    <3>1. k \in Sid /\ scopes[k].awaiter = FiberRef(f) /\ ~scopes[k].finalized
      BY <2>1 DEF AwaitedScopes
    <3>2. FiberRef(f).id = f /\ FiberRef(f) # None
      BY NamedRow DEF None, Fid
    <3>3. Open(k)
      BY <1>0, <3>1, <3>2 DEF Open, RootUnawaited
    <3>4. /\ fibers[f].wait_kind = "scope" /\ fibers[f].wait_arg = ScopeRef(k)
      BY <3>1, <3>2, <3>3, AwaiterWaits
    <3> QED
      BY <3>4 DEF ScopeRef, Ref
  <2> QED
    BY <1>5, <2>1
<1> QED
  BY <1>1, <1>2, <1>3, <1>4, <1>5 DEF AtMostOne

\* Between steps no scope is ending, and every live fiber has a source.
LEMMA SomeSource ==
  ASSUME ScopeInv, SourceInv, Looping, NEW f \in Fid, fibers[f].alive
  PROVE  \/ Entries(f) # {} \/ WakeTimers(f) # {} \/ AwaitedKids(f) # {}
         \/ DrainedScopes(f) # {} \/ AwaitedScopes(f) # {} \/ fibers[f].wait_kind = "io"
<1>0. Drainers /\ AllHeld /\ KnownScopes /\ current = NoFiber /\ work = <<>>
  BY KnownAre DEF SourceInv, Looping
<1>1. \A s \in Sid : Open(s) => ~Ending(s)
  BY <1>0, IdleTree
<1>2. Held(f)
  <2>1. f # current
    BY <1>0 DEF NoFiber, Fid
  <2> QED
    BY <1>0, <2>1 DEF AllHeld
<1>3. CASE InReady(f)
  BY <1>3 DEF InReady, QueuedRef, Entries
<1>4. CASE Sleeps(f)
  BY <1>4 DEF Sleeps, TimerFor, WakeTimers
<1>5. CASE WaitsHandle(f)
  <2>1. PICK s \in Sid : /\ ScopeRef(s) \in fibers[f].knows
                         /\ Ending(s) \/ \E c \in Fid : ListedBy(FiberRef(f), c, s)
    BY <1>5 DEF WaitsHandle
  <2>2. ScopeRef(s).id = s
    BY DEF ScopeRef, Ref
  <2>3. Open(s)
    BY <1>0, <2>1, <2>2 DEF KnownScopes
  <2>4. PICK c \in Fid : ListedBy(FiberRef(f), c, s)
    BY <1>1, <2>1, <2>3
  <2>5. c \in AwaitedKids(f)
    BY <2>4 DEF AwaitedKids, ListedBy, Range
  <2> QED
    BY <2>5
<1>6. CASE Drains(f)
  <2>1. PICK s \in Sid : s = fibers[f].runs_scope /\ Open(s) /\ scopes[s].body = f
    BY <1>0, <1>6 DEF Drains, KnownScopes
  <2>2. Feeds(s)
    BY <1>6, <2>1 DEF Drains
  <2>3. scopes[s].live > 0 /\ scopes[s].next_waiters # <<>>
    BY <1>1, <2>1, <2>2 DEF Feeds
  <2>4. PICK r : r = FiberRef(f)
    OBVIOUS
  <2>5. scopes[s].next_waiters = <<r>>
    BY <1>0, <2>1, <2>3, <2>4 DEF Drainers
  <2>6. r \in Range(scopes[s].next_waiters)
    BY <2>5 DEF Range
  <2>7. s \in DrainedScopes(f)
    BY <2>3, <2>4, <2>6 DEF DrainedScopes
  <2> QED
    BY <2>7
<1>7. CASE fibers[f].wait_kind = "scope"
  <2>1. PICK s \in Sid : Open(s) /\ scopes[s].awaiter = FiberRef(f)
    BY <1>7, ScopeWait
  <2>2. s \in AwaitedScopes(f)
    BY <2>1 DEF AwaitedScopes, Open
  <2> QED
    BY <2>2
<1> QED
  BY <1>2, <1>3, <1>4, <1>5, <1>6, <1>7 DEF Held

\* How many there are of one kind.
LEMMA CountOne ==
  ASSUME NEW S, NEW f, NEW kinds, AtMostOne(S, f, kinds)
  PROVE  \/ S = {} /\ Cardinality(S) = 0
         \/ S # {} /\ Cardinality(S) = 1 /\ fibers[f].wait_kind \in kinds
BY FS_EmptySet, FS_Singleton DEF AtMostOne

\* No wakeup is lost or doubled: between steps of the loop every live fiber is held by
\* exactly one source that will start or resume it, for tables of any size and every
\* program that is Careful. What Careful excludes can lose a wakeup: a child's row
\* handed out while it is awaited, a drain that another fiber shares.
THEOREM WakeupsExact ==
  ASSUME Careful
  PROVE  Spec => []OneWakeSource
<1>1. ScopeInv /\ SourceInv => OneWakeSource
  <2> SUFFICES ASSUME ScopeInv, SourceInv, Looping, NEW f \in Fid, fibers[f].alive
               PROVE  WakeSources(f) = 1
    BY DEF OneWakeSource
  <2> DEFINE k == fibers[f].wait_kind
             a == Cardinality(Entries(f))
             b == Cardinality(WakeTimers(f))
             c == Cardinality(AwaitedKids(f))
             d == Cardinality(DrainedScopes(f))
             e == Cardinality(AwaitedScopes(f))
  <2>1. current = NoFiber
    BY DEF Looping
  <2>2. /\ \/ Entries(f) = {} /\ a = 0
           \/ Entries(f) # {} /\ a = 1 /\ k \in {"none", "handle", "next"}
        /\ \/ WakeTimers(f) = {} /\ b = 0
           \/ WakeTimers(f) # {} /\ b = 1 /\ k \in {"sleep"}
        /\ \/ AwaitedKids(f) = {} /\ c = 0
           \/ AwaitedKids(f) # {} /\ c = 1 /\ k \in {"handle"}
        /\ \/ DrainedScopes(f) = {} /\ d = 0
           \/ DrainedScopes(f) # {} /\ d = 1 /\ k \in {"next"}
        /\ \/ AwaitedScopes(f) = {} /\ e = 0
           \/ AwaitedScopes(f) # {} /\ e = 1 /\ k \in {"scope"}
    BY <2>1, NoSourceTwice, CountOne
  <2>3. Entries(f) # {} => AwaitedKids(f) = {} /\ DrainedScopes(f) = {}
    BY <2>1, NoSourceTwice
  <2>4. \/ Entries(f) # {} \/ WakeTimers(f) # {} \/ AwaitedKids(f) # {}
        \/ DrainedScopes(f) # {} \/ AwaitedScopes(f) # {} \/ k = "io"
    BY SomeSource
  <2>5. WakeSources(f) = a + b + c + d + e + (IF k = "io" THEN 1 ELSE 0)
    BY SourcesAre
  <2> HIDE DEF k, a, b, c, d, e
  <2> QED
    BY <2>2, <2>3, <2>4, <2>5
<1> QED
  BY <1>1, SourceAlways, PTL
=============================================================================

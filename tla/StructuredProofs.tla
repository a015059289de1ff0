-------------------------- MODULE StructuredProofs ---------------------------
(***************************************************************************)
(* The scheduler implements structured concurrency: seen without its       *)
(* tables, queues and stack of calls, every step of a Disciplined program  *)
(* is a step of Structured, or none. Tables have any size.                 *)
(***************************************************************************)
EXTENDS ScopeProofs

-----------------------------------------------------------------------------
(* The refinement mapping. A live fiber's row is a task, an open scope's row a *)
(* scope; the handles in the row are those of the scopes around it. References *)
(* below a row's generation, and that of a row which has ended, are used up.   *)

TaskOf(f)  == [ref |-> FiberRef(f), within |-> fibers[f].knows]
ScopeOf(s) ==
  [ref |-> ScopeRef(s), within |-> scopes[s].enclosing, opener |-> scopes[s].awaiter]

TasksRunning    == {TaskOf(f) : f \in {g \in Fid : fibers[g].alive}}
TasksEnded      ==
  {r \in FidRef : /\ 0 < r.gen /\ r.gen <= fibers[r.id].gen
                  /\ r.gen = fibers[r.id].gen => ~fibers[r.id].alive}
ScopesOpen      == {ScopeOf(s) : s \in {t \in Sid : Open(t)}}
ScopesClosed    ==
  {r \in SidRef : /\ r.id # ROOT_SCOPE /\ 0 < r.gen /\ r.gen <= scopes[r.id].gen
                  /\ r.gen = scopes[r.id].gen => scopes[r.id].finalized}
ScopesUnwinding == {ScopeRef(s) : s \in {t \in Sid : Open(t) /\ Ending(t)}}

Tree == INSTANCE Structured WITH
          TaskRefs <- FidRef, ScopeRefs <- SidRef, Main <- Ref(Root, 1),
          running <- TasksRunning, ended <- TasksEnded, open <- ScopesOpen,
          closed <- ScopesClosed, unwinding <- ScopesUnwinding

\* Rows in use were handed out: their generation is not the initial one.
Numbered ==
  /\ \A f \in Fid : fibers[f].alive => fibers[f].gen > 0
  /\ \A s \in Sid : Open(s) => scopes[s].gen > 0

-----------------------------------------------------------------------------
(* What happens to the table of fibers. *)

SameTask(f) ==
  /\ fibers'[f].alive = fibers[f].alive /\ fibers'[f].knows = fibers[f].knows
  /\ fibers'[f].gen = fibers[f].gen

TasksStill == \A f \in Fid : SameTask(f)
TaskStarts(f) ==
  /\ ~fibers[f].alive /\ fibers'[f].alive /\ fibers'[f].gen = fibers[f].gen + 1
  /\ \A g \in Fid \ {f} : SameTask(g)

\* Nothing, as Structured sees it.
LEMMA TasksSame ==
  ASSUME TasksStill, Numbered
  PROVE  /\ TasksRunning' = TasksRunning /\ TasksEnded' = TasksEnded
         /\ \A f \in Fid : fibers'[f].alive => fibers'[f].gen > 0
<1>1. \A f \in Fid : TaskOf(f)' = TaskOf(f)
  BY DEF TasksStill, SameTask, TaskOf, FiberRef
<1>2. TasksRunning' = TasksRunning
  BY <1>1 DEF TasksStill, SameTask, TasksRunning
<1>3. \A r \in FidRef : r.id \in Fid
  BY DEF FidRef
<1>4. TasksEnded' = TasksEnded
  BY <1>3 DEF TasksStill, SameTask, TasksEnded
<1> QED
  BY <1>2, <1>4 DEF TasksStill, SameTask, Numbered

\* A reference is that of one row.
LEMMA RefRow ==
  ASSUME NEW f, NEW g, NEW m, NEW n, Ref(f, m) = Ref(g, n)
  PROVE  f = g /\ m = n
BY DEF Ref

\* A row is filled again: a task starts, under a reference not used before.
LEMMA TaskStarted ==
  ASSUME Typed, Numbered, NEW f \in Fid, TaskStarts(f), NEW r, r = Ref(f, fibers[f].gen + 1)
  PROVE  /\ TasksRunning' = TasksRunning \cup {[ref |-> r, within |-> fibers'[f].knows]}
         /\ TasksEnded' = TasksEnded
         /\ r \in FidRef /\ r \notin TasksEnded /\ \A t \in TasksRunning : t.ref # r
         /\ \A g \in Fid : fibers'[g].alive => fibers'[g].gen > 0
<1>1. \A g \in Fid : fibers[g].gen \in Nat
  BY FiberFields DEF Typed, TablesOK
<1>2. r \in FidRef /\ r.id = f /\ r.gen = fibers[f].gen + 1
  BY <1>1 DEF Ref, FidRef
<1>3. \A g \in Fid \ {f} : TaskOf(g)' = TaskOf(g) /\ fibers'[g].alive = fibers[g].alive
  BY DEF TaskStarts, SameTask, TaskOf, FiberRef
<1>4. TaskOf(f)' = [ref |-> r, within |-> fibers'[f].knows]
  BY DEF TaskStarts, TaskOf, FiberRef
<1>5. TasksRunning' = TasksRunning \cup {[ref |-> r, within |-> fibers'[f].knows]}
  BY <1>3, <1>4 DEF TaskStarts, TasksRunning
<1>6. ASSUME NEW q \in FidRef
      PROVE  q \in TasksEnded' <=> q \in TasksEnded
  <2>1. q.id \in Fid /\ q.gen \in Nat
    BY <1>6 DEF FidRef
  <2>2. CASE q.id = f
    BY <1>1, <2>1, <2>2 DEF TaskStarts, TasksEnded
  <2>3. CASE q.id # f
    BY <2>1, <2>3 DEF TaskStarts, SameTask, TasksEnded
  <2> QED
    BY <2>2, <2>3
<1>7. TasksEnded' = TasksEnded
  BY <1>6 DEF TasksEnded
<1>8. r \notin TasksEnded
  BY <1>1, <1>2 DEF TasksEnded
<1>9. ASSUME NEW t \in TasksRunning
      PROVE  t.ref # r
  <2>1. PICK g \in Fid : t.ref = Ref(g, fibers[g].gen)
    BY DEF TasksRunning, TaskOf, FiberRef
  <2> QED
    BY <1>1, <2>1, RefRow
<1>10. \A g \in Fid : fibers'[g].alive => fibers'[g].gen > 0
  BY <1>1 DEF TaskStarts, SameTask, Numbered
<1> QED
  BY <1>2, <1>5, <1>7, <1>8, <1>9, <1>10

\* A live fiber ends.
LEMMA TaskEnded ==
  ASSUME Typed, Numbered, NEW f \in Fid, fibers[f].alive, Ended(f)
  PROVE  /\ TasksRunning' = TasksRunning \ {TaskOf(f)}
         /\ TasksEnded' = TasksEnded \cup {TaskOf(f).ref}
         /\ TaskOf(f) \in TasksRunning
         /\ \A g \in Fid : fibers'[g].alive => fibers'[g].gen > 0
<1>1. \A g \in Fid : fibers[g].gen \in Nat
  BY FiberFields DEF Typed, TablesOK
<1>2. \A g \in Fid \ {f} : fibers'[g] = fibers[g] /\ TaskOf(g)' = TaskOf(g)
  BY DEF Ended, TaskOf, FiberRef
<1>3. /\ TaskOf(f).ref = Ref(f, fibers[f].gen) /\ Ref(f, fibers[f].gen) \in FidRef
      /\ Ref(f, fibers[f].gen).id = f /\ Ref(f, fibers[f].gen).gen = fibers[f].gen
  BY <1>1 DEF TaskOf, FiberRef, Ref, FidRef
<1>4. \A g \in Fid \ {f} : TaskOf(g) # TaskOf(f)
  BY RefRow DEF TaskOf, FiberRef
<1>5. TasksRunning' = TasksRunning \ {TaskOf(f)} /\ TaskOf(f) \in TasksRunning
  BY <1>2, <1>4 DEF Ended, TasksRunning
<1>6. ASSUME NEW q \in FidRef
      PROVE  q \in TasksEnded' <=> q \in TasksEnded \/ q = Ref(f, fibers[f].gen)
  <2>1. q.id \in Fid /\ q.gen \in Nat
    BY <1>6 DEF FidRef
  <2>2. CASE q.id = f
    <3>1. q = Ref(f, fibers[f].gen) <=> q.gen = fibers[f].gen
      BY <2>2 DEF FidRef, Ref
    <3> QED
      BY <1>1, <2>1, <2>2, <3>1 DEF Ended, TasksEnded, Numbered
  <2>3. CASE q.id # f
    BY <1>2, <1>3, <2>1, <2>3 DEF TasksEnded
  <2> QED
    BY <2>2, <2>3
<1>7. TasksEnded' = TasksEnded \cup {TaskOf(f).ref}
  BY <1>3, <1>6 DEF TasksEnded
<1> QED
  BY <1>2, <1>5, <1>7 DEF Ended, Numbered

-----------------------------------------------------------------------------
(* What happens to the table of scopes. *)

SameSpan(s) ==
  /\ scopes'[s].finalized = scopes[s].finalized /\ scopes'[s].gen = scopes[s].gen
  /\ scopes'[s].enclosing = scopes[s].enclosing /\ scopes'[s].awaiter = scopes[s].awaiter
EndsAsBefore(s) == Open(s) => (Ending(s)' <=> Ending(s))

ScopesStill == \A s \in Sid : SameSpan(s) /\ EndsAsBefore(s)
ScopeUnwinds(s) ==
  Ending(s)' /\ (\A t \in Sid : SameSpan(t)) /\ \A t \in Sid \ {s} : EndsAsBefore(t)

\* The open scopes are the same.
LEMMA SpansSame ==
  ASSUME \A s \in Sid : SameSpan(s), Numbered
  PROVE  /\ ScopesOpen' = ScopesOpen /\ ScopesClosed' = ScopesClosed
         /\ \A s \in Sid : Open(s)' = Open(s) /\ ScopeRef(s)' = ScopeRef(s)
         /\ \A s \in Sid : Open(s)' => scopes'[s].gen > 0
<1>1. \A s \in Sid : /\ Open(s)' = Open(s) /\ ScopeRef(s)' = ScopeRef(s)
                     /\ ScopeOf(s)' = ScopeOf(s)
  BY DEF SameSpan, Open, ScopeRef, ScopeOf
<1>2. ScopesOpen' = ScopesOpen
  BY <1>1 DEF ScopesOpen
<1>3. \A r \in SidRef : r.id \in Sid
  BY DEF SidRef
<1>4. ScopesClosed' = ScopesClosed
  BY <1>3 DEF SameSpan, ScopesClosed
<1>5. \A s \in Sid : Open(s)' => scopes'[s].gen > 0
  BY <1>1 DEF SameSpan, Numbered
<1> QED
  BY <1>1, <1>2, <1>4, <1>5

\* Nothing, as Structured sees it.
LEMMA ScopesSame ==
  ASSUME ScopesStill, Numbered
  PROVE  /\ ScopesOpen' = ScopesOpen /\ ScopesClosed' = ScopesClosed
         /\ ScopesUnwinding' = ScopesUnwinding
         /\ \A s \in Sid : Open(s)' => scopes'[s].gen > 0
<1>1. /\ ScopesOpen' = ScopesOpen /\ ScopesClosed' = ScopesClosed
      /\ \A s \in Sid : Open(s)' = Open(s) /\ ScopeRef(s)' = ScopeRef(s)
      /\ \A s \in Sid : Open(s)' => scopes'[s].gen > 0
  BY SpansSame DEF ScopesStill
<1>2. ScopesUnwinding' = ScopesUnwinding
  BY <1>1 DEF ScopesStill, EndsAsBefore, ScopesUnwinding
<1> QED
  BY <1>1, <1>2

\* An open scope starts to end, or goes on doing so.
LEMMA ScopeUnwound ==
  ASSUME Numbered, NEW s \in Sid, Open(s), ScopeUnwinds(s)
  PROVE  /\ ScopesOpen' = ScopesOpen /\ ScopesClosed' = ScopesClosed
         /\ ScopesUnwinding' = ScopesUnwinding \cup {ScopeRef(s)}
         /\ ScopeOf(s) \in ScopesOpen
         /\ \A t \in Sid : Open(t)' => scopes'[t].gen > 0
<1>1. /\ ScopesOpen' = ScopesOpen /\ ScopesClosed' = ScopesClosed
      /\ \A t \in Sid : Open(t)' = Open(t) /\ ScopeRef(t)' = ScopeRef(t)
      /\ \A t \in Sid : Open(t)' => scopes'[t].gen > 0
  BY SpansSame DEF ScopeUnwinds
<1>2. \A t \in Sid : Open(t) => (Ending(t)' <=> Ending(t) \/ t = s)
  BY DEF ScopeUnwinds, EndsAsBefore
<1>3. ScopesUnwinding' = ScopesUnwinding \cup {ScopeRef(s)}
  BY <1>1, <1>2 DEF ScopesUnwinding
<1> QED
  BY <1>1, <1>3 DEF ScopesOpen

\* A row is filled again: a scope opens, under a reference not used before.
LEMMA ScopeOpened ==
  ASSUME Typed, Numbered, NEW s \in Sid, s # ROOT_SCOPE, scopes[s].finalized,
         NEW m, NEW c, Started(s, m, c), NEW r, r = Ref(s, scopes[s].gen + 1)
  PROVE  /\ ScopesOpen' = ScopesOpen
              \cup {[ref |-> r, within |-> fibers[c].knows, opener |-> FiberRef(c)]}
         /\ ScopesClosed' = ScopesClosed /\ ScopesUnwinding' = ScopesUnwinding
         /\ r \in SidRef /\ r \notin ScopesClosed /\ \A t \in ScopesOpen : t.ref # r
         /\ \A t \in Sid : Open(t)' => scopes'[t].gen > 0
<1>1. \A t \in Sid : scopes[t].gen \in Nat
  BY ScopeFields DEF Typed, TablesOK
<1>2. r \in SidRef /\ r.id = s /\ r.gen = scopes[s].gen + 1
  BY <1>1 DEF Ref, SidRef
<1>3. \A t \in Sid \ {s} : /\ scopes'[t] = scopes[t] /\ ScopeOf(t)' = ScopeOf(t)
                           /\ Open(t)' = Open(t) /\ Ending(t)' = Ending(t)
                           /\ ScopeRef(t)' = ScopeRef(t)
  BY DEF Started, ScopeOf, ScopeRef, Open, Ending
<1>4. ScopeOf(s)' = [ref |-> r, within |-> fibers[c].knows, opener |-> FiberRef(c)]
  BY DEF Started, ScopeOf, ScopeRef
<1>5. ~Open(s) /\ Open(s)' /\ ~Ending(s)'
  BY DEF Open, Ending, Started
<1>6. ScopesOpen' = ScopesOpen \cup {[ref |-> r, within |-> fibers[c].knows, opener |-> FiberRef(c)]}
  BY <1>3, <1>4, <1>5 DEF ScopesOpen
<1>7. ScopesUnwinding' = ScopesUnwinding
  BY <1>3, <1>5 DEF ScopesUnwinding
<1>8. ASSUME NEW q \in SidRef
      PROVE  q \in ScopesClosed' <=> q \in ScopesClosed
  <2>1. q.id \in Sid /\ q.gen \in Nat
    BY <1>8 DEF SidRef
  <2>2. CASE q.id = s
    BY <1>1, <2>1, <2>2 DEF Started, ScopesClosed
  <2>3. CASE q.id # s
    BY <1>3, <2>1, <2>3 DEF ScopesClosed
  <2> QED
    BY <2>2, <2>3
<1>9. ScopesClosed' = ScopesClosed
  BY <1>8 DEF ScopesClosed
<1>10. r \notin ScopesClosed
  BY <1>1, <1>2 DEF ScopesClosed
<1>11. ASSUME NEW t \in ScopesOpen
       PROVE  t.ref # r
  <2>1. PICK k \in Sid : t.ref = Ref(k, scopes[k].gen)
    BY DEF ScopesOpen, ScopeOf, ScopeRef
  <2> QED
    BY <1>1, <2>1, RefRow
<1>12. \A t \in Sid : Open(t)' => scopes'[t].gen > 0
  BY <1>1, <1>3 DEF Started, Numbered
<1> QED
  BY <1>2, <1>6, <1>7, <1>9, <1>10, <1>11, <1>12

\* An open scope is finalized.
LEMMA ScopeClosed ==
  ASSUME Typed, Numbered, NEW s \in Sid, Open(s), Finalized(s)
  PROVE  /\ ScopesOpen' = ScopesOpen \ {ScopeOf(s)}
         /\ ScopesClosed' = ScopesClosed \cup {ScopeRef(s)}
         /\ ScopesUnwinding' = ScopesUnwinding \ {ScopeRef(s)}
         /\ ScopeOf(s) \in ScopesOpen
         /\ \A t \in Sid : Open(t)' => scopes'[t].gen > 0
<1>1. \A t \in Sid : scopes[t].gen \in Nat
  BY ScopeFields DEF Typed, TablesOK
<1>2. \A t \in Sid \ {s} : /\ scopes'[t] = scopes[t] /\ ScopeOf(t)' = ScopeOf(t)
                           /\ Open(t)' = Open(t) /\ Ending(t)' = Ending(t)
                           /\ ScopeRef(t)' = ScopeRef(t)
  BY DEF Finalized, ScopeOf, ScopeRef, Open, Ending
<1>3. /\ ScopeRef(s) = Ref(s, scopes[s].gen) /\ Ref(s, scopes[s].gen) \in SidRef
      /\ Ref(s, scopes[s].gen).id = s /\ Ref(s, scopes[s].gen).gen = scopes[s].gen
  BY <1>1 DEF ScopeRef, Ref, SidRef
<1>4. \A t \in Sid \ {s} : ScopeOf(t) # ScopeOf(s) /\ ScopeRef(t) # ScopeRef(s)
  BY RefRow DEF ScopeOf, ScopeRef
<1>5. ~Open(s)'
  BY DEF Finalized, Open
<1>6. ScopesOpen' = ScopesOpen \ {ScopeOf(s)} /\ ScopeOf(s) \in ScopesOpen
  BY <1>2, <1>4, <1>5 DEF ScopesOpen
<1>7. ScopesUnwinding' = ScopesUnwinding \ {ScopeRef(s)}
  BY <1>2, <1>4, <1>5 DEF ScopesUnwinding
<1>8. ASSUME NEW q \in SidRef
      PROVE  q \in ScopesClosed' <=> q \in ScopesClosed \/ q = Ref(s, scopes[s].gen)
  <2>1. q.id \in Sid /\ q.gen \in Nat
    BY <1>8 DEF SidRef
  <2>2. CASE q.id = s
    <3>1. q = Ref(s, scopes[s].gen) <=> q.gen = scopes[s].gen
      BY <2>2 DEF SidRef, Ref
    <3> QED
      BY <1>1, <2>1, <2>2, <3>1 DEF Finalized, Open, ScopesClosed, Numbered
  <2>3. CASE q.id # s
    BY <1>2, <1>3, <2>1, <2>3 DEF ScopesClosed
  <2> QED
    BY <2>2, <2>3
<1>9. ScopesClosed' = ScopesClosed \cup {ScopeRef(s)}
  BY <1>3, <1>8 DEF ScopesClosed
<1>10. \A t \in Sid : Open(t)' => scopes'[t].gen > 0
  BY <1>2, <1>5 DEF Numbered
<1> QED
  BY <1>6, <1>7, <1>9, <1>10

-----------------------------------------------------------------------------
(* Steps of the scheduler. *)

Refines == (Tree!Next \/ UNCHANGED Tree!structuredVars) /\ Numbered'

\* Most steps change neither tasks nor scopes.
LEMMA Unseen ==
  ASSUME Numbered, TasksStill, ScopesStill
  PROVE  Refines
<1>1. Numbered'
  BY TasksSame, ScopesSame DEF Numbered
<1>2. UNCHANGED <<TasksRunning, TasksEnded, ScopesOpen, ScopesClosed, ScopesUnwinding>>
  BY TasksSame, ScopesSame
<1> QED
  BY <1>1, <1>2 DEF Refines, Tree!structuredVars

\* What Structured does not see of a fiber's row and of a scope's.
LEMMA RowsStill ==
  /\ (\A f \in Fid : SameFiber(f)) => TasksStill
  /\ (\A s \in Sid : SameScope(s)) => ScopesStill
  /\ fibers' = fibers => TasksStill
  /\ scopes' = scopes => ScopesStill
<1>1. (\A f \in Fid : SameFiber(f)) => TasksStill
  BY DEF SameFiber, TasksStill, SameTask
<1>2. (\A s \in Sid : SameScope(s)) => ScopesStill
  BY DEF SameScope, ScopesStill, SameSpan, EndsAsBefore, Ending
<1>3. fibers' = fibers => TasksStill
  BY DEF TasksStill, SameTask
<1>4. scopes' = scopes => ScopesStill
  BY DEF ScopesStill, SameSpan, EndsAsBefore, Ending
<1> QED
  BY <1>1, <1>2, <1>3, <1>4

\* A scope's counters and its list of drainers are not seen.
LEMMA CountersStill ==
  ASSUME Typed, NEW s \in Sid, NEW w,
         \/ scopes' = [scopes EXCEPT ![s].completed = w]
         \/ scopes' = [scopes EXCEPT ![s].next_waiters = w]
         \/ scopes' = [scopes EXCEPT ![s].live = w]
  PROVE  ScopesStill
<1>0. scopes \in [Sid -> Scope]
  BY DEF Typed, TablesOK
<1>1. \A t \in Sid \ {s} : scopes'[t] = scopes[t]
  BY <1>0
<1>2. SameScope(s)
  <2>1. \/ scopes'[s] = [scopes[s] EXCEPT !.completed = w]
        \/ scopes'[s] = [scopes[s] EXCEPT !.next_waiters = w]
        \/ scopes'[s] = [scopes[s] EXCEPT !.live = w]
    BY <1>0
  <2>2. scopes[s] \in Scope
    BY <1>0
  <2> QED
    BY <2>1, <2>2 DEF SameScope, Scope
<1> QED
  BY <1>1, <1>2, RowsStill DEF SameScope

\* Operations that queue something, or look at an outcome.
LEMMA QueuesUnseen ==
  ASSUME ScopeInv, Numbered,
         \/ Yield
         \/ \E h \in AllHandles : Cancel(h) \/ TakeSettled(h)
         \/ \E h \in AllHandles, d \in Durations : CancelAfter(h, d)
  PROVE  Refines
<1>0. Typed
  BY InvParts, Zenon
<1>1. fibers' = fibers
  BY DEF Yield, Cancel, TakeSettled, CancelAfter, tables
<1>2. ScopesStill
  <2>1. ASSUME NEW h \in AllHandles, TakeSettled(h)
        PROVE  ScopesStill
    <3>1. h \in Handles /\ Pumping
      BY <2>1 DEF TakeSettled, CanDrain, CanSuspend
    <3>2. PICK x \in Sid : x = h.id
      BY <1>0, <3>1, HandleSid
    <3>3. PICK w : scopes' = [scopes EXCEPT ![x].completed = w]
      BY <2>1, <3>2 DEF TakeSettled
    <3> QED
      BY <1>0, <3>3, CountersStill
  <2>2. CASE scopes' = scopes
    BY <2>2, RowsStill
  <2> QED
    BY <2>1, <2>2 DEF Yield, Cancel, CancelAfter, tables
<1> QED
  BY <1>1, <1>2, RowsStill, Unseen, Zenon

\* Operations that park the fiber.
LEMMA ParksUnseen ==
  ASSUME ScopeInv, Numbered,
         \/ AwaitIo
         \/ \E d \in Durations : Sleep(d)
         \/ \E h \in AllHandles : AwaitNext(h)
         \/ \E h \in AllHandles : \E k \in Range(scopes[h.id].children) : AwaitHandle(h, k)
  PROVE  Refines
<1>0. Typed /\ fibers \in [Fid -> FiberOK] /\ scopes \in [Sid -> Scope]
  BY InvParts, Zenon
<1>1. Pumping
  BY DEF AwaitIo, Sleep, AwaitNext, AwaitHandle, CanDrain, CanSuspend
<1>2. PICK c \in Fid : c = current
  BY <1>1, Pumped DEF Pumping
<1>3. ASSUME NEW kind, NEW arg, fibers' = Parked(c, kind, arg)
      PROVE  TasksStill
  <2>1. SameFiber(c) /\ \A g \in Fid \ {c} : fibers'[g] = fibers[g]
    BY <1>0, <1>3, ParkDelta
  <2> QED
    BY <2>1, RowsStill DEF SameFiber
<1>4. CASE AwaitIo
  <2>1. fibers' = Parked(c, "io", None) /\ scopes' = scopes
    BY <1>2, <1>4 DEF AwaitIo, Park, Parked
  <2> QED
    BY <1>3, <2>1, RowsStill, Unseen, Zenon
<1>5. ASSUME NEW d \in Durations, Sleep(d)
      PROVE  Refines
  <2>1. fibers' = Parked(c, "sleep", None) /\ scopes' = scopes
    BY <1>2, <1>5 DEF Sleep, Park, Parked
  <2> QED
    BY <1>3, <2>1, RowsStill, Unseen, Zenon
<1>6. ASSUME NEW h \in AllHandles, AwaitNext(h)
      PROVE  Refines
  <2>1. h \in Handles
    BY <1>6 DEF AwaitNext, CanDrain
  <2>2. PICK x \in Sid : x = h.id
    BY <1>0, <1>1, <2>1, HandleSid
  <2>3. PICK w : scopes' = [scopes EXCEPT ![x].next_waiters = w]
    BY <1>6, <2>2 DEF AwaitNext
  <2>4. fibers' = Parked(c, "next", h)
    BY <1>2, <1>6 DEF AwaitNext, Park, Parked
  <2> QED
    BY <1>0, <1>3, <2>3, <2>4, CountersStill, Unseen
<1>7. ASSUME NEW h \in AllHandles, NEW k \in Range(scopes[h.id].children), AwaitHandle(h, k)
      PROVE  Refines
  <2>1. h \in Handles
    BY <1>7 DEF AwaitHandle
  <2>2. h.id \in Sid
    BY <1>0, <1>1, <2>1, HandleSid
  <2>3. k.id \in Fid
    <3>1. scopes[h.id].children \in Seq(FidRef)
      BY <1>0, <2>2, ScopeFields
    <3>2. k \in FidRef
      BY <1>7, <3>1 DEF Range
    <3> QED
      BY <3>2 DEF FidRef
  <2>4. PICK e : e = FiberRef(c)
    OBVIOUS
  <2>5. fibers' = Awaiter(c, k, e) /\ scopes' = scopes
    BY <1>2, <1>7, <2>4, Zenon DEF AwaitHandle, Awaiter
  <2>6. \A g \in Fid : SameFiber(g)
    BY <1>0, <2>3, <2>5, AwaitHandleDelta DEF AwaitDelta
  <2> QED
    BY <2>5, <2>6, RowsStill, Unseen, Zenon
<1> QED
  BY <1>4, <1>5, <1>6, <1>7

\* The loop starts, resumes or drops fibers, and queues calls.
LEMMA LoopUnseen ==
  ASSUME ScopeInv, Numbered, LoopStep
  PROVE  Refines
<1>0. Typed /\ fibers \in [Fid -> FiberOK]
  BY InvParts, Zenon
<1>1. scopes' = scopes
  BY DEF LoopStep, DrainPending, RootSettled, Dequeue, RunTimers, TimersFired, Quiesce, FireTimer,
         IoWake, tables
<1>2. ASSUME NEW c, fibers' = [fibers EXCEPT ![c].wait_kind = "none"]
      PROVE  TasksStill
  <2>1. CASE c \in Fid
    <3>1. SameFiber(c) /\ \A g \in Fid \ {c} : fibers'[g] = fibers[g]
      BY <1>0, <1>2, <2>1, ResumeDelta
    <3> QED
      BY <3>1, RowsStill DEF SameFiber
  <2>2. CASE c \notin Fid
    <3>1. fibers' = fibers
      BY <1>0, <1>2, <2>2
    <3> QED
      BY <3>1, RowsStill
  <2> QED
    BY <2>1, <2>2
<1>3. \/ fibers' = fibers
      \/ \E c : fibers' = [fibers EXCEPT ![c].wait_kind = "none"]
  <2>1. CASE Dequeue
    BY <2>1 DEF Dequeue
  <2>2. ASSUME NEW f \in Fid, IoWake(f)
        PROVE  \E c : fibers' = [fibers EXCEPT ![c].wait_kind = "none"]
    BY <2>2 DEF IoWake
  <2>3. ASSUME NEW i \in DOMAIN timers, FireTimer(i)
        PROVE  \/ fibers' = fibers
               \/ \E c : fibers' = [fibers EXCEPT ![c].wait_kind = "none"]
    BY <2>3 DEF FireTimer
  <2>4. CASE DrainPending \/ RootSettled \/ RunTimers \/ TimersFired \/ Quiesce
    BY <2>4 DEF DrainPending, RootSettled, RunTimers, TimersFired, Quiesce, tables
  <2> QED
    BY <2>1, <2>2, <2>3, <2>4 DEF LoopStep
<1> QED
  BY <1>1, <1>2, <1>3, RowsStill, Unseen, Zenon

\* The tasks and the scopes of rows.
LEMMA Members ==
  /\ \A f \in Fid : fibers[f].alive => TaskOf(f) \in TasksRunning
  /\ \A s \in Sid : Open(s) => ScopeOf(s) \in ScopesOpen
BY DEF TasksRunning, ScopesOpen

\* Between calls no scope is ending.
LEMMA NoneUnwinding ==
  ASSUME ScopeInv, work = <<>>
  PROVE  ScopesUnwinding = {}
<1>1. \A s \in Sid : Open(s) => ~Ending(s)
  BY IdleTree
<1> QED
  BY <1>1 DEF ScopesUnwinding

\* The fiber that is pumped waits for no scope, unless it is starting one.
LEMMA PumpedWaitsNot ==
  ASSUME ScopeInv, Pumping, starting = None, NEW c, c = current
  PROVE  ~Tree!Waits(TaskOf(c))
<1>1. SUFFICES ASSUME NEW s \in Sid, Open(s), scopes[s].awaiter = FiberRef(c)
               PROVE  FALSE
  BY DEF Tree!Waits, ScopesOpen, ScopeOf, TaskOf
<1>2. FiberRef(c).id = current
  BY Pumped DEF Pumping
<1>3. starting = ScopeRef(s)
  BY <1>1, <1>2, PumpedAwaits
<1> QED
  BY <1>3 DEF ScopeRef, Ref, None, Sid

\* A fiber's row is filled for a scope that is open: a task starts in it.
LEMMA StartRefines ==
  ASSUME ScopeInv, Numbered, work = <<>>, NEW s \in Sid, Open(s), NEW f \in Fid, TaskStarts(f),
         fibers'[f].knows = scopes[s].enclosing \cup {ScopeRef(s)}, ScopesStill
  PROVE  Refines
<1>1. PICK r : r = Ref(f, fibers[f].gen + 1)
  OBVIOUS
<1>2. PICK w : w = fibers'[f].knows
  OBVIOUS
<1>3. /\ TasksRunning' = TasksRunning \cup {[ref |-> r, within |-> w]}
      /\ TasksEnded' = TasksEnded
      /\ r \in FidRef /\ r \notin TasksEnded /\ \A t \in TasksRunning : t.ref # r
      /\ \A g \in Fid : fibers'[g].alive => fibers'[g].gen > 0
  BY <1>1, <1>2, TaskStarted, InvParts
<1>4. Numbered'
  BY <1>3, ScopesSame DEF Numbered
<1>5. UNCHANGED <<ScopesOpen, ScopesClosed, ScopesUnwinding>>
  BY ScopesSame
<1>6. PICK p \in ScopesOpen : p = ScopeOf(s)
  BY Members
<1>7. w = p.within \cup {p.ref}
  BY <1>2, <1>6 DEF ScopeOf
<1>8. Tree!Start(p, r)
  BY <1>3, <1>5, <1>7, NoneUnwinding DEF Tree!Start
<1> QED
  BY <1>3, <1>4, <1>6, <1>8 DEF Refines, Tree!Next

\* A child is spawned.
LEMMA SpawnRefines ==
  ASSUME ScopeInv, Numbered, Disciplined, NEW h, Spawn(h)
  PROVE  Refines
<1>0. Typed /\ scopes \in [Sid -> Scope]
  BY InvParts, Zenon
<1>1. Pumping /\ h \in Handles /\ SpawnInto(h, Handles) /\ FiberSlotLeft(free_fibers, nfibers)
  BY DEF Spawn, SpawnInto
<1>2. PICK x \in Sid : x = h.id /\ Open(x) /\ h = ScopeRef(x)
  BY <1>1, HandleOpen
<1>3. PICK f \in Fid : f = Slot(free_fibers, nfibers) /\ ~fibers[f].alive
  BY <1>1, SlotFree
<1>4. Spawned(f, h)
  <2>1. ~CaptureInner /\ h.id \in Sid
    BY <1>2 DEF Disciplined
  <2> QED
    BY <1>0, <1>1, <1>3, <2>1, SpawnDelta, Zenon
<1>5. TaskStarts(f) /\ fibers'[f].knows = scopes[x].enclosing \cup {ScopeRef(x)}
  <2>1. /\ fibers'[f].alive /\ fibers'[f].gen = fibers[f].gen + 1
        /\ fibers'[f].knows = scopes[h.id].enclosing \cup {h}
        /\ \A g \in Fid \ {f} : fibers'[g] = fibers[g]
    BY <1>4, Zenon DEF Spawned
  <2>2. TaskStarts(f)
    BY <1>3, <2>1, Zenon DEF TaskStarts, SameTask
  <2> QED
    BY <1>2, <2>1, <2>2, Zenon
<1>6. ScopesStill
  BY <1>2, <1>4, RowsStill, Zenon DEF Spawned, SameScope
<1> QED
  BY <1>1, <1>2, <1>5, <1>6, StartRefines, Zenon DEF Pumping

\* A scope's body is queued.
LEMMA BodyRefines ==
  ASSUME ScopeInv, Numbered, Disciplined, StartBody
  PROVE  Refines
<1>0. Typed /\ Awaiting /\ scopes \in [Sid -> Scope]
  BY InvParts, Zenon
<1>1. Pumping /\ starting # None /\ FiberSlotLeft(free_fibers, nfibers)
  BY DEF StartBody
<1>2. PICK c \in Fid : c = current /\ fibers[c].alive /\ FiberRef(c).id = c
  BY <1>1, Pumped DEF Pumping
<1>3. PICK f \in Fid : f = Slot(free_fibers, nfibers) /\ ~fibers[f].alive
  BY <1>1, SlotFree
<1>4. BodyQueued(f, c)
  <2>1. f # c
    BY <1>2, <1>3
  <2> QED
    BY <1>0, <1>2, <1>3, <2>1, StartBodyDelta
<1>5. PICK s \in Sid : s = starting.id
  BY <1>4 DEF BodyQueued
<1>6. Open(s) /\ starting = ScopeRef(s) /\ scopes[s].awaiter = FiberRef(c)
  BY <1>0, <1>1, <1>2, <1>5 DEF Awaiting
<1>7. fibers[c].knows = scopes[s].enclosing
  BY <1>1, <1>2, <1>6, IdleTree DEF Pumping, Awaits
<1>8. TaskStarts(f) /\ fibers'[f].knows = scopes[s].enclosing \cup {ScopeRef(s)}
  BY <1>3, <1>4, <1>6, <1>7 DEF BodyQueued, TaskStarts, SameTask, SameFiber
<1>9. ScopesStill
  <2>1. scopes' = [scopes EXCEPT ![s].body = f]
    BY <1>4, <1>5 DEF BodyQueued
  <2>2. \A t \in Sid \ {s} : scopes'[t] = scopes[t]
    BY <1>0, <2>1
  <2>3. scopes'[s] = [scopes[s] EXCEPT !.body = f] /\ scopes[s] \in Scope
    BY <1>0, <2>1
  <2>4. SameSpan(s) /\ EndsAsBefore(s)
    BY <2>3 DEF SameSpan, EndsAsBefore, Ending, Scope
  <2> QED
    BY <2>2, <2>4 DEF ScopesStill, SameSpan, EndsAsBefore, Ending
<1> QED
  BY <1>1, <1>6, <1>8, <1>9, StartRefines, Zenon DEF Pumping

\* A scope is opened by the fiber that is pumped.
LEMMA ScopeRefines ==
  ASSUME ScopeInv, Numbered, NEW manual, StartScope(manual)
  PROVE  Refines
<1>0. Typed /\ FreeRows
  BY InvParts, Zenon
<1>1. Pumping /\ starting = None /\ ScopeSlotLeft /\ fibers' = fibers
  BY DEF StartScope, CanSuspend
<1>2. PICK c \in Fid : c = current /\ fibers[c].alive
  BY <1>1, Pumped DEF Pumping
<1>3. PICK s \in Sid : s = Slot(free_scopes, nscopes) /\ s # ROOT_SCOPE /\ scopes[s].finalized
  BY <1>0, <1>1, ScopeSlot
<1>4. Started(s, manual, c)
  BY <1>0, <1>2, <1>3, StartScopeDelta
<1>5. PICK r : r = Ref(s, scopes[s].gen + 1)
  OBVIOUS
<1>6. /\ ScopesOpen' = ScopesOpen
           \cup {[ref |-> r, within |-> fibers[c].knows, opener |-> FiberRef(c)]}
      /\ ScopesClosed' = ScopesClosed /\ ScopesUnwinding' = ScopesUnwinding
      /\ r \in SidRef /\ r \notin ScopesClosed /\ \A t \in ScopesOpen : t.ref # r
      /\ \A t \in Sid : Open(t)' => scopes'[t].gen > 0
  BY <1>0, <1>3, <1>4, <1>5, ScopeOpened
<1>7. /\ TasksRunning' = TasksRunning /\ TasksEnded' = TasksEnded
      /\ \A f \in Fid : fibers'[f].alive => fibers'[f].gen > 0
  BY <1>1, RowsStill, TasksSame
<1>8. Numbered'
  BY <1>6, <1>7 DEF Numbered
<1>9. PICK t \in TasksRunning : t = TaskOf(c)
  BY <1>2, Members
<1>10. t.within = fibers[c].knows /\ t.ref = FiberRef(c)
  BY <1>9 DEF TaskOf
<1>11. ~Tree!Waits(t) /\ ScopesUnwinding = {}
  BY <1>1, <1>2, <1>9, PumpedWaitsNot, NoneUnwinding DEF Pumping
<1>12. Tree!Enter(t, r)
  BY <1>6, <1>7, <1>10, <1>11 DEF Tree!Enter
<1> QED
  BY <1>6, <1>8, <1>9, <1>12 DEF Refines, Tree!Next

\* The fiber that is pumped ends; if it is a scope's body, that scope starts to end.
LEMMA EndRefines ==
  ASSUME ScopeInv, Numbered, Pumping, starting = None, NEW c \in Fid, c = current, Ended(c),
         \/ ScopesStill
         \/ \E s \in Sid : Open(s) /\ ScopeRef(s) \in fibers[c].knows /\ ScopeUnwinds(s)
  PROVE  Refines
<1>0. Typed /\ fibers[c].alive
  BY InvParts, Pumped DEF Pumping
<1>1. /\ TasksRunning' = TasksRunning \ {TaskOf(c)}
      /\ TasksEnded' = TasksEnded \cup {TaskOf(c).ref}
      /\ TaskOf(c) \in TasksRunning
      /\ \A g \in Fid : fibers'[g].alive => fibers'[g].gen > 0
  BY <1>0, TaskEnded
<1>2. PICK t \in TasksRunning : t = TaskOf(c) /\ t.within = fibers[c].knows
  BY <1>1 DEF TaskOf
<1>3. /\ ScopesOpen' = ScopesOpen /\ ScopesClosed' = ScopesClosed
      /\ \A s \in Sid : Open(s)' => scopes'[s].gen > 0
      /\ \/ ScopesUnwinding' = ScopesUnwinding
         \/ \E r \in t.within : ScopesUnwinding' = ScopesUnwinding \cup {r}
  BY <1>2, ScopesSame, ScopeUnwound
<1>4. Numbered'
  BY <1>1, <1>3 DEF Numbered
<1>5. ~Tree!Waits(t) /\ ScopesUnwinding = {}
  BY <1>2, PumpedWaitsNot, NoneUnwinding DEF Pumping
<1>6. Tree!End(t)
  BY <1>1, <1>2, <1>3, <1>5 DEF Tree!End
<1> QED
  BY <1>2, <1>4, <1>6 DEF Refines, Tree!Next

\* A fiber completes.
LEMMA CompleteRefines ==
  ASSUME ScopeInv, Numbered, NEW kind, kind # "none",
         CompleteRoot(kind) \/ CompleteBody(kind) \/ CompleteChild(kind)
  PROVE  Refines
<1>0. Typed /\ FiberRows /\ fibers \in [Fid -> FiberOK] /\ scopes \in [Sid -> Scope]
  BY InvParts, Zenon
<1>1. Pumping /\ starting = None
  BY DEF CompleteRoot, CompleteBody, CompleteChild, CanComplete, CanSuspend
<1>2. PICK c \in Fid : c = current /\ fibers[c].alive
  BY <1>1, Pumped DEF Pumping
<1>3. CASE CompleteRoot(kind)
  <2>1. fibers' = Settled(c, kind) /\ scopes' = scopes
    BY <1>2, <1>3 DEF CompleteRoot
  <2>2. Ended(c)
    BY <1>0, <2>1, SettleDelta
  <2> QED
    BY <1>1, <1>2, <2>1, <2>2, RowsStill, EndRefines, Zenon
<1>4. CASE CompleteBody(kind)
  <2>1. PICK s : s = fibers[c].runs_scope
    OBVIOUS
  <2>2. c # Root /\ s # NO_SCOPE /\ fibers' = Settled(c, kind)
    BY <1>2, <1>4, <2>1 DEF CompleteBody
  <2>3. s \in Sid /\ Open(s) /\ ScopeRef(s) \in fibers[c].knows
    <3>1. s = fibers[c].scope /\ Open(s) /\ fibers[c].knows = Up(s)
      BY <1>0, <1>2, <2>1, <2>2 DEF FiberRows
    <3> QED
      BY <1>0, <3>1, FiberFields DEF Up
  <2>4. PICK b : scopes' = [scopes EXCEPT ![s].bd_kind = kind, ![s].fail_set = b]
    BY <1>2, <1>4, <2>1 DEF CompleteBody
  <2>5. BodyMarked(s, kind)
    BY <1>0, <2>3, <2>4, BodyMarkedDelta
  <2>6. ScopeUnwinds(s)
    BY <1>4, <2>5 DEF BodyMarked, SameRest, ScopeUnwinds, SameSpan, EndsAsBefore, Ending
  <2>7. Ended(c)
    BY <1>0, <2>2, SettleDelta
  <2> QED
    BY <1>1, <1>2, <2>3, <2>6, <2>7, EndRefines
<1>5. CASE CompleteChild(kind)
  <2>1. PICK s \in Sid : s = fibers[c].scope
    BY <1>0, FiberFields
  <2>2. Ended(c) /\ SameScope(s) /\ \A t \in Sid \ {s} : scopes'[t] = scopes[t]
    BY <1>0, <1>2, <1>5, <2>1, ChildDelta
  <2>3. ScopesStill
    BY <2>2, RowsStill DEF SameScope
  <2> QED
    BY <1>1, <1>2, <2>2, <2>3, EndRefines
<1> QED
  BY <1>3, <1>4, <1>5

\* A fiber is reaped as a scope around it ends.
LEMMA ReapRefines ==
  ASSUME ScopeInv, Numbered, ReapFiber
  PROVE  Refines
<1>0. Typed /\ FiberRows /\ fibers \in [Fid -> FiberOK] /\ scopes \in [Sid -> Scope]
  BY InvParts, Zenon
<1>1. Calling("reap_fiber")
  BY DEF ReapFiber
<1>2. PICK f \in Fid : f = Callee
  BY <1>1, TopFiber
<1>3. CASE ~fibers[f].alive
  <2>1. fibers' = fibers /\ scopes' = scopes
    BY <1>2, <1>3 DEF ReapFiber
  <2> QED
    BY <2>1, RowsStill, Unseen, Zenon
<1>4. CASE fibers[f].alive
  <2>1. PICK s \in Sid : s = work[1].of
    BY <1>1, TopFiber
  <2>2. work[1] = Do("reap_fiber", f, s) /\ CallOK(1)
    BY <1>1, <1>2, <2>1, TopFiber
  <2>3. work[1].fn = "reap_fiber" /\ work[1].id = f
    BY <2>2 DEF Do
  <2>4. f # Root /\ fibers[f].scope = s
    BY <1>4, <2>1, <2>2, <2>3 DEF CallOK
  <2>5. Open(s) /\ fibers[f].knows = Up(s)
    BY <1>0, <1>4, <2>4 DEF FiberRows
  <2>6. Ending(s)
    BY <2>1, <2>2, <2>3, <2>5 DEF CallOK, Ending
  <2>7. Ended(f)
    BY <1>0, <1>2, <1>4, SettleDelta DEF ReapFiber
  <2>8. ScopesStill
    <3>1. \/ scopes' = scopes
          \/ scopes' = [scopes EXCEPT ![s].live = @ - 1]
      BY <1>2, <1>4, <2>4 DEF ReapFiber, LiveAfterReap
    <3>2. PICK w : w = scopes[s].live - 1
      OBVIOUS
    <3>3. scopes' = scopes \/ scopes' = [scopes EXCEPT ![s].live = w]
      BY <3>1, <3>2
    <3> QED
      BY <1>0, <3>3, RowsStill, CountersStill
  <2>9. /\ TasksRunning' = TasksRunning \ {TaskOf(f)}
        /\ TasksEnded' = TasksEnded \cup {TaskOf(f).ref}
        /\ TaskOf(f) \in TasksRunning
        /\ \A g \in Fid : fibers'[g].alive => fibers'[g].gen > 0
    BY <1>0, <1>4, <2>7, TaskEnded
  <2>10. PICK t \in TasksRunning : t = TaskOf(f) /\ t.within = fibers[f].knows
    BY <2>9 DEF TaskOf
  <2>11. ScopeRef(s) \in t.within \cap ScopesUnwinding
    BY <2>5, <2>6, <2>10 DEF ScopesUnwinding, Up
  <2>12. /\ ScopesOpen' = ScopesOpen /\ ScopesClosed' = ScopesClosed
         /\ ScopesUnwinding' = ScopesUnwinding
         /\ \A u \in Sid : Open(u)' => scopes'[u].gen > 0
    BY <2>8, ScopesSame
  <2>13. Tree!End(t)
    BY <2>9, <2>10, <2>11, <2>12 DEF Tree!End
  <2> QED
    BY <2>9, <2>10, <2>12, <2>13 DEF Refines, Tree!Next, Numbered
<1> QED
  BY <1>3, <1>4

\* A scope is cancelled.
LEMMA CancelRefines ==
  ASSUME ScopeInv, Numbered, CancelScope
  PROVE  Refines
<1>0. Typed
  BY InvParts, Zenon
<1>1. Calling("cancel_scope") /\ fibers' = fibers
  BY DEF CancelScope
<1>2. PICK s \in Sid : s = Callee /\ s # ROOT_SCOPE
  BY <1>1, TopScope
<1>3. CASE scopes' = scopes
  BY <1>1, <1>3, RowsStill, Unseen, Zenon
<1>4. CASE ~scopes[s].finalized /\ scopes' = [scopes EXCEPT ![s].cancelled = TRUE]
  <2>1. Open(s) /\ Marked(s)
    BY <1>0, <1>2, <1>4, MarkedDelta DEF Open
  <2>2. ScopeUnwinds(s)
    BY <2>1 DEF Marked, SameRest, ScopeUnwinds, SameSpan, EndsAsBefore, Ending
  <2>3. /\ ScopesOpen' = ScopesOpen /\ ScopesClosed' = ScopesClosed
        /\ ScopesUnwinding' = ScopesUnwinding \cup {ScopeRef(s)}
        /\ ScopeOf(s) \in ScopesOpen
        /\ \A t \in Sid : Open(t)' => scopes'[t].gen > 0
    BY <2>1, <2>2, ScopeUnwound
  <2>4. /\ TasksRunning' = TasksRunning /\ TasksEnded' = TasksEnded
        /\ \A f \in Fid : fibers'[f].alive => fibers'[f].gen > 0
    BY <1>1, RowsStill, TasksSame
  <2>5. PICK p \in ScopesOpen : p = ScopeOf(s) /\ p.ref = ScopeRef(s)
    BY <2>3 DEF ScopeOf
  <2>6. Tree!Unwind(p)
    BY <2>3, <2>4, <2>5 DEF Tree!Unwind
  <2> QED
    BY <2>3, <2>4, <2>5, <2>6 DEF Refines, Tree!Next, Numbered
<1> QED
  BY <1>2, <1>3, <1>4 DEF CancelScope

\* The body of a scope that is being cancelled is marked.
LEMMA MarkUnseen ==
  ASSUME ScopeInv, Numbered, MarkCancelled
  PROVE  Refines
<1>0. Typed
  BY InvParts, Zenon
<1>1. Calling("mark_cancelled") /\ fibers' = fibers
  BY DEF MarkCancelled
<1>2. PICK s \in Sid : s = Callee
  BY <1>1, TopScope
<1>3. /\ 1 \in DOMAIN work /\ work[1] = Do("mark_cancelled", s, s)
  BY <1>1, <1>2, TopScope
<1>4. Open(s) => scopes[s].cancelled
  <2>1. CallOK(1) /\ work[1].fn = "mark_cancelled" /\ work[1].of = s
    BY <1>3, InvParts DEF Calls, Do
  <2> QED
    BY <2>1 DEF CallOK
<1>5. PICK k : scopes' = [scopes EXCEPT ![s].bd_kind = k]
  BY <1>2 DEF MarkCancelled
<1>6. BodyMarked(s, k)
  BY <1>0, <1>5, BodyMarkedDelta
<1>7. ScopesStill
  BY <1>4, <1>6 DEF BodyMarked, SameRest, ScopesStill, SameSpan, EndsAsBefore, Ending
<1> QED
  BY <1>1, <1>7, RowsStill, Unseen, Zenon

\* A scope is finalized: no task and no scope is left inside.
LEMMA FinalizeRefines ==
  ASSUME ScopeInv, Numbered, TryFinalize
  PROVE  Refines
<1>0. /\ Typed /\ FiberRows /\ fibers \in [Fid -> FiberOK] /\ scopes \in [Sid -> Scope]
  BY InvParts, Zenon
<1>1. Calling("try_finalize")
  BY DEF TryFinalize
<1>2. PICK s \in Sid : s = Callee /\ s # ROOT_SCOPE
  BY <1>1, TopScope
<1>3. CASE ~CanFinalize(s)
  <2>1. fibers' = fibers /\ scopes' = scopes
    BY <1>2, <1>3 DEF TryFinalize
  <2> QED
    BY <2>1, RowsStill, Unseen, Zenon
<1>4. CASE CanFinalize(s)
  <2>1. 1 \in DOMAIN work /\ work[1] = Do("try_finalize", s, s) /\ current = NoFiber
    BY <1>1, <1>2, TopScope
  <2>2. work[1].of = s
    BY <2>1 DEF Do
  <2>3. /\ Open(s)
        /\ \A g \in Fid : ~LiveIn(g, s)
        /\ \A t \in Sid : Open(t) => ScopeRef(s) \notin scopes[t].enclosing
    BY <1>2, <1>4, <2>1, <2>2, LastOut, Zenon
  <2>4. Finalized(s)
    BY <1>0, <1>2, <1>4, Finalizes
  <2>5. TasksStill
    <3>1. PICK c : \/ fibers' = fibers
                   \/ c \in Fid /\ fibers' = [fibers EXCEPT ![c].wait_kind = "none"]
      <4>1. PICK a : a = scopes[s].awaiter
        OBVIOUS
      <4>2. a # None => a.id \in Fid
        BY <1>0, <4>1, ScopeFields DEF FidRef
      <4>3. \/ fibers' = fibers
            \/ a # None /\ fibers' = [fibers EXCEPT ![a.id].wait_kind = "none"]
        BY <1>2, <1>4, <4>1 DEF TryFinalize
      <4> QED
        BY <4>2, <4>3
    <3>2. CASE fibers' = fibers
      BY <3>2, RowsStill
    <3>3. CASE c \in Fid /\ fibers' = [fibers EXCEPT ![c].wait_kind = "none"]
      <4>1. SameFiber(c) /\ \A g \in Fid \ {c} : fibers'[g] = fibers[g]
        BY <1>0, <3>3, ResumeDelta
      <4> QED
        BY <4>1, RowsStill DEF SameFiber
    <3> QED
      BY <3>1, <3>2, <3>3
  <2>6. /\ TasksRunning' = TasksRunning /\ TasksEnded' = TasksEnded
        /\ \A f \in Fid : fibers'[f].alive => fibers'[f].gen > 0
    BY <2>5, TasksSame
  <2>7. /\ ScopesOpen' = ScopesOpen \ {ScopeOf(s)}
        /\ ScopesClosed' = ScopesClosed \cup {ScopeRef(s)}
        /\ ScopesUnwinding' = ScopesUnwinding \ {ScopeRef(s)}
        /\ ScopeOf(s) \in ScopesOpen
        /\ \A t \in Sid : Open(t)' => scopes'[t].gen > 0
    BY <1>0, <2>3, <2>4, ScopeClosed
  <2>8. PICK p \in ScopesOpen : p = ScopeOf(s) /\ p.ref = ScopeRef(s)
    BY <2>7 DEF ScopeOf
  <2>9. ASSUME NEW t \in TasksRunning
        PROVE  ScopeRef(s) \notin t.within
    <3>1. PICK f \in Fid : fibers[f].alive /\ t.within = fibers[f].knows
      BY DEF TasksRunning, TaskOf
    <3>2. CASE f = Root
      BY <1>0, <3>1, <3>2 DEF FiberRows
    <3>3. CASE f # Root
      <4>1. PICK u \in Sid : u = fibers[f].scope /\ u # s
        BY <1>0, <2>3, <3>1, <3>3, FiberFields DEF LiveIn
      <4>2. Open(u) /\ t.within = scopes[u].enclosing \cup {ScopeRef(u)}
        BY <1>0, <3>1, <3>3, <4>1 DEF FiberRows, Up
      <4>3. ScopeRef(u) # ScopeRef(s)
        BY <4>1, RefRow DEF ScopeRef
      <4> QED
        BY <2>3, <4>2, <4>3
    <3> QED
      BY <3>2, <3>3
  <2>10. \A q \in ScopesOpen : ScopeRef(s) \notin q.within
    BY <2>3 DEF ScopesOpen, ScopeOf
  <2>11. ScopeRef(s) \in ScopesUnwinding
    BY <1>4, <2>3 DEF ScopesUnwinding, Ending, CanFinalize
  <2>12. Tree!Inside(p.ref) = {}
    BY <2>8, <2>9, <2>10 DEF Tree!Inside
  <2>13. Tree!Close(p)
    BY <2>6, <2>7, <2>8, <2>11, <2>12 DEF Tree!Close
  <2> QED
    BY <2>6, <2>7, <2>8, <2>13 DEF Refines, Tree!Next, Numbered
<1> QED
  BY <1>3, <1>4

\* Every step.
LEMMA StepRefines ==
  ASSUME ScopeInv, Numbered, Disciplined, [Next]_vars
  PROVE  Refines
<1>1. CASE ProgramStep
  <2>1. ASSUME NEW h \in AllHandles, Spawn(h)
        PROVE  Refines
    BY <2>1, SpawnRefines
  <2>2. ASSUME NEW manual \in BOOLEAN, StartScope(manual)
        PROVE  Refines
    BY <2>2, ScopeRefines
  <2>3. ASSUME NEW kind \in {"ok", "err"},
               CompleteRoot(kind) \/ CompleteBody(kind) \/ CompleteChild(kind)
        PROVE  Refines
    <3>1. kind # "none"
      OBVIOUS
    <3> QED
      BY <2>3, <3>1, CompleteRefines
  <2> QED
    BY <1>1, <2>1, <2>2, <2>3, BodyRefines, QueuesUnseen, ParksUnseen DEF ProgramStep
<1>2. CASE CallStep
  <2>1. CASE ReapChildren \/ ReapChild \/ RunDefers
    <3>1. fibers' = fibers /\ scopes' = scopes
      BY <2>1 DEF ReapChildren, ReapChild, RunDefers, tables, Disciplined
    <3> QED
      BY <3>1, RowsStill, Unseen, Zenon
  <2> QED
    BY <1>2, <2>1, ReapRefines, CancelRefines, MarkUnseen, FinalizeRefines DEF CallStep
<1>3. CASE UNCHANGED vars
  <2>1. fibers' = fibers /\ scopes' = scopes
    BY <1>3 DEF vars, tables
  <2> QED
    BY <2>1, RowsStill, Unseen, Zenon
<1> QED
  BY <1>1, <1>2, <1>3, LoopUnseen DEF Next

\* At first the program's task runs, alone.
LEMMA InitRefines ==
  ASSUME Init
  PROVE  Tree!Init /\ Numbered
<1>0. Root \in Fid /\ ROOT_SCOPE \in Sid
  BY SchedulerAssumption DEF Fid, Sid, Root, ROOT_SCOPE
<1>1. /\ fibers[Root].alive /\ fibers[Root].gen = 1 /\ fibers[Root].knows = {}
      /\ \A f \in Fid \ {Root} : ~fibers[f].alive /\ fibers[f].gen = 0
  <2>1. /\ fibers[Root] = NewFiber(ROOT_SCOPE, NO_SCOPE, {}, NoFiberRow)
        /\ \A f \in Fid \ {Root} : fibers[f] = NoFiberRow
    BY <1>0 DEF Init
  <2>2. NoFiberRow.gen = 0 /\ ~NoFiberRow.alive
    BY DEF NoFiberRow, NewFiber
  <2> QED
    BY <2>1, <2>2 DEF NewFiber
<1>2. \A s \in Sid \ {ROOT_SCOPE} : scopes[s].finalized /\ scopes[s].gen = 0
  BY <1>0 DEF Init, NoScopeRow, NewScope
<1>3. TasksRunning = {[ref |-> Ref(Root, 1), within |-> {}]}
  <2>1. TaskOf(Root) = [ref |-> Ref(Root, 1), within |-> {}]
    BY <1>1 DEF TaskOf, FiberRef
  <2> QED
    BY <1>0, <1>1, <2>1, ZenonT(40) DEF TasksRunning
<1>4. TasksEnded = {}
  BY <1>0, <1>1 DEF TasksEnded, FidRef
<1>5. ScopesOpen = {} /\ ScopesUnwinding = {}
  BY <1>2 DEF ScopesOpen, ScopesUnwinding, Open
<1>6. ScopesClosed = {}
  BY <1>2 DEF ScopesClosed, SidRef
<1>7. Numbered
  BY <1>1, <1>2 DEF Numbered, Open
<1> QED
  BY <1>3, <1>4, <1>5, <1>6, <1>7 DEF Tree!Init

\* The scheduler implements structured concurrency, for tables of any size and every
\* program that is Disciplined: a task runs inside the scopes it was started in until
\* it ends, on its own or because one of them is ending; a scope is closed only when it
\* is ending and nothing is left inside; nothing starts while one is ending; and a
\* reference to a task or a scope never comes to name another.
THEOREM SchedulerIsStructured ==
  ASSUME Disciplined
  PROVE  Spec => Tree!Spec
<1>1. Init => Tree!Init /\ Numbered
  BY InitRefines
<1>2. ScopeInv /\ Numbered /\ [Next]_vars => [Tree!Next]_(Tree!structuredVars) /\ Numbered'
  BY StepRefines DEF Refines
<1>3. Spec => []ScopeInv
  BY ScopeAlways
<1> QED
  BY <1>1, <1>2, <1>3, PTL DEF Spec, Tree!Spec
=============================================================================

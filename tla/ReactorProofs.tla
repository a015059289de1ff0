---------------------------- MODULE ReactorProofs ----------------------------
(***************************************************************************)
(* Theorems about the reactor, for every number of fibers, descriptors,    *)
(* operations and workers: registered waits are kept, and offloaded calls  *)
(* get their own results, run once and lose no wakeup.                     *)
(***************************************************************************)
EXTENDS Reactor, SequenceTheorems, TLAPS

-----------------------------------------------------------------------------
(* Type correctness. *)

\* The starting state of Reactor and the tables around it is well typed.
LEMMA TypeInit == Init => TypeOK
<1> SUFFICES ASSUME Init PROVE TypeOK
  OBVIOUS
<1>1. <<>> \in Seq(Fid) /\ <<>> \in Seq(Job)
  OBVIOUS
<1>2. NoTask \in Task /\ NoOp \in Op \cup {NoOp} /\ {} \subseteq Job /\ 0 \in 0..MaxUse
  BY ReactorAssumption DEF Task
<1>3. 1 \in 1..(MaxSock + 1) /\ 1 \in 1..(MaxOp + 1)
  BY ReactorAssumption
<1> QED
  BY <1>1, <1>2, <1>3 DEF Init, TypeOK

\* The tasks that a fiber parks with are tasks.
LEMMA TaskArg ==
  /\ NoTask \in Task
  /\ \A s \in SockId : [kind |-> "sock", arg |-> s] \in Task
  /\ \A o \in Op, k \in {"pool", "db"} : [kind |-> k, arg |-> o] \in Task
BY ReactorAssumption DEF Task, NoTask, SockId, Op

\* No step of a fiber, of poll, of a worker or of the outside breaks the types.
LEMMA TypeStep == TypeOK /\ [Next]_vars => TypeOK'
<1> SUFFICES ASSUME TypeOK, [Next]_vars PROVE TypeOK'
  OBVIOUS
<1> USE ReactorAssumption
<1> USE DEF slotVars, fiberVars, tableVars, osVars, workerVars, netVars, pollVars, ghostVars
<1>1. ASSUME NEW f \in Fid, NEW s \in SockId, CallSocket(f, s), nextOp' = nextOp
      PROVE  TypeOK'
  <2>1. retry' \in [Fid -> Task]
    BY <1>1, TaskArg DEF TypeOK, CallSocket
  <2>2. status' \in [Fid -> {"free", "run", "io", "woken", "other"}]
    BY <1>1 DEF TypeOK, CallSocket, RegisterSocket
  <2>3. waits' \in [Fid -> Fd \cup {NoFd}] /\ registered' \in [Fd -> Fid \cup {NoFid}]
    <3>1. CASE RegisterSocket(f, sockets[s]) /\ sockets[s] \in Fd
      <4>1. waits' \in {waits, [waits EXCEPT ![f] = sockets[s]]}
        BY <3>1 DEF RegisterSocket
      <4>2. registered' \in {registered, [registered EXCEPT ![sockets[s]] = f]}
        BY <3>1 DEF RegisterSocket
      <4>3. waits' \in [Fid -> Fd \cup {NoFd}]
        BY <3>1, <4>1 DEF TypeOK
      <4>4. registered' \in [Fd -> Fid \cup {NoFid}]
        BY <3>1, <4>2 DEF TypeOK
      <4> QED
        BY <4>3, <4>4
    <3>2. CASE UNCHANGED <<registered, waits>>
      BY <3>2 DEF TypeOK
    <3> QED
      BY <1>1, <3>1, <3>2 DEF TypeOK, CallSocket
  <2>4. readable' \subseteq Fd
    BY <1>1 DEF TypeOK, CallSocket, RegisterSocket
  <2> QED
    BY <1>1, <2>1, <2>2, <2>3, <2>4 DEF TypeOK, CallSocket
<1>2. ASSUME NEW f \in Fid, NEW k \in {"pool", "db"}, NEW o \in Op, CallOffload(f, k, o),
             nextOp' \in 1..(MaxOp + 1)
      PROVE  TypeOK'
  <2>1. [fid |-> f, op |-> o] \in Job
    BY <1>2 DEF Job
  <2>2. jobs' \in Seq(Job) /\ pinned' \in Seq(Job)
    <3>1. Append(jobs, [fid |-> f, op |-> o]) \in Seq(Job)
      BY <2>1, AppendProperties DEF TypeOK
    <3>2. Append(pinned, [fid |-> f, op |-> o]) \in Seq(Job)
      BY <2>1, AppendProperties DEF TypeOK
    <3>3. jobs' \in {jobs, Append(jobs, [fid |-> f, op |-> o])}
      BY <1>2 DEF CallOffload, SubmitJob
    <3>4. pinned' \in {pinned, Append(pinned, [fid |-> f, op |-> o])}
      BY <1>2 DEF CallOffload, SubmitJob
    <3> QED
      BY <3>1, <3>2, <3>3, <3>4 DEF TypeOK
  <2>3. inflight' \subseteq Fid /\ discarded' \subseteq inflight'
    BY <1>2 DEF TypeOK, CallOffload, SubmitJob
  <2>4. done' \in [Fid -> Op \cup {NoOp}] /\ got' \subseteq Fid \X Op \X Op
    <3>1. CASE done[f] = NoOp
      BY <1>2, <3>1 DEF TypeOK, CallOffload
    <3>2. CASE done[f] # NoOp
      <4>1. done[f] \in Op
        BY <3>2 DEF TypeOK
      <4>2. done' = [done EXCEPT ![f] = NoOp] /\ got' = got \cup {<<f, o, done[f]>>}
        BY <1>2, <3>2 DEF CallOffload, Collect
      <4> QED
        BY <4>1, <4>2 DEF TypeOK
    <3> QED
      BY <3>1, <3>2
  <2>5. status' \in [Fid -> {"free", "run", "io", "woken", "other"}] /\ retry' \in [Fid -> Task]
    <3>1. [kind |-> k, arg |-> o] \in Task
      BY TaskArg
    <3>2. \E x \in {"run", "io"} : status' = [status EXCEPT ![f] = x]
      BY <1>2 DEF CallOffload
    <3>3. retry' \in {retry, [retry EXCEPT ![f] = [kind |-> k, arg |-> o]]}
      BY <1>2 DEF CallOffload
    <3> QED
      <4>1. status' \in [Fid -> {"free", "run", "io", "woken", "other"}]
        BY <3>2 DEF TypeOK
      <4>2. retry' \in [Fid -> Task]
        BY <3>1, <3>3, ZenonT(40) DEF TypeOK
      <4> QED
        BY <4>1, <4>2
  <2> QED
    BY <1>2, <2>2, <2>3, <2>4, <2>5 DEF TypeOK, CallOffload
<1>3. ASSUME NEW f \in Fid, NEW s \in SockId, StartSocketOp(f, s) PROVE TypeOK'
  BY <1>1, <1>3 DEF StartSocketOp, CallSocket
<1>4. ASSUME NEW f \in Fid, NEW k \in {"pool", "db"}, StartOffload(f, k) PROVE TypeOK'
  BY <1>2, <1>4 DEF StartOffload, Op
<1>5. ASSUME NEW f \in Fid, NEW d \in Fd, OpenSocket(f, d) PROVE TypeOK'
  BY <1>5, SMTT(30) DEF TypeOK, OpenSocket, SockId
<1>6. ASSUME NEW f \in Fid, NEW s \in SockId, CloseSocket(f, s) PROVE TypeOK'
  BY <1>6 DEF TypeOK, CloseSocket
<1>7. ASSUME NEW f \in Fid, ParkOther(f) PROVE TypeOK'
  BY <1>7 DEF TypeOK, ParkOther
<1>8. ASSUME NEW f \in Fid, NEW g \in Fid, WakeOther(f, g) PROVE TypeOK'
  BY <1>8 DEF TypeOK, WakeOther
<1>9. ASSUME NEW f \in Fid, FireTimer(f) PROVE TypeOK'
  BY <1>9 DEF TypeOK, FireTimer
<1>10. ASSUME NEW f \in Fid, Complete(f) PROVE TypeOK'
  BY <1>10, TaskArg DEF TypeOK, Complete
<1>11. ASSUME NEW f \in Fid, Spawn(f) PROVE TypeOK'
  BY <1>11, TaskArg, SMTT(30) DEF TypeOK, Spawn
<1>12. ASSUME NEW f \in Fid, Reap(f) PROVE TypeOK'
  BY <1>12, TaskArg, ZenonT(40) DEF TypeOK, Reap, Unwatch, Unwatched, Discards, Op, NoOp
<1>13. ASSUME NEW f \in Fid, Retry(f) PROVE TypeOK'
  <2>1. retry[f] \in Task
    BY DEF TypeOK
  <2>2. CASE retry[f].kind = "sock"
    <3>1. retry[f].arg \in SockId
      BY <2>1, <2>2 DEF Task, NoTask
    <3>2. CallSocket(f, retry[f].arg)
      BY <1>13, <2>2 DEF Retry
    <3> QED BY <3>1, <3>2, <1>1 DEF CallSocket
  <2>3. CASE retry[f].kind \in {"pool", "db"}
    <3>1. retry[f].arg \in Op
      BY <2>1, <2>3 DEF Task, NoTask
    <3>2. CallOffload(f, retry[f].kind, retry[f].arg) /\ nextOp' = nextOp
      BY <1>13, <2>3 DEF Retry
    <3> QED BY <3>1, <3>2, <2>3, <1>2 DEF TypeOK
  <2>4. CASE retry[f].kind = "none"
    BY <1>13, <2>4, ZenonT(40) DEF Retry, TypeOK
  <2> QED BY <2>1, <2>2, <2>3, <2>4 DEF Task, NoTask
<1>14. CASE PollBuffered \/ PollNothing \/ PollLock \/ TimersDue \/ TimersDone
  BY <1>14 DEF TypeOK, PollBuffered, PollNothing, PollLock, TimersDue, TimersDone
<1>15. CASE PollWait
  <2>1. events' \subseteq Fid
    <3>1. \A d \in Fd : registered[d] # NoFid => registered[d] \in Fid
      BY DEF TypeOK
    <3> QED
      BY <1>15, <3>1 DEF TypeOK, PollWait
  <2>2. timedOut' \in BOOLEAN /\ notified' \in BOOLEAN
    BY <1>15 DEF TypeOK, PollWait
  <2> QED
    BY <1>15, <2>1, <2>2 DEF TypeOK, PollWait
<1>16. ASSUME NEW f \in Fid, PollEvent(f) PROVE TypeOK'
  <2>1. Append(ready, f) \in Seq(Fid)
    BY AppendProperties DEF TypeOK
  <2> QED
    BY <1>16, <2>1 DEF TypeOK, PollEvent
<1>17. CASE PollDrain
  <2> DEFINE c == Head(completions)
  <2>1. c \in Job /\ completions' \in Seq(Job)
    BY <1>17, HeadTailProperties DEF TypeOK, PollDrain
  <2>2. c.fid \in Fid /\ c.op \in Op
    BY <2>1 DEF Job
  <2>3. Append(ready, c.fid) \in Seq(Fid)
    BY <2>2, AppendProperties DEF TypeOK
  <2>4. ready' \in Seq(Fid) /\ done' \in [Fid -> Op \cup {NoOp}]
    BY <1>17, <2>2, <2>3 DEF TypeOK, PollDrain, Stashed
  <2>5. inflight' \subseteq Fid /\ discarded' \subseteq inflight'
    BY <1>17 DEF TypeOK, PollDrain
  <2> QED
    BY <1>17, <2>1, <2>4, <2>5 DEF TypeOK, PollDrain
<1>18. CASE PollReturn
  <2>1. ready # <<>> => Head(ready) \in Fid /\ Tail(ready) \in Seq(Fid)
    BY HeadTailProperties DEF TypeOK
  <2>2. CASE ready = <<>>
    BY <1>18, <2>2 DEF TypeOK, PollReturn
  <2>3. CASE ready # <<>>
    BY <1>18, <2>1, <2>3 DEF TypeOK, PollReturn, Popped
  <2> QED
    BY <2>2, <2>3
<1>19. ASSUME NEW w \in Worker, WorkerTake(w) PROVE TypeOK'
  <2>1. jobs' \in Seq(Job) /\ Head(jobs) \in Job
    BY <1>19, HeadTailProperties DEF TypeOK, WorkerTake
  <2> QED
    BY <1>19, <2>1 DEF TypeOK, WorkerTake
<1>20. ASSUME NEW j \in Job, PushCompletion(j)
       PROVE  completions' \in Seq(Job) /\ execs' \in [Job -> Nat] /\ poking' \in Nat
  <2>1. Append(completions, j) \in Seq(Job)
    BY <1>20, AppendProperties DEF TypeOK
  <2> QED
    BY <1>20, <2>1 DEF TypeOK, PushCompletion
<1>21. ASSUME NEW w \in Worker, WorkerDone(w) PROVE TypeOK'
  <2>1. working[w] \in Job
    BY <1>21 DEF TypeOK, WorkerDone
  <2>2. completions' \in Seq(Job) /\ execs' \in [Job -> Nat] /\ poking' \in Nat
    BY <1>20, <1>21, <2>1 DEF WorkerDone
  <2>3. working' \in [Worker -> Job \cup {NoJob}]
    BY <1>21 DEF TypeOK, WorkerDone
  <2> QED
    BY <1>21, <2>2, <2>3 DEF TypeOK, WorkerDone
<1>25. CASE PinnedDone
  <2>1. Head(pinned) \in Job /\ pinned' \in Seq(Job)
    BY <1>25, HeadTailProperties DEF TypeOK, PinnedDone
  <2>2. completions' \in Seq(Job) /\ execs' \in [Job -> Nat] /\ poking' \in Nat
    BY <1>20, <1>25, <2>1 DEF PinnedDone
  <2> QED
    BY <1>25, <2>1, <2>2 DEF TypeOK, PinnedDone
<1>22. CASE WorkerNotify
  BY <1>22 DEF TypeOK, WorkerNotify
<1>23. ASSUME NEW d \in Fd, BecomeReadable(d) PROVE TypeOK'
  BY <1>23 DEF TypeOK, BecomeReadable
<1>24. CASE UNCHANGED vars
  BY <1>24 DEF TypeOK, vars
<1> QED
  BY <1>3, <1>4, <1>5, <1>6, <1>7, <1>8, <1>9, <1>10, <1>11, <1>12, <1>13, <1>14, <1>15,
     <1>16, <1>17, <1>18, <1>19, <1>21, <1>22, <1>23, <1>24, <1>25
     DEF Next, SchedulerStep, FiberStep, PollStep, WorkerStep

\* Every reachable state is well typed, whatever the number of slots, descriptors,
\* operations and workers, and whether or not slots are handed out again early.
THEOREM TypeCorrect == Spec => []TypeOK
BY TypeInit, TypeStep, PTL DEF Spec

-----------------------------------------------------------------------------
(* The poller and Reactor.waits. *)

\* A fiber is entered in waits only with a registration of its own, and what it is
\* registered for is taken back only together with its entry: by its own wake, its
\* own unwatch, or a close of a socket that nobody waits on.
LEMMA WaitsStep ==
  TypeOK /\ ~CloseParked /\ WaitsRegistered /\ [Next]_vars => WaitsRegistered'
<1> SUFFICES ASSUME TypeOK, ~CloseParked, WaitsRegistered, [Next]_vars PROVE WaitsRegistered'
  OBVIOUS
<1> USE ReactorAssumption
<1> USE DEF slotVars, fiberVars, tableVars, osVars, workerVars, netVars, pollVars, ghostVars
<1>1. ASSUME UNCHANGED <<waits, registered>> PROVE WaitsRegistered'
  BY <1>1 DEF WaitsRegistered
<1>2. ASSUME NEW f \in Fid, waits[f] # NoFd, waits' = [waits EXCEPT ![f] = NoFd],
             registered' = [registered EXCEPT ![waits[f]] = NoFid]
      PROVE  WaitsRegistered'
  <2> SUFFICES ASSUME NEW g \in Fid, waits'[g] # NoFd PROVE registered'[waits'[g]] = g
    BY DEF WaitsRegistered
  <2>1. g # f /\ waits'[g] = waits[g] /\ registered[waits[g]] = g /\ registered[waits[f]] = f
    BY <1>2 DEF TypeOK, WaitsRegistered
  <2>2. waits[g] # waits[f] /\ waits[g] \in Fd
    BY <2>1 DEF TypeOK
  <2> QED
    BY <1>2, <2>1, <2>2 DEF TypeOK
<1>3. ASSUME NEW f \in Fid, NEW s \in SockId, CallSocket(f, s) PROVE WaitsRegistered'
  <2>1. CASE UNCHANGED <<waits, registered>>
    BY <1>1, <2>1
  <2>2. CASE /\ sockets[s] \in Fd /\ registered[sockets[s]] = NoFid
             /\ registered' = [registered EXCEPT ![sockets[s]] = f]
             /\ waits' = [waits EXCEPT ![f] = sockets[s]]
    <3> SUFFICES ASSUME NEW g \in Fid, waits'[g] # NoFd PROVE registered'[waits'[g]] = g
      BY DEF WaitsRegistered
    <3>1. CASE g = f
      BY <2>2, <3>1 DEF TypeOK
    <3>2. CASE g # f
      <4>1. waits'[g] = waits[g] /\ waits[g] \in Fd /\ registered[waits[g]] = g
        BY <2>2, <3>2 DEF TypeOK, WaitsRegistered
      <4>2. waits[g] # sockets[s]
        BY <2>2, <4>1
      <4> QED
        BY <2>2, <4>1, <4>2 DEF TypeOK
    <3> QED
      BY <3>1, <3>2
  <2> QED
    BY <1>3, <2>1, <2>2 DEF CallSocket, RegisterSocket, TypeOK
<1>4. ASSUME NEW f \in Fid, NEW s \in SockId, CloseSocket(f, s) PROVE WaitsRegistered'
  <2> SUFFICES ASSUME NEW g \in Fid, waits'[g] # NoFd PROVE registered'[waits'[g]] = g
    BY DEF WaitsRegistered
  <2>1. waits' = waits /\ waits[g] # sockets[s]
        /\ registered' = [registered EXCEPT ![sockets[s]] = NoFid]
    BY <1>4 DEF CloseSocket
  <2>2. waits[g] \in Fd /\ registered[waits[g]] = g
    BY <2>1 DEF TypeOK, WaitsRegistered
  <2> QED
    BY <2>1, <2>2 DEF TypeOK
<1>5. ASSUME NEW f \in Fid, Reap(f) PROVE WaitsRegistered'
  BY <1>1, <1>2, <1>5 DEF Reap, Unwatch, Unwatched
<1>6. ASSUME NEW f \in Fid, PollEvent(f) PROVE WaitsRegistered'
  BY <1>1, <1>2, <1>6 DEF PollEvent
<1>7. ASSUME NEW f \in Fid, Retry(f) PROVE WaitsRegistered'
  <2>1. retry[f] \in Task
    BY DEF TypeOK
  <2>2. CASE retry[f].kind = "sock"
    BY <1>3, <1>7, <2>1, <2>2 DEF Retry, Task, NoTask
  <2>3. CASE retry[f].kind \in {"pool", "db"}
    <3>1. CallOffload(f, retry[f].kind, retry[f].arg)
      BY <1>7, <2>3 DEF Retry
    <3> QED
      BY <1>1, <3>1 DEF CallOffload
  <2>4. CASE retry[f].kind = "none"
    BY <1>1, <1>7, <2>4 DEF Retry
  <2> QED
    BY <2>1, <2>2, <2>3, <2>4 DEF Task, NoTask
<1>8. ASSUME NEW f \in Fid, NEW k \in {"pool", "db"}, StartOffload(f, k) PROVE WaitsRegistered'
  BY <1>1, <1>8 DEF StartOffload, CallOffload
<1>9. ASSUME NEW f \in Fid, NEW d \in Fd, OpenSocket(f, d) PROVE WaitsRegistered'
  BY <1>1, <1>9 DEF OpenSocket
<1>10. ASSUME NEW f \in Fid, \/ ParkOther(f) \/ Complete(f) \/ FireTimer(f) \/ Spawn(f)
                             \/ \E g \in Fid : WakeOther(f, g)
       PROVE  WaitsRegistered'
  BY <1>1, <1>10 DEF ParkOther, Complete, FireTimer, Spawn, WakeOther
<1>11. CASE \/ PollBuffered \/ PollNothing \/ PollLock \/ TimersDue \/ TimersDone
            \/ PollWait \/ PollDrain \/ PollReturn
  BY <1>1, <1>11 DEF PollBuffered, PollNothing, PollLock, TimersDue, TimersDone, PollWait,
                     PollDrain, PollReturn
<1>12. CASE WorkerStep
  BY <1>1, <1>12 DEF WorkerStep, WorkerTake, WorkerDone, PinnedDone, WorkerNotify
<1>13. ASSUME NEW d \in Fd, BecomeReadable(d) PROVE WaitsRegistered'
  BY <1>1, <1>13 DEF BecomeReadable
<1>14. CASE UNCHANGED vars
  BY <1>1, <1>14 DEF vars
<1>15. ASSUME NEW f \in Fid, NEW s \in SockId, StartSocketOp(f, s) PROVE WaitsRegistered'
  BY <1>3, <1>15 DEF StartSocketOp
<1> QED
  BY <1>4, <1>5, <1>6, <1>7, <1>8, <1>9, <1>10, <1>11, <1>12, <1>13, <1>14, <1>15
     DEF Next, SchedulerStep, FiberStep, PollStep

\* As long as no program closes a socket that another fiber waits on, every socket
\* wait the reactor records is one the poller has: whatever is cancelled, reused or
\* woken by mistake, readiness of the descriptor reaches the reactor under the
\* fiber's own token.
THEOREM WaitsAlwaysRegistered == Spec => [](CloseParked \/ WaitsRegistered)
<1> DEFINE Inv == TypeOK /\ (CloseParked \/ WaitsRegistered)
<1>1. Init => Inv
  BY TypeInit DEF Init, WaitsRegistered
<1>2. Inv /\ [Next]_vars => Inv'
  BY TypeStep, WaitsStep
<1> QED
  BY <1>1, <1>2, PTL DEF Spec

-----------------------------------------------------------------------------
(* Offloaded calls. A slot handed out while the reactor still names it may   *)
(* be woken for and given anything; every other slot keeps what is its own,  *)
(* however such slots, the workers and poll interfere. The argument follows  *)
(* the calls of one slot through the reactor: each is in exactly one place   *)
(* on its way (PipelineOf), a call that has still to run never ran before    *)
(* (FreshOf), and what the reactor's maps say of the slot is what its fiber  *)
(* waits for (SlotInv). A step of another slot touches none of this (Apart). *)

-----------------------------------------------------------------------------
(* Queues as sets. *)

Items(s)   == {s[i] : i \in DOMAIN s}
Once(s, x) == \A i, k \in DOMAIN s : s[i] = x /\ s[k] = x => i = k

\* The queue t holds x just when s does, and repeats it only if s does.
SameIn(s, t, x) == (x \in Items(t) <=> x \in Items(s)) /\ (Once(s, x) => Once(t, x))

\* Queueing adds the entry, repeats none that was not there, and leaves the others.
LEMMA ItemsAppend ==
  ASSUME NEW S, NEW s \in Seq(S), NEW x \in S
  PROVE  /\ Items(Append(s, x)) = Items(s) \cup {x}
         /\ x \notin Items(s) => Once(Append(s, x), x)
         /\ \A y : y # x => SameIn(s, Append(s, x), y)
<1>1. /\ Len(s) \in Nat /\ DOMAIN s = 1..Len(s)
      /\ DOMAIN Append(s, x) = 1..(Len(s) + 1)
      /\ \A i \in 1..Len(s) : Append(s, x)[i] = s[i]
      /\ Append(s, x)[Len(s) + 1] = x
  BY LenProperties, AppendProperties
<1>2. Items(Append(s, x)) \subseteq Items(s) \cup {x}
  BY <1>1 DEF Items
<1>3. Items(s) \cup {x} \subseteq Items(Append(s, x))
  BY <1>1 DEF Items
<1>4. ASSUME x \notin Items(s) PROVE Once(Append(s, x), x)
  BY <1>1, <1>4 DEF Items, Once
<1>5. ASSUME NEW y, y # x PROVE SameIn(s, Append(s, x), y)
  <2>1. Once(s, y) => Once(Append(s, x), y)
    BY <1>1, <1>5 DEF Once
  <2> QED
    BY <1>2, <1>3, <1>5, <2>1 DEF SameIn
<1> QED
  BY <1>2, <1>3, <1>4, <1>5

\* Taking the head of a queue removes an entry that was there once, and leaves the
\* others.
LEMMA ItemsTail ==
  ASSUME NEW S, NEW s \in Seq(S), s # <<>>
  PROVE  /\ Head(s) \in Items(s)
         /\ Once(s, Head(s)) => Head(s) \notin Items(Tail(s)) /\ Once(Tail(s), Head(s))
         /\ \A y : y # Head(s) => SameIn(s, Tail(s), y)
<1>1. /\ Len(s) \in Nat \ {0} /\ DOMAIN s = 1..Len(s) /\ Head(s) = s[1]
      /\ DOMAIN Tail(s) = 1..(Len(s) - 1)
      /\ \A i \in 1..(Len(s) - 1) : Tail(s)[i] = s[i + 1]
  BY EmptySeq, LenProperties, HeadTailProperties
<1>2. Head(s) \in Items(s)
  BY <1>1 DEF Items
<1>3. ASSUME NEW y, y \in Items(Tail(s)) PROVE \E i \in 1..(Len(s) - 1) : s[i + 1] = y
  BY <1>1, <1>3 DEF Items
<1>4. ASSUME Once(s, Head(s)), Head(s) \in Items(Tail(s)) PROVE FALSE
  <2>1. PICK i \in 1..(Len(s) - 1) : s[i + 1] = Head(s)
    BY <1>3, <1>4
  <2>2. i + 1 \in DOMAIN s /\ 1 \in DOMAIN s /\ i + 1 # 1
    BY <1>1
  <2> QED
    BY <1>1, <1>4, <2>1, <2>2 DEF Once
<1>5. ASSUME NEW y, Once(s, y) PROVE Once(Tail(s), y)
  <2> SUFFICES ASSUME NEW i \in 1..(Len(s) - 1), NEW k \in 1..(Len(s) - 1),
                      Tail(s)[i] = y, Tail(s)[k] = y
               PROVE  i = k
    BY <1>1 DEF Once
  <2>1. i + 1 \in DOMAIN s /\ k + 1 \in DOMAIN s /\ s[i + 1] = y /\ s[k + 1] = y
    BY <1>1
  <2> QED
    BY <1>5, <2>1 DEF Once
<1>6. ASSUME NEW y, y # Head(s), y \in Items(s) PROVE y \in Items(Tail(s))
  <2>1. PICK i \in 1..Len(s) : y = s[i]
    BY <1>1, <1>6 DEF Items
  <2>2. i - 1 \in 1..(Len(s) - 1) /\ Tail(s)[i - 1] = y
    BY <1>1, <1>6, <2>1
  <2> QED
    BY <1>1, <2>2 DEF Items
<1>7. ASSUME NEW y, y \in Items(Tail(s)) PROVE y \in Items(s)
  <2>1. PICK i \in 1..(Len(s) - 1) : s[i + 1] = y
    BY <1>3, <1>7
  <2>2. i + 1 \in DOMAIN s
    BY <1>1
  <2> QED
    BY <2>1, <2>2 DEF Items
<1> QED
  BY <1>2, <1>4, <1>5, <1>6, <1>7 DEF SameIn

-----------------------------------------------------------------------------
(* The inductive invariant. *)

\* The calls of a slot, and where a call is on its way.
Calls(f) == {j \in Job : j.fid = f}

Queued(j)  == j \in Items(jobs)
Worked(j)  == \E w \in Worker : working[w] = j
Pinned(j)  == j \in Items(pinned)
Landed(j)  == j \in Items(completions)
Unrun(j)   == Queued(j) \/ Worked(j) \/ Pinned(j)
Carried(j) == Unrun(j) \/ Landed(j)

\* A call is in one place at a time.
OnePlace(j) ==
  /\ Once(jobs, j) /\ Once(pinned, j) /\ Once(completions, j)
  /\ \A v, w \in Worker : working[v] = j /\ working[w] = j => v = w
  /\ Queued(j) => ~Worked(j) /\ ~Pinned(j) /\ ~Landed(j)
  /\ Worked(j) => ~Pinned(j) /\ ~Landed(j)
  /\ Pinned(j) => ~Landed(j)

\* A slot has one call on its way, and is in inflight just while it has.
PipelineOf(f) ==
  /\ \A j \in Calls(f) : OnePlace(j)
  /\ \A j, k \in Calls(f) : Carried(j) /\ Carried(k) => j = k
  /\ f \in inflight <=> \E j \in Calls(f) : Carried(j)

\* A call that has still to run was started and has not run.
FreshCall(j) ==
  /\ Unrun(j) => j.op < nextOp /\ execs[j] = 0
  /\ execs[j] <= 1
  /\ j.op >= nextOp => execs[j] = 0

FreshOf(f) == \A j \in Calls(f) : FreshCall(j)

\* What the reactor keeps of a slot, by what its fiber does.
Buffered(f) == f \in Items(ready)

Quiet(f) == waits[f] = NoFd /\ done[f] = NoOp /\ f \notin inflight /\ ~Buffered(f)

Ended(f) ==
  /\ waits[f] = NoFd /\ done[f] = NoOp
  /\ f \in inflight => f \in discarded /\ ~Buffered(f)

Restarted(f) ==
  /\ waits[f] = NoFd /\ f \notin inflight /\ ~Buffered(f)
  /\ retry[f].kind # "none"
  /\ done[f] = (IF retry[f].kind = "sock" THEN NoOp ELSE retry[f].arg)

OnSocket(f) == done[f] = NoOp /\ f \notin inflight /\ (waits[f] = NoFd <=> Buffered(f))

OnOffload(f) ==
  /\ retry[f].kind \in {"pool", "db"} /\ waits[f] = NoFd
  /\ \/ /\ f \in inflight \ discarded /\ done[f] = NoOp /\ ~Buffered(f)
        /\ Carried([fid |-> f, op |-> retry[f].arg])
     \/ f \notin inflight /\ done[f] = retry[f].arg /\ Buffered(f)

SlotInv(f) ==
  /\ status[f] \in {"run", "other"} => Quiet(f)
  /\ status[f] = "free" => Ended(f)
  /\ status[f] = "woken" => Restarted(f)
  /\ status[f] = "io" => IF retry[f].kind = "sock" THEN OnSocket(f) ELSE OnOffload(f)

Own(f) == SlotInv(f) /\ PipelineOf(f) /\ FreshOf(f) /\ Once(ready, f)

CallInv == TypeOK /\ \A f \in Fid \ early : Own(f)

\* The reactor starts with nothing on its way.
LEMMA CallInit == Init => CallInv
<1> SUFFICES ASSUME Init PROVE CallInv
  OBVIOUS
<1>1. Items(<<>>) = {} /\ \A x : Once(<<>>, x)
  BY DEF Items, Once
<1>2. ASSUME NEW f \in Fid, NEW j \in Calls(f) PROVE ~Carried(j) /\ OnePlace(j) /\ FreshCall(j)
  <2>1. j # NoJob /\ j \in Job
    BY <1>2, ReactorAssumption DEF Calls, Job, NoJob
  <2>2. ~Queued(j) /\ ~Worked(j) /\ ~Pinned(j) /\ ~Landed(j)
    BY <1>1, <2>1 DEF Init, Queued, Worked, Pinned, Landed
  <2>3. \A v, w \in Worker : working[v] = j /\ working[w] = j => v = w
    BY <2>1 DEF Init
  <2>4. execs[j] = 0
    BY <2>1 DEF Init
  <2> QED
    BY <1>1, <2>2, <2>3, <2>4 DEF Init, Carried, Unrun, OnePlace, FreshCall
<1>3. ASSUME NEW f \in Fid PROVE Own(f)
  <2>1. PipelineOf(f) /\ FreshOf(f)
    BY <1>2 DEF Init, PipelineOf, FreshOf
  <2>2. SlotInv(f) /\ Once(ready, f)
    BY <1>1 DEF Init, SlotInv, Ended, Buffered
  <2> QED
    BY <2>1, <2>2 DEF Own
<1> QED
  BY <1>3, TypeInit DEF CallInv

-----------------------------------------------------------------------------
(* What a step leaves alone. *)

SameCall(j) ==
  /\ SameIn(jobs, jobs', j) /\ SameIn(pinned, pinned', j)
  /\ SameIn(completions, completions', j)
  /\ \A w \in Worker : working'[w] = j <=> working[w] = j
  /\ execs'[j] = execs[j]

SameSlot(g) ==
  /\ status'[g] = status[g] /\ retry'[g] = retry[g] /\ waits'[g] = waits[g]
  /\ done'[g] = done[g]
  /\ g \in inflight' <=> g \in inflight
  /\ g \in discarded' <=> g \in discarded
  /\ SameIn(ready, ready', g)

\* A step of other slots: it moves none of this slot's calls and changes nothing the
\* reactor keeps of it.
Apart(g) == SameSlot(g) /\ \A j \in Calls(g) : SameCall(j)

\* A call that no queue, no worker and no counter gained or lost.
LEMMA CallFrame ==
  ASSUME NEW j, SameCall(j)
  PROVE  /\ OnePlace(j) => OnePlace(j)'
         /\ Unrun(j)' <=> Unrun(j)
         /\ Carried(j)' <=> Carried(j)
<1>1. /\ Queued(j)' <=> Queued(j)
      /\ Worked(j)' <=> Worked(j)
      /\ Pinned(j)' <=> Pinned(j)
      /\ Landed(j)' <=> Landed(j)
  BY DEF SameCall, SameIn, Queued, Worked, Pinned, Landed
<1>2. ASSUME OnePlace(j) PROVE OnePlace(j)'
  <2>1. /\ (Once(jobs, j) => Once(jobs', j)) /\ (Once(pinned, j) => Once(pinned', j))
        /\ (Once(completions, j) => Once(completions', j))
        /\ \A w \in Worker : working'[w] = j <=> working[w] = j
    BY DEF SameCall, SameIn
  <2>2. Once(jobs, j)' /\ Once(pinned, j)' /\ Once(completions, j)'
    BY <1>2, <2>1 DEF OnePlace, Once
  <2> QED
    BY <1>1, <1>2, <2>1, <2>2 DEF OnePlace
<1> QED
  BY <1>1, <1>2 DEF Unrun, Carried

\* A slot of which the reactor keeps what it kept, no call of which was dropped.
LEMMA SlotFrame ==
  ASSUME NEW g \in Fid, TypeOK, SlotInv(g), SameSlot(g),
         \A j \in Calls(g) : Carried(j) => Carried(j)'
  PROVE  SlotInv(g)'
<1>1. Buffered(g)' <=> Buffered(g)
  BY DEF SameSlot, SameIn, Buffered
<1>2. ASSUME Carried([fid |-> g, op |-> retry[g].arg]), OnOffload(g)
      PROVE  Carried([fid |-> g, op |-> retry[g].arg])'
  <2>1. retry[g] \in Task /\ retry'[g] = retry[g]
    BY DEF TypeOK, SameSlot
  <2>2. retry[g].arg \in Op
    BY <1>2, <2>1 DEF OnOffload, Task, NoTask
  <2>3. PICK j \in Calls(g) : j = [fid |-> g, op |-> retry[g].arg]
    BY <2>2 DEF Calls, Job
  <2>4. Carried(j)'
    BY <1>2, <2>3
  <2> QED
    BY <2>1, <2>3, <2>4
<1>3. OnOffload(g) => OnOffload(g)'
  BY <1>1, <1>2 DEF SameSlot, OnOffload
<1> QED
  BY <1>1, <1>3 DEF SameSlot, SlotInv, Quiet, Ended, Restarted, OnSocket

\* The calls of a slot none of which moved.
LEMMA CallsFrame ==
  ASSUME NEW g \in Fid, TypeOK, TypeOK', PipelineOf(g), FreshOf(g),
         g \in inflight' <=> g \in inflight, nextOp' >= nextOp,
         \A j \in Calls(g) : SameCall(j)
  PROVE  PipelineOf(g)' /\ FreshOf(g)'
<1>1. ASSUME NEW j \in Calls(g)
      PROVE  OnePlace(j)' /\ (Unrun(j)' <=> Unrun(j)) /\ (Carried(j)' <=> Carried(j))
  BY <1>1, CallFrame DEF PipelineOf
<1>2. PipelineOf(g)'
  BY <1>1 DEF PipelineOf
<1>3. ASSUME NEW j \in Calls(g) PROVE FreshCall(j)'
  <2>1. FreshCall(j) /\ execs'[j] = execs[j]
    BY DEF FreshOf, SameCall
  <2>2. j.op \in Int /\ nextOp \in Int /\ nextOp' \in Int
    BY DEF Calls, Job, Op, TypeOK
  <2> QED
    BY <1>1, <2>1, <2>2 DEF FreshCall
<1> QED
  BY <1>2, <1>3 DEF FreshOf

\* A step of other slots keeps what a slot has of its own.
LEMMA Frame ==
  ASSUME NEW g \in Fid, TypeOK, TypeOK', Own(g), Apart(g), nextOp' >= nextOp
  PROVE  Own(g)'
<1>1. PipelineOf(g)' /\ FreshOf(g)'
  BY CallsFrame DEF Own, Apart, SameSlot
<1>2. SlotInv(g)'
  <2>1. \A j \in Calls(g) : Carried(j) => Carried(j)'
    BY CallFrame DEF Apart
  <2> QED
    BY <2>1, SlotFrame DEF Own, Apart
<1>3. Once(ready, g)'
  BY DEF Own, Apart, SameSlot, SameIn, Once
<1> QED
  BY <1>1, <1>2, <1>3 DEF Own

\* A step of one slot.
LEMMA Others ==
  ASSUME NEW f \in Fid, CallInv, TypeOK', early \subseteq early', nextOp' >= nextOp,
         \A g \in Fid \ {f} : Apart(g),
         f \notin early' => Own(f)'
  PROVE  CallInv'
<1> SUFFICES ASSUME NEW g \in Fid, g \notin early' PROVE Own(g)'
  BY DEF CallInv
<1>1. TypeOK /\ Own(g)
  BY DEF CallInv
<1> QED
  BY <1>1, Frame

\* Queues, workers and counters that do not change.
LEMMA CallsStay ==
  ASSUME UNCHANGED <<jobs, working, pinned, completions, execs>>
  PROVE  \A j : SameCall(j)
BY DEF SameCall, SameIn

\* A step that changes neither the calls nor what the reactor keeps of any slot but f.
LEMMA OneSlot ==
  ASSUME NEW f \in Fid, CallInv, TypeOK', early \subseteq early',
         UNCHANGED <<jobs, working, pinned, completions, inflight, execs, nextOp, ready>>,
         \A g \in Fid \ {f} :
           /\ status'[g] = status[g] /\ retry'[g] = retry[g] /\ waits'[g] = waits[g]
           /\ done'[g] = done[g]
           /\ g \in discarded' <=> g \in discarded,
         f \notin early' => SlotInv(f)'
  PROVE  CallInv'
<1>0. TypeOK /\ nextOp' >= nextOp
  <2>1. TypeOK
    BY DEF CallInv
  <2>2. nextOp \in Int /\ nextOp' = nextOp
    BY <2>1 DEF TypeOK
  <2> QED
    BY <2>1, <2>2
<1>1. \A j : SameCall(j)
  BY CallsStay
<1>2. ASSUME NEW g \in Fid \ {f} PROVE Apart(g)
  BY <1>1 DEF Apart, SameSlot, SameIn
<1>3. ASSUME f \notin early' PROVE Own(f)'
  <2>1. Own(f)
    BY <1>3 DEF CallInv
  <2>2. PipelineOf(f)' /\ FreshOf(f)'
    BY <1>0, <1>1, <2>1, CallsFrame DEF Own
  <2>3. Once(ready, f)'
    BY <2>1 DEF Own, Once
  <2> QED
    BY <1>3, <2>2, <2>3 DEF Own
<1> QED
  BY <1>0, <1>2, <1>3, Others

\* A step that changes no slot and no call.
LEMMA NoSlot ==
  ASSUME CallInv, TypeOK', UNCHANGED <<fiberVars, tableVars, jobs, working, pinned, completions,
                                       execs, nextOp>>
  PROVE  CallInv'
<1> USE DEF fiberVars, slotVars, tableVars
<1>0. TypeOK /\ nextOp' >= nextOp
  <2>1. TypeOK
    BY DEF CallInv
  <2>2. nextOp \in Int /\ nextOp' = nextOp
    BY <2>1 DEF TypeOK
  <2> QED
    BY <2>1, <2>2
<1>1. \A j : SameCall(j)
  BY CallsStay
<1>2. \A g \in Fid : Apart(g)
  BY <1>1 DEF Apart, SameSlot, SameIn
<1>3. ASSUME NEW g \in Fid, g \notin early' PROVE Own(g)'
  <2>1. Own(g)
    BY <1>3 DEF CallInv
  <2> QED
    BY <1>0, <1>2, <2>1, Frame
<1> QED
  BY <1>3 DEF CallInv

\* One call of the slot moved on and is still on its way.
LEMMA Moved ==
  ASSUME NEW f \in Fid, NEW j \in Calls(f), TypeOK, TypeOK', Own(f), SameSlot(f),
         \A k \in Calls(f) : k # j => SameCall(k),
         Carried(j), Carried(j)', OnePlace(j)', FreshCall(j)', nextOp' = nextOp
  PROVE  Own(f)'
<1>1. ASSUME NEW k \in Calls(f)
      PROVE  OnePlace(k)' /\ (Carried(k)' <=> Carried(k)) /\ FreshCall(k)'
  <2>1. CASE k = j
    BY <2>1
  <2>2. CASE k # j
    <3>1. /\ OnePlace(k)' /\ (Unrun(k)' <=> Unrun(k)) /\ (Carried(k)' <=> Carried(k))
          /\ execs'[k] = execs[k]
      BY <2>2, CallFrame DEF Own, PipelineOf, SameCall
    <3>2. FreshCall(k)
      BY DEF Own, FreshOf
    <3> QED
      BY <3>1, <3>2 DEF FreshCall
  <2> QED
    BY <2>1, <2>2
<1>2. PipelineOf(f)' /\ FreshOf(f)'
  BY <1>1 DEF Own, PipelineOf, FreshOf, SameSlot
<1>3. SlotInv(f)'
  BY <1>1, SlotFrame DEF Own
<1>4. Once(ready, f)'
  BY DEF Own, SameSlot, SameIn, Once
<1> QED
  BY <1>2, <1>3, <1>4 DEF Own

-----------------------------------------------------------------------------
(* The steps of fibers. *)

\* A socket call of a fiber the reactor keeps nothing of: it goes on running, or
\* parks with an entry in waits.
LEMMA SocketCall ==
  ASSUME NEW f \in Fid, NEW s \in SockId, CallInv, TypeOK', CallSocket(f, s), nextOp' = nextOp,
         f \notin early => Quiet(f)
  PROVE  CallInv'
<1> USE DEF slotVars, fiberVars, tableVars, osVars, workerVars, netVars, pollVars, ghostVars
<1>0. TypeOK
  BY DEF CallInv
<1>1. UNCHANGED <<jobs, working, pinned, completions, inflight, execs, nextOp, ready,
                  done, early, discarded>>
  BY DEF CallSocket
<1>2. \A g \in Fid \ {f} : status'[g] = status[g] /\ retry'[g] = retry[g] /\ waits'[g] = waits[g]
  BY <1>0 DEF CallSocket, RegisterSocket, TypeOK
<1>3. ASSUME f \notin early' PROVE SlotInv(f)'
  <2>0. Quiet(f)
    BY <1>1, <1>3
  <2>1. CASE status'[f] = "run"
    <3>1. waits' = waits
      BY <1>0, <2>1 DEF CallSocket, RegisterSocket, TypeOK
    <3> QED
      BY <1>1, <2>0, <2>1, <3>1 DEF SlotInv, Quiet, Buffered
  <2>2. CASE status'[f] = "io"
    <3>1. waits'[f] \in Fd
      BY <1>0, <2>2 DEF CallSocket, RegisterSocket, TypeOK
    <3>2. retry'[f] = [kind |-> "sock", arg |-> s]
      BY <1>0, <2>2 DEF CallSocket, TypeOK
    <3> QED
      BY <1>1, <2>0, <2>2, <3>1, <3>2, ReactorAssumption DEF SlotInv, Quiet, Buffered, OnSocket
  <2>3. status'[f] \in {"run", "io"}
    BY <1>0 DEF CallSocket, RegisterSocket, TypeOK
  <2> QED
    BY <2>1, <2>2, <2>3
<1> QED
  BY <1>1, <1>2, <1>3, OneSlot

\* Whatever an offloaded call of a slot does, its job and its result are that slot's.
LEMMA OffloadApart ==
  ASSUME NEW f \in Fid, NEW kind \in {"pool", "db"}, NEW o \in Op, TypeOK, CallOffload(f, kind, o)
  PROVE  early' = early /\ \A g \in Fid \ {f} : Apart(g)
<1> USE DEF slotVars, fiberVars, tableVars, osVars, workerVars, netVars, pollVars, ghostVars
<1> DEFINE i == [fid |-> f, op |-> o]
<1>1. UNCHANGED <<early, waits, ready, discarded, working, completions, execs>>
  BY DEF CallOffload
<1>2. ASSUME NEW g \in Fid \ {f} PROVE SameSlot(g)
  <2>1. status'[g] = status[g] /\ retry'[g] = retry[g] /\ done'[g] = done[g]
    BY DEF CallOffload, Collect, TypeOK
  <2>2. g \in inflight' <=> g \in inflight
    BY DEF CallOffload, SubmitJob
  <2> QED
    BY <1>1, <2>1, <2>2 DEF SameSlot, SameIn
<1>3. ASSUME NEW g \in Fid \ {f}, NEW j \in Calls(g) PROVE SameCall(j)
  <2>1. i \in Job /\ j # i
    BY DEF Calls, Job
  <2>2. SameIn(jobs, Append(jobs, i), j) /\ SameIn(pinned, Append(pinned, i), j)
    BY <2>1, ItemsAppend DEF TypeOK
  <2>3. jobs' \in {jobs, Append(jobs, i)} /\ pinned' \in {pinned, Append(pinned, i)}
    BY DEF CallOffload, SubmitJob
  <2>4. SameIn(jobs, jobs', j) /\ SameIn(pinned, pinned', j)
    BY <2>2, <2>3 DEF SameIn
  <2> QED
    BY <1>1, <2>4 DEF SameCall, SameIn
<1> QED
  BY <1>1, <1>2, <1>3 DEF Apart

\* A call queued for a slot that has none on its way, under a number never used.
LEMMA Submitted ==
  ASSUME NEW f \in Fid, NEW j \in Calls(f), TypeOK, TypeOK', PipelineOf(f), FreshOf(f),
         f \notin inflight, inflight' = inflight \cup {f}, j.op = nextOp, nextOp' = nextOp + 1,
         UNCHANGED <<working, completions, execs>>,
         \/ jobs' = Append(jobs, j) /\ pinned' = pinned
         \/ pinned' = Append(pinned, j) /\ jobs' = jobs
  PROVE  PipelineOf(f)' /\ FreshOf(f)' /\ Carried(j)'
<1>0. j \in Job /\ \A k \in Calls(f) : ~Carried(k)
  BY DEF Calls, PipelineOf
<1>1. /\ Items(Append(jobs, j)) = Items(jobs) \cup {j}
      /\ Items(Append(pinned, j)) = Items(pinned) \cup {j}
      /\ Once(Append(jobs, j), j) /\ Once(Append(pinned, j), j)
      /\ \A k : k # j => SameIn(jobs, Append(jobs, j), k) /\ SameIn(pinned, Append(pinned, j), k)
  <2>1. j \notin Items(jobs) /\ j \notin Items(pinned)
    BY <1>0 DEF Carried, Unrun, Queued, Pinned
  <2> QED
    <3>1. jobs \in Seq(Job) /\ pinned \in Seq(Job)
      BY DEF TypeOK
    <3>2. /\ Items(Append(jobs, j)) = Items(jobs) \cup {j} /\ Once(Append(jobs, j), j)
          /\ \A k : k # j => SameIn(jobs, Append(jobs, j), k)
      BY <1>0, <2>1, <3>1, ItemsAppend
    <3>3. /\ Items(Append(pinned, j)) = Items(pinned) \cup {j} /\ Once(Append(pinned, j), j)
          /\ \A k : k # j => SameIn(pinned, Append(pinned, j), k)
      BY <1>0, <2>1, <3>1, ItemsAppend
    <3> QED
      BY <3>2, <3>3
<1>2. ASSUME NEW k \in Calls(f), k # j PROVE SameCall(k)
  BY <1>1, <1>2 DEF SameCall, SameIn
<1>3. OnePlace(j)' /\ Carried(j)'
  <2>1. OnePlace(j) /\ ~Queued(j) /\ ~Worked(j) /\ ~Pinned(j) /\ ~Landed(j)
    BY <1>0 DEF PipelineOf, Carried, Unrun
  <2>2. /\ (Worked(j)' <=> Worked(j)) /\ (Landed(j)' <=> Landed(j)) /\ Once(completions, j)'
        /\ \A v, w \in Worker : working'[v] = j /\ working'[w] = j => v = w
    BY <2>1 DEF Worked, Landed, OnePlace, Once
  <2>3. CASE jobs' = Append(jobs, j) /\ pinned' = pinned
    <3>1. Queued(j)' /\ Once(jobs, j)' /\ (Pinned(j)' <=> Pinned(j)) /\ Once(pinned, j)'
      BY <1>1, <2>1, <2>3 DEF Queued, Pinned, OnePlace, Once
    <3> QED
      BY <2>1, <2>2, <3>1 DEF OnePlace, Carried, Unrun
  <2>4. CASE pinned' = Append(pinned, j) /\ jobs' = jobs
    <3>1. Pinned(j)' /\ Once(pinned, j)' /\ (Queued(j)' <=> Queued(j)) /\ Once(jobs, j)'
      BY <1>1, <2>1, <2>4 DEF Queued, Pinned, OnePlace, Once
    <3> QED
      BY <2>1, <2>2, <3>1 DEF OnePlace, Carried, Unrun
  <2> QED
    BY <2>3, <2>4
<1>4. ASSUME NEW k \in Calls(f), k # j PROVE OnePlace(k)' /\ ~Carried(k)' /\ ~Unrun(k)'
  <2>1. SameCall(k) /\ OnePlace(k) /\ ~Carried(k)
    BY <1>0, <1>2, <1>4 DEF PipelineOf
  <2>2. OnePlace(k)' /\ ~Carried(k)'
    BY <2>1, CallFrame
  <2> QED
    BY <2>2 DEF Carried
<1>5. PipelineOf(f)'
  BY <1>3, <1>4 DEF PipelineOf
<1>6. ASSUME NEW k \in Calls(f) PROVE FreshCall(k)'
  <2>1. FreshCall(k) /\ FreshCall(j)
    BY DEF FreshOf
  <2>0. k.op \in Nat /\ nextOp \in Nat
    BY DEF Calls, Job, Op, TypeOK
  <2>2. CASE k = j
    BY <2>0, <2>1, <2>2 DEF FreshCall
  <2>3. CASE k # j
    BY <1>4, <2>0, <2>1, <2>3 DEF FreshCall
  <2> QED
    BY <2>2, <2>3
<1> QED
  BY <1>3, <1>5, <1>6 DEF FreshOf

\* The first attempt of an offloaded call submits it: its number is new, and no
\* other call of the slot is on its way. Only a slot handed out early can find a
\* result, left by another call.
LEMMA OffloadSubmitted ==
  ASSUME NEW f \in Fid, NEW kind \in {"pool", "db"}, CallInv, TypeOK', StartOffload(f, kind)
  PROVE  /\ CallInv'
         /\ got' = got \/ \E o, r \in Op : got' = got \cup {<<f, o, r>>} /\ (f \in early \/ o = r)
<1> USE DEF slotVars, fiberVars, tableVars, osVars, workerVars, netVars, pollVars, ghostVars
<1>0. TypeOK /\ status[f] = "run" /\ nextOp \in Op /\ nextOp' = nextOp + 1
      /\ CallOffload(f, kind, nextOp)
  BY DEF CallInv, StartOffload, Running
<1>1. early' = early /\ \A g \in Fid \ {f} : Apart(g)
  BY <1>0, OffloadApart
<1>2. ASSUME f \notin early PROVE Own(f)' /\ got' = got
  <2>0. Own(f) /\ Quiet(f) /\ f \notin discarded
    BY <1>0, <1>2 DEF CallInv, Own, SlotInv, Quiet, TypeOK
  <2>1. PICK j \in Calls(f) : j = [fid |-> f, op |-> nextOp]
    BY <1>0 DEF Calls, Job
  <2>2. /\ UNCHANGED <<done, got, waits, ready, discarded, working, completions, execs>>
        /\ inflight' = inflight \cup {f}
        /\ \/ jobs' = Append(jobs, j) /\ pinned' = pinned
           \/ pinned' = Append(pinned, j) /\ jobs' = jobs
        /\ status' = [status EXCEPT ![f] = "io"]
        /\ retry' = [retry EXCEPT ![f] = [kind |-> kind, arg |-> nextOp]]
    BY <1>0, <2>0, <2>1 DEF CallOffload, SubmitJob, Quiet
  <2>3. PipelineOf(f)' /\ FreshOf(f)' /\ Carried(j)'
    BY <1>0, <2>0, <2>1, <2>2, Submitted DEF Own, Quiet
  <2>4. status'[f] = "io" /\ retry'[f] = [kind |-> kind, arg |-> nextOp]
    BY <1>0, <2>2 DEF TypeOK
  <2>5. OnOffload(f)'
    <3>1. j = [fid |-> f, op |-> retry'[f].arg]
      BY <2>1, <2>4
    <3> QED
      BY <2>0, <2>2, <2>3, <2>4, <3>1 DEF OnOffload, Quiet, Buffered
  <2>6. Once(ready, f)'
    BY <2>0, <2>2 DEF Own, Once
  <2> QED
    BY <2>2, <2>3, <2>4, <2>5, <2>6 DEF Own, SlotInv
<1>3. got' = got \/ (got' = got \cup {<<f, nextOp, done[f]>>} /\ done[f] \in Op)
  <2>1. done[f] \in Op \cup {NoOp}
    BY <1>0 DEF TypeOK
  <2>2. CASE done[f] = NoOp
    BY <1>0, <2>2 DEF CallOffload
  <2>3. CASE done[f] # NoOp
    <3>1. got' = got \cup {<<f, nextOp, done[f]>>}
      BY <1>0, <2>3 DEF CallOffload
    <3> QED
      BY <2>1, <2>3, <3>1
  <2> QED
    BY <2>2, <2>3
<1>4. nextOp' >= nextOp
  BY <1>0 DEF Op
<1>5. CallInv'
  BY <1>1, <1>2, <1>4, Others
<1> QED
  BY <1>0, <1>2, <1>3, <1>5

\* A fiber started again after its wake finds what it waits for: a socket call is
\* made again, an offloaded one collects the result of the very call it submitted.
LEMMA Restart ==
  ASSUME NEW f \in Fid, CallInv, TypeOK', Retry(f)
  PROVE  /\ CallInv'
         /\ got' = got \/ \E o, r \in Op : got' = got \cup {<<f, o, r>>} /\ (f \in early \/ o = r)
<1> USE DEF slotVars, fiberVars, tableVars, osVars, workerVars, netVars, pollVars, ghostVars
<1>0. TypeOK /\ status[f] = "woken" /\ retry[f] \in Task
  BY DEF CallInv, Retry, TypeOK
<1>1. f \notin early => Own(f) /\ Restarted(f)
  BY <1>0 DEF CallInv, Own, SlotInv
<1>2. CASE retry[f].kind = "sock"
  <2>1. retry[f].arg \in SockId /\ CallSocket(f, retry[f].arg)
    BY <1>0, <1>2 DEF Retry, Task, NoTask
  <2>2. f \notin early => Quiet(f)
    BY <1>1, <1>2 DEF Quiet, Restarted
  <2>3. got' = got /\ nextOp' = nextOp
    BY <2>1 DEF CallSocket
  <2> QED
    BY <2>1, <2>2, <2>3, SocketCall
<1>3. CASE retry[f].kind \in {"pool", "db"}
  <2> DEFINE o == retry[f].arg
  <2>0. o \in Op
    BY <1>0, <1>3 DEF Task, NoTask
  <2>1. CallOffload(f, retry[f].kind, o) /\ nextOp' = nextOp
    BY <1>3 DEF Retry
  <2>2. early' = early /\ \A g \in Fid \ {f} : Apart(g)
    BY <1>0, <1>3, <2>0, <2>1, OffloadApart
  <2>3. ASSUME f \notin early PROVE Own(f)' /\ done[f] = o /\ done[f] # NoOp
    <3>1. done[f] = o /\ done[f] # NoOp
      BY <1>1, <1>3, <2>0, <2>3 DEF Restarted, Op, NoOp
    <3>2. /\ done' = [done EXCEPT ![f] = NoOp] /\ status' = [status EXCEPT ![f] = "run"]
          /\ UNCHANGED <<inflight, jobs, pinned, retry, waits, ready, discarded, working,
                         completions, execs, nextOp>>
      BY <2>1, <3>1 DEF CallOffload, Collect
    <3>3. SlotInv(f)'
      BY <1>0, <1>1, <2>3, <3>2 DEF TypeOK, Restarted, SlotInv, Quiet, Buffered
    <3>4. PipelineOf(f)' /\ FreshOf(f)'
      <4>1. \A j : SameCall(j)
        BY <3>2, CallsStay
      <4>2. nextOp' >= nextOp
        BY <1>0, <3>2 DEF TypeOK
      <4> QED
        BY <1>0, <1>1, <2>3, <3>2, <4>1, <4>2, CallsFrame DEF Own
    <3>5. Once(ready, f)'
      BY <1>1, <2>3, <3>2 DEF Own, Once
    <3> QED
      BY <3>1, <3>3, <3>4, <3>5 DEF Own
  <2>4. CallInv'
    <3>1. nextOp' >= nextOp
      BY <1>0, <2>1 DEF TypeOK
    <3> QED
      BY <2>2, <2>3, <3>1, Others
  <2>5. got' = got \/ (got' = got \cup {<<f, o, done[f]>>} /\ done[f] \in Op)
    <3>1. done[f] \in Op \cup {NoOp}
      BY <1>0 DEF TypeOK
    <3>2. CASE done[f] = NoOp
      BY <2>1, <3>2 DEF CallOffload
    <3>3. CASE done[f] # NoOp
      <4>1. got' = got \cup {<<f, o, done[f]>>}
        BY <2>1, <3>3 DEF CallOffload
      <4> QED
        BY <3>1, <3>3, <4>1
    <3> QED
      BY <3>2, <3>3
  <2> QED
    BY <2>0, <2>3, <2>4, <2>5
<1>4. CASE retry[f].kind = "none"
  <2>1. UNCHANGED <<fiberVars, tableVars, jobs, working, pinned, completions, execs, nextOp, got>>
    BY <1>0, <1>4 DEF Retry
  <2> QED
    BY <2>1, NoSlot
<1> QED
  BY <1>0, <1>2, <1>3, <1>4 DEF Task, NoTask

\* A fiber that runs, parks elsewhere, is woken from there or ends has nothing in
\* the reactor.
LEMMA RunStep ==
  ASSUME NEW f \in Fid, CallInv, TypeOK',
         ParkOther(f) \/ Complete(f) \/ FireTimer(f) \/ \E g \in Fid : WakeOther(f, g)
  PROVE  CallInv'
<1> USE DEF slotVars, fiberVars, tableVars, osVars, workerVars, netVars, pollVars, ghostVars
<1>0. TypeOK /\ status[f] \in {"run", "other"}
  BY DEF CallInv, ParkOther, Complete, FireTimer, WakeOther, Running
<1>2. UNCHANGED <<jobs, working, pinned, completions, inflight, execs, nextOp, ready,
                  done, early, discarded, waits>>
  BY DEF ParkOther, Complete, FireTimer, WakeOther
<1>3. \A g \in Fid \ {f} : status'[g] = status[g] /\ retry'[g] = retry[g]
  BY <1>0, ZenonT(40) DEF ParkOther, Complete, FireTimer, WakeOther, TypeOK
<1>4. status'[f] \in {"run", "other", "free"}
  BY <1>0 DEF ParkOther, Complete, FireTimer, WakeOther, TypeOK
<1>5. ASSUME f \notin early' PROVE SlotInv(f)'
  <2>1. Quiet(f)
    BY <1>0, <1>2, <1>5 DEF CallInv, Own, SlotInv
  <2> QED
    BY <1>2, <1>4, <2>1 DEF SlotInv, Quiet, Ended, Buffered
<1> QED
  BY <1>2, <1>3, <1>5, OneSlot

\* A new fiber begins with nothing in the reactor, unless its slot was still named
\* there, which makes it an early one.
LEMMA SpawnStep ==
  ASSUME NEW f \in Fid, CallInv, TypeOK', Spawn(f)
  PROVE  CallInv' /\ early \subseteq early'
<1> USE DEF slotVars, fiberVars, tableVars, osVars, workerVars, netVars, pollVars, ghostVars
<1>0. TypeOK /\ status[f] = "free"
  BY DEF CallInv, Spawn
<1>1. /\ UNCHANGED <<jobs, working, pinned, completions, inflight, execs, nextOp, ready,
                     done, discarded, waits>>
      /\ early \subseteq early' /\ (f \notin early' => f \notin early /\ Unnamed(f))
  BY DEF Spawn
<1>2. \A g \in Fid \ {f} : status'[g] = status[g] /\ retry'[g] = retry[g]
  BY <1>0 DEF Spawn, TypeOK
<1>3. ASSUME f \notin early' PROVE SlotInv(f)'
  <2>1. Ended(f) /\ Unnamed(f)
    BY <1>0, <1>1, <1>3 DEF CallInv, Own, SlotInv
  <2>2. Quiet(f)
    BY <2>1 DEF Ended, Quiet, Unnamed, InSeq, Buffered, Items
  <2>3. status'[f] = "run"
    BY <1>0 DEF Spawn, TypeOK
  <2> QED
    BY <1>1, <2>2, <2>3 DEF SlotInv, Quiet, Buffered
<1> QED
  BY <1>1, <1>2, <1>3, OneSlot

\* Cancelling a fiber leaves nothing of it but a call on its way, marked to be
\* dropped, or a wake in the buffer.
LEMMA ReapStep ==
  ASSUME NEW f \in Fid, CallInv, TypeOK', Reap(f)
  PROVE  CallInv'
<1> USE DEF slotVars, fiberVars, tableVars, osVars, workerVars, netVars, pollVars, ghostVars
<1>0. TypeOK /\ status[f] \in {"run", "io", "other"}
  BY DEF CallInv, Reap
<1>1. UNCHANGED <<jobs, working, pinned, completions, inflight, execs, nextOp, ready, early>>
  BY DEF Reap
<1>2. \A g \in Fid \ {f} : /\ status'[g] = status[g] /\ retry'[g] = retry[g]
                            /\ waits'[g] = waits[g] /\ done'[g] = done[g]
                            /\ (g \in discarded' <=> g \in discarded)
  BY <1>0 DEF Reap, Unwatch, Unwatched, TypeOK
<1>3. status'[f] = "free"
  BY <1>0 DEF Reap, TypeOK
<1>4. ASSUME f \notin early' PROVE Ended(f)'
  <2>0. SlotInv(f)
    BY <1>1, <1>4 DEF CallInv, Own
  <2>1. CASE status[f] # "io"
    <3>1. Quiet(f) /\ UNCHANGED <<waits, discarded, done>>
      BY <1>0, <2>0, <2>1 DEF SlotInv, Reap
    <3> QED
      BY <1>1, <3>1 DEF Quiet, Ended, Buffered
  <2>2. CASE status[f] = "io" /\ retry[f].kind = "sock"
    <3>1. OnSocket(f) /\ Unwatch(f)
      BY <2>0, <2>2 DEF SlotInv, Reap
    <3>2. waits'[f] = NoFd /\ done'[f] = NoOp
      BY <1>0, <3>1, ZenonT(40) DEF OnSocket, Unwatch, Unwatched, Discards, TypeOK
    <3> QED
      BY <1>1, <3>1, <3>2 DEF OnSocket, Ended
  <2>3. CASE status[f] = "io" /\ retry[f].kind # "sock"
    <3>1. OnOffload(f) /\ Unwatch(f)
      BY <2>0, <2>3 DEF SlotInv, Reap
    <3>2. /\ waits' = waits /\ waits[f] = NoFd
          /\ discarded' = IF f \in inflight THEN discarded \cup {f} ELSE discarded
          /\ done' = IF f \in inflight THEN done ELSE [done EXCEPT ![f] = NoOp]
      BY <3>1 DEF OnOffload, Unwatch, Discards
    <3>3. done'[f] = NoOp /\ (f \in inflight => f \in discarded' /\ ~Buffered(f))
      BY <1>0, <3>1, <3>2 DEF OnOffload, TypeOK
    <3> QED
      BY <1>1, <3>2, <3>3 DEF Ended, Buffered
  <2> QED
    BY <2>1, <2>2, <2>3
<1>5. f \notin early' => SlotInv(f)'
  BY <1>3, <1>4 DEF SlotInv
<1> QED
  BY <1>1, <1>2, <1>5, OneSlot

-----------------------------------------------------------------------------
(* The steps of poll. *)

\* A readiness event finds the wait it is for, or none: the fiber is buffered once.
LEMMA EventStep ==
  ASSUME NEW f \in Fid, CallInv, TypeOK', PollEvent(f)
  PROVE  CallInv'
<1> USE DEF slotVars, fiberVars, tableVars, osVars, workerVars, netVars, pollVars, ghostVars
<1>0. TypeOK /\ ready \in Seq(Fid)
  BY DEF CallInv, TypeOK
<1>1. CASE waits[f] = NoFd
  <2>1. UNCHANGED <<fiberVars, tableVars, jobs, working, pinned, completions, execs, nextOp>>
    BY <1>1 DEF PollEvent
  <2> QED
    BY <2>1, NoSlot
<1>2. CASE waits[f] # NoFd
  <2>1. /\ waits' = [waits EXCEPT ![f] = NoFd] /\ ready' = Append(ready, f)
        /\ UNCHANGED <<fiberVars, done, inflight, discarded, jobs, working, pinned, completions,
                       execs, nextOp>>
    BY <1>2 DEF PollEvent
  <2>2. /\ Items(ready)' = Items(ready) \cup {f}
        /\ f \notin Items(ready) => Once(ready', f)
        /\ \A g : g # f => SameIn(ready, ready', g)
    BY <1>0, <2>1, ItemsAppend
  <2>3. nextOp' >= nextOp /\ \A j : SameCall(j)
    BY <1>0, <2>1, CallsStay DEF TypeOK
  <2>4. ASSUME NEW g \in Fid \ {f} PROVE Apart(g)
    BY <1>0, <2>1, <2>2, <2>3 DEF TypeOK, Apart, SameSlot
  <2>5. ASSUME f \notin early PROVE Own(f)'
    <3>1. Own(f)
      BY <2>5 DEF CallInv
    <3>2. status[f] = "io" /\ retry[f].kind = "sock" /\ OnSocket(f)
      BY <1>0, <1>2, <3>1 DEF TypeOK, Own, SlotInv, Quiet, Ended, Restarted, OnOffload
    <3>3. Once(ready, f)'
      BY <1>2, <2>2, <3>2 DEF OnSocket, Buffered, Once
    <3>4. SlotInv(f)'
      <4>1. OnSocket(f)'
        BY <1>0, <2>1, <2>2, <3>2 DEF OnSocket, Buffered, TypeOK
      <4> QED
        BY <2>1, <3>2, <4>1 DEF SlotInv
    <3>5. PipelineOf(f)' /\ FreshOf(f)'
      BY <1>0, <2>1, <2>3, <3>1, CallsFrame DEF Own
    <3> QED
      BY <3>3, <3>4, <3>5 DEF Own
  <2> QED
    BY <2>1, <2>3, <2>4, <2>5, Others
<1> QED
  BY <1>1, <1>2

\* A completion that was not marked is for a fiber still parked for that very call;
\* one that was is for a fiber that has ended. Only an early slot can get another's.
LEMMA DrainStep ==
  ASSUME CallInv, TypeOK', PollDrain
  PROVE  CallInv'
<1> USE DEF slotVars, fiberVars, tableVars, osVars, workerVars, netVars, pollVars, ghostVars
<1>0. TypeOK /\ ready \in Seq(Fid) /\ completions \in Seq(Job) /\ completions # <<>>
      /\ completions' = Tail(completions)
  BY DEF CallInv, TypeOK, PollDrain
<1>h. PICK c \in Job : c = Head(completions)
  BY <1>0, HeadTailProperties
<1> DEFINE f == c.fid
<1>1. f \in Fid /\ c \in Calls(f) /\ c.op \in Op /\ c = [fid |-> f, op |-> c.op]
  BY DEF Calls, Job
<1>2. /\ UNCHANGED <<fiberVars, waits, jobs, working, pinned, execs, nextOp>>
      /\ inflight' = inflight \ {f} /\ discarded' = discarded \ {f}
      /\ \/ f \in discarded /\ UNCHANGED <<done, ready>>
         \/ /\ f \notin discarded
            /\ done' = [done EXCEPT ![f] = c.op] /\ ready' = Append(ready, f)
  BY <1>h DEF PollDrain, Stashed
<1>3. /\ Landed(c) /\ (Once(completions, c) => ~Landed(c)' /\ Once(completions, c)')
      /\ \A k : k # c => SameIn(completions, completions', k)
  BY <1>0, <1>h, ItemsTail DEF Landed, Once
<1>4. \A k : k # c => SameCall(k)
  BY <1>2, <1>3 DEF SameCall, SameIn
<1>5. nextOp' >= nextOp
  BY <1>0, <1>2 DEF TypeOK
<1>6. /\ Items(Append(ready, f)) = Items(ready) \cup {f}
      /\ f \notin Items(ready) => Once(Append(ready, f), f)
      /\ \A g : g # f => SameIn(ready, Append(ready, f), g)
  BY <1>0, <1>1, ItemsAppend
<1>7. ASSUME NEW g \in Fid \ {f} PROVE Apart(g)
  <2>1. SameIn(ready, ready', g) /\ done'[g] = done[g]
    <3>1. SameIn(ready, ready, g)
      BY DEF SameIn
    <3>2. ready' \in {ready, Append(ready, f)} /\ done' \in {done, [done EXCEPT ![f] = c.op]}
      BY <1>2
    <3>3. done'[g] = done[g]
      BY <1>0, <3>2 DEF TypeOK
    <3> QED
      BY <1>6, <3>1, <3>2, <3>3
  <2>2. SameSlot(g)
    BY <1>2, <2>1 DEF SameSlot
  <2>3. c \notin Calls(g)
    BY DEF Calls
  <2> QED
    BY <1>4, <2>2, <2>3 DEF Apart
<1>8. ASSUME f \notin early PROVE Own(f)'
  <2>0. Own(f)
    BY <1>1, <1>8 DEF CallInv
  <2>1. Carried(c) /\ OnePlace(c) /\ ~Unrun(c) /\ f \in inflight
    BY <1>1, <1>3, <2>0 DEF Own, PipelineOf, OnePlace, Carried, Unrun
  <2>2. ~Carried(c)' /\ OnePlace(c)' /\ (Unrun(c)' <=> Unrun(c))
    <3>1. /\ (Queued(c)' <=> Queued(c)) /\ (Worked(c)' <=> Worked(c)) /\ (Pinned(c)' <=> Pinned(c))
          /\ ~Landed(c)' /\ Once(completions, c)'
          /\ (Once(jobs, c)' <=> Once(jobs, c)) /\ (Once(pinned, c)' <=> Once(pinned, c))
      BY <1>2, <1>3, <2>1 DEF Queued, Worked, Pinned, OnePlace, Once
    <3> QED
      BY <1>2, <2>1, <3>1 DEF OnePlace, Carried, Unrun
  <2>3. ASSUME NEW k \in Calls(f) PROVE ~Carried(k)' /\ OnePlace(k)' /\ FreshCall(k)'
    <3>1. FreshCall(k) /\ OnePlace(k) /\ (Carried(k) => k = c)
      BY <1>1, <2>0, <2>1 DEF Own, FreshOf, PipelineOf
    <3>2. CASE k = c
      BY <1>2, <2>2, <3>1, <3>2 DEF FreshCall
    <3>3. CASE k # c
      <4>1. SameCall(k)
        BY <1>4, <3>3
      <4>2. OnePlace(k)' /\ (Unrun(k)' <=> Unrun(k)) /\ (Carried(k)' <=> Carried(k))
        BY <3>1, <4>1, CallFrame
      <4> QED
        BY <1>2, <3>1, <3>3, <4>2 DEF FreshCall
    <3> QED
      BY <3>2, <3>3
  <2>4. PipelineOf(f)' /\ FreshOf(f)'
    BY <1>2, <2>3 DEF PipelineOf, FreshOf
  <2>5. ~Buffered(f) /\ waits[f] = NoFd /\ done[f] = NoOp
    BY <1>0, <1>1, <2>0, <2>1 DEF Own, SlotInv, Quiet, Ended, Restarted, OnSocket, OnOffload, TypeOK
  <2>6. CASE f \in discarded
    <3>1. status[f] = "free"
      BY <1>0, <1>1, <2>0, <2>1, <2>6 DEF Own, SlotInv, Quiet, Restarted, OnSocket, OnOffload, TypeOK
    <3>2. SlotInv(f)'
      BY <1>2, <2>5, <2>6, <3>1 DEF SlotInv, Ended
    <3>3. Once(ready, f)'
      BY <1>2, <2>0, <2>6 DEF Own, Once
    <3> QED
      BY <2>4, <3>2, <3>3 DEF Own
  <2>7. CASE f \notin discarded
    <3>1. status[f] = "io" /\ retry[f].kind \in {"pool", "db"}
          /\ Carried([fid |-> f, op |-> retry[f].arg])
      BY <1>0, <1>1, <2>0, <2>1, <2>7
         DEF Own, SlotInv, Quiet, Ended, Restarted, OnSocket, OnOffload, TypeOK
    <3>2. c.op = retry[f].arg
      <4>1. retry[f] \in Task
        BY <1>0, <1>1 DEF TypeOK
      <4>2. retry[f].arg \in Op
        BY <3>1, <4>1 DEF Task, NoTask
      <4>3. [fid |-> f, op |-> retry[f].arg] \in Calls(f)
        BY <1>1, <4>2 DEF Calls, Job
      <4>4. [fid |-> f, op |-> retry[f].arg] = c
        BY <1>1, <2>0, <2>1, <3>1, <4>3 DEF Own, PipelineOf
      <4> QED
        BY <4>4
    <3>3. ready' = Append(ready, f) /\ done'[f] = retry[f].arg
      BY <1>0, <1>1, <1>2, <2>7, <3>2 DEF TypeOK
    <3>4. OnOffload(f)'
      BY <1>2, <1>6, <2>5, <3>1, <3>3 DEF OnOffload, Buffered
    <3>5. SlotInv(f)'
      BY <1>2, <3>1, <3>4 DEF SlotInv
    <3>6. Once(ready, f)'
      BY <1>6, <2>5, <3>3 DEF Buffered, Once
    <3> QED
      BY <2>4, <3>5, <3>6 DEF Own
  <2> QED
    BY <2>6, <2>7
<1> QED
  BY <1>1, <1>2, <1>5, <1>7, <1>8, Others

\* The fiber poll returns is parked, with nothing left to wait for, or has ended,
\* unless its slot was handed out early.
LEMMA ReturnStep ==
  ASSUME CallInv, TypeOK', PollReturn
  PROVE  /\ CallInv'
         /\ \A g \in Fid \ early : status'[g] # status[g] => status[g] = "io"
<1> USE DEF slotVars, fiberVars, tableVars, osVars, workerVars, netVars, pollVars, ghostVars
<1>0. TypeOK /\ ready \in Seq(Fid)
  BY DEF CallInv, TypeOK
<1>1. CASE ready = <<>>
  <2>1. UNCHANGED <<fiberVars, tableVars, jobs, working, pinned, completions, execs, nextOp>>
    BY <1>1 DEF PollReturn
  <2> QED
    BY <2>1, NoSlot
<1>2. CASE ready # <<>>
  <2>0. PICK f \in Fid : f = Head(ready)
    BY <1>0, <1>2, HeadTailProperties
  <2>1. /\ ready' = Tail(ready)
        /\ status' = [status EXCEPT ![f] = IF @ = "free" THEN @ ELSE "woken"]
        /\ UNCHANGED <<retry, early, waits, done, inflight, discarded, jobs, working, pinned,
                       completions, execs, nextOp>>
    BY <1>2, <2>0 DEF PollReturn, Popped
  <2>2. /\ Buffered(f) /\ (Once(ready, f) => ~Buffered(f)' /\ Once(ready, f)')
        /\ \A g : g # f => SameIn(ready, ready', g)
    BY <1>0, <1>2, <2>0, <2>1, ItemsTail DEF Buffered, Once
  <2>3. nextOp' >= nextOp /\ \A j : SameCall(j)
    BY <1>0, <2>1, CallsStay DEF TypeOK
  <2>4. ASSUME NEW g \in Fid \ {f} PROVE Apart(g) /\ status'[g] = status[g]
    BY <1>0, <2>1, <2>2, <2>3 DEF TypeOK, Apart, SameSlot
  <2>5. ASSUME f \notin early PROVE Own(f)' /\ (status'[f] # status[f] => status[f] = "io")
    <3>0. Own(f)
      BY <2>5 DEF CallInv
    <3>1. SlotInv(f) /\ status[f] \in {"free", "io"}
      BY <1>0, <2>2, <3>0 DEF Own, SlotInv, Quiet, Restarted, TypeOK
    <3>2. Once(ready, f)' /\ ~Buffered(f)'
      BY <2>2, <3>0 DEF Own
    <3>3. PipelineOf(f)' /\ FreshOf(f)'
      BY <1>0, <2>1, <2>3, <3>0, CallsFrame DEF Own
    <3>4. CASE status[f] = "free"
      <4>1. status'[f] = "free" /\ Ended(f)
        BY <1>0, <2>1, <3>1, <3>4 DEF SlotInv, TypeOK
      <4>2. SlotInv(f)'
        BY <2>1, <3>2, <4>1 DEF SlotInv, Ended
      <4> QED
        BY <3>2, <3>3, <3>4, <4>1, <4>2 DEF Own
    <3>5. CASE status[f] = "io"
      <4>1. status'[f] = "woken"
        BY <1>0, <2>1, <3>5 DEF TypeOK
      <4>2. Restarted(f)'
        BY <2>1, <2>2, <3>1, <3>2, <3>5 DEF SlotInv, OnSocket, OnOffload, Restarted
      <4>3. SlotInv(f)'
        BY <4>1, <4>2 DEF SlotInv
      <4> QED
        BY <3>2, <3>3, <3>5, <4>3 DEF Own
    <3> QED
      BY <3>1, <3>4, <3>5
  <2>6. CallInv'
    BY <2>1, <2>3, <2>4, <2>5, Others
  <2> QED
    BY <2>4, <2>5, <2>6
<1> QED
  BY <1>1, <1>2

-----------------------------------------------------------------------------
(* The steps of the workers. *)

\* A call moves from the pool's channel to a worker.
LEMMA TakeStep ==
  ASSUME NEW w \in Worker, CallInv, TypeOK', WorkerTake(w)
  PROVE  CallInv'
<1> USE DEF slotVars, fiberVars, tableVars, osVars, workerVars, netVars, pollVars, ghostVars
<1>0. TypeOK /\ jobs \in Seq(Job) /\ jobs # <<>> /\ working[w] = NoJob
  BY DEF CallInv, TypeOK, WorkerTake
<1>h. PICK j \in Job : j = Head(jobs)
  BY <1>0, HeadTailProperties
<1>1. /\ jobs' = Tail(jobs) /\ working' = [working EXCEPT ![w] = j]
      /\ UNCHANGED <<fiberVars, tableVars, pinned, completions, execs, nextOp>>
  BY <1>h DEF WorkerTake
<1>2. /\ Queued(j) /\ (Once(jobs, j) => ~Queued(j)' /\ Once(jobs, j)')
      /\ \A k : k # j => SameIn(jobs, jobs', k)
  BY <1>0, <1>1, <1>h, ItemsTail DEF Queued, Once
<1>3. working'[w] = j /\ \A v \in Worker : v # w => working'[v] = working[v]
  BY <1>0, <1>1 DEF TypeOK
<1>4. ASSUME NEW k \in Job, k # j PROVE SameCall(k)
  <2>1. k # NoJob
    BY ReactorAssumption DEF Job, NoJob
  <2>2. \A v \in Worker : working'[v] = k <=> working[v] = k
    BY <1>0, <1>3, <1>4, <2>1
  <2> QED
    BY <1>1, <1>2, <1>4, <2>2 DEF SameCall, SameIn
<1>5. \A g : SameSlot(g)
  BY <1>1 DEF SameSlot, SameIn
<1> DEFINE f == j.fid
<1>6. f \in Fid /\ j \in Calls(f)
  BY DEF Calls, Job
<1>7. ASSUME NEW g \in Fid \ {f} PROVE Apart(g)
  BY <1>4, <1>5 DEF Apart, Calls
<1>8. ASSUME f \notin early PROVE Own(f)'
  <2>0. Own(f)
    BY <1>6, <1>8 DEF CallInv
  <2>1. OnePlace(j) /\ FreshCall(j) /\ Carried(j) /\ Unrun(j)
    BY <1>2, <1>6, <2>0 DEF Own, PipelineOf, FreshOf, Carried, Unrun
  <2>2. /\ Worked(j)' /\ (Pinned(j)' <=> Pinned(j)) /\ (Landed(j)' <=> Landed(j))
        /\ (Once(pinned, j)' <=> Once(pinned, j))
        /\ (Once(completions, j)' <=> Once(completions, j))
    BY <1>1, <1>3 DEF Worked, Pinned, Landed, Once
  <2>3. \A v \in Worker : working'[v] = j => v = w
    BY <1>2, <1>3, <2>1 DEF OnePlace, Worked
  <2>4. OnePlace(j)' /\ Carried(j)' /\ FreshCall(j)'
    BY <1>1, <1>2, <2>1, <2>2, <2>3 DEF OnePlace, Carried, Unrun, FreshCall
  <2>5. \A k \in Calls(f) : k # j => SameCall(k)
    BY <1>4 DEF Calls
  <2> QED
    BY <1>0, <1>1, <1>5, <1>6, <2>0, <2>1, <2>4, <2>5, Moved
<1>9. nextOp' >= nextOp
  BY <1>0, <1>1 DEF TypeOK
<1> QED
  BY <1>1, <1>6, <1>7, <1>8, <1>9, Others

\* The blocking part of a call runs and its result is queued: of a slot that was
\* not handed out early, for the first time.
LEMMA RanStep ==
  ASSUME NEW j \in Job, CallInv, TypeOK', PushCompletion(j),
         UNCHANGED <<fiberVars, tableVars, jobs, nextOp>>,
         Unrun(j),
         \A k \in Job : k # j =>
           SameIn(pinned, pinned', k) /\ \A w \in Worker : working'[w] = k <=> working[w] = k,
         OnePlace(j) => /\ ~Unrun(j)' /\ Once(pinned, j)'
                        /\ \A v, w \in Worker : working'[v] = j /\ working'[w] = j => v = w
  PROVE  CallInv'
<1> USE DEF slotVars, fiberVars, tableVars
<1> DEFINE f == j.fid
<1>0. TypeOK /\ completions \in Seq(Job)
  BY DEF CallInv, TypeOK
<1>1. f \in Fid /\ j \in Calls(f)
  BY DEF Calls, Job
<1>2. completions' = Append(completions, j) /\ execs' = [execs EXCEPT ![j] = @ + 1]
  BY DEF PushCompletion
<1>3. /\ Landed(j)' /\ (~Landed(j) => Once(completions, j)')
      /\ \A k : k # j => SameIn(completions, completions', k)
  BY <1>0, <1>2, ItemsAppend DEF Landed, Once
<1>4. ASSUME NEW k \in Job, k # j PROVE SameCall(k)
  <2>1. execs'[k] = execs[k]
    BY <1>0, <1>2, <1>4 DEF TypeOK
  <2> QED
    BY <1>3, <1>4, <2>1 DEF SameCall, SameIn
<1>5. \A g : SameSlot(g)
  BY DEF SameSlot, SameIn
<1>6. ASSUME NEW g \in Fid \ {f} PROVE Apart(g)
  BY <1>4, <1>5 DEF Apart, Calls
<1>7. ASSUME f \notin early PROVE Own(f)'
  <2>0. Own(f)
    BY <1>1, <1>7 DEF CallInv
  <2>1. OnePlace(j) /\ FreshCall(j) /\ Carried(j) /\ ~Landed(j)
    BY <1>1, <2>0 DEF Own, PipelineOf, FreshOf, Carried, Unrun, OnePlace
  <2>2. ~Unrun(j)' /\ Once(jobs, j)'
    BY <2>1 DEF OnePlace, Once
  <2>3. OnePlace(j)' /\ Carried(j)'
    BY <1>3, <2>1, <2>2 DEF OnePlace, Carried, Unrun
  <2>4. FreshCall(j)'
    <3>1. execs[j] = 0 /\ j.op < nextOp /\ nextOp' = nextOp
      BY <2>1 DEF FreshCall
    <3>2. execs'[j] = 1
      BY <1>0, <1>2, <3>1 DEF TypeOK
    <3>3. j.op \in Int /\ nextOp \in Int
      BY <1>0 DEF TypeOK, Job, Op
    <3> QED
      BY <2>2, <3>1, <3>2, <3>3 DEF FreshCall
  <2>5. \A k \in Calls(f) : k # j => SameCall(k)
    BY <1>4 DEF Calls
  <2> QED
    BY <1>0, <1>1, <1>5, <2>0, <2>1, <2>3, <2>4, <2>5, Moved
<1>8. nextOp' >= nextOp /\ early' = early
  BY <1>0 DEF TypeOK
<1> QED
  BY <1>1, <1>6, <1>7, <1>8, Others

\* A pool worker ends a call.
LEMMA DoneStep ==
  ASSUME NEW w \in Worker, CallInv, TypeOK', WorkerDone(w)
  PROVE  CallInv'
<1> USE DEF slotVars, fiberVars, tableVars, osVars, workerVars, netVars, pollVars, ghostVars
<1>0. TypeOK
  BY DEF CallInv
<1>h. PICK j \in Job : j = working[w]
  BY <1>0 DEF TypeOK, WorkerDone
<1>1. /\ PushCompletion(j) /\ working' = [working EXCEPT ![w] = NoJob]
      /\ UNCHANGED <<fiberVars, tableVars, jobs, pinned, nextOp>>
  BY <1>h DEF WorkerDone
<1>2. working'[w] = NoJob /\ \A v \in Worker : v # w => working'[v] = working[v]
  BY <1>0, <1>1 DEF TypeOK
<1>3. \A k \in Job : k # NoJob
  BY ReactorAssumption DEF Job, NoJob
<1>4. ASSUME NEW k \in Job, k # j
      PROVE  SameIn(pinned, pinned', k) /\ \A v \in Worker : working'[v] = k <=> working[v] = k
  <2>1. \A v \in Worker : working'[v] = k <=> working[v] = k
    BY <1>h, <1>2, <1>3, <1>4
  <2> QED
    BY <1>1, <2>1 DEF SameIn
<1>5. ASSUME OnePlace(j)
      PROVE  /\ ~Unrun(j)' /\ Once(pinned, j)'
             /\ \A u, v \in Worker : working'[u] = j /\ working'[v] = j => u = v
  <2>1. \A v \in Worker : working'[v] # j
    BY <1>h, <1>2, <1>3, <1>5 DEF OnePlace
  <2>2. ~Queued(j)' /\ ~Pinned(j)' /\ Once(pinned, j)'
    BY <1>h, <1>1, <1>5 DEF OnePlace, Worked, Queued, Pinned, Once
  <2> QED
    BY <2>1, <2>2 DEF Unrun, Worked
<1>6. Unrun(j)
  BY <1>h DEF Unrun, Worked
<1> QED
  BY <1>1, <1>4, <1>5, <1>6, RanStep

\* The database worker ends a call.
LEMMA PinnedStep ==
  ASSUME CallInv, TypeOK', PinnedDone
  PROVE  CallInv'
<1> USE DEF slotVars, fiberVars, tableVars, osVars, workerVars, netVars, pollVars, ghostVars
<1>0. pinned \in Seq(Job) /\ pinned # <<>>
  BY DEF CallInv, TypeOK, PinnedDone
<1>h. PICK j \in Job : j = Head(pinned)
  BY <1>0, HeadTailProperties
<1>1. /\ PushCompletion(j) /\ pinned' = Tail(pinned)
      /\ UNCHANGED <<fiberVars, tableVars, jobs, working, nextOp>>
  BY <1>h DEF PinnedDone
<1>2. /\ Pinned(j) /\ (Once(pinned, j) => ~Pinned(j)' /\ Once(pinned, j)')
      /\ \A k : k # j => SameIn(pinned, pinned', k)
  BY <1>0, <1>1, <1>h, ItemsTail DEF Pinned, Once
<1>3. ASSUME OnePlace(j)
      PROVE  /\ ~Unrun(j)' /\ Once(pinned, j)'
             /\ \A u, v \in Worker : working'[u] = j /\ working'[v] = j => u = v
  <2>1. ~Queued(j)' /\ ~Worked(j)'
    BY <1>1, <1>2, <1>3 DEF OnePlace, Queued, Worked
  <2> QED
    BY <1>1, <1>2, <1>3, <2>1 DEF OnePlace, Unrun
<1>4. Unrun(j)
  BY <1>2 DEF Unrun
<1> QED
  BY <1>1, <1>2, <1>3, <1>4, RanStep

-----------------------------------------------------------------------------
(* Every step. *)

\* The steps that hand fibers, calls and results on keep the invariant; but for the
\* slots that were handed out early, a call is given only its own result, and only
\* parked fibers are started again.
LEMMA CallStep ==
  ASSUME CallInv, [Next]_vars
  PROVE  /\ CallInv' /\ early \subseteq early'
         /\ \/ got' = got
            \/ \E f \in Fid, o, r \in Op : got' = got \cup {<<f, o, r>>} /\ (f \in early \/ o = r)
         /\ \A g \in Fid \ early :
              status'[g] = "woken" /\ status[g] # "woken" => status[g] = "io"
<1> USE DEF slotVars, fiberVars, tableVars, osVars, workerVars, netVars, pollVars, ghostVars
<1> DEFINE OwnGot == \/ got' = got
                     \/ \E f \in Fid, o, r \in Op : /\ got' = got \cup {<<f, o, r>>}
                                                    /\ f \in early \/ o = r
           OwnWake == \A g \in Fid \ early :
                        status'[g] = "woken" /\ status[g] # "woken" => status[g] = "io"
           Goal == CallInv' /\ early \subseteq early' /\ OwnGot /\ OwnWake
<1>0. TypeOK /\ TypeOK'
  BY TypeStep DEF CallInv
<1>w. ASSUME \A g \in Fid : status'[g] = "woken" => status[g] = "woken" PROVE OwnWake
  BY <1>w
<1>1. ASSUME NEW f \in Fid, NEW s \in SockId, StartSocketOp(f, s) PROVE Goal
  <2>1. CallSocket(f, s) /\ (f \notin early => Quiet(f))
    BY <1>1 DEF StartSocketOp, Running, CallInv, Own, SlotInv
  <2>2. got' = got /\ early' = early /\ nextOp' = nextOp
    BY <2>1 DEF CallSocket
  <2>3. \A g \in Fid : status'[g] = "woken" => status[g] = "woken"
    BY <1>0, <2>1 DEF CallSocket, RegisterSocket, TypeOK
  <2> QED
    BY <1>0, <1>w, <2>1, <2>2, <2>3, SocketCall
<1>2. ASSUME NEW f \in Fid, NEW k \in {"pool", "db"}, StartOffload(f, k) PROVE Goal
  <2>1. CallInv' /\ OwnGot
    BY <1>0, <1>2, OffloadSubmitted
  <2>2. early' = early /\ \A g \in Fid : status'[g] = "woken" => status[g] = "woken"
    BY <1>0, <1>2 DEF StartOffload, CallOffload, TypeOK
  <2> QED
    BY <1>w, <2>1, <2>2
<1>3. ASSUME NEW f \in Fid, Retry(f) PROVE Goal
  <2>1. CallInv' /\ OwnGot
    BY <1>0, <1>3, Restart
  <2>2. early' = early /\ \A g \in Fid : status'[g] = "woken" => status[g] = "woken"
    <3>1. CASE retry[f].kind = "sock"
      BY <1>0, <1>3, <3>1 DEF Retry, CallSocket, RegisterSocket, TypeOK
    <3>2. CASE retry[f].kind \in {"pool", "db"}
      BY <1>0, <1>3, <3>2 DEF Retry, CallOffload, TypeOK
    <3>3. CASE retry[f].kind = "none"
      BY <1>3, <3>3 DEF Retry
    <3>4. retry[f] \in Task
      BY <1>0 DEF TypeOK
    <3> QED
      BY <3>1, <3>2, <3>3, <3>4 DEF Task, NoTask
  <2> QED
    BY <1>w, <2>1, <2>2
<1>4. ASSUME NEW f \in Fid,
             ParkOther(f) \/ Complete(f) \/ FireTimer(f) \/ \E g \in Fid : WakeOther(f, g)
      PROVE  Goal
  <2>1. CallInv'
    BY <1>0, <1>4, RunStep
  <2>2. /\ got' = got /\ early' = early
        /\ \A g \in Fid : status'[g] = "woken" => status[g] = "woken"
    BY <1>0, <1>4 DEF ParkOther, Complete, FireTimer, WakeOther, TypeOK
  <2> QED
    BY <1>w, <2>1, <2>2
<1>5. ASSUME NEW f \in Fid, Spawn(f) PROVE Goal
  <2>1. CallInv' /\ early \subseteq early'
    BY <1>0, <1>5, SpawnStep
  <2>2. got' = got /\ \A g \in Fid : status'[g] = "woken" => status[g] = "woken"
    BY <1>0, <1>5 DEF Spawn, TypeOK
  <2> QED
    BY <1>w, <2>1, <2>2
<1>6. ASSUME NEW f \in Fid, Reap(f) PROVE Goal
  <2>1. CallInv'
    BY <1>0, <1>6, ReapStep
  <2>2. /\ got' = got /\ early' = early
        /\ \A g \in Fid : status'[g] = "woken" => status[g] = "woken"
    BY <1>0, <1>6 DEF Reap, TypeOK
  <2> QED
    BY <1>w, <2>1, <2>2
<1>7. ASSUME NEW f \in Fid, PollEvent(f) PROVE Goal
  BY <1>0, <1>7, EventStep DEF PollEvent
<1>8. CASE PollDrain
  BY <1>0, <1>8, DrainStep DEF PollDrain
<1>9. CASE PollReturn
  BY <1>0, <1>9, ReturnStep DEF PollReturn
<1>10. ASSUME NEW w \in Worker, WorkerTake(w) PROVE Goal
  BY <1>0, <1>10, TakeStep DEF WorkerTake
<1>11. ASSUME NEW w \in Worker, WorkerDone(w) PROVE Goal
  BY <1>0, <1>11, DoneStep DEF WorkerDone
<1>12. CASE PinnedDone
  BY <1>0, <1>12, PinnedStep DEF PinnedDone
<1>13. ASSUME \/ \E f \in Fid : \/ \E d \in Fd : OpenSocket(f, d)
                               \/ \E s \in SockId : CloseSocket(f, s)
              \/ PollBuffered \/ PollNothing \/ PollWait \/ PollLock \/ TimersDue \/ TimersDone
              \/ WorkerNotify \/ (\E d \in Fd : BecomeReadable(d)) \/ UNCHANGED vars
       PROVE  Goal
  <2>1. UNCHANGED <<fiberVars, tableVars, jobs, working, pinned, completions, execs, nextOp, got>>
    BY <1>13 DEF OpenSocket, CloseSocket, PollBuffered, PollNothing, PollWait, PollLock, TimersDue,
                 TimersDone, WorkerNotify, BecomeReadable, vars
  <2> QED
    BY <1>0, <2>1, NoSlot
<1> QED
  BY <1>1, <1>2, <1>3, <1>4, <1>5, <1>6, <1>7, <1>8, <1>9, <1>10, <1>11, <1>12, <1>13
     DEF Next, SchedulerStep, FiberStep, PollStep, WorkerStep

-----------------------------------------------------------------------------
(* The theorems about calls. They assume nothing of the program: slots may be *)
(* handed out while the reactor still names them, which the code does, and    *)
(* they speak of every slot to which that has not happened itself.            *)

\* Every state satisfies the invariant.
LEMMA CallsKept == Spec => []CallInv
<1>1. CallInv /\ [Next]_vars => CallInv'
  BY CallStep
<1> QED
  BY <1>1, CallInit, PTL DEF Spec

\* A call collects the result of the call it submitted, never that of another fiber
\* or of an earlier call: submit, the workers, the drain of the completion queue and
\* collect, with cancellations, recycled slots and the stray results of slots handed
\* out early between any two of them.
THEOREM ResultIsOwn == Spec => []OwnResult
<1>1. Init => OwnResult
  BY DEF Init, OwnResult
<1>2. CallInv /\ OwnResult /\ [Next]_vars => OwnResult'
  <2> SUFFICES ASSUME CallInv, OwnResult, [Next]_vars, NEW p \in got', p[1] \notin early'
               PROVE  p[2] = p[3]
    BY DEF OwnResult
  <2>1. p[1] \notin early
    BY CallStep
  <2>2. CASE p \in got
    BY <2>1, <2>2 DEF OwnResult
  <2>3. CASE p \notin got
    <3>1. PICK f \in Fid, o \in Op, r \in Op : p = <<f, o, r>> /\ (f \in early \/ o = r)
      BY <2>3, CallStep
    <3> QED
      BY <2>1, <3>1
  <2> QED
    BY <2>2, <2>3
<1> QED
  BY <1>1, <1>2, CallsKept, PTL DEF Spec

\* The blocking part of a call (a write, a statement, a connect) is run at most once:
\* a wake never submits it again, and no two workers get it.
THEOREM RunsOnce == Spec => []ExecOnce
<1>1. CallInv => ExecOnce
  <2> SUFFICES ASSUME CallInv, NEW j \in Job, j.fid \notin early PROVE execs[j] <= 1
    BY DEF ExecOnce
  <2>1. j.fid \in Fid /\ j \in Calls(j.fid)
    BY DEF Job, Calls
  <2> QED
    BY <2>1 DEF CallInv, Own, FreshOf, FreshCall
<1> QED
  BY <1>1, CallsKept, PTL

\* Reactor.done holds no result nobody waits for: unwatch drops the one that has
\* landed and marks the one that has not.
THEOREM ResultsAwaited == Spec => []NoStrayResult
<1>1. CallInv => NoStrayResult
  <2> SUFFICES ASSUME CallInv, NEW f \in Fid \ early, done[f] # NoOp
               PROVE  status[f] \in {"io", "woken"} /\ retry[f].arg = done[f]
    BY DEF NoStrayResult
  <2>1. TypeOK /\ SlotInv(f)
    BY DEF CallInv, Own
  <2> QED
    BY <2>1 DEF SlotInv, TypeOK, Quiet, Ended, Restarted, OnSocket, OnOffload
<1> QED
  BY <1>1, CallsKept, PTL

\* io_block_step starts only fibers that parked on I/O again: no other fiber has its
\* id in Reactor.ready when poll pops it.
THEOREM WakesReachParked == Spec => WakeReachesParked
<1>1. CallInv /\ [Next]_vars =>
        [\A f \in Fid \ early :
           status'[f] = "woken" /\ status[f] # "woken" => status[f] = "io"]_vars
  BY CallStep
<1> QED
  BY <1>1, CallsKept, PTL DEF Spec, WakeReachesParked

\* No wakeup is lost: whatever a fiber is parked for, the poller, a queue on the way
\* through the workers, or the buffer of woken fibers still has it, as long as no
\* program closes a socket that another fiber waits on.
THEOREM WakesNotLost ==
  ASSUME ~CloseParked
  PROVE  Spec => []ParkedHasWakeSource
<1>1. CallInv /\ WaitsRegistered => ParkedHasWakeSource
  <2> SUFFICES ASSUME CallInv, WaitsRegistered, NEW f \in Fid \ early, status[f] = "io"
               PROVE  IF retry[f].kind = "sock" THEN SocketWake(f) ELSE OffloadWake(f)
    BY DEF ParkedHasWakeSource
  <2>0. SlotInv(f) /\ (Buffered(f) <=> InSeq(f, ready))
    BY DEF CallInv, Own, Buffered, Items, InSeq
  <2>1. CASE retry[f].kind = "sock"
    BY <2>0, <2>1 DEF SlotInv, OnSocket, SocketWake, WaitsRegistered
  <2>2. CASE retry[f].kind # "sock"
    <3>1. OnOffload(f)
      BY <2>0, <2>2 DEF SlotInv
    <3>2. Carried([fid |-> f, op |-> retry[f].arg]) => Underway(f, retry[f].arg)
      BY DEF Carried, Unrun, Queued, Worked, Pinned, Landed, Items, Underway, InSeq
    <3> QED
      BY <2>0, <2>2, <3>1, <3>2 DEF OnOffload, OffloadWake
  <2> QED
    BY <2>1, <2>2
<1> QED
  BY <1>1, CallsKept, WaitsAlwaysRegistered, PTL

-----------------------------------------------------------------------------
(* Socket waits, whatever slots are handed out again. *)

\* A fiber parked on a socket is in waits or in the buffer of woken fibers.
Kept == \A f \in Fid : status[f] = "io" /\ retry[f].kind = "sock" =>
                        waits[f] # NoFd \/ Buffered(f)

\* A slot that becomes parked on a socket enters waits; one that leaves waits ends or
\* is buffered; one that leaves the buffer is woken. Results and wakes of earlier
\* fibers of the slot change none of these.
LEMMA KeptStep ==
  ASSUME TypeOK, Kept, [Next]_vars
  PROVE  Kept'
<1> USE ReactorAssumption
<1> USE DEF slotVars, fiberVars, tableVars, osVars, workerVars, netVars, pollVars, ghostVars
<1>1. ASSUME UNCHANGED <<status, retry, waits, ready>> PROVE Kept'
  BY <1>1 DEF Kept, Buffered
<1>2. ASSUME NEW f \in Fid, waits' = waits, ready' = ready,
             \A g \in Fid \ {f} : status'[g] = status[g] /\ retry'[g] = retry[g],
             status'[f] # "io" \/ retry'[f].kind # "sock"
      PROVE  Kept'
  BY <1>2 DEF Kept, Buffered
<1>3. ASSUME NEW f \in Fid, NEW s \in SockId, CallSocket(f, s) PROVE Kept'
  <2>1. ready' = ready /\ \A g \in Fid \ {f} : /\ status'[g] = status[g] /\ retry'[g] = retry[g]
                                               /\ waits'[g] = waits[g]
    BY <1>3 DEF CallSocket, RegisterSocket, TypeOK
  <2>2. status'[f] = "io" => waits'[f] # NoFd
    BY <1>3 DEF CallSocket, RegisterSocket, TypeOK
  <2> QED
    BY <2>1, <2>2 DEF Kept, Buffered
<1>4. ASSUME NEW f \in Fid, NEW k \in {"pool", "db"}, NEW o \in Op, CallOffload(f, k, o) PROVE Kept'
  <2>1. /\ waits' = waits /\ ready' = ready
        /\ \A g \in Fid \ {f} : status'[g] = status[g] /\ retry'[g] = retry[g]
    BY <1>4 DEF CallOffload, TypeOK
  <2>2. status'[f] # "io" \/ retry'[f].kind # "sock"
    <3>1. CASE status' = [status EXCEPT ![f] = "run"]
      BY <3>1 DEF TypeOK
    <3>2. CASE retry' = [retry EXCEPT ![f] = [kind |-> k, arg |-> o]]
      <4>1. retry'[f] = [kind |-> k, arg |-> o]
        BY <3>2 DEF TypeOK
      <4> QED
        BY <4>1
    <3> QED
      BY <1>4, <3>1, <3>2 DEF CallOffload
  <2> QED
    BY <1>2, <2>1, <2>2
<1>5. ASSUME NEW f \in Fid, NEW s \in SockId, StartSocketOp(f, s) PROVE Kept'
  BY <1>3, <1>5 DEF StartSocketOp
<1>6. ASSUME NEW f \in Fid, NEW k \in {"pool", "db"}, StartOffload(f, k) PROVE Kept'
  BY <1>4, <1>6 DEF StartOffload
<1>7. ASSUME NEW f \in Fid, Retry(f) PROVE Kept'
  <2>1. retry[f] \in Task
    BY DEF TypeOK
  <2>2. CASE retry[f].kind = "sock"
    BY <1>3, <1>7, <2>1, <2>2 DEF Retry, Task, NoTask
  <2>3. CASE retry[f].kind \in {"pool", "db"}
    <3>1. retry[f].arg \in Op
      BY <2>1, <2>3 DEF Task, NoTask
    <3>2. CallOffload(f, retry[f].kind, retry[f].arg)
      BY <1>7, <2>3 DEF Retry
    <3> QED
      BY <1>4, <2>3, <3>1, <3>2
  <2>4. CASE retry[f].kind = "none"
    BY <1>1, <1>7, <2>4 DEF Retry
  <2> QED
    BY <2>1, <2>2, <2>3, <2>4 DEF Task, NoTask
<1>8. ASSUME NEW f \in Fid, \/ ParkOther(f) \/ Complete(f) \/ FireTimer(f) \/ Spawn(f)
                            \/ \E g \in Fid : WakeOther(f, g)
      PROVE  Kept'
  <2>1. /\ waits' = waits /\ ready' = ready
        /\ \A g \in Fid \ {f} : status'[g] = status[g] /\ retry'[g] = retry[g]
        /\ status'[f] # "io"
    BY <1>8, SMTT(30) DEF ParkOther, Complete, FireTimer, Spawn, WakeOther, TypeOK
  <2> QED
    BY <1>2, <2>1
<1>9. ASSUME NEW f \in Fid, Reap(f) PROVE Kept'
  <2>1. /\ ready' = ready /\ status'[f] # "io"
        /\ \A g \in Fid \ {f} : /\ status'[g] = status[g] /\ retry'[g] = retry[g]
                                 /\ waits'[g] = waits[g]
    BY <1>9 DEF Reap, Unwatch, Unwatched, TypeOK
  <2> QED
    BY <2>1 DEF Kept, Buffered
<1>10. ASSUME NEW f \in Fid, PollEvent(f) PROVE Kept'
  <2>1. CASE waits[f] = NoFd
    BY <1>1, <1>10, <2>1 DEF PollEvent
  <2>2. CASE waits[f] # NoFd
    <3>1. Items(ready)' = Items(ready) \cup {f}
      <4>1. ready' = Append(ready, f) /\ ready \in Seq(Fid)
        BY <1>10, <2>2 DEF PollEvent, TypeOK
      <4> QED
        BY <4>1, ItemsAppend
    <3>2. status' = status /\ retry' = retry /\ \A g \in Fid \ {f} : waits'[g] = waits[g]
      BY <1>10 DEF PollEvent, TypeOK
    <3> QED
      BY <3>1, <3>2 DEF Kept, Buffered
  <2> QED
    BY <2>1, <2>2
<1>11. CASE PollDrain
  <2>1. Items(ready) \subseteq Items(ready)'
    <3>0. Head(completions) \in Job
      BY <1>11, HeadTailProperties DEF PollDrain, TypeOK
    <3>1. Head(completions).fid \in Fid
      BY <3>0 DEF Job
    <3>2. Items(Append(ready, Head(completions).fid)) = Items(ready) \cup {Head(completions).fid}
      BY <3>1, ItemsAppend DEF TypeOK
    <3> QED
      BY <1>11, <3>2 DEF PollDrain
  <2> QED
    BY <1>11, <2>1 DEF PollDrain, Kept, Buffered
<1>12. CASE PollReturn
  <2>1. CASE ready = <<>>
    BY <1>1, <1>12, <2>1 DEF PollReturn
  <2>2. CASE ready # <<>>
    <3>0. PICK f \in Fid : f = Head(ready)
      <4>1. ready \in Seq(Fid)
        BY DEF TypeOK
      <4> QED
        BY <2>2, <4>1, HeadTailProperties
    <3>1. \A x \in Items(ready) : x = f \/ x \in Items(ready)'
      <4>1. /\ Len(ready) \in Nat /\ DOMAIN ready = 1..Len(ready) /\ f = ready[1]
            /\ DOMAIN Tail(ready) = 1..(Len(ready) - 1)
            /\ \A i \in 1..(Len(ready) - 1) : Tail(ready)[i] = ready[i + 1]
        BY <2>2, <3>0, LenProperties, HeadTailProperties DEF TypeOK
      <4> SUFFICES ASSUME NEW i \in 1..Len(ready), ready[i] # f
                   PROVE  ready[i] \in Items(Tail(ready))
        BY <1>12, <2>2, <4>1 DEF PollReturn, Popped, Items
      <4>2. i - 1 \in DOMAIN Tail(ready) /\ Tail(ready)[i - 1] = ready[i]
        BY <4>1
      <4> QED
        BY <4>2 DEF Items
    <3>2. /\ waits' = waits /\ retry' = retry /\ status'[f] # "io"
          /\ \A g \in Fid \ {f} : status'[g] = status[g]
      BY <1>12, <2>2, <3>0 DEF PollReturn, TypeOK
    <3> QED
      BY <3>1, <3>2 DEF Kept, Buffered
  <2> QED
    BY <2>1, <2>2
<1>13. ASSUME \/ \E f \in Fid : \/ \E d \in Fd : OpenSocket(f, d)
                               \/ \E s \in SockId : CloseSocket(f, s)
              \/ PollBuffered \/ PollNothing \/ PollWait \/ PollLock \/ TimersDue \/ TimersDone
              \/ WorkerStep \/ (\E d \in Fd : BecomeReadable(d)) \/ UNCHANGED vars
       PROVE  Kept'
  <2>1. UNCHANGED <<status, retry, waits, ready>>
    BY <1>13 DEF OpenSocket, CloseSocket, PollBuffered, PollNothing, PollWait, PollLock, TimersDue,
                 TimersDone, WorkerStep, WorkerTake, WorkerDone, PinnedDone, WorkerNotify,
                 BecomeReadable, vars
  <2> QED
    BY <1>1, <2>1
<1> QED
  BY <1>5, <1>6, <1>7, <1>8, <1>9, <1>10, <1>11, <1>12, <1>13
     DEF Next, SchedulerStep, FiberStep, PollStep

\* A fiber parked on a socket keeps its wakeup even when slots are handed out while
\* the reactor still names them: stale results and stale wakes reach the slot, but
\* none of them takes its registration away.
THEOREM SocketWaitsSurvive ==
  ASSUME ~CloseParked
  PROVE  Spec => []SocketWaitKept
<1>1. Init => Kept
  BY DEF Init, Kept
<1>2. TypeOK /\ Kept /\ [Next]_vars => Kept'
  BY KeptStep
<1>3. Kept /\ WaitsRegistered => SocketWaitKept
  BY DEF Kept, WaitsRegistered, SocketWaitKept, SocketWake, Buffered, Items, InSeq
<1> QED
  BY <1>1, <1>2, <1>3, TypeCorrect, WaitsAlwaysRegistered, PTL DEF Spec
=============================================================================

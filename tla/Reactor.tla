------------------------------- MODULE Reactor -------------------------------
(***************************************************************************)
(* The host side of blocking I/O: host/src/offload.rs (Reactor, worker     *)
(* pool), host/src/net.rs (socket table), the submit-or-collect callbacks  *)
(* of host/src/v8host/{offload,db,net}.rs, and the part of the scheduler   *)
(* loop that drives them (io_block_step, net_settle, reap_fiber).          *)
(*                                                                         *)
(* One scheduler thread runs fibers and calls poll; PoolSize pool workers  *)
(* and one pinned database worker run jobs on threads of their own.        *)
(* Everything the reactor keeps is keyed by fiber id, and a fiber id is a  *)
(* table slot that the scheduler may hand to another fiber.                *)
(***************************************************************************)
EXTENDS Integers, Sequences, FiniteSets

CONSTANTS
  Fid,         \* fiber table slots
  Fd,          \* OS file descriptors
  MaxSock,     \* bound: sockets ever opened
  MaxOp,       \* bound: offloaded operations ever started
  PoolSize,    \* POOL_SIZE
  MaxUse,      \* bound: fibers that get the same slot, one after the other
  CloseParked, \* may a program close a socket another fiber waits on?
  NoFid, NoFd

ASSUME ReactorAssumption ==
  /\ MaxSock \in Nat /\ MaxOp \in Nat /\ PoolSize \in Nat \ {0}
  /\ MaxUse \in Nat \ {0} /\ CloseParked \in BOOLEAN
  /\ NoFid \notin Fid /\ NoFd \notin Fd

SockId == 1..MaxSock
Op     == 1..MaxOp
NoOp   == 0

\* fiber.RETRY: the parked I/O task a wake starts again.
NoTask == [kind |-> "none", arg |-> 0]
Task   == {NoTask} \cup [kind : {"sock"}, arg : SockId] \cup [kind : {"pool", "db"}, arg : Op]

Job   == [fid : Fid, op : Op]
NoJob == [fid |-> NoFid, op |-> NoOp]

Worker == 1..PoolSize

VARIABLES
  status,      \* ALIVE / WAIT_KIND: "free", "run", "io", "woken", "other"
  retry,       \* fiber.RETRY
  uses,        \* how often each slot was handed out
  early,       \* the slots that were once handed out while the reactor named them
  sockets,     \* HostNet.sockets: id -> fd
  next_id,     \* HostNet.next_id
  waits,       \* Reactor.waits
  ready,       \* Reactor.ready
  completions, \* Reactor.completions, shared with the workers
  done,        \* Reactor.done
  inflight,    \* Reactor.inflight
  discarded,   \* Reactor.discarded
  registered,  \* the poller: fd -> token
  readable,    \* the OS: descriptors that are ready
  notified,    \* Poller::notify was called since the last wait
  jobs,        \* the pool's channel
  working,     \* the job every pool worker is running
  pinned,      \* the database worker's channel, its head being run
  poking,      \* workers between push_back and notify
  pc,          \* the scheduler thread: "sched", or inside poll
  events,      \* tokens Poller::wait returned, not handled yet
  timedOut,    \* the last poll had nothing to wait for, or its deadline passed
  nextOp,      \* next operation number (identifies a call of the program)
  execs,       \* how often each operation's blocking call was run
  got          \* triples: slot, operation, operation whose result it was given

slotVars   == <<uses, early>>
fiberVars  == <<status, retry, slotVars>>
tableVars  == <<waits, ready, done, inflight, discarded>>
osVars     == <<registered, readable, notified>>
workerVars == <<jobs, working, pinned, poking, completions, execs>>
netVars    == <<sockets, next_id>>
pollVars   == <<pc, events, timedOut>>
ghostVars  == <<nextOp, got>>
vars == <<fiberVars, netVars, tableVars, osVars, workerVars, pollVars, ghostVars>>

InSeq(x, s) == \E i \in DOMAIN s : s[i] = x

-----------------------------------------------------------------------------
Init ==
  /\ status = [f \in Fid |-> "free"]
  /\ retry = [f \in Fid |-> NoTask]
  /\ uses = [f \in Fid |-> 0] /\ early = {}
  /\ sockets = [s \in SockId |-> NoFd]
  /\ next_id = 1
  /\ waits = [f \in Fid |-> NoFd]
  /\ ready = <<>>
  /\ completions = <<>>
  /\ done = [f \in Fid |-> NoOp]
  /\ inflight = {} /\ discarded = {}
  /\ registered = [d \in Fd |-> NoFid]
  /\ readable = {} /\ notified = FALSE
  /\ jobs = <<>> /\ working = [w \in Worker |-> NoJob] /\ pinned = <<>> /\ poking = 0
  /\ pc = "sched" /\ events = {} /\ timedOut = FALSE
  /\ nextOp = 1
  /\ execs = [j \in Job |-> 0]
  /\ got = {}

\* The scheduler dequeues a woken fiber before it does anything else: it polls
\* only when the ready queue and the pending cancellations are empty, and one
\* poll queues one fiber.
Sched == pc = "sched" /\ \A f \in Fid : status[f] # "woken"

Running(f) == Sched /\ status[f] = "run"

-----------------------------------------------------------------------------
(* The operations of a fiber. *)

MutRegisterSocket(f, d) ==       \* the poller's refusal ignored
  /\ registered' = [registered EXCEPT ![d] = IF @ = NoFid THEN f ELSE @]
  /\ waits' = [waits EXCEPT ![f] = d]
  /\ status' = [status EXCEPT ![f] = "io"]

\* register_socket after HostNet::park: an fd already registered is refused.
RegisterSocket(f, d) ==
  IF registered[d] = NoFid
  THEN /\ registered' = [registered EXCEPT ![d] = f]
       /\ waits' = [waits EXCEPT ![f] = d]
       /\ status' = [status EXCEPT ![f] = "io"]
  ELSE /\ status' = [status EXCEPT ![f] = "run"]
       /\ UNCHANGED <<registered, waits>>

\* try_accept / try_read / try_write on socket s, then net_settle.
CallSocket(f, s) ==
  /\ LET d == sockets[s]
     IN IF d = NoFd
        THEN /\ status' = [status EXCEPT ![f] = "run"]
             /\ UNCHANGED <<registered, waits, readable>>
        ELSE IF d \in readable
        THEN /\ readable' = readable \ {d}
             /\ status' = [status EXCEPT ![f] = "run"]
             /\ UNCHANGED <<registered, waits>>
        ELSE /\ RegisterSocket(f, d)
             /\ UNCHANGED readable
  /\ retry' = [retry EXCEPT ![f] =
                 IF status'[f] = "io" THEN [kind |-> "sock", arg |-> s] ELSE @]
  /\ UNCHANGED <<slotVars, netVars, ready, done, inflight, discarded, notified,
                 workerVars, pollVars, ghostVars>>

\* Reactor::submit hands the job to the pool; a database call marks the fiber
\* in flight and sends the job to the pinned worker.
SubmitJob(f, kind, o) ==
  /\ inflight' = inflight \cup {f}
  /\ jobs' = IF kind = "pool" THEN Append(jobs, [fid |-> f, op |-> o]) ELSE jobs
  /\ pinned' = IF kind = "db" THEN Append(pinned, [fid |-> f, op |-> o]) ELSE pinned

MutCollect(f) == done' = done    \* the result left in place

\* Reactor::collect removes the result that has landed for this fiber.
Collect(f) == done' = [done EXCEPT ![f] = NoOp]

\* An offloaded call: collect a result that is there, else submit and park.
CallOffload(f, kind, o) ==
  /\ IF done[f] # NoOp
     THEN /\ Collect(f)
          /\ got' = got \cup {<<f, o, done[f]>>}
          /\ status' = [status EXCEPT ![f] = "run"]
          /\ UNCHANGED <<inflight, jobs, pinned, retry>>
     ELSE /\ SubmitJob(f, kind, o)
          /\ status' = [status EXCEPT ![f] = "io"]
          /\ retry' = [retry EXCEPT ![f] = [kind |-> kind, arg |-> o]]
          /\ UNCHANGED <<done, got>>
  /\ UNCHANGED <<slotVars, netVars, waits, ready, discarded, osVars, working, poking,
                 completions, execs, pollVars>>

\* A fiber begins a socket operation.
StartSocketOp(f, s) == Running(f) /\ CallSocket(f, s)

\* A fiber begins an offloaded operation (fs, process, connect, sleep; db).
StartOffload(f, kind) ==
  /\ Running(f)
  /\ nextOp \in Op
  /\ CallOffload(f, kind, nextOp)
  /\ nextOp' = nextOp + 1

\* A woken fiber is started again on its RETRY task; with none the cast of a
\* null task traps.
Retry(f) ==
  LET task == retry[f]
  IN /\ pc = "sched" /\ status[f] = "woken"
     /\ CASE task.kind = "sock" -> CallSocket(f, task.arg)
          [] task.kind \in {"pool", "db"} -> CallOffload(f, task.kind, task.arg) /\ UNCHANGED nextOp
          [] task.kind = "none" ->
               /\ pc' = "trap"
               /\ UNCHANGED <<fiberVars, netVars, tableVars, osVars, workerVars, events,
                              timedOut, ghostVars>>

\* HostNet::listen, a successful accept or adopt_conn: a socket on a free fd.
OpenSocket(f, d) ==
  /\ Running(f)
  /\ \A s \in SockId : sockets[s] # d
  /\ next_id \in SockId
  /\ sockets' = [sockets EXCEPT ![next_id] = d]
  /\ next_id' = next_id + 1
  /\ UNCHANGED <<fiberVars, tableVars, osVars, workerVars, pollVars, ghostVars>>

\* HostNet::close drops the table entry, which closes the descriptor; the kernel
\* then forgets its registration, while Reactor.waits keeps its entry.
CloseSocket(f, s) ==
  /\ Running(f)
  /\ sockets[s] # NoFd
  /\ CloseParked \/ \A g \in Fid : waits[g] # sockets[s]
  /\ sockets' = [sockets EXCEPT ![s] = NoFd]
  /\ registered' = [registered EXCEPT ![sockets[s]] = NoFid]
  /\ readable' = readable \ {sockets[s]}
  /\ UNCHANGED <<fiberVars, next_id, tableVars, notified, workerVars, pollVars, ghostVars>>

\* A fiber parks on something else (a sleep, a handle, a scope) ...
ParkOther(f) ==
  /\ Running(f)
  /\ status' = [status EXCEPT ![f] = "other"]
  /\ UNCHANGED <<retry, slotVars, netVars, tableVars, osVars, workerVars, pollVars, ghostVars>>

\* ... and is made runnable again by another fiber (a child it awaits ends) ...
WakeOther(f, g) ==
  /\ Running(g) /\ status[f] = "other"
  /\ status' = [status EXCEPT ![f] = "run"]
  /\ UNCHANGED <<retry, slotVars, netVars, tableVars, osVars, workerVars, pollVars, ghostVars>>

\* ... or by run_timers.
FireTimer(f) ==
  /\ pc = "timers" /\ status[f] = "other"
  /\ status' = [status EXCEPT ![f] = "run"]
  /\ UNCHANGED <<retry, slotVars, netVars, tableVars, osVars, workerVars, pollVars, ghostVars>>

\* fiber_completed: the fiber is dead and its RETRY cleared.
Complete(f) ==
  /\ Running(f)
  /\ status' = [status EXCEPT ![f] = "free"]
  /\ retry' = [retry EXCEPT ![f] = NoTask]
  /\ UNCHANGED <<slotVars, netVars, tableVars, osVars, workerVars, pollVars, ghostVars>>

\* push_fiber into a fresh slot or a recycled one: the program's first fiber, or
\* one that a running fiber spawns. The free list does not know whether the
\* reactor still names the slot.
Unnamed(f) == f \notin inflight /\ done[f] = NoOp /\ ~InSeq(f, ready)

Spawn(f) ==
  /\ Sched /\ status[f] = "free"
  /\ \/ \E g \in Fid : status[g] = "run"
     \/ \A g \in Fid : uses[g] = 0
  /\ uses[f] < MaxUse
  /\ status' = [status EXCEPT ![f] = "run"]
  /\ retry' = [retry EXCEPT ![f] = NoTask]
  /\ uses' = [uses EXCEPT ![f] = @ + 1]
  /\ early' = IF Unnamed(f) THEN early ELSE early \cup {f}
  /\ UNCHANGED <<netVars, tableVars, osVars, workerVars, pollVars, ghostVars>>

-----------------------------------------------------------------------------
(* Cancellation. *)

MutDiscards(f) == FALSE          \* a cancelled operation's result kept
MutDiscardsAll(f) == TRUE        \* marked although nothing is in flight

\* unwatch: a worker still runs the fiber's operation.
Discards(f) == f \in inflight

MutUnwatched(f) == waits         \* the poller's registration dropped, not the wait
\* waits.remove in unwatch.
Unwatched(f) == [waits EXCEPT ![f] = NoFd]

\* Reactor::unwatch: a socket wait is deregistered; an offload in flight has its
\* result dropped on arrival, one that has landed is dropped now.
Unwatch(f) ==
  IF waits[f] # NoFd
  THEN /\ waits' = Unwatched(f)
       /\ registered' = [registered EXCEPT ![waits[f]] = NoFid]
       /\ UNCHANGED <<discarded, done>>
  ELSE /\ discarded' = IF Discards(f) THEN discarded \cup {f} ELSE discarded
       /\ done' = IF Discards(f) THEN done ELSE [done EXCEPT ![f] = NoOp]
       /\ UNCHANGED <<waits, registered>>

\* reap_fiber, after a running fiber ended or cancelled a scope, or a deadline fired:
\* only a fiber parked on I/O is unwatched.
Reap(f) ==
  /\ pc = "timers" \/ \E g \in Fid : Running(g)
  /\ status[f] \in {"run", "io", "other"}
  /\ status' = [status EXCEPT ![f] = "free"]
  /\ retry' = [retry EXCEPT ![f] = NoTask]
  /\ IF status[f] = "io" THEN Unwatch(f)
                         ELSE UNCHANGED <<waits, registered, discarded, done>>
  /\ UNCHANGED <<slotVars, netVars, ready, inflight, readable, notified, workerVars,
                 pollVars, ghostVars>>

-----------------------------------------------------------------------------
(* The block step: io_block_step calls Reactor::poll. *)

MustPoll ==
  /\ Sched
  /\ \A f \in Fid : status[f] # "run"
  /\ \E f \in Fid : status[f] = "io"

\* A virtual timer bounds the wait; only a fiber parked elsewhere arms one.
TimerArmed == \E f \in Fid : status[f] = "other"

\* poll with woken fibers still buffered does not wait.
PollBuffered ==
  /\ MustPoll /\ ready # <<>>
  /\ pc' = "return"
  /\ UNCHANGED <<fiberVars, netVars, tableVars, osVars, workerVars, events, timedOut,
                 ghostVars>>

\* With no socket wait and nothing in flight poll answers -1 without waiting.
PollNothing ==
  /\ MustPoll /\ ready = <<>>
  /\ inflight = {} /\ \A f \in Fid : waits[f] = NoFd
  /\ pc' = "return"
  /\ timedOut' = TRUE
  /\ UNCHANGED <<fiberVars, netVars, tableVars, osVars, workerVars, events, ghostVars>>

\* Poller::wait returns for ready descriptors or a notification, and at the
\* deadline, which only an armed timer sets.
PollWait ==
  LET hits == {d \in readable : registered[d] # NoFid}
  IN /\ MustPoll /\ ready = <<>>
     /\ inflight # {} \/ \E f \in Fid : waits[f] # NoFd
     /\ hits # {} \/ notified \/ TimerArmed
     /\ events' = {registered[d] : d \in hits}
     /\ timedOut' = (hits = {} /\ ~notified)
     /\ notified' = FALSE
     /\ pc' = "events"
     /\ UNCHANGED <<fiberVars, netVars, tableVars, registered, readable, workerVars,
                    ghostVars>>

\* One readiness event: the token's wait is deregistered and the fiber buffered.
PollEvent(f) ==
  /\ pc = "events" /\ f \in events
  /\ events' = events \ {f}
  /\ IF waits[f] # NoFd
     THEN /\ registered' = [registered EXCEPT ![waits[f]] = NoFid]
          /\ waits' = [waits EXCEPT ![f] = NoFd]
          /\ ready' = Append(ready, f)
     ELSE UNCHANGED <<registered, waits, ready>>
  /\ UNCHANGED <<fiberVars, netVars, done, inflight, discarded, readable, notified,
                 workerVars, pc, timedOut, ghostVars>>

\* The completion queue's mutex is taken for the whole drain.
PollLock ==
  /\ pc = "events" /\ events = {}
  /\ pc' = "drain"
  /\ UNCHANGED <<fiberVars, netVars, tableVars, osVars, workerVars, events, timedOut,
                 ghostVars>>

MutStashed(c) == done            \* woken, its result forgotten
Stashed(c) == [done EXCEPT ![c.fid] = c.op]

\* One completion: dropped if its fiber's operation was cancelled, else stashed.
PollDrain ==
  LET c == Head(completions)
  IN /\ pc = "drain" /\ completions # <<>>
     /\ completions' = Tail(completions)
     /\ inflight' = inflight \ {c.fid}
     /\ discarded' = discarded \ {c.fid}
     /\ IF c.fid \in discarded
        THEN UNCHANGED <<done, ready>>
        ELSE /\ done' = Stashed(c)
             /\ ready' = Append(ready, c.fid)
     /\ UNCHANGED <<fiberVars, netVars, waits, osVars, jobs, working, pinned, poking,
                    execs, pollVars, ghostVars>>

MutPopped == ready               \* pop_front forgotten
Popped == Tail(ready)

\* poll returns one fid: io_block_step starts that fiber again if it is alive. On
\* -1 it goes on to the timers, if there are any.
PollReturn ==
  /\ pc = "return" \/ (pc = "drain" /\ completions = <<>>)
  /\ IF ready = <<>>
     THEN /\ pc' = IF TimerArmed THEN "timers" ELSE "sched"
          /\ UNCHANGED <<ready, status>>
     ELSE /\ pc' = "sched"
          /\ ready' = Popped
          /\ status' = [status EXCEPT ![Head(ready)] =
                          IF @ = "free" THEN @ ELSE "woken"]
  /\ UNCHANGED <<retry, slotVars, netVars, waits, done, inflight, discarded, osVars,
                 workerVars, events, timedOut, ghostVars>>

\* timers_or_exit: with no I/O wait the timers come at once.
TimersDue ==
  /\ Sched /\ TimerArmed
  /\ \A f \in Fid : status[f] \notin {"run", "io"}
  /\ pc' = "timers" /\ timedOut' = TRUE
  /\ UNCHANGED <<fiberVars, netVars, tableVars, osVars, workerVars, events, ghostVars>>

\* run_timers has fired every timer that is due.
TimersDone ==
  /\ pc = "timers"
  /\ pc' = "sched"
  /\ UNCHANGED <<fiberVars, netVars, tableVars, osVars, workerVars, events, timedOut,
                 ghostVars>>

-----------------------------------------------------------------------------
(* The other threads, and the outside world. *)

\* A free pool worker takes the next job from the channel.
WorkerTake(w) ==
  /\ jobs # <<>> /\ working[w] = NoJob
  /\ jobs' = Tail(jobs)
  /\ working' = [working EXCEPT ![w] = Head(jobs)]
  /\ UNCHANGED <<fiberVars, netVars, tableVars, osVars, pinned, poking, completions,
                 execs, pollVars, ghostVars>>

\* A worker ends its blocking call and pushes the result; the queue's mutex keeps
\* it out while poll drains.
PushCompletion(j) ==
  /\ pc # "drain"
  /\ completions' = Append(completions, j)
  /\ execs' = [execs EXCEPT ![j] = @ + 1]
  /\ poking' = poking + 1

WorkerDone(w) ==
  /\ working[w] # NoJob /\ PushCompletion(working[w])
  /\ working' = [working EXCEPT ![w] = NoJob]
  /\ UNCHANGED <<fiberVars, netVars, tableVars, osVars, jobs, pinned, pollVars, ghostVars>>

PinnedDone ==
  /\ pinned # <<>> /\ PushCompletion(Head(pinned))
  /\ pinned' = Tail(pinned)
  /\ UNCHANGED <<fiberVars, netVars, tableVars, osVars, jobs, working, pollVars, ghostVars>>

MutWorkerNotify ==               \* the poller not woken
  /\ poking > 0
  /\ poking' = poking - 1
  /\ UNCHANGED <<fiberVars, netVars, tableVars, osVars, jobs, working, pinned, completions,
                 execs, pollVars, ghostVars>>

\* ... and wakes the poller.
WorkerNotify ==
  /\ poking > 0
  /\ poking' = poking - 1
  /\ notified' = TRUE
  /\ UNCHANGED <<fiberVars, netVars, tableVars, registered, readable, jobs, working,
                 pinned, completions, execs, pollVars, ghostVars>>

\* A peer makes a descriptor ready.
BecomeReadable(d) ==
  /\ \E s \in SockId : sockets[s] = d
  /\ d \notin readable
  /\ readable' = readable \cup {d}
  /\ UNCHANGED <<fiberVars, netVars, tableVars, registered, notified, workerVars,
                 pollVars, ghostVars>>

-----------------------------------------------------------------------------
FiberStep(f) ==
  \/ \E s \in SockId : StartSocketOp(f, s) \/ CloseSocket(f, s)
  \/ \E kind \in {"pool", "db"} : StartOffload(f, kind)
  \/ \E d \in Fd : OpenSocket(f, d)
  \/ ParkOther(f) \/ Complete(f)

PollStep ==
  \/ PollBuffered \/ PollNothing \/ PollWait \/ PollLock \/ PollDrain \/ PollReturn
  \/ TimersDue \/ TimersDone \/ \E f \in Fid : PollEvent(f)

SchedulerStep ==
  \/ \E f \in Fid : FiberStep(f) \/ Retry(f) \/ FireTimer(f) \/ Spawn(f) \/ Reap(f)
  \/ \E f, g \in Fid : WakeOther(f, g)
  \/ PollStep

WorkerStep == (\E w \in Worker : WorkerTake(w) \/ WorkerDone(w)) \/ PinnedDone \/ WorkerNotify

Next == SchedulerStep \/ WorkerStep \/ \E d \in Fd : BecomeReadable(d)

Spec == Init /\ [][Next]_vars

\* The scheduler thread keeps stepping: it polls when it must, starts what it
\* woke, and no fiber runs forever without parking or ending. Worker threads
\* are scheduled by the OS and blocking calls return. Nothing makes a peer
\* send, a program open or spawn, or a cancellation happen.
Fairness ==
  /\ WF_vars(PollStep)
  /\ \A f \in Fid : WF_vars(Retry(f)) /\ WF_vars(Complete(f) \/ ParkOther(f))
  /\ \A w \in Worker : WF_vars(WorkerTake(w)) /\ SF_vars(WorkerDone(w))
  /\ SF_vars(PinnedDone) /\ WF_vars(WorkerNotify)

FairSpec == Spec /\ Fairness

-----------------------------------------------------------------------------
TypeOK ==
  /\ status \in [Fid -> {"free", "run", "io", "woken", "other"}]
  /\ retry \in [Fid -> Task]
  /\ uses \in [Fid -> 0..MaxUse] /\ early \subseteq Fid
  /\ sockets \in [SockId -> Fd \cup {NoFd}] /\ next_id \in 1..(MaxSock + 1)
  /\ waits \in [Fid -> Fd \cup {NoFd}]
  /\ ready \in Seq(Fid)
  /\ completions \in Seq(Job)
  /\ done \in [Fid -> Op \cup {NoOp}]
  /\ inflight \subseteq Fid /\ discarded \subseteq inflight
  /\ registered \in [Fd -> Fid \cup {NoFid}]
  /\ readable \subseteq Fd /\ notified \in BOOLEAN
  /\ jobs \in Seq(Job) /\ working \in [Worker -> Job \cup {NoJob}] /\ pinned \in Seq(Job)
  /\ poking \in Nat
  /\ pc \in {"sched", "events", "drain", "return", "timers", "trap"} /\ timedOut \in BOOLEAN
  /\ events \subseteq Fid
  /\ nextOp \in 1..(MaxOp + 1)
  /\ execs \in [Job -> Nat]
  /\ got \subseteq Fid \X Op \X Op

\* What follows holds of every slot that was never handed out while the reactor
\* named it, whatever happens to the others: the damage of an early one stays its
\* own.

\* An offloaded call is given the result of the very call it submitted.
OwnResult == \A p \in got : p[1] \notin early => p[2] = p[3]

\* The blocking call behind an operation (a write, a statement, a connect) is
\* run at most once: waking a fiber never submits its operation again.
ExecOnce == \A j \in Job : j.fid \notin early => execs[j] <= 1

\* The operation j's result is on its way to the fiber that submitted it.
Underway(f, o) ==
  LET j == [fid |-> f, op |-> o]
  IN (\E w \in Worker : working[w] = j) \/ InSeq(j, jobs) \/ InSeq(j, pinned) \/ InSeq(j, completions)

SocketWake(f) == (waits[f] # NoFd /\ registered[waits[f]] = f) \/ InSeq(f, ready)
OffloadWake(f) ==
  \/ f \in inflight \ discarded /\ Underway(f, retry[f].arg)
  \/ done[f] = retry[f].arg /\ InSeq(f, ready)

\* No lost wakeup: a fiber parked on I/O is registered with the poller for its
\* socket, or its own operation is still underway and will not be dropped, or
\* it is in the buffer of woken fibers.
ParkedHasWakeSource ==
  \A f \in Fid \ early : status[f] = "io" =>
    IF retry[f].kind = "sock" THEN SocketWake(f) ELSE OffloadWake(f)

\* Socket waits survive what offloads do not: whatever wakes and results meant for
\* the slot's earlier fibers arrive, a fiber parked on a socket keeps a wakeup.
SocketWaitKept ==
  \A f \in Fid : status[f] = "io" /\ retry[f].kind = "sock" => SocketWake(f)

\* The two records of a socket wait agree, whatever slots are handed out again: the
\* descriptor a fiber waits for is registered with the poller for that fiber.
WaitsRegistered == \A f \in Fid : waits[f] # NoFd => registered[waits[f]] = f

\* A wake only ever reaches a fiber that parked on I/O: starting any other fiber
\* again runs an I/O task it is not waiting for, or a null one, which traps.
WakeReachesParked ==
  [][\A f \in Fid \ early : status'[f] = "woken" /\ status[f] # "woken" => status[f] = "io"]_vars

\* A result waits only for a live fiber that parked for it: cancelling leaves none
\* behind for the next fiber in the slot to collect.
NoStrayResult ==
  \A f \in Fid \ early : done[f] # NoOp =>
    status[f] \in {"io", "woken"} /\ retry[f].arg = done[f]

\* A fiber parked on an offloaded operation is started again or cancelled, as long
\* as the ready queue empties again and again: poll is called only then, so fibers
\* that keep each other runnable starve every I/O wait.
OffloadSettles ==
  []<>(\A f \in Fid : status[f] \notin {"run", "woken"}) =>
    \A f \in Fid :
      status[f] = "io" /\ retry[f].kind \in {"pool", "db"} ~> status[f] # "io" \/ f \in early

\* The virtual clock jumps to the next deadline only when a poll really ran into
\* that deadline or had nothing to wait for.
TimersOnlyOnTimeout == pc = "timers" => timedOut
=============================================================================

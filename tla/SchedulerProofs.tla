--------------------------- MODULE SchedulerProofs ---------------------------
(***************************************************************************)
(* Theorems about the scheduler, for every size of its tables, every       *)
(* program and every choice of the switches.                               *)
(***************************************************************************)
EXTENDS Scheduler, SequenceTheorems, TLAPS

-----------------------------------------------------------------------------
(* The sequence operators of the model. *)

\* The last entry of a stack, and the stack without it.
LEMMA FrontLastType ==
  ASSUME NEW S, NEW s \in Seq(S), s # <<>>
  PROVE  Last(s) \in S /\ Front(s) \in Seq(S)
<1>1. Len(s) \in Nat /\ Len(s) >= 1
  BY EmptySeq, LenProperties
<1>2. Last(s) \in S
  BY <1>1, ElementOfSeq DEF Last
<1>3. Front(s) \in Seq(S)
  BY <1>1, SubSeqProperties DEF Front
<1> QED
  BY <1>2, <1>3

\* A timer list without the timer that fired.
LEMMA RemoveAtType ==
  ASSUME NEW S, NEW s \in Seq(S), NEW i \in DOMAIN s
  PROVE  RemoveAt(s, i) \in Seq(S)
<1>1. Len(s) \in Nat /\ i \in 1..Len(s)
  BY LenProperties
<1>2. SubSeq(s, 1, i - 1) \in Seq(S)
  BY <1>1, SubSeqProperties
<1>3. SubSeq(s, i + 1, Len(s)) \in Seq(S)
  BY <1>1, SubSeqProperties
<1> QED
  BY <1>2, <1>3, ConcatProperties DEF RemoveAt

\* The calls that replace the one being made.
LEMMA ThenType ==
  ASSUME work \in Seq(Call), work # <<>>, NEW calls \in Seq(Call), Then(calls)
  PROVE  work' \in Seq(Call)
<1>1. Tail(work) \in Seq(Call)
  BY HeadTailProperties
<1> QED
  BY <1>1, ConcatProperties DEF Then

-----------------------------------------------------------------------------
(* Rows and slots. *)

\* The row of a spawned fiber.
LEMMA NewFiberType ==
  ASSUME NEW s \in Sid, NEW runs \in Sid \cup {NO_SCOPE}, NEW knows \in SUBSET SidRef,
         NEW old, old.gen \in Nat
  PROVE  NewFiber(s, runs, knows, old) \in Fiber
BY EmptySeq DEF NewFiber, Fiber, Outcome, Wait

\* The row of a scope that start_scope opens.
LEMMA NewScopeType ==
  ASSUME NEW manual \in BOOLEAN, NEW awaiter \in FidRef \cup {None},
         NEW enclosing \in SUBSET SidRef, NEW old, old.gen \in Nat
  PROVE  NewScope(manual, awaiter, enclosing, old) \in Scope
BY EmptySeq, SchedulerAssumption DEF NewScope, Scope, Outcome, Root, Fid

\* acquire_slot answers with a row of the fiber table.
LEMMA FiberSlotType ==
  ASSUME NEW free \in Seq(Fid), NEW n \in 0..MaxFibers, FiberSlotLeft(free, n)
  PROVE  /\ Slot(free, n) \in Fid
         /\ FreeAfter(free) \in Seq(Fid)
         /\ LenAfter(free, n) \in 0..MaxFibers
<1>1. CASE free # <<>>
  BY <1>1, FrontLastType, SchedulerAssumption DEF Slot, FreeAfter, LenAfter
<1>2. CASE free = <<>>
  BY <1>2, SchedulerAssumption DEF Slot, FreeAfter, LenAfter, FiberSlotLeft, Fid
<1> QED
  BY <1>1, <1>2

\* ... and with one of the scope table.
LEMMA ScopeSlotType ==
  ASSUME free_scopes \in Seq(Sid), nscopes \in 0..MaxScopes, ScopeSlotLeft
  PROVE  /\ Slot(free_scopes, nscopes) \in Sid
         /\ FreeAfter(free_scopes) \in Seq(Sid)
         /\ LenAfter(free_scopes, nscopes) \in 0..MaxScopes
<1>1. CASE free_scopes # <<>>
  BY <1>1, FrontLastType, SchedulerAssumption DEF Slot, FreeAfter, LenAfter
<1>2. CASE free_scopes = <<>>
  BY <1>2, SchedulerAssumption DEF Slot, FreeAfter, LenAfter, ScopeSlotLeft, Sid
<1> QED
  BY <1>1, <1>2

\* Entries appended to the ready queue.
LEMMA PushType ==
  ASSUME ready \in Seq(Entry), NEW f \in FidRef, NEW focus \in {"start", "resume"}
  PROVE  Push(f, focus) \in Seq(Entry)
<1>1. [fid |-> f, focus |-> focus] \in Entry
  BY DEF Entry
<1> QED
  BY <1>1, AppendProperties DEF Push

-----------------------------------------------------------------------------
(* Updates of the two tables. A row of the fiber table is well formed when, *)
(* parked on a scope, it names one.                                         *)

FiberOK == {r \in Fiber : r.wait_kind = "scope" => r.wait_arg \in SidRef}

TablesOK ==
  /\ fibers \in [Fid -> FiberOK] /\ nfibers \in 0..MaxFibers
  /\ scopes \in [Sid -> Scope] /\ nscopes \in 0..MaxScopes
  /\ free_fibers \in Seq(Fid) /\ free_scopes \in Seq(Sid)
QueuesOK == ready \in Seq(Entry) /\ timers \in Seq(Timer) /\ pending \in Seq(SidRef)
ControlOK ==
  /\ root_kind \in Outcome /\ current \in Fid \cup {NoFiber}
  /\ starting \in SidRef \cup {None} /\ work \in Seq(Call) /\ halted \in BOOLEAN

Typed == TablesOK /\ QueuesOK /\ ControlOK

\* The type invariant, table by table.
LEMMA TypeParts == TypeOK <=> Typed
<1>1. (fibers \in [Fid -> FiberOK]) <=>
        /\ fibers \in [Fid -> Fiber]
        /\ \A f \in Fid : fibers[f].wait_kind = "scope" => fibers[f].wait_arg \in SidRef
  BY DEF FiberOK
<1> QED
  BY <1>1 DEF TypeOK, Typed, TablesOK, QueuesOK, ControlOK

\* What a fiber row holds.
LEMMA FiberFields ==
  ASSUME NEW t \in [Fid -> FiberOK], NEW f \in Fid
  PROVE  /\ t[f].alive \in BOOLEAN /\ t[f].scope \in Sid
         /\ t[f].runs_scope \in Sid \cup {NO_SCOPE} /\ t[f].res_kind \in Outcome
         /\ t[f].wait_kind \in Wait /\ t[f].wait_arg \in FidRef \cup SidRef \cup {None}
         /\ t[f].waiters \in Seq(FidRef) /\ t[f].knows \in SUBSET SidRef /\ t[f].gen \in Nat
         /\ t[f].wait_kind = "scope" => t[f].wait_arg \in SidRef
BY DEF FiberOK, Fiber

\* What a scope row holds.
LEMMA ScopeFields ==
  ASSUME NEW t \in [Sid -> Scope], NEW s \in Sid
  PROVE  /\ t[s].manual \in BOOLEAN /\ t[s].cancelled \in BOOLEAN /\ t[s].finalized \in BOOLEAN
         /\ t[s].body \in Fid /\ t[s].children \in Seq(FidRef)
         /\ t[s].awaiter \in FidRef \cup {None} /\ t[s].bd_kind \in Outcome
         /\ t[s].fail_set \in BOOLEAN /\ t[s].completed \in Nat
         /\ t[s].next_waiters \in Seq(FidRef) /\ t[s].live \in Int
         /\ t[s].enclosing \in SUBSET SidRef /\ t[s].gen \in Nat
BY DEF Scope

\* A table stays one when a row is replaced by a row.
LEMMA RowReplaced ==
  ASSUME NEW D, NEW R, NEW t \in [D -> R], NEW d \in D, NEW r \in R
  PROVE  [t EXCEPT ![d] = r] \in [D -> R]
OBVIOUS

\* A fiber parks.
LEMMA ParkedRow ==
  ASSUME NEW t \in [Fid -> FiberOK], NEW f \in Fid, NEW kind \in Wait,
         NEW arg \in FidRef \cup SidRef \cup {None}, kind = "scope" => arg \in SidRef
  PROVE  [t EXCEPT ![f].wait_kind = kind, ![f].wait_arg = arg] \in [Fid -> FiberOK]
<1> DEFINE r == [t[f] EXCEPT !.wait_kind = kind, !.wait_arg = arg]
<1>1. \A q \in FiberOK : [q EXCEPT !.wait_kind = kind, !.wait_arg = arg] \in FiberOK
  BY DEF FiberOK, Fiber
<1>2. r \in FiberOK
  BY <1>1
<1>3. [t EXCEPT ![f].wait_kind = kind, ![f].wait_arg = arg] = [t EXCEPT ![f] = r]
  OBVIOUS
<1> HIDE DEF r
<1> QED
  BY <1>2, <1>3, RowReplaced

\* A fiber is resumed.
LEMMA ResumedRow ==
  ASSUME NEW t \in [Fid -> FiberOK], NEW f \in Fid
  PROVE  [t EXCEPT ![f].wait_kind = "none"] \in [Fid -> FiberOK]
<1>1. \A q \in FiberOK : [q EXCEPT !.wait_kind = "none"] \in FiberOK
  BY DEF FiberOK, Fiber, Wait
<1> QED
  BY <1>1, RowReplaced

\* A fiber's list of waiters changes.
LEMMA WaitersRow ==
  ASSUME NEW t \in [Fid -> FiberOK], NEW f \in Fid, NEW w \in Seq(FidRef)
  PROVE  [t EXCEPT ![f].waiters = w] \in [Fid -> FiberOK]
<1>1. \A q \in FiberOK : [q EXCEPT !.waiters = w] \in FiberOK
  BY DEF FiberOK, Fiber
<1> QED
  BY <1>1, RowReplaced

\* A fiber ends.
LEMMA SettledRow ==
  ASSUME fibers \in [Fid -> FiberOK], NEW f \in Fid, NEW kind \in Outcome
  PROVE  Settled(f, kind) \in [Fid -> FiberOK]
<1> DEFINE r == [fibers[f] EXCEPT !.alive = FALSE, !.res_kind = kind]
<1>1. \A q \in FiberOK : [q EXCEPT !.alive = FALSE, !.res_kind = kind] \in FiberOK
  BY DEF FiberOK, Fiber
<1>2. r \in FiberOK
  BY <1>1
<1>3. Settled(f, kind) = [fibers EXCEPT ![f] = r]
  BY DEF Settled
<1> HIDE DEF r
<1> QED
  BY <1>2, <1>3, RowReplaced

\* A row is handed out.
LEMMA SpawnedRow ==
  ASSUME NEW t \in [Fid -> FiberOK], NEW f \in Fid, NEW s \in Sid,
         NEW runs \in Sid \cup {NO_SCOPE}, NEW knows \in SUBSET SidRef
  PROVE  [t EXCEPT ![f] = NewFiber(s, runs, knows, t[f])] \in [Fid -> FiberOK]
<1>1. t[f].gen \in Nat
  BY FiberFields
<1>2. NewFiber(s, runs, knows, t[f]) \in Fiber
  BY <1>1, NewFiberType
<1>3. NewFiber(s, runs, knows, t[f]).wait_kind = "none"
  BY DEF NewFiber
<1> QED
  BY <1>2, <1>3 DEF FiberOK

\* One field of a scope row changes.
LEMMA ScopeSet ==
  ASSUME NEW t \in [Sid -> Scope], NEW s \in Sid
  PROVE  /\ \A v \in BOOLEAN : /\ [t EXCEPT ![s].cancelled = v] \in [Sid -> Scope]
                               /\ [t EXCEPT ![s].finalized = v] \in [Sid -> Scope]
                               /\ [t EXCEPT ![s].fail_set = v] \in [Sid -> Scope]
         /\ \A v \in Seq(FidRef) : /\ [t EXCEPT ![s].children = v] \in [Sid -> Scope]
                                   /\ [t EXCEPT ![s].next_waiters = v] \in [Sid -> Scope]
         /\ \A v \in Fid : [t EXCEPT ![s].body = v] \in [Sid -> Scope]
         /\ \A v \in Outcome : [t EXCEPT ![s].bd_kind = v] \in [Sid -> Scope]
         /\ \A v \in Nat : [t EXCEPT ![s].completed = v] \in [Sid -> Scope]
         /\ \A v \in Int : [t EXCEPT ![s].live = v] \in [Sid -> Scope]
<1>0. t[s] \in Scope
  OBVIOUS
<1>1. \A r \in Scope, v \in BOOLEAN : [r EXCEPT !.cancelled = v] \in Scope
  BY DEF Scope
<1>2. \A r \in Scope, v \in BOOLEAN : [r EXCEPT !.finalized = v] \in Scope
  BY DEF Scope
<1>3. \A r \in Scope, v \in BOOLEAN : [r EXCEPT !.fail_set = v] \in Scope
  BY DEF Scope
<1>4. \A r \in Scope, v \in Seq(FidRef) : [r EXCEPT !.children = v] \in Scope
  BY DEF Scope
<1>5. \A r \in Scope, v \in Seq(FidRef) : [r EXCEPT !.next_waiters = v] \in Scope
  BY DEF Scope
<1>6. \A r \in Scope, v \in Fid : [r EXCEPT !.body = v] \in Scope
  BY DEF Scope
<1>7. \A r \in Scope, v \in Outcome : [r EXCEPT !.bd_kind = v] \in Scope
  BY DEF Scope
<1>8. \A r \in Scope, v \in Nat : [r EXCEPT !.completed = v] \in Scope
  BY DEF Scope
<1>9. \A r \in Scope, v \in Int : [r EXCEPT !.live = v] \in Scope
  BY DEF Scope
<1>10. \A v \in BOOLEAN : /\ [t EXCEPT ![s].cancelled = v] \in [Sid -> Scope]
                          /\ [t EXCEPT ![s].finalized = v] \in [Sid -> Scope]
                          /\ [t EXCEPT ![s].fail_set = v] \in [Sid -> Scope]
  BY <1>0, <1>1, <1>2, <1>3, RowReplaced
<1>11. \A v \in Seq(FidRef) : /\ [t EXCEPT ![s].children = v] \in [Sid -> Scope]
                              /\ [t EXCEPT ![s].next_waiters = v] \in [Sid -> Scope]
  BY <1>0, <1>4, <1>5, RowReplaced
<1>12. /\ \A v \in Fid : [t EXCEPT ![s].body = v] \in [Sid -> Scope]
       /\ \A v \in Outcome : [t EXCEPT ![s].bd_kind = v] \in [Sid -> Scope]
  BY <1>0, <1>6, <1>7, RowReplaced
<1>13. /\ \A v \in Nat : [t EXCEPT ![s].completed = v] \in [Sid -> Scope]
       /\ \A v \in Int : [t EXCEPT ![s].live = v] \in [Sid -> Scope]
  BY <1>0, <1>8, <1>9, RowReplaced
<1> QED
  BY <1>10, <1>11, <1>12, <1>13

\* A scope row gains a child, ...
LEMMA SpawnedScope ==
  ASSUME NEW t \in [Sid -> Scope], NEW s \in Sid, NEW r \in FidRef
  PROVE  [t EXCEPT ![s].children = Append(@, r), ![s].live = @ + 1] \in [Sid -> Scope]
<1>1. t[s].children \in Seq(FidRef) /\ t[s].live + 1 \in Int
  BY ScopeFields
<1> DEFINE t1 == [t EXCEPT ![s].children = Append(t[s].children, r)]
<1>2. Append(t[s].children, r) \in Seq(FidRef)
  BY <1>1, AppendProperties
<1>3. t1 \in [Sid -> Scope]
  BY <1>2, ScopeSet
<1>4. [t1 EXCEPT ![s].live = t[s].live + 1] \in [Sid -> Scope]
  <2> HIDE DEF t1
  <2> QED
    BY <1>1, <1>3, ScopeSet
<1> QED
  BY <1>4

\* ... a fiber that drains it, ...
LEMMA DrainedScope ==
  ASSUME NEW t \in [Sid -> Scope], NEW s \in Sid, NEW r \in FidRef
  PROVE  [t EXCEPT ![s].next_waiters = Append(@, r)] \in [Sid -> Scope]
<1>1. t[s].next_waiters \in Seq(FidRef)
  BY ScopeFields
<1>2. Append(t[s].next_waiters, r) \in Seq(FidRef)
  BY <1>1, AppendProperties
<1> QED
  BY <1>2, ScopeSet

\* ... loses a settled child, ...
LEMMA TakenScope ==
  ASSUME NEW t \in [Sid -> Scope], NEW s \in Sid, t[s].completed > 0
  PROVE  [t EXCEPT ![s].completed = @ - 1] \in [Sid -> Scope]
<1>1. t[s].completed - 1 \in Nat
  BY ScopeFields
<1> QED
  BY <1>1, ScopeSet

\* ... and is opened.
LEMMA OpenedScope ==
  ASSUME NEW t \in [Sid -> Scope], NEW s \in Sid, NEW manual \in BOOLEAN,
         NEW awaiter \in FidRef, NEW enclosing \in SUBSET SidRef
  PROVE  [t EXCEPT ![s] = NewScope(manual, awaiter, enclosing, @)] \in [Sid -> Scope]
<1>1. t[s].gen \in Nat
  BY ScopeFields
<1>2. NewScope(manual, awaiter, enclosing, t[s]) \in Scope
  BY <1>1, NewScopeType
<1> QED
  BY <1>2

\* A scope's body has ended, ...
LEMMA BodyDoneScope ==
  ASSUME NEW t \in [Sid -> Scope], NEW s \in Sid, NEW kind \in Outcome, NEW fails \in BOOLEAN
  PROVE  [t EXCEPT ![s].bd_kind = kind, ![s].fail_set = IF fails THEN TRUE ELSE @]
           \in [Sid -> Scope]
<1> DEFINE t1 == [t EXCEPT ![s].bd_kind = kind]
           fail == IF fails THEN TRUE ELSE t[s].fail_set
<1>1. t1 \in [Sid -> Scope]
  BY ScopeSet
<1>2. fail \in BOOLEAN
  BY ScopeFields
<1>3. [t1 EXCEPT ![s].fail_set = fail] \in [Sid -> Scope]
  <2> HIDE DEF t1, fail
  <2> QED
    BY <1>1, <1>2, ScopeSet
<1> QED
  BY <1>3

\* ... a child has.
LEMMA ChildDoneRow ==
  ASSUME NEW t \in [Sid -> Scope], NEW s \in Sid, NEW live \in Int, NEW next \in Seq(FidRef),
         NEW completed \in Nat, NEW fail \in BOOLEAN
  PROVE  [t EXCEPT ![s].live = live, ![s].next_waiters = next, ![s].completed = completed,
                   ![s].fail_set = fail] \in [Sid -> Scope]
<1> DEFINE t1 == [t EXCEPT ![s].live = live]
           t2 == [t1 EXCEPT ![s].next_waiters = next]
           t3 == [t2 EXCEPT ![s].completed = completed]
<1>1. t1 \in [Sid -> Scope]
  BY ScopeSet
<1>2. t2 \in [Sid -> Scope]
  <2> HIDE DEF t1
  <2> QED
    BY <1>1, ScopeSet
<1>3. t3 \in [Sid -> Scope]
  <2> HIDE DEF t2
  <2> QED
    BY <1>2, ScopeSet
<1>4. [t3 EXCEPT ![s].fail_set = fail] \in [Sid -> Scope]
  <2> HIDE DEF t3
  <2> QED
    BY <1>3, ScopeSet
<1> QED
  BY <1>4

\* The same, as on_child_done computes the fields.
LEMMA ChildDoneScope ==
  ASSUME NEW t \in [Sid -> Scope], NEW s \in Sid, NEW fails \in BOOLEAN
  PROVE  [t EXCEPT ![s].live = @ - 1,
                   ![s].next_waiters = IF t[s].next_waiters # <<>> THEN Tail(@) ELSE @,
                   ![s].completed = IF t[s].next_waiters # <<>> THEN @ ELSE @ + 1,
                   ![s].fail_set = IF fails THEN TRUE ELSE @] \in [Sid -> Scope]
<1> DEFINE live == t[s].live - 1
           next == IF t[s].next_waiters # <<>> THEN Tail(t[s].next_waiters)
                                               ELSE t[s].next_waiters
           completed == IF t[s].next_waiters # <<>> THEN t[s].completed
                                                    ELSE t[s].completed + 1
           fail == IF fails THEN TRUE ELSE t[s].fail_set
<1>1. live \in Int /\ completed \in Nat
  BY ScopeFields
<1>2. fail \in BOOLEAN
  BY ScopeFields
<1>3. next \in Seq(FidRef)
  <2>1. t[s].next_waiters \in Seq(FidRef)
    BY ScopeFields
  <2>2. CASE t[s].next_waiters # <<>>
    <3>1. Tail(t[s].next_waiters) \in Seq(FidRef)
      BY <2>1, <2>2, HeadTailProperties
    <3> QED
      BY <2>2, <3>1
  <2>3. CASE t[s].next_waiters = <<>>
    BY <2>1, <2>3
  <2> QED
    BY <2>2, <2>3
<1> HIDE DEF live, next, completed, fail
<1>4. [t EXCEPT ![s].live = live, ![s].next_waiters = next, ![s].completed = completed,
                ![s].fail_set = fail] \in [Sid -> Scope]
  BY <1>1, <1>2, <1>3, ChildDoneRow, ZenonT(40)
<1> QED
  BY <1>4, ZenonT(60) DEF live, next, completed, fail

\* The handles a program can name, and the rows they stand for.
LEMMA HandleType ==
  ASSUME TablesOK, ControlOK
  PROVE  /\ AllHandles \subseteq SidRef
         /\ current \in Fid => Handles \subseteq SidRef
         /\ \A h \in SidRef : h.id \in Sid
<1>1. \A f \in Fid : fibers[f].knows \subseteq SidRef
  BY FiberFields DEF TablesOK
<1>2. {starting} \ {None} \subseteq SidRef
  BY DEF ControlOK
<1>3. UNION {fibers[f].knows : f \in Fid} \subseteq SidRef
  BY <1>1, Zenon
<1>4. AllHandles \subseteq SidRef
  <2> SUFFICES ASSUME NEW h \in AllHandles
               PROVE  h \in SidRef
    BY Zenon
  <2>1. h \in UNION {fibers[f].knows : f \in Fid} \/ h \in {starting} \ {None}
    BY Zenon DEF AllHandles
  <2>2. CASE h \in UNION {fibers[f].knows : f \in Fid}
    BY <1>3, <2>2, Zenon
  <2>3. CASE h \in {starting} \ {None}
    BY <1>2, <2>3
  <2> QED
    BY <2>1, <2>2, <2>3
<1>5. current \in Fid => Handles \subseteq SidRef
  BY <1>1, <1>2 DEF Handles
<1> QED
  BY <1>4, <1>5 DEF SidRef

\* The elements of a list of references.
LEMMA RangeType ==
  ASSUME NEW S, NEW s \in Seq(S)
  PROVE  Range(s) \subseteq S
BY LenProperties DEF Range

-----------------------------------------------------------------------------
(* Operations of the fiber being pumped. *)

\* sched_spawn leaves the tables well formed.
LEMMA SpawnIntoType ==
  ASSUME TablesOK, QueuesOK, NEW h \in SidRef, NEW handles \in SUBSET SidRef,
         SpawnInto(h, handles)
  PROVE  /\ fibers' \in [Fid -> FiberOK] /\ nfibers' \in 0..MaxFibers
         /\ scopes' \in [Sid -> Scope] /\ free_fibers' \in Seq(Fid)
         /\ ready' \in Seq(Entry)
<1> DEFINE f == Slot(free_fibers, nfibers)
           knows == IF CaptureInner THEN handles ELSE scopes[h.id].enclosing \cup {h}
           r == Ref(f, fibers[f].gen + 1)
<1>0. h.id \in Sid
  BY DEF SidRef
<1>1. /\ f \in Fid
      /\ FreeAfter(free_fibers) \in Seq(Fid)
      /\ LenAfter(free_fibers, nfibers) \in 0..MaxFibers
  BY FiberSlotType DEF TablesOK, SpawnInto
<1>2. knows \in SUBSET SidRef
  BY <1>0, ScopeFields DEF TablesOK
<1>3. r \in FidRef
  <2>1. fibers[f].gen + 1 \in Nat
    BY <1>1, FiberFields DEF TablesOK
  <2> QED
    BY <1>1, <2>1 DEF Ref, FidRef
<1>4. fibers' \in [Fid -> FiberOK]
  <2>1. fibers' = [fibers EXCEPT ![f] = NewFiber(h.id, NO_SCOPE, knows, fibers[f])]
    BY DEF SpawnInto
  <2>2. [fibers EXCEPT ![f] = NewFiber(h.id, NO_SCOPE, knows, fibers[f])] \in [Fid -> FiberOK]
    <3> HIDE DEF f, knows
    <3> QED
      BY <1>0, <1>1, <1>2, SpawnedRow DEF TablesOK
  <2> QED
    BY <2>1, <2>2
<1>5. scopes' \in [Sid -> Scope]
  <2>1. scopes' = [scopes EXCEPT ![h.id].children = Append(@, r), ![h.id].live = @ + 1]
    BY DEF SpawnInto
  <2> HIDE DEF r
  <2> QED
    BY <1>0, <1>3, <2>1, SpawnedScope DEF TablesOK
<1>6. ready' \in Seq(Entry)
  <2>1. ready' = Push(r, "start")
    BY DEF SpawnInto
  <2> HIDE DEF r
  <2> QED
    BY <1>3, <2>1, PushType DEF QueuesOK
<1> QED
  BY <1>1, <1>4, <1>5, <1>6 DEF SpawnInto

\* Spawn preserves the types.
LEMMA SpawnType ==
  ASSUME Typed, NEW h \in AllHandles, Spawn(h)
  PROVE  Typed'
<1>1. h \in SidRef /\ Handles \in SUBSET SidRef
  BY HandleType DEF Typed, Spawn, Pumping, ControlOK
<1>2. SpawnInto(h, Handles)
  BY DEF Spawn
<1>3. /\ fibers' \in [Fid -> FiberOK] /\ nfibers' \in 0..MaxFibers
      /\ scopes' \in [Sid -> Scope] /\ free_fibers' \in Seq(Fid)
      /\ ready' \in Seq(Entry)
  BY <1>1, <1>2, SpawnIntoType DEF Typed
<1>4. UNCHANGED <<nscopes, free_scopes, timers, pending, control>>
  BY DEF Spawn
<1> QED
  BY <1>3, <1>4 DEF Typed, TablesOK, QueuesOK, ControlOK, control

\* Cancel preserves the types.
LEMMA CancelType ==
  ASSUME Typed, NEW h \in AllHandles, Cancel(h)
  PROVE  Typed'
<1>1. h \in SidRef
  BY HandleType DEF Typed
<1>2. pending' \in Seq(SidRef)
  BY <1>1, AppendProperties DEF Cancel, Typed, QueuesOK
<1>3. UNCHANGED <<tables, ready, timers, control>>
  BY DEF Cancel
<1> QED
  BY <1>2, <1>3 DEF Typed, TablesOK, QueuesOK, ControlOK, tables, control

\* CancelAfter preserves the types.
LEMMA CancelAfterType ==
  ASSUME Typed, NEW h \in AllHandles, NEW d \in Durations, CancelAfter(h, d)
  PROVE  Typed'
<1>1. h \in SidRef
  BY HandleType DEF Typed
<1>2. [at |-> d, kind |-> "deadline", arg |-> h] \in Timer
  BY <1>1, SchedulerAssumption DEF Timer
<1>3. timers' \in Seq(Timer)
  BY <1>2, AppendProperties DEF CancelAfter, Typed, QueuesOK
<1>4. UNCHANGED <<tables, ready, pending, control>>
  BY DEF CancelAfter
<1> QED
  BY <1>3, <1>4 DEF Typed, TablesOK, QueuesOK, ControlOK, tables, control

\* The fiber being pumped is a row, and so is what refers to it.
LEMMA CurrentType ==
  ASSUME Typed, current # NoFiber
  PROVE  current \in Fid /\ FiberRef(current) \in FidRef
<1>1. current \in Fid
  BY DEF Typed, ControlOK
<1>2. fibers[current].gen \in Nat
  BY <1>1, FiberFields DEF Typed, TablesOK
<1> QED
  BY <1>1, <1>2 DEF FiberRef, Ref, FidRef

\* Yield preserves the types.
LEMMA YieldType ==
  ASSUME Typed, Yield
  PROVE  Typed'
<1>1. FiberRef(current) \in FidRef
  BY CurrentType DEF Yield, CanSuspend, Pumping
<1>2. ready' \in Seq(Entry)
  BY <1>1, PushType DEF Yield, Typed, QueuesOK
<1>3. current' = NoFiber /\ UNCHANGED <<tables, timers, pending, root_kind, starting, work, halted>>
  BY DEF Yield
<1> QED
  BY <1>2, <1>3 DEF Typed, TablesOK, QueuesOK, ControlOK, tables

\* Sleep preserves the types.
LEMMA SleepType ==
  ASSUME Typed, NEW d \in Durations, Sleep(d)
  PROVE  Typed'
<1>1. current \in Fid /\ FiberRef(current) \in FidRef
  BY CurrentType DEF Sleep, CanSuspend, Pumping
<1>2. [at |-> d, kind |-> "wake", arg |-> FiberRef(current)] \in Timer
  BY <1>1, SchedulerAssumption DEF Timer
<1>3. timers' \in Seq(Timer)
  BY <1>2, AppendProperties DEF Sleep, Typed, QueuesOK
<1>4. fibers' \in [Fid -> FiberOK]
  BY <1>1, ParkedRow DEF Sleep, Park, Wait, Typed, TablesOK
<1>5. /\ current' = NoFiber
      /\ UNCHANGED <<nfibers, scopes, nscopes, free_fibers, free_scopes, ready, pending,
                     root_kind, starting, work, halted>>
  BY DEF Sleep, Park
<1> QED
  BY <1>3, <1>4, <1>5 DEF Typed, TablesOK, QueuesOK, ControlOK

\* AwaitIo preserves the types.
LEMMA AwaitIoType ==
  ASSUME Typed, AwaitIo
  PROVE  Typed'
<1>1. current \in Fid
  BY CurrentType DEF AwaitIo, CanSuspend, Pumping
<1>2. fibers' \in [Fid -> FiberOK]
  BY <1>1, ParkedRow DEF AwaitIo, Park, Wait, Typed, TablesOK
<1>3. /\ current' = NoFiber
      /\ UNCHANGED <<nfibers, scopes, nscopes, free_fibers, free_scopes, queues, root_kind,
                     starting, work, halted>>
  BY DEF AwaitIo, Park
<1> QED
  BY <1>2, <1>3 DEF Typed, TablesOK, QueuesOK, ControlOK, queues

\* AwaitHandle preserves the types.
LEMMA AwaitHandleType ==
  ASSUME Typed, NEW h \in AllHandles, NEW c \in Range(scopes[h.id].children),
         AwaitHandle(h, c)
  PROVE  Typed'
<1>1. current \in Fid /\ FiberRef(current) \in FidRef
  BY CurrentType DEF AwaitHandle, CanSuspend, Pumping
<1>2. h.id \in Sid
  BY HandleType DEF Typed
<1>3. scopes[h.id].children \in Seq(FidRef)
  BY <1>2, ScopeFields DEF Typed, TablesOK
<1>4. c \in FidRef /\ c.id \in Fid
  BY <1>3, RangeType DEF FidRef
<1> DEFINE t == [fibers EXCEPT ![current].wait_kind = "handle", ![current].wait_arg = c]
<1>5. t \in [Fid -> FiberOK]
  BY <1>1, <1>4, ParkedRow DEF Wait, Typed, TablesOK
<1>6. Append(t[c.id].waiters, FiberRef(current)) \in Seq(FidRef)
  <2> HIDE DEF t
  <2>1. t[c.id].waiters \in Seq(FidRef)
    BY <1>4, <1>5, FiberFields
  <2> QED
    BY <1>1, <2>1, AppendProperties
<1>7. fibers' = [t EXCEPT ![c.id].waiters = Append(t[c.id].waiters, FiberRef(current))]
  BY DEF AwaitHandle
<1>8. fibers' \in [Fid -> FiberOK]
  <2> HIDE DEF t
  <2> QED
    BY <1>4, <1>5, <1>6, <1>7, WaitersRow
<1>9. /\ current' = NoFiber
      /\ UNCHANGED <<nfibers, scopes, nscopes, free_fibers, free_scopes, queues, root_kind,
                     starting, work, halted>>
  BY DEF AwaitHandle
<1> QED
  BY <1>8, <1>9 DEF Typed, TablesOK, QueuesOK, ControlOK, queues

\* TakeSettled preserves the types.
LEMMA TakeSettledType ==
  ASSUME Typed, NEW h \in AllHandles, TakeSettled(h)
  PROVE  Typed'
<1>1. h.id \in Sid
  BY HandleType DEF Typed
<1>2. scopes' \in [Sid -> Scope]
  BY <1>1, TakenScope DEF TakeSettled, Typed, TablesOK
<1>3. UNCHANGED <<fibers, nfibers, nscopes, free_fibers, free_scopes, queues, control>>
  BY DEF TakeSettled
<1> QED
  BY <1>2, <1>3 DEF Typed, TablesOK, QueuesOK, ControlOK, queues, control

\* AwaitNext preserves the types.
LEMMA AwaitNextType ==
  ASSUME Typed, NEW h \in AllHandles, AwaitNext(h)
  PROVE  Typed'
<1>1. current \in Fid /\ FiberRef(current) \in FidRef
  BY CurrentType DEF AwaitNext, CanDrain, CanSuspend, Pumping
<1>2. h \in SidRef /\ h.id \in Sid
  BY HandleType DEF Typed
<1>3. scopes' \in [Sid -> Scope]
  BY <1>1, <1>2, DrainedScope DEF AwaitNext, Typed, TablesOK
<1>4. fibers' \in [Fid -> FiberOK]
  BY <1>1, <1>2, ParkedRow DEF AwaitNext, Park, Wait, Typed, TablesOK
<1>5. /\ current' = NoFiber
      /\ UNCHANGED <<nfibers, nscopes, free_fibers, free_scopes, queues, root_kind, starting,
                     work, halted>>
  BY DEF AwaitNext, Park
<1> QED
  BY <1>3, <1>4, <1>5 DEF Typed, TablesOK, QueuesOK, ControlOK, queues

\* StartScope preserves the types.
LEMMA StartScopeType ==
  ASSUME Typed, NEW manual \in BOOLEAN, StartScope(manual)
  PROVE  Typed'
<1> DEFINE s == Slot(free_scopes, nscopes)
<1>1. current \in Fid /\ FiberRef(current) \in FidRef
  BY CurrentType DEF StartScope, CanSuspend, Pumping
<1>2. /\ s \in Sid
      /\ FreeAfter(free_scopes) \in Seq(Sid)
      /\ LenAfter(free_scopes, nscopes) \in 0..MaxScopes
  BY ScopeSlotType DEF StartScope, Typed, TablesOK
<1>3. scopes[s].gen + 1 \in Nat
  BY <1>2, ScopeFields DEF Typed, TablesOK
<1>4. starting' \in SidRef
  BY <1>2, <1>3 DEF StartScope, Ref, SidRef
<1>5. fibers[current].knows \in SUBSET SidRef
  BY <1>1, FiberFields DEF Typed, TablesOK
<1>6. scopes' \in [Sid -> Scope]
  <2>1. scopes' = [scopes EXCEPT ![s] =
                     NewScope(manual, FiberRef(current), fibers[current].knows, @)]
    BY DEF StartScope
  <2> HIDE DEF s
  <2> QED
    BY <1>1, <1>2, <1>5, <2>1, OpenedScope DEF Typed, TablesOK
<1>7. /\ free_scopes' = FreeAfter(free_scopes) /\ nscopes' = LenAfter(free_scopes, nscopes)
      /\ UNCHANGED <<fibers, nfibers, free_fibers, queues, root_kind, current, work, halted>>
  BY DEF StartScope
<1> QED
  BY <1>2, <1>4, <1>6, <1>7 DEF Typed, TablesOK, QueuesOK, ControlOK, queues

\* StartBody preserves the types.
LEMMA StartBodyType ==
  ASSUME Typed, StartBody
  PROVE  Typed'
<1> DEFINE s == starting.id
           f == Slot(free_fibers, nfibers)
           knows == fibers[current].knows \cup {starting}
           r == Ref(f, fibers[f].gen + 1)
           t == [fibers EXCEPT ![f] = NewFiber(s, s, knows, fibers[f])]
<1>1. current \in Fid
  BY CurrentType DEF StartBody, Pumping
<1>2. starting \in SidRef /\ s \in Sid
  BY DEF StartBody, Typed, ControlOK, SidRef
<1>3. /\ f \in Fid
      /\ FreeAfter(free_fibers) \in Seq(Fid)
      /\ LenAfter(free_fibers, nfibers) \in 0..MaxFibers
  BY FiberSlotType DEF StartBody, Typed, TablesOK
<1>4. knows \in SUBSET SidRef
  BY <1>1, <1>2, FiberFields DEF Typed, TablesOK
<1>5. r \in FidRef
  <2>1. fibers[f].gen + 1 \in Nat
    BY <1>3, FiberFields DEF Typed, TablesOK
  <2> QED
    BY <1>3, <2>1 DEF Ref, FidRef
<1>6. t \in [Fid -> FiberOK]
  <2> HIDE DEF s, f, knows
  <2> QED
    BY <1>2, <1>3, <1>4, SpawnedRow DEF Typed, TablesOK
<1>7. fibers' = [t EXCEPT ![current].wait_kind = "scope", ![current].wait_arg = starting]
  BY DEF StartBody
<1>8. fibers' \in [Fid -> FiberOK]
  <2> HIDE DEF t
  <2> QED
    BY <1>1, <1>2, <1>6, <1>7, ParkedRow DEF Wait
<1>9. scopes' \in [Sid -> Scope]
  BY <1>2, <1>3, ScopeSet DEF StartBody, Typed, TablesOK
<1>10. ready' \in Seq(Entry)
  <2>1. ready' = Push(r, "start")
    BY DEF StartBody
  <2> HIDE DEF r
  <2> QED
    BY <1>5, <2>1, PushType DEF Typed, QueuesOK
<1>11. /\ free_fibers' = FreeAfter(free_fibers) /\ nfibers' = LenAfter(free_fibers, nfibers)
       /\ current' = NoFiber /\ starting' = None
       /\ UNCHANGED <<nscopes, free_scopes, timers, pending, root_kind, work, halted>>
  BY DEF StartBody
<1> QED
  BY <1>3, <1>8, <1>9, <1>10, <1>11 DEF Typed, TablesOK, QueuesOK, ControlOK

-----------------------------------------------------------------------------
(* The end of a fiber. *)

\* CompleteRoot preserves the types.
LEMMA CompleteRootType ==
  ASSUME Typed, NEW kind \in {"ok", "err"}, CompleteRoot(kind)
  PROVE  Typed'
<1>1. Root \in Fid
  BY SchedulerAssumption DEF Root, Fid
<1>2. fibers' \in [Fid -> FiberOK]
  BY <1>1, SettledRow DEF CompleteRoot, Typed, TablesOK, Outcome
<1>3. /\ root_kind' = kind /\ current' = NoFiber
      /\ UNCHANGED <<nfibers, scopes, nscopes, free_fibers, free_scopes, queues, starting,
                     work, halted>>
  BY DEF CompleteRoot
<1> QED
  BY <1>2, <1>3 DEF Typed, TablesOK, QueuesOK, ControlOK, queues, Outcome

\* The calls of the cancel, reap and finalize functions.
LEMMA DoType ==
  /\ \A fn \in {"reap_child", "reap_fiber", "run_defers"}, f \in Fid, s \in Sid :
       Do(fn, f, s) \in Call
  /\ \A fn \in {"cancel_scope", "mark_cancelled", "reap_children", "try_finalize",
                "fire_timers"}, s \in Sid, u \in Sid : Do(fn, s, u) \in Call
BY DEF Do, Call

\* A list of one call, ...
LEMMA OneCall ==
  ASSUME NEW c \in Call
  PROVE  <<c>> \in Seq(Call)
OBVIOUS

\* ... and of two.
LEMMA TwoCalls ==
  ASSUME NEW c \in Call, NEW d \in Call
  PROVE  <<c, d>> \in Seq(Call)
OBVIOUS

\* CompleteBody preserves the types.
LEMMA CompleteBodyType ==
  ASSUME Typed, NEW kind \in {"ok", "err"}, CompleteBody(kind)
  PROVE  Typed'
<1> DEFINE s == fibers[current].runs_scope
           fails == kind = "err" /\ ~scopes[s].manual
<1>1. current \in Fid
  BY CurrentType DEF CompleteBody, CanComplete, CanSuspend, Pumping
<1>2. s \in Sid
  BY <1>1, FiberFields DEF CompleteBody, Typed, TablesOK
<1>3. fibers' \in [Fid -> FiberOK]
  BY <1>1, SettledRow DEF CompleteBody, Typed, TablesOK, Outcome
<1>4. scopes' \in [Sid -> Scope]
  <2>1. scopes' = [scopes EXCEPT ![s].bd_kind = kind, ![s].fail_set = IF fails THEN TRUE ELSE @]
    BY DEF CompleteBody
  <2>2. fails \in BOOLEAN /\ kind \in Outcome
    BY DEF Outcome
  <2> HIDE DEF s, fails
  <2> QED
    BY <1>2, <2>1, <2>2, BodyDoneScope DEF Typed, TablesOK
<1>5. work' \in Seq(Call)
  <2>1. work' = <<Do("reap_children", s, s), Do("try_finalize", s, s)>>
    BY DEF CompleteBody
  <2> HIDE DEF s
  <2>2. Do("reap_children", s, s) \in Call /\ Do("try_finalize", s, s) \in Call
    BY <1>2, DoType
  <2> QED
    BY <2>1, <2>2, TwoCalls
<1>6. /\ current' = NoFiber
      /\ UNCHANGED <<nfibers, nscopes, free_fibers, free_scopes, queues, root_kind, starting,
                     halted>>
  BY DEF CompleteBody
<1> QED
  BY <1>3, <1>4, <1>5, <1>6 DEF Typed, TablesOK, QueuesOK, ControlOK, queues

\* The entries of the fibers a settled child resumes.
LEMMA ResumedType ==
  ASSUME NEW woken \in Seq(FidRef)
  PROVE  [i \in DOMAIN woken |-> [fid |-> woken[i], focus |-> "resume"]] \in Seq(Entry)
<1>1. Len(woken) \in Nat /\ DOMAIN woken = 1..Len(woken)
  BY LenProperties
<1>2. \A i \in 1..Len(woken) : [fid |-> woken[i], focus |-> "resume"] \in Entry
  BY ElementOfSeq DEF Entry
<1> QED
  BY <1>1, <1>2, IsASeq

\* A settled child resumes fibers.
LEMMA WokenType ==
  ASSUME Typed, NEW f \in Fid, NEW s \in Sid
  PROVE  Woken(f, s) \in Seq(FidRef)
<1>1. fibers[f].waiters \in Seq(FidRef) /\ scopes[s].next_waiters \in Seq(FidRef)
  BY FiberFields, ScopeFields DEF Typed, TablesOK
<1>2. CASE scopes[s].next_waiters # <<>>
  <2>1. Head(scopes[s].next_waiters) \in FidRef
    BY <1>1, <1>2, HeadTailProperties
  <2>2. <<Head(scopes[s].next_waiters)>> \in Seq(FidRef)
    BY <2>1
  <2>3. Woken(f, s) = fibers[f].waiters \o <<Head(scopes[s].next_waiters)>>
    BY <1>2 DEF Woken
  <2> QED
    BY <1>1, <2>2, <2>3, ConcatProperties
<1>3. CASE scopes[s].next_waiters = <<>>
  <2>1. Woken(f, s) = fibers[f].waiters \o <<>>
    BY <1>3 DEF Woken
  <2> QED
    BY <1>1, <2>1, ConcatEmptySeq
<1> QED
  BY <1>2, <1>3

\* on_child_done preserves the types.
LEMMA CompleteChildType ==
  ASSUME Typed, NEW kind \in {"ok", "err"}, CompleteChild(kind)
  PROVE  Typed'
<1> DEFINE f == current
           s == fibers[f].scope
           fails == FailsFast(f, s, kind)
           woken == Woken(f, s)
           t == Settled(f, kind)
<1>1. f \in Fid
  BY CurrentType DEF CompleteChild, CanComplete, CanSuspend, Pumping
<1>2. s \in Sid
  BY <1>1, FiberFields DEF Typed, TablesOK
<1>3. fibers' \in [Fid -> FiberOK]
  <2>1. t \in [Fid -> FiberOK]
    BY <1>1, SettledRow DEF Typed, TablesOK, Outcome
  <2>2. fibers' = [t EXCEPT ![f].waiters = <<>>]
    BY DEF CompleteChild
  <2> HIDE DEF t
  <2> QED
    BY <1>1, <2>1, <2>2, WaitersRow, EmptySeq
<1>4. fails \in BOOLEAN
  BY Zenon DEF FailsFast
<1>5. scopes' \in [Sid -> Scope]
  <2>1. scopes' = [scopes EXCEPT ![s].live = @ - 1,
                     ![s].next_waiters = IF scopes[s].next_waiters # <<>> THEN Tail(@) ELSE @,
                     ![s].completed = IF scopes[s].next_waiters # <<>> THEN @ ELSE @ + 1,
                     ![s].fail_set = IF fails THEN TRUE ELSE @]
    BY DEF CompleteChild
  <2> HIDE DEF s, fails
  <2> QED
    BY <1>2, <1>4, <2>1, ChildDoneScope, ZenonT(40) DEF Typed, TablesOK
<1>6. ready' \in Seq(Entry)
  <2>1. woken \in Seq(FidRef)
    BY <1>1, <1>2, WokenType
  <2>2. ready' = ready \o [i \in DOMAIN woken |-> [fid |-> woken[i], focus |-> "resume"]]
    BY DEF CompleteChild
  <2> HIDE DEF woken
  <2>3. [i \in DOMAIN woken |-> [fid |-> woken[i], focus |-> "resume"]] \in Seq(Entry)
    BY <2>1, ResumedType
  <2> QED
    BY <2>2, <2>3, ConcatProperties DEF Typed, QueuesOK
<1>7. free_fibers' \in Seq(Fid)
  <2>1. Append(free_fibers, f) \in Seq(Fid) /\ free_fibers \in Seq(Fid)
    BY <1>1, AppendProperties DEF Typed, TablesOK
  <2> QED
    BY <2>1 DEF CompleteChild
<1>8. work' \in Seq(Call)
  <2>1. work' = <<Do(IF fails THEN "cancel_scope" ELSE "try_finalize", s, s)>>
    BY DEF CompleteChild
  <2> HIDE DEF s, fails
  <2>2. Do(IF fails THEN "cancel_scope" ELSE "try_finalize", s, s) \in Call
    BY <1>2, DoType
  <2> QED
    BY <2>1, <2>2, OneCall
<1>9. /\ current' = NoFiber
      /\ UNCHANGED <<nfibers, nscopes, free_scopes, timers, pending, root_kind, starting,
                     halted>>
  BY DEF CompleteChild
<1> QED
  BY <1>3, <1>5, <1>6, <1>7, <1>8, <1>9 DEF Typed, TablesOK, QueuesOK, ControlOK

-----------------------------------------------------------------------------
(* The functions that cancel, reap and finalize. *)

\* The function called determines which table its argument is a row of.
LEMMA CalleeType ==
  ASSUME Typed, NEW fn, Calling(fn)
  PROVE  /\ work # <<>> /\ work \in Seq(Call) /\ Head(work).of \in Sid
         /\ fn \in {"reap_child", "reap_fiber", "run_defers"} => Callee \in Fid
         /\ fn \in {"cancel_scope", "mark_cancelled", "reap_children", "try_finalize"} =>
              Callee \in Sid
<1>1. work # <<>> /\ work \in Seq(Call) /\ Head(work).fn = fn
  BY DEF Calling, Typed, ControlOK
<1>2. Head(work) \in Call
  BY <1>1, HeadTailProperties
<1>3. CASE Head(work) \in [fn : {"reap_child", "reap_fiber", "run_defers"}, id : Fid, of : Sid]
  BY <1>1, <1>3 DEF Callee
<1>4. CASE Head(work) \in [fn : {"cancel_scope", "mark_cancelled", "reap_children",
                                 "try_finalize", "fire_timers"}, id : Sid, of : Sid]
  BY <1>1, <1>4 DEF Callee
<1> QED
  BY <1>2, <1>3, <1>4 DEF Call

\* CancelScope preserves the types.
LEMMA CancelScopeType ==
  ASSUME Typed, CancelScope
  PROVE  Typed'
<1> DEFINE s == Callee
           b == scopes[s].body
           first == IF fibers[b].alive
                    THEN <<Do("reap_fiber", b, s), Do("mark_cancelled", s, s)>> ELSE <<>>
           second == <<Do("reap_children", s, s), Do("try_finalize", s, s)>>
<1>1. work # <<>> /\ work \in Seq(Call) /\ s \in Sid
  BY CalleeType DEF CancelScope
<1>2. b \in Fid
  BY <1>1, ScopeFields DEF Typed, TablesOK
<1>3. first \o second \in Seq(Call)
  <2>1. /\ Do("reap_fiber", b, s) \in Call /\ Do("mark_cancelled", s, s) \in Call
        /\ Do("reap_children", s, s) \in Call /\ Do("try_finalize", s, s) \in Call
    BY <1>1, <1>2, DoType
  <2>2. <<Do("reap_fiber", b, s), Do("mark_cancelled", s, s)>> \in Seq(Call)
    BY <2>1, TwoCalls
  <2>3. first \in Seq(Call)
    BY <2>2, EmptySeq
  <2>4. second \in Seq(Call)
    BY <2>1, TwoCalls
  <2> HIDE DEF first, second
  <2> QED
    BY <2>3, <2>4, ConcatProperties
<1>4. UNCHANGED <<fibers, nfibers, nscopes, free_fibers, free_scopes, queues, root_kind,
                  current, starting, halted>>
  BY DEF CancelScope
<1>5. scopes' \in [Sid -> Scope] /\ work' \in Seq(Call)
  <2>1. CASE scopes[s].cancelled \/ scopes[s].finalized
    <3>1. Then(<<>>) /\ scopes' = scopes
      BY <2>1 DEF CancelScope
    <3> QED
      BY <1>1, <3>1, ThenType, EmptySeq DEF Typed, TablesOK
  <2>2. CASE ~(scopes[s].cancelled \/ scopes[s].finalized)
    <3>1. Then(first \o second) /\ scopes' = [scopes EXCEPT ![s].cancelled = TRUE]
      BY <2>2 DEF CancelScope
    <3> HIDE DEF s, first, second
    <3>2. scopes' \in [Sid -> Scope]
      BY <1>1, <3>1, ScopeSet DEF Typed, TablesOK
    <3> QED
      BY <1>1, <1>3, <3>1, <3>2, ThenType
  <2> QED
    BY <2>1, <2>2
<1> QED
  BY <1>4, <1>5 DEF Typed, TablesOK, QueuesOK, ControlOK, queues

\* MarkCancelled preserves the types.
LEMMA MarkCancelledType ==
  ASSUME Typed, MarkCancelled
  PROVE  Typed'
<1> DEFINE s == Callee
           kind == EndedBody(scopes[s].bd_kind)
<1>1. work # <<>> /\ work \in Seq(Call) /\ s \in Sid
  BY CalleeType DEF MarkCancelled
<1>2. kind \in Outcome
  BY <1>1, ScopeFields DEF EndedBody, Outcome, Typed, TablesOK
<1>3. scopes' = [scopes EXCEPT ![s].bd_kind = kind]
  BY DEF MarkCancelled
<1>4. scopes' \in [Sid -> Scope]
  <2> HIDE DEF s, kind
  <2> QED
    BY <1>1, <1>2, <1>3, ScopeSet DEF Typed, TablesOK
<1>5. work' \in Seq(Call)
  BY <1>1, ThenType, EmptySeq DEF MarkCancelled
<1>6. UNCHANGED <<fibers, nfibers, nscopes, free_fibers, free_scopes, queues, root_kind,
                  current, starting, halted>>
  BY DEF MarkCancelled
<1> QED
  BY <1>4, <1>5, <1>6 DEF Typed, TablesOK, QueuesOK, ControlOK, queues

\* The rows a list of children names.
LEMMA IdsType ==
  ASSUME NEW refs \in Seq(FidRef)
  PROVE  \A i \in 1..Len(refs) : refs[i].id \in Fid
<1> SUFFICES ASSUME NEW i \in 1..Len(refs)
             PROVE  refs[i].id \in Fid
  OBVIOUS
<1>1. refs[i] \in FidRef
  BY ElementOfSeq
<1> QED
  BY <1>1 DEF FidRef

\* ReapChildren preserves the types.
LEMMA ReapChildrenType ==
  ASSUME Typed, ReapChildren
  PROVE  Typed'
<1> DEFINE s == Callee
           kids == scopes[s].children
           calls == [i \in DOMAIN kids |-> Do("reap_child", kids[i].id, s)]
<1>1. work # <<>> /\ work \in Seq(Call) /\ s \in Sid
  BY CalleeType DEF ReapChildren
<1>2. kids \in Seq(FidRef)
  BY <1>1, ScopeFields DEF Typed, TablesOK
<1>3. Len(kids) \in Nat /\ DOMAIN kids = 1..Len(kids)
  BY <1>2, LenProperties
<1>4. \A i \in 1..Len(kids) : Do("reap_child", kids[i].id, s) \in Call
  <2> HIDE DEF kids, s
  <2>1. \A i \in 1..Len(kids) : kids[i].id \in Fid
    BY <1>2, IdsType
  <2> QED
    BY <1>1, <2>1, DoType
<1>5. calls \in Seq(Call)
  <2> HIDE DEF kids, s
  <2> QED
    BY <1>3, <1>4, IsASeq
<1>6. Then(calls)
  BY DEF ReapChildren
<1>7. work' \in Seq(Call)
  <2> HIDE DEF calls
  <2> QED
    BY <1>1, <1>5, <1>6, ThenType
<1>8. UNCHANGED <<tables, queues, root_kind, current, starting, halted>>
  BY DEF ReapChildren
<1> QED
  BY <1>7, <1>8 DEF Typed, TablesOK, QueuesOK, ControlOK, tables, queues

\* ReapChild preserves the types.
LEMMA ReapChildType ==
  ASSUME Typed, ReapChild
  PROVE  Typed'
<1> DEFINE f == Callee
           s == Head(work).of
           calls == IF fibers[f].alive /\ fibers[f].scope = s THEN <<Do("reap_fiber", f, s)>>
                                                              ELSE <<>>
<1>1. work # <<>> /\ work \in Seq(Call) /\ f \in Fid /\ s \in Sid
  BY CalleeType DEF ReapChild
<1>2. <<Do("reap_fiber", f, s)>> \in Seq(Call)
  BY <1>1, DoType, OneCall
<1>3. calls \in Seq(Call)
  BY <1>2, EmptySeq
<1>4. Then(calls)
  BY DEF ReapChild
<1>5. work' \in Seq(Call)
  <2> HIDE DEF calls
  <2> QED
    BY <1>1, <1>3, <1>4, ThenType
<1>6. UNCHANGED <<tables, queues, root_kind, current, starting, halted>>
  BY DEF ReapChild
<1> QED
  BY <1>5, <1>6 DEF Typed, TablesOK, QueuesOK, ControlOK, tables, queues

\* ReapFiber preserves the types.
LEMMA ReapFiberType ==
  ASSUME Typed, ReapFiber
  PROVE  Typed'
<1> DEFINE f == Callee
           s == fibers[f].scope
           a == fibers[f].wait_arg.id
           calls == Cascade(f) \o <<Do("run_defers", f, s)>>
<1>1. work # <<>> /\ work \in Seq(Call) /\ f \in Fid
  BY CalleeType DEF ReapFiber
<1>2. s \in Sid /\ (fibers[f].wait_kind = "scope" => a \in Sid)
  BY <1>1, FiberFields DEF Typed, TablesOK, SidRef
<1>3. calls \in Seq(Call)
  <2>1. Cascade(f) \in Seq(Call)
    <3>1. CASE fibers[f].wait_kind = "scope"
      <4>1. Do("cancel_scope", a, a) \in Call
        BY <1>2, <3>1, DoType
      <4>2. Cascade(f) = <<Do("cancel_scope", a, a)>>
        BY <3>1 DEF Cascade
      <4> QED
        BY <4>1, <4>2, OneCall
    <3>2. CASE fibers[f].wait_kind # "scope"
      BY <3>2, EmptySeq DEF Cascade
    <3> QED
      BY <3>1, <3>2
  <2>2. <<Do("run_defers", f, s)>> \in Seq(Call)
    BY <1>1, <1>2, DoType, OneCall
  <2> QED
    BY <2>1, <2>2, ConcatProperties
<1>4. Settled(f, "cancelled") \in [Fid -> FiberOK]
  BY <1>1, SettledRow DEF Typed, TablesOK, Outcome
<1>5. LiveAfterReap(f) \in [Sid -> Scope]
  <2>1. scopes[s].live - 1 \in Int
    BY <1>2, ScopeFields DEF Typed, TablesOK
  <2>2. [scopes EXCEPT ![s].live = scopes[s].live - 1] \in [Sid -> Scope]
    <3> HIDE DEF s
    <3> QED
      BY <1>2, <2>1, ScopeSet DEF Typed, TablesOK
  <2>3. LiveAfterReap(f) \in {scopes, [scopes EXCEPT ![s].live = scopes[s].live - 1]}
    BY DEF LiveAfterReap
  <2>4. scopes \in [Sid -> Scope]
    BY DEF Typed, TablesOK
  <2> HIDE DEF s
  <2> QED
    BY <2>2, <2>3, <2>4, Zenon
<1>6. fibers' \in [Fid -> FiberOK] /\ scopes' \in [Sid -> Scope] /\ work' \in Seq(Call)
  <2>1. CASE fibers[f].alive
    <3>1. fibers' = Settled(f, "cancelled") /\ scopes' = LiveAfterReap(f) /\ Then(calls)
      BY <2>1 DEF ReapFiber
    <3> HIDE DEF calls
    <3> QED
      BY <1>1, <1>3, <1>4, <1>5, <3>1, ThenType
  <2>2. CASE ~fibers[f].alive
    <3>1. fibers' = fibers /\ scopes' = scopes /\ Then(<<>>)
      BY <2>2 DEF ReapFiber
    <3> QED
      BY <1>1, <3>1, ThenType, EmptySeq DEF Typed, TablesOK
  <2> QED
    BY <2>1, <2>2
<1>7. UNCHANGED <<nfibers, nscopes, free_fibers, free_scopes, queues, root_kind, current,
                  starting, halted>>
  BY DEF ReapFiber
<1> QED
  BY <1>6, <1>7 DEF Typed, TablesOK, QueuesOK, ControlOK, queues

\* RunDefers preserves the types.
LEMMA RunDefersType ==
  ASSUME Typed, RunDefers
  PROVE  Typed'
<1> DEFINE f == Callee
           handles == fibers[f].knows
<1>1. work # <<>> /\ work \in Seq(Call) /\ f \in Fid
  BY CalleeType DEF RunDefers
<1>2. handles \in SUBSET SidRef
  BY <1>1, FiberFields DEF Typed, TablesOK
<1>3. work' \in Seq(Call)
  BY <1>1, ThenType, EmptySeq DEF RunDefers
<1>4. UNCHANGED <<root_kind, current, starting, halted>>
  BY DEF RunDefers
<1>5. ControlOK'
  BY <1>3, <1>4 DEF Typed, ControlOK
<1>6. CASE UNCHANGED <<tables, queues>>
  BY <1>5, <1>6 DEF Typed, TablesOK, QueuesOK, tables, queues
<1>7. CASE /\ \E h \in handles : pending' = Append(pending, h)
           /\ UNCHANGED <<tables, ready, timers>>
  <2>1. pending' \in Seq(SidRef)
    BY <1>2, <1>7, AppendProperties DEF Typed, QueuesOK
  <2> QED
    BY <1>5, <1>7, <2>1 DEF Typed, TablesOK, QueuesOK, tables
<1>8. CASE /\ \E h \in handles : SpawnInto(h, handles)
           /\ UNCHANGED <<nscopes, free_scopes, timers, pending>>
  <2>1. PICK h \in handles : SpawnInto(h, handles)
    BY <1>8
  <2>2. /\ fibers' \in [Fid -> FiberOK] /\ nfibers' \in 0..MaxFibers
        /\ scopes' \in [Sid -> Scope] /\ free_fibers' \in Seq(Fid)
        /\ ready' \in Seq(Entry)
    <3> HIDE DEF handles
    <3> QED
      BY <1>2, <2>1, SpawnIntoType DEF Typed
  <2> QED
    BY <1>5, <1>8, <2>2 DEF Typed, TablesOK, QueuesOK
<1>9. CASE /\ \E nested \in NestedFree : free_fibers' = nested[1] /\ free_scopes' = nested[2]
           /\ UNCHANGED <<fibers, nfibers, scopes, nscopes, queues>>
  <2>1. NestedFree \subseteq Seq(Fid) \X Seq(Sid)
    BY SchedulerAssumption DEF Fid, Sid
  <2>2. free_fibers' \in Seq(Fid) /\ free_scopes' \in Seq(Sid)
    BY <1>9, <2>1
  <2> QED
    BY <1>5, <1>9, <2>2 DEF Typed, TablesOK, QueuesOK, queues
<1> QED
  BY <1>6, <1>7, <1>8, <1>9 DEF RunDefers

\* A scope row ends.
LEMMA FinalizedScope ==
  ASSUME NEW t \in [Sid -> Scope], NEW s \in Sid
  PROVE  /\ [t EXCEPT ![s].finalized = TRUE] \in [Sid -> Scope]
         /\ [t EXCEPT ![s].finalized = TRUE, ![s].children = <<>>, ![s].completed = 0,
                      ![s].next_waiters = <<>>] \in [Sid -> Scope]
<1> DEFINE t1 == [t EXCEPT ![s].finalized = TRUE]
           t2 == [t1 EXCEPT ![s].children = <<>>]
           t3 == [t2 EXCEPT ![s].completed = 0]
<1>0. <<>> \in Seq(FidRef)
  BY EmptySeq
<1>1. t1 \in [Sid -> Scope]
  BY ScopeSet
<1>2. t2 \in [Sid -> Scope]
  <2> HIDE DEF t1
  <2> QED
    BY <1>0, <1>1, ScopeSet
<1>3. t3 \in [Sid -> Scope]
  <2> HIDE DEF t2
  <2> QED
    BY <1>2, ScopeSet
<1>4. [t3 EXCEPT ![s].next_waiters = <<>>] \in [Sid -> Scope]
  <2> HIDE DEF t3
  <2> QED
    BY <1>0, <1>3, ScopeSet
<1> QED
  BY <1>1, <1>4

\* reclaim_scope recycles rows of the tables.
LEMMA ReclaimedType ==
  ASSUME Typed, NEW s \in Sid, Reclaimed(s)
  PROVE  free_fibers' \in Seq(Fid) /\ free_scopes' \in Seq(Sid) /\ scopes' \in [Sid -> Scope]
<1> DEFINE kids == scopes[s].children
           rows == [i \in DOMAIN kids |-> kids[i].id]
<1>1. kids \in Seq(FidRef) /\ scopes[s].body \in Fid
  BY ScopeFields DEF Typed, TablesOK
<1>2. rows \in Seq(Fid)
  <2> HIDE DEF kids
  <2>1. Len(kids) \in Nat /\ DOMAIN kids = 1..Len(kids)
    BY <1>1, LenProperties
  <2>2. \A i \in 1..Len(kids) : kids[i].id \in Fid
    BY <1>1, IdsType
  <2> QED
    BY <2>1, <2>2, IsASeq
<1>3. <<scopes[s].body>> \in Seq(Fid)
  BY <1>1
<1>4. free_fibers' = free_fibers \o rows \o <<scopes[s].body>>
  BY DEF Reclaimed
<1>5. free_fibers' \in Seq(Fid)
  <2> HIDE DEF rows
  <2>1. free_fibers \o rows \in Seq(Fid)
    BY <1>2, ConcatProperties DEF Typed, TablesOK
  <2> QED
    BY <1>3, <1>4, <2>1, ConcatProperties
<1>6. free_scopes' \in Seq(Sid)
  <2>1. Append(free_scopes, s) \in Seq(Sid) /\ free_scopes \in Seq(Sid)
    BY AppendProperties DEF Typed, TablesOK
  <2> QED
    BY <2>1 DEF Reclaimed
<1>7. scopes' \in [Sid -> Scope]
  BY FinalizedScope DEF Reclaimed, Typed, TablesOK
<1> QED
  BY <1>5, <1>6, <1>7

\* TryFinalize preserves the types.
LEMMA TryFinalizeType ==
  ASSUME Typed, TryFinalize
  PROVE  Typed'
<1> DEFINE s == Callee
           a == scopes[s].awaiter
           wakes == a # None /\ fibers[a.id].alive
<1>1. work # <<>> /\ work \in Seq(Call) /\ s \in Sid
  BY CalleeType DEF TryFinalize
<1>2. work' \in Seq(Call)
  BY <1>1, ThenType, EmptySeq DEF TryFinalize
<1>3. UNCHANGED <<nfibers, nscopes, timers, pending, root_kind, current, starting, halted>>
  BY DEF TryFinalize
<1>4. CASE ~CanFinalize(s)
  <2>1. UNCHANGED <<fibers, scopes, free_fibers, free_scopes, ready>>
    BY <1>4 DEF TryFinalize
  <2> QED
    BY <1>2, <1>3, <2>1 DEF Typed, TablesOK, QueuesOK, ControlOK
<1>5. CASE CanFinalize(s)
  <2>1. free_fibers' \in Seq(Fid) /\ free_scopes' \in Seq(Sid) /\ scopes' \in [Sid -> Scope]
    <3>1. CASE scopes[s].manual
      <4>1. /\ scopes' = [scopes EXCEPT ![s].finalized = TRUE]
            /\ UNCHANGED <<free_fibers, free_scopes>>
        BY <1>5, <3>1 DEF TryFinalize
      <4> HIDE DEF s
      <4> QED
        BY <1>1, <4>1, FinalizedScope DEF Typed, TablesOK
    <3>2. CASE ~scopes[s].manual
      BY <1>1, <1>5, <3>2, ReclaimedType DEF TryFinalize
    <3> QED
      BY <3>1, <3>2
  <2>2. fibers' \in [Fid -> FiberOK] /\ ready' \in Seq(Entry)
    <3>1. CASE wakes
      <4>1. a \in FidRef /\ a.id \in Fid
        BY <1>1, <3>1, ScopeFields DEF Typed, TablesOK, FidRef
      <4>2. fibers' = [fibers EXCEPT ![a.id].wait_kind = "none"] /\ ready' = Push(a, "resume")
        BY <1>5, <3>1 DEF TryFinalize
      <4> HIDE DEF a
      <4> QED
        BY <4>1, <4>2, ResumedRow, PushType DEF Typed, TablesOK, QueuesOK
    <3>2. CASE ~wakes
      BY <1>5, <3>2 DEF TryFinalize, Typed, TablesOK, QueuesOK
    <3> QED
      BY <3>1, <3>2
  <2> QED
    BY <1>2, <1>3, <2>1, <2>2 DEF Typed, TablesOK, QueuesOK, ControlOK
<1> QED
  BY <1>4, <1>5

-----------------------------------------------------------------------------
(* The loop of run_task. *)

\* DrainPending preserves the types.
LEMMA DrainPendingType ==
  ASSUME Typed, DrainPending
  PROVE  Typed'
<1>1. pending \in Seq(SidRef) /\ pending # <<>>
  BY DEF DrainPending, Typed, QueuesOK
<1>2. Last(pending) \in SidRef /\ Front(pending) \in Seq(SidRef)
  BY <1>1, FrontLastType
<1>3. Last(pending).id \in Sid
  BY <1>2 DEF SidRef
<1>4. work' \in Seq(Call)
  BY <1>3, DoType, OneCall DEF DrainPending
<1>5. /\ pending' = Front(pending)
      /\ UNCHANGED <<tables, ready, timers, root_kind, current, starting, halted>>
  BY DEF DrainPending
<1> QED
  BY <1>2, <1>4, <1>5 DEF Typed, TablesOK, QueuesOK, ControlOK, tables

\* The end of the loop preserves the types.
LEMMA HaltType ==
  ASSUME Typed, RootSettled \/ Quiesce
  PROVE  Typed'
<1>1. halted' = TRUE /\ UNCHANGED <<tables, queues, root_kind, current, starting, work>>
  BY DEF RootSettled, Quiesce
<1> QED
  BY <1>1 DEF Typed, TablesOK, QueuesOK, ControlOK, tables, queues

\* Dequeue preserves the types.
LEMMA DequeueType ==
  ASSUME Typed, Dequeue
  PROVE  Typed'
<1> DEFINE f == Head(ready).fid.id
<1>1. ready \in Seq(Entry) /\ ready # <<>>
  BY DEF Dequeue, Typed, QueuesOK
<1>2. Head(ready) \in Entry /\ Tail(ready) \in Seq(Entry)
  BY <1>1, HeadTailProperties
<1>3. f \in Fid
  BY <1>2 DEF Entry, FidRef
<1>4. /\ ready' = Tail(ready)
      /\ UNCHANGED <<nfibers, scopes, nscopes, free_fibers, free_scopes, timers, pending,
                     root_kind, starting, work, halted>>
  BY DEF Dequeue
<1>5. CASE fibers[f].alive
  <2>1. current' = f /\ fibers' = [fibers EXCEPT ![f].wait_kind = "none"]
    BY <1>5 DEF Dequeue
  <2> HIDE DEF f
  <2>2. fibers' \in [Fid -> FiberOK]
    BY <1>3, <2>1, ResumedRow DEF Typed, TablesOK
  <2> QED
    BY <1>2, <1>3, <1>4, <2>1, <2>2 DEF Typed, TablesOK, QueuesOK, ControlOK
<1>6. CASE ~fibers[f].alive
  <2>1. UNCHANGED <<current, fibers>>
    BY <1>6 DEF Dequeue
  <2> QED
    BY <1>2, <1>4, <2>1 DEF Typed, TablesOK, QueuesOK, ControlOK
<1> QED
  BY <1>5, <1>6

\* IoWake preserves the types.
LEMMA IoWakeType ==
  ASSUME Typed, NEW f \in Fid, IoWake(f)
  PROVE  Typed'
<1>1. fibers[f].gen \in Nat
  BY FiberFields DEF Typed, TablesOK
<1>2. FiberRef(f) \in FidRef
  BY <1>1 DEF FiberRef, Ref, FidRef
<1>3. ready' \in Seq(Entry)
  BY <1>2, PushType DEF IoWake, Typed, QueuesOK
<1>4. fibers' \in [Fid -> FiberOK]
  BY ResumedRow DEF IoWake, Typed, TablesOK
<1>5. UNCHANGED <<nfibers, scopes, nscopes, free_fibers, free_scopes, timers, pending, control>>
  BY DEF IoWake
<1> QED
  BY <1>3, <1>4, <1>5 DEF Typed, TablesOK, QueuesOK, ControlOK, control

\* What a timer holds, by its kind.
LEMMA TimerFields ==
  ASSUME NEW t \in Timer
  PROVE  /\ t.at \in Nat
         /\ t.kind = "wake" => t.arg \in FidRef /\ t.arg.id \in Fid
         /\ t.kind = "deadline" => t.arg \in SidRef
         /\ \A n \in Nat : n <= t.at => [t EXCEPT !.at = t.at - n] \in Timer
<1>1. CASE t \in [at : Nat, kind : {"wake"}, arg : FidRef]
  BY <1>1 DEF Timer, FidRef
<1>2. CASE t \in [at : Nat, kind : {"deadline"}, arg : SidRef]
  BY <1>2 DEF Timer
<1> QED
  BY <1>1, <1>2 DEF Timer

\* RunTimers preserves the types.
LEMMA RunTimersType ==
  ASSUME Typed, RunTimers
  PROVE  Typed'
<1>1. timers \in Seq(Timer)
  BY DEF Typed, QueuesOK
<1>2. Len(timers) \in Nat /\ DOMAIN timers = 1..Len(timers)
  BY <1>1, LenProperties
<1>3. PICK i \in DOMAIN timers :
        /\ \A j \in DOMAIN timers : timers[i].at <= timers[j].at
        /\ timers' = [j \in DOMAIN timers |-> [timers[j] EXCEPT !.at = @ - timers[i].at]]
  BY DEF RunTimers
<1>4. \A j \in 1..Len(timers) : timers[j] \in Timer
  BY <1>1, ElementOfSeq
<1>5. \A j \in 1..Len(timers) : [timers[j] EXCEPT !.at = timers[j].at - timers[i].at] \in Timer
  BY <1>2, <1>3, <1>4, TimerFields
<1>6. timers' \in Seq(Timer)
  BY <1>2, <1>3, <1>5, IsASeq
<1>7. work' \in Seq(Call)
  <2>1. ROOT_SCOPE \in Sid
    BY SchedulerAssumption DEF ROOT_SCOPE, Sid
  <2> QED
    BY <2>1, DoType, OneCall DEF RunTimers
<1>8. UNCHANGED <<tables, ready, pending, root_kind, current, starting, halted>>
  BY DEF RunTimers
<1> QED
  BY <1>6, <1>7, <1>8 DEF Typed, TablesOK, QueuesOK, ControlOK, tables

\* FireTimer preserves the types.
LEMMA FireTimerType ==
  ASSUME Typed, NEW i \in DOMAIN timers, FireTimer(i)
  PROVE  Typed'
<1> DEFINE t == timers[i]
<1>1. timers \in Seq(Timer)
  BY DEF Typed, QueuesOK
<1>2. t \in Timer
  BY <1>1, LenProperties, ElementOfSeq
<1>3. timers' \in Seq(Timer)
  BY <1>1, RemoveAtType DEF FireTimer
<1>4. UNCHANGED <<nfibers, scopes, nscopes, free_fibers, free_scopes, control>>
  BY DEF FireTimer
<1>5. fibers' \in [Fid -> FiberOK] /\ ready' \in Seq(Entry)
  <2>1. CASE Wakes(t)
    <3>1. t.arg \in FidRef /\ t.arg.id \in Fid
      BY <1>2, <2>1, TimerFields DEF Wakes
    <3>2. /\ fibers' = [fibers EXCEPT ![t.arg.id].wait_kind = "none"]
          /\ ready' = Push(t.arg, "resume")
      BY <2>1 DEF FireTimer
    <3> HIDE DEF t
    <3> QED
      BY <3>1, <3>2, ResumedRow, PushType DEF Typed, TablesOK, QueuesOK
  <2>2. CASE ~Wakes(t)
    BY <2>2 DEF FireTimer, Typed, TablesOK, QueuesOK
  <2> QED
    BY <2>1, <2>2
<1>6. pending' \in Seq(SidRef)
  <2>1. CASE Cancels(t)
    <3>1. t.arg \in SidRef
      BY <1>2, <2>1, TimerFields DEF Cancels
    <3>2. pending' = Append(pending, t.arg)
      BY <2>1 DEF FireTimer
    <3> HIDE DEF t
    <3> QED
      BY <3>1, <3>2, AppendProperties DEF Typed, QueuesOK
  <2>2. CASE ~Cancels(t)
    BY <2>2 DEF FireTimer, Typed, QueuesOK
  <2> QED
    BY <2>1, <2>2
<1> QED
  BY <1>3, <1>4, <1>5, <1>6 DEF Typed, TablesOK, QueuesOK, ControlOK, control

\* TimersFired preserves the types.
LEMMA TimersFiredType ==
  ASSUME Typed, TimersFired
  PROVE  Typed'
<1>1. work # <<>> /\ work \in Seq(Call)
  BY DEF TimersFired, Calling, Typed, ControlOK
<1>2. work' \in Seq(Call)
  BY <1>1, ThenType, EmptySeq DEF TimersFired
<1>3. UNCHANGED <<tables, queues, root_kind, current, starting, halted>>
  BY DEF TimersFired
<1> QED
  BY <1>2, <1>3 DEF Typed, TablesOK, QueuesOK, ControlOK, tables, queues

-----------------------------------------------------------------------------
(* Type correctness. *)

\* The first state is well formed, ...
LEMMA TypeInit == Init => Typed
<1> SUFFICES ASSUME Init
             PROVE  Typed
  OBVIOUS
<1>1. Root \in Fid /\ ROOT_SCOPE \in Sid
  BY SchedulerAssumption DEF Root, ROOT_SCOPE, Fid, Sid
<1>2. NoFiberRow \in FiberOK
  <2> DEFINE r == NewFiber(ROOT_SCOPE, NO_SCOPE, {}, [gen |-> -1])
  <2>1. r \in FiberOK
    BY <1>1, EmptySeq DEF NewFiber, FiberOK, Fiber, Outcome, Wait
  <2>2. NoFiberRow = [r EXCEPT !.alive = FALSE]
    BY DEF NoFiberRow
  <2> HIDE DEF r
  <2> QED
    BY <2>1, <2>2 DEF FiberOK, Fiber
<1>3. NewFiber(ROOT_SCOPE, NO_SCOPE, {}, NoFiberRow) \in FiberOK
  <2>1. NoFiberRow.gen \in Nat
    BY <1>2 DEF FiberOK, Fiber
  <2>2. NewFiber(ROOT_SCOPE, NO_SCOPE, {}, NoFiberRow) \in Fiber
    BY <1>1, <2>1, NewFiberType
  <2>3. NewFiber(ROOT_SCOPE, NO_SCOPE, {}, NoFiberRow).wait_kind = "none"
    BY DEF NewFiber
  <2> QED
    BY <2>2, <2>3 DEF FiberOK
<1>4. NoScopeRow \in Scope
  <2> DEFINE r == NewScope(FALSE, None, {}, [gen |-> -1])
  <2>1. r \in Scope
    BY <1>1, EmptySeq DEF NewScope, Scope, Outcome
  <2>2. NoScopeRow = [r EXCEPT !.finalized = TRUE]
    BY DEF NoScopeRow
  <2> HIDE DEF r
  <2> QED
    BY <2>1, <2>2 DEF Scope
<1>5. NewScope(FALSE, None, {}, NoScopeRow) \in Scope
  <2>1. NoScopeRow.gen \in Nat
    BY <1>4 DEF Scope
  <2> QED
    BY <2>1, NewScopeType
<1>6. fibers \in [Fid -> FiberOK] /\ scopes \in [Sid -> Scope]
  BY <1>2, <1>3, <1>4, <1>5 DEF Init
<1>7. ready \in Seq(Entry)
  <2>1. [fid |-> Ref(Root, 1), focus |-> "start"] \in Entry
    BY <1>1 DEF Ref, Entry, FidRef
  <2> QED
    BY <2>1 DEF Init
<1>8. nfibers \in 0..MaxFibers /\ nscopes \in 0..MaxScopes
  BY SchedulerAssumption DEF Init
<1> QED
  BY <1>6, <1>7, <1>8, EmptySeq DEF Init, Typed, TablesOK, QueuesOK, ControlOK, Outcome

\* ... and every step keeps it so.
LEMMA TypeStep == Typed /\ [Next]_vars => Typed'
<1> SUFFICES ASSUME Typed, [Next]_vars
             PROVE  Typed'
  OBVIOUS
<1>1. CASE ProgramStep
  BY <1>1, SpawnType, CancelType, TakeSettledType, AwaitNextType, CancelAfterType,
     AwaitHandleType, YieldType, AwaitIoType, StartBodyType, SleepType, StartScopeType,
     CompleteRootType, CompleteBodyType, CompleteChildType, Zenon DEF ProgramStep
<1>2. CASE CallStep
  BY <1>2, CancelScopeType, MarkCancelledType, ReapChildrenType, ReapChildType, ReapFiberType,
     RunDefersType, TryFinalizeType DEF CallStep
<1>3. CASE LoopStep
  BY <1>3, DrainPendingType, HaltType, DequeueType, RunTimersType, TimersFiredType,
     FireTimerType, IoWakeType, Zenon DEF LoopStep
<1>4. CASE UNCHANGED vars
  BY <1>4 DEF vars, tables, queues, control, Typed, TablesOK, QueuesOK, ControlOK
<1> QED
  BY <1>1, <1>2, <1>3, <1>4 DEF Next

\* Every table, queue and call of the scheduler stays well formed, for every
\* program and every size of the tables: what is recycled are rows of the right table,
\* a fiber parked on a scope names a row of the scope table, so that the cascade of
\* reap_fiber has a scope to cancel, and s.next takes no child that is not there.
THEOREM TypeCorrect == Spec => []TypeOK
<1>1. Init => Typed
  BY TypeInit
<1>2. Typed /\ [Next]_vars => Typed'
  BY TypeStep
<1>3. Typed => TypeOK
  BY TypeParts
<1> QED
  BY <1>1, <1>2, <1>3, PTL DEF Spec

-----------------------------------------------------------------------------
(* Outcomes are final. A row changes in three ways only: it is the next to  *)
(* hand out and is, its live fiber ends, or alive, outcome and generation   *)
(* stay.                                                                    *)

Keeps(f) ==
  /\ fibers'[f].alive = fibers[f].alive
  /\ fibers'[f].res_kind = fibers[f].res_kind
  /\ fibers'[f].gen = fibers[f].gen
HandedOut(f) ==
  /\ FiberSlotLeft(free_fibers, nfibers) /\ f = Slot(free_fibers, nfibers)
  /\ fibers'[f].alive = TRUE /\ fibers'[f].res_kind = "none"
  /\ fibers'[f].gen = fibers[f].gen + 1
Ends(f) ==
  /\ fibers[f].alive = TRUE /\ fibers'[f].alive = FALSE
  /\ fibers'[f].res_kind # "none" /\ fibers'[f].gen = fibers[f].gen
RowsStep == \A f \in Fid : Keeps(f) \/ HandedOut(f) \/ Ends(f)

\* No live fiber has an outcome, the one being pumped is alive, and while a fiber is
\* pumped no cancel, reap or finalize call is underway that could end it.
AliveOpen   == \A f \in Fid : fibers[f].alive = TRUE => fibers[f].res_kind = "none"
PumpedAlive == current # NoFiber => fibers[current].alive = TRUE
CallsAlone  == work # <<>> => current = NoFiber
RowsInv     == Typed /\ AliveOpen /\ PumpedAlive /\ CallsAlone

\* Parking a fiber ends and spawns none.
LEMMA ParkKeeps ==
  ASSUME fibers \in [Fid -> FiberOK], NEW c, NEW kind, NEW arg,
         fibers' = [fibers EXCEPT ![c].wait_kind = kind, ![c].wait_arg = arg]
  PROVE  RowsStep
BY DEF RowsStep, Keeps, FiberOK, Fiber

\* Neither does resuming one.
LEMMA ResumeKeeps ==
  ASSUME fibers \in [Fid -> FiberOK], NEW c,
         fibers' = [fibers EXCEPT ![c].wait_kind = "none"]
  PROVE  \A f \in Fid : Keeps(f)
BY DEF Keeps, FiberOK, Fiber

\* fiber_completed and reap_fiber end one live fiber.
LEMMA SettledEnds ==
  ASSUME fibers \in [Fid -> FiberOK], NEW c \in Fid, NEW kind, kind # "none",
         fibers[c].alive = TRUE, fibers' = Settled(c, kind)
  PROVE  RowsStep
BY DEF RowsStep, Keeps, Ends, Settled, FiberOK, Fiber

\* sched_spawn hands out one row.
LEMMA SpawnRows ==
  ASSUME fibers \in [Fid -> FiberOK], NEW h, NEW handles, SpawnInto(h, handles)
  PROVE  \A f \in Fid : Keeps(f) \/ HandedOut(f)
<1> DEFINE f == Slot(free_fibers, nfibers)
           knows == IF CaptureInner THEN handles ELSE scopes[h.id].enclosing \cup {h}
           row == NewFiber(h.id, NO_SCOPE, knows, fibers[f])
<1>1. fibers' = [fibers EXCEPT ![f] = row] /\ FiberSlotLeft(free_fibers, nfibers)
  BY DEF SpawnInto
<1>2. row.alive = TRUE /\ row.res_kind = "none" /\ row.gen = fibers[f].gen + 1
  BY DEF NewFiber
<1> HIDE DEF row
<1>3. ASSUME NEW g \in Fid
      PROVE  Keeps(g) \/ HandedOut(g)
  BY <1>1, <1>2 DEF Keeps, HandedOut
<1> QED
  BY <1>3

\* A step that leaves the table alone.
LEMMA UnchangedRows ==
  ASSUME fibers' = fibers
  PROVE  \A f \in Fid : Keeps(f)
BY DEF Keeps

\* The steps of a pump change rows in these ways only, ...
LEMMA RowsProgram ==
  ASSUME RowsInv, ProgramStep
  PROVE  RowsStep /\ PumpedAlive' /\ CallsAlone'
<1> USE DEF CallsAlone, PumpedAlive
<1>0. fibers \in [Fid -> FiberOK] /\ current \in Fid \cup {NoFiber}
  BY DEF RowsInv, Typed, TablesOK, ControlOK
<1>1. ASSUME NEW h, Spawn(h)
      PROVE  RowsStep /\ PumpedAlive' /\ CallsAlone'
  <2>1. \A f \in Fid : Keeps(f) \/ HandedOut(f)
    BY <1>0, <1>1, SpawnRows DEF Spawn
  <2>2. UNCHANGED <<current, work>> /\ current \in Fid /\ work = <<>>
    BY <1>0, <1>1 DEF Spawn, control, Pumping
  <2> QED
    BY <2>1, <2>2 DEF RowsStep, RowsInv, Keeps, HandedOut
<1>2. ASSUME fibers' = fibers, UNCHANGED <<current, work>>
      PROVE  RowsStep /\ PumpedAlive' /\ CallsAlone'
  BY <1>2, UnchangedRows DEF RowsStep, RowsInv
<1>3. ASSUME NEW h, Cancel(h) \/ TakeSettled(h)
      PROVE  RowsStep /\ PumpedAlive' /\ CallsAlone'
  BY <1>2, <1>3 DEF Cancel, TakeSettled, tables, control
<1>4. ASSUME NEW h, NEW d, CancelAfter(h, d)
      PROVE  RowsStep /\ PumpedAlive' /\ CallsAlone'
  BY <1>2, <1>4 DEF CancelAfter, tables, control
<1>5. ASSUME NEW manual, StartScope(manual)
      PROVE  RowsStep /\ PumpedAlive' /\ CallsAlone'
  BY <1>2, <1>5 DEF StartScope
<1>6. ASSUME NEW h, AwaitNext(h)
      PROVE  RowsStep /\ PumpedAlive' /\ CallsAlone'
  BY <1>0, <1>6, ParkKeeps DEF AwaitNext, Park
<1>7. CASE AwaitIo
  BY <1>0, <1>7, ParkKeeps DEF AwaitIo, Park
<1>8. ASSUME NEW d, Sleep(d)
      PROVE  RowsStep /\ PumpedAlive' /\ CallsAlone'
  BY <1>0, <1>8, ParkKeeps DEF Sleep, Park
<1>9. CASE Yield
  BY <1>9, UnchangedRows DEF Yield, tables, RowsStep
<1>10. ASSUME NEW h, NEW c, AwaitHandle(h, c)
       PROVE  RowsStep /\ PumpedAlive' /\ CallsAlone'
  <2> DEFINE t == [fibers EXCEPT ![current].wait_kind = "handle", ![current].wait_arg = c]
  <2>1. /\ fibers' = [t EXCEPT ![c.id].waiters = Append(@, FiberRef(current))]
        /\ current' = NoFiber
    BY <1>10 DEF AwaitHandle
  <2>2. \A f \in Fid : /\ t[f].alive = fibers[f].alive /\ t[f].res_kind = fibers[f].res_kind
                       /\ t[f].gen = fibers[f].gen
                       /\ DOMAIN t[f] = DOMAIN fibers[f]
    BY <1>0 DEF FiberOK, Fiber
  <2>3. DOMAIN t = Fid
    BY <1>0
  <2>4. \A f \in Fid : {"alive", "res_kind", "gen"} \subseteq DOMAIN fibers[f]
    BY <1>0 DEF FiberOK, Fiber
  <2> HIDE DEF t
  <2> QED
    BY <2>1, <2>2, <2>3, <2>4 DEF RowsStep, Keeps
<1>11. CASE StartBody
  <2> DEFINE f == Slot(free_fibers, nfibers)
             row == NewFiber(starting.id, starting.id, fibers[current].knows \cup {starting}, fibers[f])
             t == [fibers EXCEPT ![f] = row]
  <2>0. /\ fibers' = [t EXCEPT ![current].wait_kind = "scope", ![current].wait_arg = starting]
        /\ current' = NoFiber
    BY <1>11 DEF StartBody
  <2>1. /\ row.alive = TRUE /\ row.res_kind = "none" /\ row.gen = fibers[f].gen + 1
        /\ {"alive", "res_kind", "gen"} \subseteq DOMAIN row
    BY DEF NewFiber
  <2> HIDE DEF row, f
  <2>2. \A g \in Fid : {"alive", "res_kind", "gen"} \subseteq DOMAIN t[g]
    BY <1>0, <2>1 DEF FiberOK, Fiber
  <2>3. t \in [Fid -> {t[g] : g \in Fid}]
    BY <1>0
  <2>4. \A g \in Fid : /\ fibers'[g].alive = t[g].alive /\ fibers'[g].res_kind = t[g].res_kind
                       /\ fibers'[g].gen = t[g].gen
    <3> HIDE DEF t
    <3> QED
      BY <2>0, <2>2, <2>3
  <2>5. \A g \in Fid : t[g] = fibers[g] \/ (g = f /\ t[g] = row)
    BY <1>0
  <2>6. FiberSlotLeft(free_fibers, nfibers) /\ f = Slot(free_fibers, nfibers)
    BY <1>11 DEF StartBody, f
  <2>7. RowsStep
    BY <2>1, <2>4, <2>5, <2>6 DEF RowsStep, Keeps, HandedOut
  <2> QED
    BY <2>0, <2>7
<1>12. ASSUME NEW kind \in {"ok", "err"}, CompleteRoot(kind) \/ CompleteBody(kind)
       PROVE  RowsStep /\ PumpedAlive' /\ CallsAlone'
  <2>1. /\ current \in Fid /\ fibers[current].alive = TRUE
        /\ fibers' = Settled(current, kind) /\ current' = NoFiber
    BY <1>0, <1>12 DEF CompleteRoot, CompleteBody, CanComplete, CanSuspend, Pumping, RowsInv
  <2> QED
    BY <1>0, <2>1, SettledEnds
<1>13. ASSUME NEW kind \in {"ok", "err"}, CompleteChild(kind)
       PROVE  RowsStep /\ PumpedAlive' /\ CallsAlone'
  <2>1. /\ current \in Fid /\ fibers[current].alive = TRUE
        /\ fibers' = [Settled(current, kind) EXCEPT ![current].waiters = <<>>]
        /\ current' = NoFiber
    BY <1>0, <1>13 DEF CompleteChild, CanComplete, CanSuspend, Pumping, RowsInv
  <2> QED
    BY <1>0, <2>1 DEF RowsStep, Keeps, Ends, Settled, FiberOK, Fiber
<1> QED
  BY <1>1, <1>3, <1>4, <1>5, <1>6, <1>7, <1>8, <1>9, <1>10, <1>11, <1>12, <1>13, Zenon
     DEF ProgramStep

\* ... so do the cancel, reap and finalize calls, ...
LEMMA RowsCall ==
  ASSUME RowsInv, CallStep
  PROVE  RowsStep /\ PumpedAlive' /\ CallsAlone'
<1> USE DEF CallsAlone, PumpedAlive
<1>0. fibers \in [Fid -> FiberOK]
  BY DEF RowsInv, Typed, TablesOK
<1>1. current' = NoFiber
  BY DEF RowsInv, CallStep, CancelScope, MarkCancelled, ReapChildren, ReapChild, ReapFiber,
         RunDefers, TryFinalize, Calling
<1>2. CASE CancelScope \/ MarkCancelled \/ ReapChildren \/ ReapChild
  BY <1>1, <1>2, UnchangedRows
     DEF CancelScope, MarkCancelled, ReapChildren, ReapChild, tables, RowsStep
<1>3. CASE ReapFiber
  <2>1. Callee \in Fid
    BY <1>3, CalleeType DEF ReapFiber, RowsInv
  <2>2. CASE fibers[Callee].alive
    <3>1. fibers[Callee].alive = TRUE /\ fibers' = Settled(Callee, "cancelled")
      BY <1>0, <1>3, <2>1, <2>2, FiberFields DEF ReapFiber
    <3> QED
      BY <1>0, <1>1, <2>1, <3>1, SettledEnds
  <2>3. CASE ~fibers[Callee].alive
    BY <1>1, <1>3, <2>3, UnchangedRows DEF ReapFiber, RowsStep
  <2> QED
    BY <2>2, <2>3
<1>4. CASE RunDefers
  <2>1. fibers' = fibers \/ \E h \in fibers[Callee].knows : SpawnInto(h, fibers[Callee].knows)
    BY <1>4 DEF RunDefers, tables
  <2> QED
    BY <1>0, <1>1, <2>1, SpawnRows, UnchangedRows DEF RowsStep
<1>5. CASE TryFinalize
  <2>1. \/ fibers' = fibers
        \/ \E c : fibers' = [fibers EXCEPT ![c].wait_kind = "none"]
    BY <1>5 DEF TryFinalize
  <2> QED
    BY <1>0, <1>1, <2>1, ResumeKeeps, UnchangedRows DEF RowsStep
<1> QED
  BY <1>2, <1>3, <1>4, <1>5 DEF CallStep

\* ... and the loop of run_task.
LEMMA RowsLoop ==
  ASSUME RowsInv, LoopStep
  PROVE  RowsStep /\ PumpedAlive' /\ CallsAlone'
<1> USE DEF CallsAlone, PumpedAlive
<1>0. fibers \in [Fid -> FiberOK]
  BY DEF RowsInv, Typed, TablesOK
<1>1. CASE DrainPending \/ RootSettled \/ Quiesce \/ RunTimers \/ TimersFired
  <2>1. fibers' = fibers /\ current' = NoFiber
    BY <1>1 DEF DrainPending, RootSettled, Quiesce, RunTimers, TimersFired, Calling, RowsInv,
                Turn, Looping, tables
  <2> QED
    BY <2>1, UnchangedRows DEF RowsStep
<1>2. CASE Dequeue
  <2> DEFINE f == Head(ready).fid.id
  <2>1. current = NoFiber /\ work = <<>> /\ work' = work
    BY <1>2 DEF Dequeue, Turn, Looping
  <2>2. CASE fibers[f].alive
    <3>1. ready \in Seq(Entry) /\ ready # <<>>
      BY <1>2 DEF Dequeue, RowsInv, Typed, QueuesOK
    <3>2. Head(ready) \in Entry
      BY <3>1, HeadTailProperties
    <3>3. f \in Fid
      BY <3>2 DEF Entry, FidRef
    <3>4. current' = f /\ fibers' = [fibers EXCEPT ![f].wait_kind = "none"]
      BY <1>2, <2>2 DEF Dequeue
    <3>5. fibers[f].alive = TRUE
      BY <1>0, <2>2, <3>3, FiberFields
    <3> HIDE DEF f
    <3>6. \A g \in Fid : Keeps(g)
      BY <1>0, <3>4, ResumeKeeps
    <3> QED
      BY <2>1, <3>3, <3>4, <3>5, <3>6 DEF RowsStep, Keeps
  <2>3. CASE ~fibers[f].alive
    BY <1>2, <2>1, <2>3, UnchangedRows DEF Dequeue, RowsStep
  <2> QED
    BY <2>2, <2>3
<1>3. ASSUME NEW i, FireTimer(i)
      PROVE  RowsStep /\ PumpedAlive' /\ CallsAlone'
  <2>1. \/ fibers' = fibers
        \/ \E c : fibers' = [fibers EXCEPT ![c].wait_kind = "none"]
    BY <1>3 DEF FireTimer
  <2>2. current' = NoFiber
    BY <1>3 DEF FireTimer, Calling, RowsInv, control
  <2> QED
    BY <1>0, <2>1, <2>2, ResumeKeeps, UnchangedRows DEF RowsStep
<1>4. ASSUME NEW f, IoWake(f)
      PROVE  RowsStep /\ PumpedAlive' /\ CallsAlone'
  <2>1. fibers' = [fibers EXCEPT ![f].wait_kind = "none"] /\ current' = NoFiber
    BY <1>4 DEF IoWake, Turn, Looping, control
  <2> QED
    BY <1>0, <2>1, ResumeKeeps DEF RowsStep
<1> QED
  BY <1>1, <1>2, <1>3, <1>4, Zenon DEF LoopStep

\* Every step does.
LEMMA RowsNext ==
  ASSUME RowsInv, [Next]_vars
  PROVE  RowsStep /\ PumpedAlive' /\ CallsAlone'
<1>1. CASE UNCHANGED vars
  BY <1>1, UnchangedRows
     DEF vars, tables, control, RowsStep, RowsInv, PumpedAlive, CallsAlone
<1> QED
  BY <1>1, RowsProgram, RowsCall, RowsLoop DEF Next

\* The invariant holds at first ...
LEMMA RowsInit == Init => RowsInv
<1> SUFFICES ASSUME Init
             PROVE  RowsInv
  OBVIOUS
<1>1. Typed
  BY TypeInit
<1>2. AliveOpen
  BY DEF Init, AliveOpen, NoFiberRow, NewFiber
<1>3. PumpedAlive /\ CallsAlone
  BY DEF Init, PumpedAlive, CallsAlone
<1> QED
  BY <1>1, <1>2, <1>3 DEF RowsInv

\* ... and is kept by every step.
LEMMA RowsInvStep == RowsInv /\ [Next]_vars => RowsInv'
<1> SUFFICES ASSUME RowsInv, [Next]_vars
             PROVE  RowsInv'
  OBVIOUS
<1>1. Typed'
  BY TypeStep DEF RowsInv
<1>2. RowsStep /\ PumpedAlive' /\ CallsAlone'
  BY RowsNext
<1>3. AliveOpen'
  BY <1>2 DEF RowsInv, AliveOpen, RowsStep, Keeps, HandedOut, Ends
<1> QED
  BY <1>1, <1>2, <1>3 DEF RowsInv

\* What one step may do to a settled fiber.
SettledStep ==
  \A f \in Fid : fibers[f].res_kind # "none" /\ fibers'[f].gen = fibers[f].gen =>
    fibers'[f].res_kind = fibers[f].res_kind /\ ~fibers'[f].alive

\* No step changes the outcome of an ended fiber.
LEMMA SettledNext == RowsInv /\ [Next]_vars => SettledStep
<1> SUFFICES ASSUME RowsInv, [Next]_vars, NEW f \in Fid,
                    fibers[f].res_kind # "none", fibers'[f].gen = fibers[f].gen
             PROVE  fibers'[f].res_kind = fibers[f].res_kind /\ ~fibers'[f].alive
  BY DEF SettledStep
<1>1. fibers[f].alive \in BOOLEAN /\ fibers[f].gen \in Nat
  BY FiberFields DEF RowsInv, Typed, TablesOK
<1>2. fibers[f].alive = FALSE
  BY <1>1 DEF RowsInv, AliveOpen
<1>3. Keeps(f)
  <2>1. Keeps(f) \/ HandedOut(f) \/ Ends(f)
    BY RowsNext DEF RowsStep
  <2>2. ~HandedOut(f)
    BY <1>1 DEF HandedOut
  <2>3. ~Ends(f)
    BY <1>2 DEF Ends
  <2> QED
    BY <2>1, <2>2, <2>3
<1> QED
  BY <1>2, <1>3 DEF Keeps

\* An outcome is final: as long as a row is not handed out again, neither a late
\* completion nor a reap changes the outcome of its ended fiber or revives it. This
\* holds with stale references, captured handles and nested runs in cleanups too.
THEOREM OutcomesFinal == Spec => SettledOnce
<1>1. Init => RowsInv
  BY RowsInit
<1>2. RowsInv /\ [Next]_vars => RowsInv'
  BY RowsInvStep
<1>3. RowsInv /\ [Next]_vars => [SettledStep]_vars
  BY SettledNext
<1>4. Spec => [][SettledStep]_vars
  BY <1>1, <1>2, <1>3, PTL DEF Spec
<1> QED
  BY <1>4 DEF SettledOnce, SettledStep
=============================================================================

----------------------------- MODULE ScopeProofs -----------------------------
(***************************************************************************)
(* Theorems about the tree of scopes that the scheduler keeps: nothing     *)
(* outlives its scope, a cancellation is complete when it returns to the   *)
(* loop, the counters and the free lists agree with the rows. They hold    *)
(* for tables of any size and any program, as long as it is Disciplined.   *)
(* The invariant, and the half of it about wakeups, are in WakeProofs.     *)
(***************************************************************************)
EXTENDS WakeProofs, FiniteSetTheorems

-----------------------------------------------------------------------------
(* What the invariant says of the tree. *)

\* A handle on an open scope's row, and those of the scopes around it.
LEMMA UpOpen ==
  ASSUME ScopeInv, NEW s \in Sid, Open(s), NEW h \in Up(s)
  PROVE  /\ h \in SidRef /\ h.id \in Sid /\ Open(h.id) /\ h = ScopeRef(h.id)
         /\ scopes[h.id].enclosing \subseteq scopes[s].enclosing
<1>0. Typed /\ Nesting /\ scopes \in [Sid -> Scope]
  BY InvParts
<1>1. scopes[s].enclosing \in SUBSET SidRef /\ scopes[s].gen \in Nat
  BY <1>0, ScopeFields
<1>2. CASE h = ScopeRef(s)
  <2>1. h.id = s /\ h \in SidRef
    BY <1>1, <1>2 DEF ScopeRef, Ref, SidRef
  <2> QED
    BY <1>2, <2>1
<1>3. CASE h \in scopes[s].enclosing
  <2>1. h \in SidRef /\ h.id \in Sid
    BY <1>1, <1>3 DEF SidRef
  <2>2. NestedIn(s, h)
    BY <1>0, <1>3 DEF Nesting
  <2> QED
    BY <2>1, <2>2 DEF NestedIn
<1> QED
  BY <1>2, <1>3 DEF Up

\* A scope is known by the handles its fibers have.
LEMMA UpInjective ==
  ASSUME ScopeInv, NEW u \in Sid, NEW v \in Sid, Open(u), Open(v), Up(u) = Up(v)
  PROVE  u = v
<1>0. Nesting
  BY InvParts
<1> SUFFICES ASSUME u # v
             PROVE  FALSE
  OBVIOUS
<1>1. ScopeRef(u) # ScopeRef(v) /\ ScopeRef(u).id = u /\ ScopeRef(v).id = v
  BY DEF ScopeRef, Ref
<1>2. ScopeRef(u) \in scopes[v].enclosing /\ ScopeRef(v) \in scopes[u].enclosing
  BY <1>1 DEF Up
<1>3. scopes[u].enclosing \subseteq scopes[v].enclosing
  BY <1>0, <1>1, <1>2 DEF Nesting, NestedIn
<1> QED
  BY <1>0, <1>2, <1>3 DEF Nesting

\* The handles that a live fiber has are those of open scopes.
LEMMA KnownOpen ==
  ASSUME ScopeInv, NEW f \in Fid, fibers[f].alive, NEW h \in fibers[f].knows
  PROVE  /\ h \in SidRef /\ h.id \in Sid /\ Open(h.id) /\ h = ScopeRef(h.id)
         /\ f # Root /\ fibers[f].scope \in Sid /\ Open(fibers[f].scope)
         /\ fibers[f].knows = Up(fibers[f].scope)
<1>0. Typed /\ FiberRows /\ fibers \in [Fid -> FiberOK]
  BY InvParts
<1>1. f # Root
  BY <1>0 DEF FiberRows
<1>2. fibers[f].scope \in Sid
  BY <1>0, FiberFields
<1>3. Open(fibers[f].scope) /\ fibers[f].knows = Up(fibers[f].scope)
  BY <1>0, <1>1 DEF FiberRows
<1> QED
  BY <1>1, <1>2, <1>3, UpOpen

\* So are those that the fiber being pumped may use.
LEMMA HandleOpen ==
  ASSUME ScopeInv, Pumping, NEW h \in Handles
  PROVE  h \in SidRef /\ h.id \in Sid /\ Open(h.id) /\ h = ScopeRef(h.id)
<1>0. Typed /\ Awaiting
  BY InvParts
<1>1. h \in SidRef /\ h.id \in Sid
  BY <1>0, HandleSid
<1>2. CASE h \in fibers[current].knows
  <2>1. current \in Fid /\ fibers[current].alive
    BY Pumped DEF Pumping
  <2> QED
    BY <1>2, <2>1, KnownOpen
<1>3. CASE h = starting /\ starting # None
  BY <1>0, <1>1, <1>3 DEF Awaiting
<1> QED
  BY <1>2, <1>3 DEF Handles

\* With no calls left, nothing is being cancelled and every open scope is awaited.
LEMMA IdleTree ==
  ASSUME ScopeInv, work = <<>>, NEW s \in Sid, Open(s)
  PROVE  /\ ~Ending(s) /\ ~scopes[s].cancelled /\ scopes[s].bd_kind = "none"
         /\ scopes[s].awaiter \in FidRef /\ scopes[s].awaiter.id \in Fid
         /\ fibers[scopes[s].awaiter.id].alive /\ Awaits(scopes[s].awaiter, s)
         /\ starting # ScopeRef(s) => fibers[scopes[s].body].alive
<1>0. Typed /\ Cancelling /\ Awaited /\ Bodies /\ scopes \in [Sid -> Scope]
  BY InvParts
<1>1. DOMAIN work = {}
  OBVIOUS
<1>2. ~Ending(s) /\ ~scopes[s].cancelled /\ scopes[s].bd_kind = "none"
  BY <1>0, <1>1 DEF Cancelling, Ending
<1>3. \A c : ~InWork(c)
  BY <1>1 DEF InWork
<1>4. fibers[scopes[s].awaiter.id].alive /\ Awaits(scopes[s].awaiter, s) /\ scopes[s].awaiter # None
  BY <1>0, <1>2, <1>3 DEF Awaited
<1>5. scopes[s].awaiter \in FidRef
  BY <1>0, <1>4, ScopeFields
<1>6. scopes[s].awaiter.id \in Fid
  BY <1>5 DEF FidRef
<1>7. starting # ScopeRef(s) => fibers[scopes[s].body].alive
  BY <1>0, <1>2, <1>3 DEF Bodies
<1> QED
  BY <1>2, <1>4, <1>5, <1>6, <1>7

\* No open scope waits for the fiber being pumped, but the one it is starting.
LEMMA PumpedAwaits ==
  ASSUME ScopeInv, Pumping, NEW s \in Sid, Open(s), scopes[s].awaiter.id = current
  PROVE  starting = ScopeRef(s)
<1>0. Awaiting
  BY InvParts
<1>1. Awaits(scopes[s].awaiter, s)
  BY IdleTree DEF Pumping
<1>2. fibers[current].wait_kind = "none"
  BY <1>0 DEF Awaiting, Pumping
<1> QED
  BY <1>1, <1>2 DEF Awaits, Waits

\* While calls are made, no fiber is pumped and no scope is being started.
LEMMA NotStarting ==
  ASSUME ScopeInv, current = NoFiber
  PROVE  starting = None /\ \A s \in Sid : starting # ScopeRef(s)
<1>0. Awaiting
  BY InvParts
<1>1. starting = None
  BY <1>0 DEF Awaiting
<1>2. \A s \in Sid : ScopeRef(s).id # None.id
  BY DEF ScopeRef, Ref, None, Sid
<1> QED
  BY <1>1, <1>2

\* The fiber that a live fiber's scope wait is for.
LEMMA ScopeWait ==
  ASSUME ScopeInv, NEW f \in Fid, fibers[f].alive, fibers[f].wait_kind = "scope"
  PROVE  /\ fibers[f].wait_arg \in SidRef /\ fibers[f].wait_arg.id \in Sid
         /\ Open(fibers[f].wait_arg.id) /\ fibers[f].wait_arg = ScopeRef(fibers[f].wait_arg.id)
         /\ scopes[fibers[f].wait_arg.id].awaiter = FiberRef(f)
         /\ scopes[fibers[f].wait_arg.id].enclosing = fibers[f].knows
<1>0. Typed /\ Awaiting /\ Awaited /\ fibers \in [Fid -> FiberOK]
  BY InvParts
<1>1. fibers[f].wait_arg \in SidRef
  BY <1>0, FiberFields
<1>2. fibers[f].wait_arg.id \in Sid
  BY <1>1 DEF SidRef
<1>3. /\ Open(fibers[f].wait_arg.id) /\ fibers[f].wait_arg = ScopeRef(fibers[f].wait_arg.id)
      /\ scopes[fibers[f].wait_arg.id].awaiter = FiberRef(f)
  BY <1>0 DEF Awaiting
<1>4. FiberRef(f).id = f
  BY DEF FiberRef, Ref
<1>5. scopes[fibers[f].wait_arg.id].enclosing = fibers[f].knows
  BY <1>0, <1>2, <1>3, <1>4 DEF Awaited, Awaits
<1> QED
  BY <1>1, <1>2, <1>3, <1>5

-----------------------------------------------------------------------------
(* Steps that leave the tree as it is. *)

SameWait(f) ==
  /\ (fibers'[f].wait_kind = "scope") <=> (fibers[f].wait_kind = "scope")
  /\ fibers[f].wait_kind = "scope" => fibers'[f].wait_arg = fibers[f].wait_arg
SameKids(s) ==
  /\ scopes'[s].children = scopes[s].children /\ scopes'[s].live = scopes[s].live
  /\ ~scopes[s].manual => scopes'[s].next_waiters = scopes[s].next_waiters
\* The place of a scope's row in the tree. The outcome of a body that has ended may be
\* recorded.
SamePlace(s) ==
  /\ scopes'[s].manual = scopes[s].manual /\ scopes'[s].finalized = scopes[s].finalized
  /\ scopes'[s].body = scopes[s].body /\ scopes'[s].awaiter = scopes[s].awaiter
  /\ scopes'[s].enclosing = scopes[s].enclosing /\ scopes'[s].gen = scopes[s].gen
  /\ \/ scopes'[s].bd_kind = scopes[s].bd_kind
     \/ /\ scopes'[s].bd_kind # "none" /\ starting = None
        /\ Open(s) => ~fibers[scopes[s].body].alive
TreeKept ==
  /\ \A f \in Fid : SameFiber(f) /\ SameWait(f)
  /\ \A s \in Sid : SamePlace(s) /\ SameKids(s)
  /\ nfibers' = nfibers /\ nscopes' = nscopes /\ starting' = starting
  /\ free_fibers' \in {free_fibers, <<>>} /\ free_scopes' \in {free_scopes, <<>>}
  /\ starting # None => current' = current
  /\ current' # NoFiber => fibers'[current'].wait_kind = "none"

\* The rows then mean what they meant.
LEMMA SameMeaning ==
  ASSUME TreeKept
  PROVE  /\ \A s \in Sid : /\ Open(s)' = Open(s) /\ ScopeRef(s)' = ScopeRef(s) /\ Up(s)' = Up(s)
         /\ \A f \in Fid : FiberRef(f)' = FiberRef(f)
         /\ \A f \in Fid, s \in Sid : LiveIn(f, s)' = LiveIn(f, s) /\ IsChild(f, s)' = IsChild(f, s)
         /\ \A f \in Fid, s \in Sid : \A r : Owned(f, s, r) => Owned(f, s, r)'
<1>1. \A s \in Sid : /\ scopes'[s].finalized = scopes[s].finalized /\ scopes'[s].gen = scopes[s].gen
                     /\ scopes'[s].enclosing = scopes[s].enclosing
  BY DEF TreeKept, SamePlace
<1>2. \A s \in Sid : Open(s)' = Open(s) /\ ScopeRef(s)' = ScopeRef(s)
  BY <1>1 DEF Open, ScopeRef
<1>3. \A s \in Sid : Up(s)' = Up(s)
  BY <1>1, <1>2 DEF Up
<1>4. \A f \in Fid : /\ fibers'[f].alive = fibers[f].alive /\ fibers'[f].scope = fibers[f].scope
                     /\ fibers'[f].runs_scope = fibers[f].runs_scope /\ fibers'[f].gen = fibers[f].gen
  BY DEF TreeKept, SameFiber
<1>5. \A f \in Fid : FiberRef(f)' = FiberRef(f)
  BY <1>4 DEF FiberRef
<1>6. \A f \in Fid, s \in Sid : LiveIn(f, s)' = LiveIn(f, s) /\ IsChild(f, s)' = IsChild(f, s)
  BY <1>4 DEF LiveIn, IsChild
<1>7. \A f \in Fid, s \in Sid : \A r : Owned(f, s, r) => Owned(f, s, r)'
  <2>1. nfibers' = nfibers /\ (free_fibers' = free_fibers \/ free_fibers' = <<>>) /\ DOMAIN <<>> = {}
    BY DEF TreeKept
  <2> QED
    BY <1>4, <2>1 DEF Owned
<1> QED
  BY <1>2, <1>3, <1>5, <1>6, <1>7

\* The live fibers stay in their scopes.
LEMMA FiberRowsStay ==
  ASSUME ScopeInv, TreeKept
  PROVE  FiberRows'
<1>0. FiberRows /\ fibers \in [Fid -> FiberOK]
  BY InvParts
<1>1. \A s \in Sid : Open(s)' = Open(s) /\ Up(s)' = Up(s)
  BY SameMeaning
<1>2. Root \in Fid
  BY SchedulerAssumption DEF Fid, Root
<1>3. /\ fibers'[Root].knows = {} /\ fibers'[Root].scope = ROOT_SCOPE
      /\ fibers'[Root].runs_scope = NO_SCOPE
  BY <1>0, <1>2 DEF FiberRows, TreeKept, SameFiber
<1>4. ASSUME NEW f \in Fid \ {Root}, fibers'[f].alive, NEW s, s = fibers'[f].scope
      PROVE  /\ Open(s)' /\ fibers'[f].knows = Up(s)'
             /\ fibers'[f].runs_scope # NO_SCOPE =>
                  /\ fibers'[f].runs_scope = s /\ scopes'[s].body = f
                  /\ scopes'[s].bd_kind = "none"
  <2>1. /\ fibers[f].alive /\ fibers[f].scope = s /\ fibers'[f].runs_scope = fibers[f].runs_scope
        /\ fibers'[f].knows = fibers[f].knows
    BY <1>4 DEF TreeKept, SameFiber
  <2>2. s \in Sid
    BY <1>0, <2>1, FiberFields
  <2>3. /\ Open(s) /\ fibers[f].knows = Up(s)
        /\ fibers[f].runs_scope # NO_SCOPE =>
             fibers[f].runs_scope = s /\ scopes[s].body = f /\ scopes[s].bd_kind = "none"
    BY <1>0, <2>1 DEF FiberRows
  <2>4. /\ scopes'[s].body = scopes[s].body
        /\ scopes[s].body = f => scopes'[s].bd_kind = scopes[s].bd_kind
    BY <2>1, <2>2, <2>3 DEF TreeKept, SamePlace
  <2> QED
    BY <1>1, <2>1, <2>2, <2>3, <2>4
<1> QED
  BY <1>3, <1>4 DEF FiberRows, Open, Up, ScopeRef

\* The chains of scopes stay where no open scope's row changes its place.
LEMMA NestingStays ==
  ASSUME ScopeInv,
         \A s \in Sid : Open(s)' => Open(s),
         \A s \in Sid : /\ scopes'[s].gen = scopes[s].gen
                        /\ scopes'[s].enclosing = scopes[s].enclosing,
         \A s, t \in Sid : Open(s)' /\ Open(t) /\ ScopeRef(t) \in scopes[s].enclosing => Open(t)'
  PROVE  Nesting'
<1>0. Nesting
  BY InvParts
<1>1. \A s \in Sid : ScopeRef(s)' = ScopeRef(s) /\ Up(s)' = Up(s)
  BY DEF ScopeRef, Up
<1> SUFFICES ASSUME NEW s \in Sid, Open(s)'
             PROVE  /\ (ScopeRef(s) \notin scopes[s].enclosing)'
                    /\ \A h \in scopes'[s].enclosing : NestedIn(s, h)'
  BY DEF Nesting
<1>2. Open(s)
  OBVIOUS
<1>3. (ScopeRef(s) \notin scopes[s].enclosing)'
  BY <1>0, <1>1, <1>2 DEF Nesting
<1>4. ASSUME NEW h \in scopes'[s].enclosing
      PROVE  NestedIn(s, h)'
  <2>1. h \in scopes[s].enclosing /\ h \in Up(s)
    BY <1>4 DEF Up
  <2>2. h.id \in Sid /\ Open(h.id) /\ h = ScopeRef(h.id)
    BY <1>2, <2>1, UpOpen
  <2>3. scopes[h.id].enclosing \subseteq scopes[s].enclosing
    BY <1>2, <2>1, UpOpen
  <2>4. PICK k \in Up(s) : scopes[k.id].enclosing = Up(h.id)
    BY <1>0, <1>2, <2>1 DEF Nesting, NestedIn
  <2>5. k.id \in Sid
    BY <1>2, UpOpen
  <2>6. Open(h.id)'
    BY <2>1, <2>2
  <2> QED
    BY <1>1, <2>2, <2>3, <2>4, <2>5, <2>6 DEF NestedIn
<1> QED
  BY <1>3, <1>4

\* The waits for scopes stay right.
LEMMA AwaitingStays ==
  ASSUME ScopeInv, TreeKept
  PROVE  Awaiting'
<1>0. Typed /\ Awaiting /\ fibers \in [Fid -> FiberOK]
  BY InvParts
<1>1. /\ \A s \in Sid : Open(s)' = Open(s) /\ ScopeRef(s)' = ScopeRef(s)
      /\ \A f \in Fid : FiberRef(f)' = FiberRef(f)
      /\ \A f \in Fid, s \in Sid : LiveIn(f, s)' = LiveIn(f, s)
  BY SameMeaning
<1>2. ASSUME NEW f \in Fid, fibers'[f].alive, fibers'[f].wait_kind = "scope",
             NEW s, s = fibers'[f].wait_arg.id
      PROVE  Open(s)' /\ fibers'[f].wait_arg = ScopeRef(s)' /\ scopes'[s].awaiter = FiberRef(f)'
  <2>1. /\ fibers[f].alive /\ fibers[f].wait_kind = "scope"
        /\ fibers'[f].wait_arg = fibers[f].wait_arg
    BY <1>2 DEF TreeKept, SameFiber, SameWait
  <2>2. /\ s \in Sid /\ Open(s) /\ fibers[f].wait_arg = ScopeRef(s)
        /\ scopes[s].awaiter = FiberRef(f)
    BY <1>2, <2>1, ScopeWait
  <2>3. scopes'[s].awaiter = scopes[s].awaiter
    BY <2>2 DEF TreeKept, SamePlace
  <2> QED
    BY <1>1, <2>1, <2>2, <2>3
<1>3. ASSUME starting' # None, NEW s, s = starting'.id
      PROVE  /\ current' # NoFiber /\ Open(s)' /\ starting' = ScopeRef(s)'
             /\ scopes'[s].awaiter = FiberRef(current)' /\ scopes'[s].bd_kind = "none"
             /\ \A f \in Fid : LiveIn(f, s)' => fibers'[f].runs_scope = NO_SCOPE
  <2>1. starting' = starting /\ current' = current /\ starting # None
    BY <1>3 DEF TreeKept
  <2>2. /\ current # NoFiber /\ Open(s) /\ starting = ScopeRef(s)
        /\ scopes[s].awaiter = FiberRef(current) /\ scopes[s].bd_kind = "none"
        /\ \A f \in Fid : LiveIn(f, s) => fibers[f].runs_scope = NO_SCOPE
    BY <1>0, <1>3, <2>1 DEF Awaiting
  <2>3. s \in Sid
    BY <1>0, <1>3, <2>1 DEF Typed, ControlOK, SidRef
  <2>4. scopes'[s].awaiter = scopes[s].awaiter /\ scopes'[s].bd_kind = scopes[s].bd_kind
    BY <2>1, <2>3 DEF TreeKept, SamePlace
  <2>5. PICK c \in Fid : c = current
    BY <2>2, Pumped
  <2>6. FiberRef(c)' = FiberRef(c)
    BY <1>1
  <2>7. FiberRef(current)' = FiberRef(current)
    BY <2>1, <2>5, <2>6 DEF FiberRef
  <2>8. \A f \in Fid : LiveIn(f, s)' => fibers'[f].runs_scope = NO_SCOPE
    BY <1>1, <2>2, <2>3 DEF TreeKept, SameFiber
  <2> QED
    BY <1>1, <2>1, <2>2, <2>3, <2>4, <2>7, <2>8
<1>4. current' # NoFiber => fibers'[current'].wait_kind = "none"
  BY DEF TreeKept
<1> QED
  BY <1>2, <1>3, <1>4 DEF Awaiting, Open, ScopeRef, FiberRef, LiveIn

\* The lists of children stay right.
LEMMA KidsStay ==
  ASSUME ScopeInv, TreeKept
  PROVE  Kids'
<1>0. Kids
  BY InvParts
<1>1. /\ \A s \in Sid : Open(s)' = Open(s)
      /\ \A f \in Fid, s \in Sid : LiveIn(f, s)' = LiveIn(f, s)
      /\ \A f \in Fid, s \in Sid : \A r : Owned(f, s, r) => Owned(f, s, r)'
  BY SameMeaning
<1>2. \A f \in Fid : fibers'[f].runs_scope = fibers[f].runs_scope
  BY DEF TreeKept, SameFiber
<1> SUFFICES ASSUME NEW s \in Sid, Open(s)'
             PROVE  /\ \A f \in Fid : LiveIn(f, s)' /\ fibers'[f].runs_scope = NO_SCOPE =>
                         \E i \in DOMAIN scopes'[s].children : scopes'[s].children[i].id = f
                    /\ ~scopes'[s].manual =>
                         /\ scopes'[s].next_waiters = <<>>
                         /\ \A i, j \in DOMAIN scopes'[s].children :
                              scopes'[s].children[i].id = scopes'[s].children[j].id => i = j
                         /\ \A i \in DOMAIN scopes'[s].children :
                              Owned(scopes[s].children[i].id, s, NO_SCOPE)'
  BY DEF Kids
<1>3. /\ scopes'[s].children = scopes[s].children /\ scopes'[s].manual = scopes[s].manual
      /\ ~scopes[s].manual => scopes'[s].next_waiters = scopes[s].next_waiters
  BY DEF TreeKept, SamePlace, SameKids
<1>4. Open(s)
  BY <1>1
<1>5. \A f \in Fid : LiveIn(f, s)' /\ fibers'[f].runs_scope = NO_SCOPE =>
        \E i \in DOMAIN scopes'[s].children : scopes'[s].children[i].id = f
  BY <1>0, <1>1, <1>2, <1>3, <1>4 DEF Kids
<1>6. ASSUME ~scopes'[s].manual, NEW i \in DOMAIN scopes'[s].children
      PROVE  Owned(scopes[s].children[i].id, s, NO_SCOPE)'
  <2>1. PICK g : g = scopes[s].children[i].id
    OBVIOUS
  <2>2. Owned(g, s, NO_SCOPE)
    BY <1>0, <1>3, <1>4, <1>6, <2>1 DEF Kids
  <2>3. g \in Fid
    <3>1. scopes[s].children \in Seq(FidRef)
      BY InvParts, ScopeFields
    <3>2. scopes[s].children[i] \in FidRef
      BY <1>3, <1>6, <3>1, LenProperties, ElementOfSeq
    <3> QED
      BY <2>1, <3>2 DEF FidRef
  <2>4. Owned(g, s, NO_SCOPE)'
    BY <1>1, <2>2, <2>3
  <2> QED
    BY <1>3, <2>1, <2>4
<1> QED
  BY <1>0, <1>3, <1>4, <1>5, <1>6 DEF Kids

\* So do the counts and the free lists.
LEMMA CountsStay ==
  ASSUME ScopeInv, TreeKept
  PROVE  LiveCount' /\ FreeRows'
<1>0. LiveCount /\ FreeRows
  BY InvParts
<1>1. \A f \in Fid, s \in Sid : IsChild(f, s)' = IsChild(f, s)
  BY SameMeaning
<1>2. \A f \in Fid : fibers'[f].alive = fibers[f].alive
  BY DEF TreeKept, SameFiber
<1>3. \A s \in Sid : scopes'[s].live = scopes[s].live /\ scopes'[s].finalized = scopes[s].finalized
  BY DEF TreeKept, SamePlace, SameKids
<1>4. LiveCount'
  <2> SUFFICES ASSUME NEW s \in Sid \ {ROOT_SCOPE}
               PROVE  scopes'[s].live = Cardinality({f \in Fid : fibers'[f].alive /\ IsChild(f, s)'})
    BY DEF LiveCount
  <2>1. {f \in Fid : fibers'[f].alive /\ IsChild(f, s)'}
          = {f \in Fid : fibers[f].alive /\ IsChild(f, s)}
    BY <1>1, <1>2
  <2> QED
    BY <1>0, <1>3, <2>1 DEF LiveCount
<1>5. FreeRows'
  <2>0. nfibers' = nfibers /\ nscopes' = nscopes
    BY DEF TreeKept
  <2>1. /\ free_fibers' = free_fibers \/ free_fibers' = <<>>
        /\ free_scopes' = free_scopes \/ free_scopes' = <<>>
    BY DEF TreeKept
  <2>2. DOMAIN <<>> = {}
    OBVIOUS
  <2>3. IsInjective(free_fibers') /\ IsInjective(free_scopes')
    BY <1>0, <2>1, <2>2 DEF FreeRows, IsInjective
  <2>4. \A i \in DOMAIN free_fibers' : i \in DOMAIN free_fibers /\ free_fibers'[i] = free_fibers[i]
                                       /\ free_fibers[i] \in Fid
    BY <2>1, <2>2, InvParts, LenProperties, ElementOfSeq DEF Typed, TablesOK
  <2>5. \A i \in DOMAIN free_scopes' : i \in DOMAIN free_scopes /\ free_scopes'[i] = free_scopes[i]
                                       /\ free_scopes[i] \in Sid
    BY <2>1, <2>2, InvParts, LenProperties, ElementOfSeq DEF Typed, TablesOK
  <2> QED
    BY <1>0, <1>2, <1>3, <2>0, <2>3, <2>4, <2>5 DEF FreeRows
<1> QED
  BY <1>4, <1>5

\* What a call on the stack names.
LEMMA CallTyped ==
  ASSUME Typed, NEW j \in DOMAIN work
  PROVE  /\ work[j] \in Call /\ work[j].of \in Sid /\ j \in Nat /\ j >= 1
         /\ work[j].fn \in {"reap_child", "reap_fiber", "run_defers"} => work[j].id \in Fid
<1>1. work \in Seq(Call)
  BY DEF Typed, ControlOK
<1>2. work[j] \in Call /\ j \in Nat /\ j >= 1
  BY <1>1, LenProperties, ElementOfSeq
<1> QED
  BY <1>2 DEF Call

\* An awaited scope stays so, or stays about to be cancelled.
LEMMA AwaitedStays ==
  ASSUME ScopeInv, TreeKept,
         \A s \in Sid : scopes[s].cancelled => scopes'[s].cancelled,
         \A s \in Sid : Open(s) /\ ~scopes'[s].cancelled /\ InWork(Do("cancel_scope", s, s)) =>
           InWork(Do("cancel_scope", s, s))'
  PROVE  Awaited'
<1>0. Typed /\ Awaited /\ scopes \in [Sid -> Scope]
  BY InvParts
<1>1. /\ \A s \in Sid : Open(s)' = Open(s) /\ ScopeRef(s)' = ScopeRef(s)
      /\ \A f \in Fid : FiberRef(f)' = FiberRef(f)
  BY SameMeaning
<1> SUFFICES ASSUME NEW s \in Sid, Open(s)', NEW a, a = scopes'[s].awaiter
             PROVE  /\ a # None /\ (fibers'[a.id].alive => Awaits(a, s)')
                    /\ ~fibers'[a.id].alive =>
                         scopes'[s].cancelled \/ InWork(Do("cancel_scope", s, s))'
  BY DEF Awaited, Awaits, Waits, ScopeRef
<1>2. Open(s) /\ a = scopes[s].awaiter /\ scopes'[s].enclosing = scopes[s].enclosing
  BY <1>1 DEF TreeKept, SamePlace
<1>3. a # None /\ a \in FidRef
  BY <1>0, <1>2, ScopeFields DEF Awaited
<1>4. PICK g \in Fid : g = a.id
  BY <1>3 DEF FidRef
<1>5. /\ fibers'[g].alive = fibers[g].alive /\ fibers'[g].knows = fibers[g].knows
      /\ (fibers'[g].wait_kind = "scope") <=> (fibers[g].wait_kind = "scope")
      /\ fibers[g].wait_kind = "scope" => fibers'[g].wait_arg = fibers[g].wait_arg
  BY DEF TreeKept, SameFiber, SameWait
<1>6. CASE fibers[g].alive
  <2>1. Awaits(a, s)
    BY <1>0, <1>2, <1>4, <1>6 DEF Awaited
  <2>2. ScopeRef(s) # None
    BY DEF ScopeRef, Ref, None, Sid
  <2>3. starting' = starting /\ (starting = ScopeRef(s) => current' = current)
    BY <2>2 DEF TreeKept
  <2>4. Waits(g, s)'
    BY <1>1, <1>4, <1>5, <2>1, <2>3 DEF Awaits, Waits
  <2>5. Awaits(a, s)'
    BY <1>1, <1>2, <1>4, <1>5, <2>1, <2>4 DEF Awaits
  <2> QED
    BY <1>3, <1>4, <1>5, <1>6, <2>5
<1>7. CASE ~fibers[g].alive
  <2>1. scopes[s].cancelled \/ InWork(Do("cancel_scope", s, s))
    BY <1>0, <1>2, <1>4, <1>7 DEF Awaited
  <2> QED
    BY <1>2, <1>3, <1>4, <1>5, <1>7, <2>1
<1> QED
  BY <1>6, <1>7

\* A body stays with its scope, alive or about to be marked.
LEMMA BodiesStay ==
  ASSUME ScopeInv, TreeKept,
         \A s \in Sid : Open(s) /\ scopes'[s].bd_kind = "none" /\ InWork(Do("mark_cancelled", s, s)) =>
           InWork(Do("mark_cancelled", s, s))'
  PROVE  Bodies'
<1>0. Bodies /\ scopes \in [Sid -> Scope]
  BY InvParts
<1>1. /\ \A s \in Sid : Open(s)' = Open(s) /\ ScopeRef(s)' = ScopeRef(s)
      /\ \A f \in Fid, s \in Sid : \A r : Owned(f, s, r) => Owned(f, s, r)'
  BY SameMeaning
<1> SUFFICES ASSUME NEW s \in Sid, Open(s)', starting' # ScopeRef(s)', NEW b, b = scopes'[s].body
             PROVE  /\ Owned(b, s, s)'
                    /\ scopes'[s].bd_kind = "none" =>
                         fibers'[b].alive \/ InWork(Do("mark_cancelled", s, s))'
  BY DEF Bodies, Owned
<1>2. /\ Open(s) /\ starting # ScopeRef(s) /\ b = scopes[s].body
      /\ scopes'[s].bd_kind = "none" => scopes[s].bd_kind = "none"
  BY <1>1 DEF TreeKept, SamePlace
<1>3. b \in Fid
  BY <1>0, <1>2, ScopeFields
<1>4. /\ Owned(b, s, s)
      /\ scopes[s].bd_kind = "none" => fibers[b].alive \/ InWork(Do("mark_cancelled", s, s))
  BY <1>0, <1>2 DEF Bodies
<1>5. fibers'[b].alive = fibers[b].alive
  BY <1>3 DEF TreeKept, SameFiber
<1> QED
  BY <1>1, <1>2, <1>3, <1>4, <1>5

\* What the handles, the cancellations and the deadlines may name.
NoRoot ==
  /\ ~scopes[ROOT_SCOPE].cancelled
  /\ \A f \in Fid : \A h \in fibers[f].knows : h.id # ROOT_SCOPE
  /\ \A i \in DOMAIN pending : pending[i].id # ROOT_SCOPE
  /\ \A i \in DOMAIN timers : timers[i].kind = "deadline" => timers[i].arg.id # ROOT_SCOPE

\* A step that makes no call and leaves the tree as it is.
LEMMA TreeStill ==
  ASSUME ScopeInv, TreeKept, \A s \in Sid : SameScope(s), work' = work, NoRoot'
  PROVE  TreeInv'
<1>0. Typed /\ Cancelling /\ Calls /\ Order
  BY InvParts
<1>1. /\ \A s \in Sid : Open(s)' = Open(s) /\ ScopeRef(s)' = ScopeRef(s)
      /\ \A f \in Fid, s \in Sid : LiveIn(f, s)' = LiveIn(f, s)
  BY SameMeaning
<1>2. /\ \A s \in Sid : /\ scopes'[s].cancelled = scopes[s].cancelled
                        /\ scopes'[s].body = scopes[s].body /\ scopes'[s].bd_kind = scopes[s].bd_kind
                        /\ scopes'[s].enclosing = scopes[s].enclosing
                        /\ scopes'[s].gen = scopes[s].gen
      /\ \A f \in Fid : /\ fibers'[f].alive = fibers[f].alive
                        /\ fibers'[f].scope = fibers[f].scope
                        /\ fibers'[f].runs_scope = fibers[f].runs_scope
  BY DEF TreeKept, SameScope, SameFiber
<1>3. \A c : InWork(c)' = InWork(c)
  BY DEF InWork
<1>4. Awaited' /\ Bodies'
  BY <1>2, <1>3, AwaitedStays, BodiesStay
<1>5. Nesting'
  BY <1>1, <1>2, NestingStays
<1>6. Cancelling'
  <2> SUFFICES ASSUME NEW s \in Sid, Open(s)', Ending(s)'
               PROVE  \E j \in DOMAIN work' : Finishes(s, j)'
    BY DEF Cancelling
  <2>0. Open(s) /\ Ending(s)
    BY <1>1, <1>2 DEF Ending
  <2>1. PICK j \in DOMAIN work : Finishes(s, j)
    BY <1>0, <2>0 DEF Cancelling
  <2>2. Finishes(s, j)'
    BY <1>1, <1>2, <2>1 DEF Finishes, Reaps
  <2> QED
    BY <2>1, <2>2
<1>7. \A j \in DOMAIN work' : CallOK(j)'
  <2> SUFFICES ASSUME NEW j \in DOMAIN work'
               PROVE  CallOK(j)'
    OBVIOUS
  <2>1. CallOK(j) /\ j \in DOMAIN work
    BY <1>0 DEF Calls
  <2>2. work[j].of \in Sid /\ (work[j].fn = "reap_fiber" => work[j].id \in Fid)
    BY <1>0, <2>1, CallTyped
  <2>3. scopes[work[j].of].body \in Fid
    BY <2>2, InvParts, ScopeFields
  <2> QED
    BY <1>1, <1>2, <2>1, <2>2, <2>3 DEF CallOK, Open
<1>8. Calls'
  BY <1>7 DEF Calls, NoRoot
<1>9. Order'
  <2>1. \A j \in DOMAIN work : work[j].of \in Sid
    BY <1>0, CallTyped
  <2> QED
    BY <1>0, <1>1, <1>2, <2>1 DEF Order, Open, ScopeRef
<1> QED
  BY <1>4, <1>5, <1>6, <1>8, <1>9, FiberRowsStay, AwaitingStays, KidsStay, CountsStay DEF TreeInv

\* No handle, deadline or pending cancellation names the root scope.
LEMMA NoRootStays ==
  ASSUME ScopeInv, \A f \in Fid : fibers'[f].knows = fibers[f].knows,
         scopes'[ROOT_SCOPE].cancelled = scopes[ROOT_SCOPE].cancelled,
         \A i \in DOMAIN pending' : pending'[i].id # ROOT_SCOPE,
         \A i \in DOMAIN timers' : timers'[i].kind = "deadline" => timers'[i].arg.id # ROOT_SCOPE
  PROVE  NoRoot'
BY InvParts DEF Calls, NoRoot

\* The root scope is a row of the table that nothing can cancel.
LEMMA RootSpared ==
  ASSUME ScopeInv
  PROVE  NoRoot /\ ROOT_SCOPE \in Sid
<1>1. Calls
  BY InvParts
<1> QED
  BY <1>1, SchedulerAssumption DEF Calls, NoRoot, Sid, ROOT_SCOPE

\* A fiber's wait changes, not to or from a scope.
LEMMA WaitKept ==
  ASSUME ScopeInv, NEW c \in Fid, \A g \in Fid \ {c} : fibers'[g] = fibers[g], SameFiber(c),
         fibers[c].wait_kind # "scope", fibers'[c].wait_kind # "scope"
  PROVE  \A g \in Fid : SameFiber(g) /\ SameWait(g)
BY DEF SameFiber, SameWait

\* The same, of the step as a whole.
LEMMA StillKept ==
  ASSUME ScopeInv, \A g \in Fid : SameFiber(g) /\ SameWait(g),
         \A s \in Sid : SameScope(s) /\ SameKids(s),
         UNCHANGED <<nfibers, nscopes, free_fibers, free_scopes, starting, work>>,
         starting # None => current' = current,
         current' # NoFiber => fibers'[current'].wait_kind = "none",
         \A i \in DOMAIN pending' : pending'[i].id # ROOT_SCOPE,
         \A i \in DOMAIN timers' : timers'[i].kind = "deadline" => timers'[i].arg.id # ROOT_SCOPE
  PROVE  TreeInv'
<1>1. TreeKept
  BY DEF TreeKept, SameScope, SamePlace
<1>2. ROOT_SCOPE \in Sid
  BY RootSpared
<1>3. scopes'[ROOT_SCOPE].cancelled = scopes[ROOT_SCOPE].cancelled
  BY <1>2 DEF SameScope
<1>4. \A g \in Fid : fibers'[g].knows = fibers[g].knows
  BY DEF SameFiber
<1>5. NoRoot'
  BY <1>3, <1>4, NoRootStays
<1> QED
  BY <1>1, <1>5, TreeStill

\* Those operations that park the fiber being pumped or queue something.
LEMMA TreeParks ==
  ASSUME ScopeInv,
         \/ Yield \/ AwaitIo
         \/ \E d \in Durations : Sleep(d)
         \/ \E h \in AllHandles : AwaitNext(h)
  PROVE  TreeInv'
<1>0. Typed /\ Awaiting /\ scopes \in [Sid -> Scope]
  BY InvParts
<1>1. NoRoot
  BY RootSpared
<1>2. /\ UNCHANGED <<nfibers, nscopes, free_fibers, free_scopes, starting, work, pending>>
      /\ current' = NoFiber /\ starting = None /\ Pumping
  BY DEF Yield, AwaitIo, Sleep, AwaitNext, CanDrain, CanSuspend, Pumping, Park, tables, queues
<1>3. PICK c \in Fid : c = current /\ fibers[c].wait_kind = "none"
  BY <1>2, Pumped DEF Pumping
<1>4. \A g \in Fid : SameFiber(g) /\ SameWait(g)
  <2>1. CASE fibers' = fibers
    BY <2>1 DEF SameFiber, SameWait
  <2>2. ASSUME NEW kind \in {"io", "sleep", "next"}, NEW arg, fibers' = Parked(c, kind, arg)
        PROVE  \A g \in Fid : SameFiber(g) /\ SameWait(g)
    <3>1. /\ \A g \in Fid \ {c} : fibers'[g] = fibers[g]
          /\ SameFiber(c) /\ fibers'[c].wait_kind = kind
      BY <1>0, <2>2, ParkDelta
    <3> QED
      BY <1>3, <3>1, WaitKept
  <2>3. CASE Yield
    BY <2>1, <2>3 DEF Yield, tables
  <2>4. CASE AwaitIo
    BY <1>3, <2>2, <2>4 DEF AwaitIo, Park, Parked
  <2>5. CASE \E d \in Durations : Sleep(d)
    BY <1>3, <2>2, <2>5 DEF Sleep, Park, Parked
  <2>6. CASE \E h \in AllHandles : AwaitNext(h)
    BY <1>3, <2>2, <2>6 DEF AwaitNext, Park, Parked
  <2> QED
    BY <2>3, <2>4, <2>5, <2>6
<1>5. \A s \in Sid : SameScope(s) /\ SameKids(s)
  <2>1. CASE scopes' = scopes
    BY <2>1 DEF SameScope, SameKids
  <2>2. ASSUME NEW h \in AllHandles, AwaitNext(h)
        PROVE  \A s \in Sid : SameScope(s) /\ SameKids(s)
    <3>1. h \in Handles /\ scopes[h.id].manual
      BY <2>2 DEF AwaitNext, CanDrain
    <3>2. PICK x \in Sid : x = h.id /\ scopes[x].manual
      BY <1>0, <1>2, <3>1, HandleSid
    <3>3. PICK w : scopes' = [scopes EXCEPT ![x].next_waiters = w]
      BY <2>2, <3>2 DEF AwaitNext
    <3>4. \A s \in Sid \ {x} : scopes'[s] = scopes[s]
      BY <1>0, <3>3
    <3>5. SameScope(x) /\ SameKids(x)
      <4>1. scopes'[x] = [scopes[x] EXCEPT !.next_waiters = w] /\ scopes[x] \in Scope
        BY <1>0, <3>3
      <4> QED
        BY <3>2, <4>1 DEF SameScope, SameKids, Scope
    <3> QED
      BY <3>4, <3>5 DEF SameScope, SameKids
  <2> QED
    BY <2>1, <2>2 DEF Yield, AwaitIo, Sleep, tables
<1>6. \A i \in DOMAIN timers' : timers'[i].kind = "deadline" => timers'[i].arg.id # ROOT_SCOPE
  <2>1. CASE timers' = timers
    BY <1>1, <2>1 DEF NoRoot
  <2>2. ASSUME NEW d \in Durations, Sleep(d)
        PROVE  \A i \in DOMAIN timers' : timers'[i].kind = "deadline" => timers'[i].arg.id # ROOT_SCOPE
    <3>1. PICK e \in Timer : e.kind = "wake" /\ timers' = Append(timers, e)
      <4>1. FiberRef(current) \in FidRef /\ d \in Nat
        BY <1>2, Pumped, SchedulerAssumption DEF Pumping
      <4> QED
        BY <2>2, <4>1 DEF Sleep, Timer
    <3>2. timers \in Seq(Timer)
      BY <1>0 DEF Typed, QueuesOK
    <3>3. \A i \in DOMAIN timers' : \/ i \in DOMAIN timers /\ timers'[i] = timers[i]
                                    \/ timers'[i] = e
      BY <3>1, <3>2, Appended
    <3> QED
      BY <1>1, <3>1, <3>3 DEF NoRoot
  <2> QED
    BY <2>1, <2>2 DEF Yield, AwaitIo, AwaitNext, queues
<1>7. \A i \in DOMAIN pending' : pending'[i].id # ROOT_SCOPE
  BY <1>1, <1>2 DEF NoRoot
<1> QED
  BY <1>2, <1>4, <1>5, <1>6, <1>7, StillKept

\* A fiber waits for a child's outcome.
LEMMA TreeAwaitHandle ==
  ASSUME ScopeInv, NEW h \in AllHandles, NEW k \in Range(scopes[h.id].children), AwaitHandle(h, k)
  PROVE  TreeInv'
<1>0. Typed
  BY InvParts
<1>1. NoRoot
  BY RootSpared
<1>2. /\ UNCHANGED <<nfibers, scopes, nscopes, free_fibers, free_scopes, starting, work, pending,
                     timers>>
      /\ current' = NoFiber /\ starting = None /\ Pumping /\ h \in Handles
  BY DEF AwaitHandle, CanSuspend, queues
<1>3. PICK c \in Fid : c = current /\ fibers[c].wait_kind = "none"
  BY <1>2, Pumped DEF Pumping
<1>4. k.id \in Fid
  <2>1. h.id \in Sid
    BY <1>0, <1>2, HandleSid
  <2>2. scopes[h.id].children \in Seq(FidRef)
    BY <1>0, <2>1, ScopeFields DEF Typed, TablesOK
  <2>3. k \in FidRef
    BY <2>2, RangeType
  <2> QED
    BY <2>3 DEF FidRef
<1>5. PICK e : AwaitDelta(c, k.id, e)
  <2>1. PICK e : e = FiberRef(c)
    OBVIOUS
  <2>2. fibers' = Awaiter(c, k, e)
    BY <1>3, <2>1 DEF AwaitHandle, Awaiter
  <2>3. AwaitDelta(c, k.id, e)
    BY <1>0, <1>4, <2>2, AwaitHandleDelta
  <2> QED
    BY <2>3
<1>6. \A g \in Fid : SameFiber(g) /\ SameWait(g)
  BY <1>3, <1>5 DEF AwaitDelta, SameWait
<1>7. \A s \in Sid : SameScope(s) /\ SameKids(s)
  BY <1>2 DEF SameScope, SameKids
<1>8. /\ \A i \in DOMAIN pending' : pending'[i].id # ROOT_SCOPE
      /\ \A i \in DOMAIN timers' : timers'[i].kind = "deadline" => timers'[i].arg.id # ROOT_SCOPE
  BY <1>1, <1>2 DEF NoRoot
<1> QED
  BY <1>2, <1>6, <1>7, <1>8, StillKept

\* sched_cancel, sched_cancel_after and a drain that finds an outcome.
LEMMA TreeQueues ==
  ASSUME ScopeInv,
         \/ \E h \in AllHandles : Cancel(h) \/ TakeSettled(h)
         \/ \E h \in AllHandles, d \in Durations : CancelAfter(h, d)
  PROVE  TreeInv'
<1>0. Typed /\ Awaiting /\ scopes \in [Sid -> Scope]
  BY InvParts
<1>1. NoRoot
  BY RootSpared
<1>2. /\ UNCHANGED <<fibers, nfibers, nscopes, free_fibers, free_scopes, starting, work, current>>
  BY DEF Cancel, TakeSettled, CancelAfter, tables, control
<1>3. \A g \in Fid : SameFiber(g) /\ SameWait(g)
  BY <1>2 DEF SameFiber, SameWait
<1>4. current' # NoFiber => fibers'[current'].wait_kind = "none"
  BY <1>0, <1>2 DEF Awaiting
<1>5. \A s \in Sid : SameScope(s) /\ SameKids(s)
  <2>1. CASE scopes' = scopes
    BY <2>1 DEF SameScope, SameKids
  <2>2. ASSUME NEW h \in AllHandles, TakeSettled(h)
        PROVE  \A s \in Sid : SameScope(s) /\ SameKids(s)
    <3>1. h \in Handles /\ Pumping
      BY <2>2 DEF TakeSettled, CanDrain, CanSuspend
    <3>2. PICK x \in Sid : x = h.id
      BY <1>0, <3>1, HandleSid
    <3>3. PICK w : scopes' = [scopes EXCEPT ![x].completed = w]
      BY <2>2, <3>2 DEF TakeSettled
    <3>4. \A s \in Sid \ {x} : scopes'[s] = scopes[s]
      BY <1>0, <3>3
    <3>5. SameScope(x) /\ SameKids(x)
      <4>1. scopes'[x] = [scopes[x] EXCEPT !.completed = w] /\ scopes[x] \in Scope
        BY <1>0, <3>3
      <4> QED
        BY <4>1 DEF SameScope, SameKids, Scope
    <3> QED
      BY <3>4, <3>5 DEF SameScope, SameKids
  <2> QED
    BY <2>1, <2>2 DEF Cancel, CancelAfter, tables
<1>6. \A i \in DOMAIN timers' : timers'[i].kind = "deadline" => timers'[i].arg.id # ROOT_SCOPE
  <2>1. CASE timers' = timers
    BY <1>1, <2>1 DEF NoRoot
  <2>2. ASSUME NEW h \in AllHandles, NEW d \in Durations, CancelAfter(h, d)
        PROVE  \A i \in DOMAIN timers' : timers'[i].kind = "deadline" => timers'[i].arg.id # ROOT_SCOPE
    <3>1. h \in SidRef /\ h.id # ROOT_SCOPE
      BY <2>2, HandleOpen DEF CancelAfter, Open
    <3>2. PICK e \in Timer : e.arg.id # ROOT_SCOPE /\ timers' = Append(timers, e)
      BY <2>2, <3>1, SchedulerAssumption DEF CancelAfter, Timer
    <3>3. timers \in Seq(Timer)
      BY <1>0 DEF Typed, QueuesOK
    <3>4. \A i \in DOMAIN timers' : \/ i \in DOMAIN timers /\ timers'[i] = timers[i]
                                    \/ timers'[i] = e
      BY <3>2, <3>3, Appended
    <3> QED
      BY <1>1, <3>2, <3>4 DEF NoRoot
  <2> QED
    BY <2>1, <2>2 DEF Cancel, TakeSettled, queues
<1>7. \A i \in DOMAIN pending' : pending'[i].id # ROOT_SCOPE
  <2>1. CASE pending' = pending
    BY <1>1, <2>1 DEF NoRoot
  <2>2. ASSUME NEW h \in AllHandles, Cancel(h)
        PROVE  \A i \in DOMAIN pending' : pending'[i].id # ROOT_SCOPE
    <3>1. h \in SidRef /\ h.id # ROOT_SCOPE
      BY <2>2, HandleOpen DEF Cancel, Open
    <3>2. pending \in Seq(SidRef) /\ pending' = Append(pending, h)
      BY <1>0, <2>2 DEF Typed, QueuesOK, Cancel
    <3>3. \A i \in DOMAIN pending' : \/ i \in DOMAIN pending /\ pending'[i] = pending[i]
                                     \/ pending'[i] = h
      BY <3>1, <3>2, Appended
    <3> QED
      BY <1>1, <3>1, <3>3 DEF NoRoot
  <2> QED
    BY <2>1, <2>2 DEF CancelAfter, TakeSettled, queues
<1> QED
  BY <1>2, <1>3, <1>4, <1>5, <1>6, <1>7, StillKept

\* The steps of the loop that resume a fiber parked on something other than a scope.
LEMMA TreeWakes ==
  ASSUME ScopeInv,
         \/ RootSettled \/ Quiesce \/ Dequeue
         \/ \E f \in Fid : IoWake(f)
         \/ \E i \in DOMAIN timers : FireTimer(i)
  PROVE  TreeInv'
<1>0. Typed /\ Awaiting /\ WakeInv /\ CallsAlone
  BY InvParts
<1>1. NoRoot
  BY RootSpared
<1>2. /\ UNCHANGED <<nfibers, scopes, nscopes, free_fibers, free_scopes, starting, work>>
      /\ current = NoFiber
  <2>1. ASSUME NEW i \in DOMAIN timers, FireTimer(i)
        PROVE  /\ UNCHANGED <<nfibers, scopes, nscopes, free_fibers, free_scopes, starting, work>>
               /\ current = NoFiber
    BY <1>0, <2>1 DEF FireTimer, control, Calling, CallsAlone
  <2> QED
    BY <2>1 DEF RootSettled, Quiesce, Dequeue, IoWake, Turn, Looping, tables, queues, control
<1>3. starting = None
  BY <1>2, NotStarting
<1>4. \A s \in Sid : SameScope(s) /\ SameKids(s)
  BY <1>2 DEF SameScope, SameKids
<1>5. /\ \A g \in Fid : SameFiber(g) /\ SameWait(g)
      /\ current' # NoFiber => fibers'[current'].wait_kind = "none"
  <2>1. CASE fibers' = fibers /\ current' = current
    BY <1>2, <2>1 DEF SameFiber, SameWait
  <2>2. ASSUME NEW c \in Fid, fibers[c].wait_kind # "scope",
               fibers' = [fibers EXCEPT ![c].wait_kind = "none"], current' \in {c, NoFiber}
        PROVE  /\ \A g \in Fid : SameFiber(g) /\ SameWait(g)
               /\ current' # NoFiber => fibers'[current'].wait_kind = "none"
    <3>1. /\ \A g \in Fid \ {c} : fibers'[g] = fibers[g]
          /\ SameFiber(c) /\ fibers'[c].wait_kind = "none"
      BY <1>0, <2>2, ResumeDelta
    <3> QED
      BY <2>2, <3>1, WaitKept
  <2>3. CASE Dequeue
    <3>1. ready # <<>> /\ ready \in Seq(Entry)
      BY <1>0, <2>3 DEF Dequeue, Typed, QueuesOK
    <3>2. Head(ready) = ready[1] /\ 1 \in DOMAIN ready
      BY <3>1, Dropped
    <3>3. PICK f \in Fid : f = ready[1].fid.id
      BY <1>0, <3>2, NamesTyped
    <3>4. CASE fibers[f].alive
      <4>1. fibers[f].wait_kind # "scope"
        BY <1>0, <3>2, <3>3, <3>4 DEF WakeInv, ReadyOnce
      <4>2. fibers' = [fibers EXCEPT ![f].wait_kind = "none"] /\ current' = f
        BY <2>3, <3>2, <3>3, <3>4 DEF Dequeue
      <4> QED
        BY <2>2, <4>1, <4>2
    <3>5. CASE ~fibers[f].alive
      BY <2>1, <2>3, <3>2, <3>3, <3>5 DEF Dequeue
    <3> QED
      BY <3>4, <3>5
  <2>4. ASSUME NEW f \in Fid, IoWake(f)
        PROVE  /\ \A g \in Fid : SameFiber(g) /\ SameWait(g)
               /\ current' # NoFiber => fibers'[current'].wait_kind = "none"
    BY <1>2, <2>2, <2>4 DEF IoWake, IoWaiters, control
  <2>5. ASSUME NEW i \in DOMAIN timers, FireTimer(i)
        PROVE  /\ \A g \in Fid : SameFiber(g) /\ SameWait(g)
               /\ current' # NoFiber => fibers'[current'].wait_kind = "none"
    <3>1. CASE Wakes(timers[i])
      <4>1. PICK f \in Fid : f = timers[i].arg.id
        BY <1>0, <3>1, NamesTyped DEF Wakes
      <4>2. fibers[f].wait_kind # "scope"
        BY <1>0, <3>1, <4>1 DEF WakeInv, TimerOnce, Wakes
      <4>3. fibers' = [fibers EXCEPT ![f].wait_kind = "none"] /\ current' = NoFiber
        BY <1>2, <2>5, <3>1, <4>1 DEF FireTimer, control
      <4> QED
        BY <2>2, <4>2, <4>3
    <3>2. CASE ~Wakes(timers[i])
      BY <2>1, <2>5, <3>2 DEF FireTimer, control
    <3> QED
      BY <3>1, <3>2
  <2>6. CASE RootSettled \/ Quiesce
    BY <2>1, <2>6 DEF RootSettled, Quiesce, tables
  <2> QED
    BY <2>3, <2>4, <2>5, <2>6
<1>6. /\ \A i \in DOMAIN pending' : pending'[i].id # ROOT_SCOPE
      /\ \A i \in DOMAIN timers' : timers'[i].kind = "deadline" => timers'[i].arg.id # ROOT_SCOPE
  <2>1. CASE UNCHANGED <<pending, timers>>
    BY <1>1, <2>1 DEF NoRoot
  <2>2. ASSUME NEW i \in DOMAIN timers, FireTimer(i)
        PROVE  /\ \A j \in DOMAIN pending' : pending'[j].id # ROOT_SCOPE
               /\ \A j \in DOMAIN timers' : timers'[j].kind = "deadline" =>
                    timers'[j].arg.id # ROOT_SCOPE
    <3>1. timers' = RemoveAt(timers, i) /\ timers \in Seq(Timer)
      BY <1>0, <2>2 DEF FireTimer, Typed, QueuesOK
    <3>2. \A j \in DOMAIN timers' : \E k \in DOMAIN timers : timers'[j] = timers[k]
      <4> SUFFICES ASSUME NEW j \in DOMAIN timers'
                   PROVE  \E k \in DOMAIN timers : timers'[j] = timers[k]
        OBVIOUS
      <4>1. /\ j \in Nat /\ i \in Nat
            /\ j < i => j \in DOMAIN timers /\ timers'[j] = timers[j]
            /\ j >= i => j + 1 \in DOMAIN timers /\ timers'[j] = timers[j + 1]
        BY <3>1, Removed
      <4> QED
        BY <4>1
    <3>3. \A j \in DOMAIN timers' : timers'[j].kind = "deadline" => timers'[j].arg.id # ROOT_SCOPE
      BY <1>1, <3>2 DEF NoRoot
    <3>4. CASE Cancels(timers[i])
      <4>1. timers[i] \in Timer /\ timers[i].kind = "deadline"
        BY <3>1, <3>4, LenProperties, ElementOfSeq DEF Cancels
      <4>2. PICK h \in SidRef : h = timers[i].arg /\ h.id # ROOT_SCOPE
        BY <1>1, <4>1 DEF Timer, NoRoot
      <4>3. pending' = Append(pending, h) /\ pending \in Seq(SidRef)
        BY <1>0, <2>2, <3>4, <4>2 DEF FireTimer, Typed, QueuesOK
      <4>4. \A j \in DOMAIN pending' : \/ j \in DOMAIN pending /\ pending'[j] = pending[j]
                                       \/ pending'[j] = h
        BY <4>3, Appended
      <4> QED
        BY <1>1, <3>3, <4>2, <4>4 DEF NoRoot
    <3>5. CASE ~Cancels(timers[i])
      BY <1>1, <2>2, <3>3, <3>5 DEF FireTimer, NoRoot
    <3> QED
      BY <3>4, <3>5
  <2> QED
    BY <2>1, <2>2 DEF RootSettled, Quiesce, Dequeue, IoWake, queues
<1> QED
  BY <1>2, <1>3, <1>4, <1>5, <1>6, StillKept

-----------------------------------------------------------------------------
(* The stack of calls, when the call on top is replaced by those it makes. *)

\* A call further down stays on the stack.
LEMMA StaysInWork ==
  ASSUME work \in Seq(Call), work # <<>>, NEW calls \in Seq(Call), Then(calls),
         NEW c, InWork(c), c # work[1]
  PROVE  InWork(c)'
<1>1. PICK j \in DOMAIN work : work[j] = c
  BY DEF InWork
<1>2. /\ Len(work) \in Nat /\ DOMAIN work = 1..Len(work) /\ j # 1
      /\ \A i \in 2..Len(work) : /\ Len(calls) + i - 1 \in DOMAIN work'
                                 /\ work'[Len(calls) + i - 1] = work[i]
  BY <1>1, ThenWork
<1>3. j \in 2..Len(work)
  BY <1>2
<1> QED
  BY <1>1, <1>2, <1>3 DEF InWork

\* The scopes of the calls stay ordered from the inside out.
LEMMA OrderThen ==
  ASSUME ScopeInv, work # <<>>, NEW calls \in Seq(Call), Then(calls),
         \A s \in Sid : /\ Open(s)' => Open(s)
                        /\ scopes'[s].gen = scopes[s].gen
                        /\ scopes'[s].enclosing = scopes[s].enclosing,
         \A i \in 1..Len(calls), j \in 2..Len(work) : Open(work[j].of) =>
           ScopeRef(calls[i].of) \notin scopes[work[j].of].enclosing,
         \A i, j \in 1..Len(calls) : i < j /\ Open(calls[j].of) =>
           ScopeRef(calls[i].of) \notin scopes[calls[j].of].enclosing
  PROVE  Order'
<1>0. Typed /\ Order /\ work \in Seq(Call)
  BY InvParts DEF Typed, ControlOK
<1>1. PICK n \in Nat, m \in Nat \ {0} : n = Len(calls) /\ m = Len(work) /\ DOMAIN work = 1..m
  BY <1>0, ThenWork
<1>2. /\ DOMAIN work' = 1..(n + m - 1)
      /\ \A i \in 1..n : work'[i] = calls[i]
      /\ \A k \in DOMAIN work' : k > n => k - n + 1 \in 2..m /\ work'[k] = work[k - n + 1]
  BY <1>0, <1>1, ThenWork
<1>3. /\ \A i \in 1..n : calls[i].of \in Sid
      /\ \A j \in 1..m : work[j].of \in Sid
  <2>1. \A i \in 1..n : calls[i] \in Call
    BY <1>1, LenProperties, ElementOfSeq
  <2>2. \A j \in 1..m : work[j] \in Call
    BY <1>0, <1>1, LenProperties, ElementOfSeq
  <2> QED
    BY <2>1, <2>2 DEF Call
<1>4. \A s \in Sid : ScopeRef(s)' = ScopeRef(s)
  BY DEF ScopeRef
<1> SUFFICES ASSUME NEW i \in DOMAIN work', NEW j \in DOMAIN work', i < j,
                    NEW u, u = work'[i].of, NEW v, v = work'[j].of, Open(v)'
             PROVE  (ScopeRef(u) \notin scopes[v].enclosing)'
  BY DEF Order, Open, ScopeRef
<1>5. i \in Nat /\ j \in Nat /\ i >= 1 /\ j >= 1
  BY <1>2
<1>6. CASE i <= n /\ j <= n
  <2>1. i \in 1..n /\ j \in 1..n
    BY <1>5, <1>6
  <2>2. u = calls[i].of /\ v = calls[j].of /\ u \in Sid /\ v \in Sid
    BY <1>2, <1>3, <2>1
  <2>3. ScopeRef(u) \notin scopes[v].enclosing
    BY <1>1, <2>1, <2>2
  <2> QED
    BY <1>4, <2>2, <2>3
<1>7. CASE i <= n /\ j > n
  <2>1. i \in 1..n /\ j - n + 1 \in 2..m /\ j - n + 1 \in 1..m
    BY <1>2, <1>5, <1>7
  <2>2. u = calls[i].of /\ v = work[j - n + 1].of /\ u \in Sid /\ v \in Sid
    BY <1>2, <1>3, <1>7, <2>1
  <2>3. ScopeRef(u) \notin scopes[v].enclosing
    BY <1>1, <2>1, <2>2
  <2> QED
    BY <1>4, <2>2, <2>3
<1>8. CASE i > n
  <2>1. /\ j > n /\ i - n + 1 \in 1..m /\ j - n + 1 \in 1..m /\ i - n + 1 < j - n + 1
    BY <1>2, <1>5, <1>8
  <2>2. u = work[i - n + 1].of /\ v = work[j - n + 1].of /\ u \in Sid /\ v \in Sid
    BY <1>2, <1>3, <1>8, <2>1
  <2>3. ScopeRef(u) \notin scopes[v].enclosing
    BY <1>0, <1>1, <2>1, <2>2 DEF Order
  <2> QED
    BY <1>4, <2>2, <2>3
<1> QED
  BY <1>5, <1>6, <1>7, <1>8

\* No row is handed out and no scope opened by the calls; scopes and fibers only end.
Shrinks ==
  /\ \A s \in Sid : /\ Open(s)' => Open(s)
                    /\ scopes'[s].gen = scopes[s].gen
                    /\ scopes'[s].enclosing = scopes[s].enclosing
                    /\ Open(s)' => scopes'[s].body = scopes[s].body
                    /\ Open(s)' /\ scopes[s].cancelled => scopes'[s].cancelled
                    /\ Open(s)' /\ scopes[s].bd_kind # "none" => scopes'[s].bd_kind # "none"
  /\ \A f \in Fid : fibers'[f].alive => /\ fibers[f].alive /\ fibers'[f].scope = fibers[f].scope
                                        /\ fibers'[f].runs_scope = fibers[f].runs_scope

\* The calls further down stay right.
LEMMA CallsThen ==
  ASSUME ScopeInv, work # <<>>, NEW calls \in Seq(Call), Then(calls), Shrinks,
         work[1].fn = "reap_fiber" => ~fibers'[work[1].id].alive,
         \A k \in 1..Len(calls) : CallOK(k)'
  PROVE  \A k \in DOMAIN work' : CallOK(k)'
<1>0. Typed /\ Calls /\ work \in Seq(Call) /\ scopes \in [Sid -> Scope]
  BY InvParts DEF Typed, ControlOK
<1>1. PICK n \in Nat, m \in Nat \ {0} : n = Len(calls) /\ m = Len(work) /\ DOMAIN work = 1..m
  BY <1>0, ThenWork
<1>2. /\ DOMAIN work' = 1..(n + m - 1)
      /\ \A k \in DOMAIN work' : k > n => k - n + 1 \in 2..m /\ work'[k] = work[k - n + 1]
  BY <1>0, <1>1, ThenWork
<1> SUFFICES ASSUME NEW k \in DOMAIN work', k > n
             PROVE  CallOK(k)'
  <2>1. \A k \in DOMAIN work' : k > n \/ k \in 1..n
    BY <1>1, <1>2
  <2> QED
    BY <1>1, <2>1
<1>3. PICK j \in 2..m : j = k - n + 1 /\ work'[k] = work[j]
  BY <1>2
<1>4. j \in DOMAIN work /\ j \in Nat /\ k \in Nat
  BY <1>1, <1>2, <1>3
<1>5. PICK fn, id, of : fn = work[j].fn /\ id = work[j].id /\ of = work[j].of
  OBVIOUS
<1>6. of \in Sid /\ (fn \in {"reap_child", "reap_fiber"} => id \in Fid)
  BY <1>0, <1>4, <1>5, CallTyped
<1>7. CallOK(j)
  BY <1>0, <1>4 DEF Calls
<1>8. work'[k].fn = fn /\ work'[k].id = id /\ work'[k].of = of
  BY <1>3, <1>5
<1>9. /\ Open(of)' => Open(of) /\ scopes'[of].body = scopes[of].body
      /\ Open(of)' /\ scopes[of].cancelled => scopes'[of].cancelled
      /\ Open(of)' /\ scopes[of].bd_kind # "none" => scopes'[of].bd_kind # "none"
  BY <1>6 DEF Shrinks
<1>10. fn = "reap_fiber" => id # Root /\ (fibers'[id].alive => fibers'[id].scope = of)
  BY <1>5, <1>6, <1>7 DEF CallOK, Shrinks
<1>11. fn \in {"reap_children", "reap_child", "reap_fiber"} /\ Open(of)' =>
         scopes'[of].cancelled \/ scopes'[of].bd_kind # "none"
  BY <1>5, <1>7, <1>9 DEF CallOK
<1>12. ASSUME fn = "mark_cancelled", Open(of)', NEW b, b = scopes'[of].body, fibers'[b].alive
       PROVE  k > 1 /\ work'[k - 1] = Do("reap_fiber", b, of)
  <2>1. b = scopes[of].body /\ Open(of) /\ b \in Fid
    BY <1>0, <1>6, <1>9, <1>12, ScopeFields
  <2>2. fibers[b].alive
    BY <1>12, <2>1 DEF Shrinks
  <2>3. j > 1 /\ work[j - 1] = Do("reap_fiber", b, of)
    BY <1>5, <1>7, <1>12, <2>1, <2>2 DEF CallOK
  <2>4. j # 2
    <3> SUFFICES ASSUME j = 2
                 PROVE  FALSE
      OBVIOUS
    <3>1. work[1] = Do("reap_fiber", b, of)
      BY <2>3
    <3>2. work[1].fn = "reap_fiber" /\ work[1].id = b
      BY <3>1 DEF Do
    <3> QED
      BY <1>12, <3>2
  <2>5. k - 1 \in DOMAIN work' /\ k - 1 > n /\ k > 1
    BY <1>1, <1>2, <1>3, <1>4, <2>4
  <2>6. work'[k - 1] = work[k - 1 - n + 1]
    BY <1>2, <2>5
  <2>7. k - 1 - n + 1 = j - 1
    BY <1>1, <1>3, <1>4
  <2> QED
    BY <2>3, <2>5, <2>6, <2>7
<1>13. fn = "mark_cancelled" /\ Open(of)' => scopes'[of].cancelled
  BY <1>5, <1>7, <1>9 DEF CallOK
<1>14. /\ fn # "fire_timers" => of # ROOT_SCOPE
       /\ fn \in {"cancel_scope", "mark_cancelled", "reap_children", "try_finalize"} => id = of
  BY <1>5, <1>7 DEF CallOK
<1> QED
  BY <1>4, <1>8, <1>10, <1>11, <1>12, <1>13, <1>14 DEF CallOK, Open

\* A scope being cancelled still has the calls on the stack that finish it.
LEMMA CancellingThen ==
  ASSUME ScopeInv, work # <<>>, NEW calls \in Seq(Call), Then(calls), Shrinks,
         NEW s \in Sid, Open(s)', Ending(s), ~Finishes(s, 1),
         \A f \in Fid : Reaps(work[1], f, s) /\ LiveIn(f, s)' =>
           \E i \in 1..Len(calls) : Reaps(calls[i], f, s)',
         work[1] = Do("mark_cancelled", s, s) => scopes'[s].bd_kind # "none"
  PROVE  \E j \in DOMAIN work' : Finishes(s, j)'
<1>0. Typed /\ Cancelling /\ work \in Seq(Call)
  BY InvParts DEF Typed, ControlOK
<1>1. PICK n \in Nat, m \in Nat \ {0} : n = Len(calls) /\ m = Len(work) /\ DOMAIN work = 1..m
  BY <1>0, ThenWork
<1>2. /\ DOMAIN work' = 1..(n + m - 1)
      /\ \A i \in 1..n : work'[i] = calls[i]
      /\ \A i \in 2..m : n + i - 1 \in DOMAIN work' /\ work'[n + i - 1] = work[i]
  BY <1>0, <1>1, ThenWork
<1>3. PICK j \in DOMAIN work : Finishes(s, j)
  BY <1>0 DEF Cancelling, Shrinks
<1>4. j \in 2..m
  BY <1>1, <1>3
<1>5. PICK l : l = n + j - 1
  OBVIOUS
<1>6. l \in DOMAIN work' /\ work'[l] = Do("try_finalize", s, s)
  BY <1>2, <1>3, <1>4, <1>5 DEF Finishes
<1>7. \A i \in 1..n : i \in 1..(l - 1)
  BY <1>4, <1>5
<1>8. \A i \in 2..(j - 1) : i \in 2..m /\ n + i - 1 \in 1..(l - 1)
  BY <1>4, <1>5
<1>9. \A i \in 1..(j - 1) : i = 1 \/ i \in 2..(j - 1)
  BY <1>4
<1>10. ASSUME NEW f \in Fid, LiveIn(f, s)'
      PROVE  \E i \in 1..(l - 1) : Reaps(work[i], f, s)'
  <2>1. LiveIn(f, s) /\ fibers'[f].runs_scope = fibers[f].runs_scope
    BY <1>10 DEF LiveIn, Shrinks
  <2>2. PICK i \in 1..(j - 1) : Reaps(work[i], f, s)
    BY <1>3, <2>1 DEF Finishes
  <2>3. CASE i = 1
    <3>1. PICK p \in 1..n : Reaps(calls[p], f, s)'
      BY <1>1, <1>10, <2>2, <2>3
    <3>2. Reaps(work[p], f, s)'
      BY <1>2, <3>1 DEF Reaps
    <3> QED
      BY <1>7, <3>2
  <2>4. CASE i \in 2..(j - 1)
    <3>1. Reaps(work[n + i - 1], f, s)'
      BY <1>2, <1>8, <2>1, <2>2, <2>4 DEF Reaps
    <3> QED
      BY <1>8, <2>4, <3>1
  <2> QED
    BY <1>9, <2>3, <2>4
<1>11. ASSUME scopes'[s].bd_kind = "none"
       PROVE  \E i \in 1..(l - 1) : work'[i] = Do("mark_cancelled", s, s)
  <2>1. scopes[s].bd_kind = "none"
    BY <1>11 DEF Shrinks
  <2>2. PICK i \in 1..(j - 1) : work[i] = Do("mark_cancelled", s, s)
    BY <1>3, <2>1 DEF Finishes
  <2>3. i \in 2..(j - 1)
    BY <1>9, <1>11, <2>2
  <2> QED
    BY <1>2, <1>8, <2>2, <2>3
<1>12. /\ work'[l] = Do("try_finalize", s, s)
       /\ \A f \in Fid : LiveIn(f, s)' => \E i \in 1..(l - 1) : Reaps(work[i], f, s)'
       /\ scopes'[s].bd_kind = "none" => \E i \in 1..(l - 1) : work'[i] = Do("mark_cancelled", s, s)
  BY <1>6, <1>10, <1>11
<1>13. Finishes(s, l)'
  BY <1>12 DEF Finishes
<1> QED
  BY <1>6, <1>13

\* A call that leaves the tree as it is; those it makes are about the same scope.
LEMMA StillThen ==
  ASSUME ScopeInv, TreeKept, NoRoot', work # <<>>, NEW calls \in Seq(Call), Then(calls),
         \A k \in 1..Len(calls) : CallOK(k)' /\ calls[k].of = work[1].of,
         \A s \in Sid : scopes[s].cancelled => scopes'[s].cancelled,
         work[1].fn = "cancel_scope" =>
           ~Open(work[1].of) \/ scopes'[work[1].of].cancelled,
         work[1].fn = "mark_cancelled" =>
           ~Open(work[1].of) \/ scopes'[work[1].of].bd_kind # "none",
         work[1].fn = "reap_fiber" => ~fibers[work[1].id].alive,
         \A s \in Sid : Open(s) /\ Ending(s) => ~Finishes(s, 1),
         \A s \in Sid : Open(s) /\ Ending(s)' =>
           Ending(s) \/ \E j \in DOMAIN work' : Finishes(s, j)',
         \A s \in Sid, f \in Fid : Open(s) /\ Reaps(work[1], f, s) /\ LiveIn(f, s) =>
           \E i \in 1..Len(calls) : Reaps(calls[i], f, s)
  PROVE  TreeInv'
<1>0. Typed /\ Cancelling /\ Calls /\ Order /\ Nesting /\ work \in Seq(Call)
  BY InvParts DEF Typed, ControlOK
<1>1. /\ \A s \in Sid : Open(s)' = Open(s) /\ ScopeRef(s)' = ScopeRef(s)
      /\ \A f \in Fid, s \in Sid : LiveIn(f, s)' = LiveIn(f, s)
  BY SameMeaning
<1>2. /\ \A s \in Sid : /\ scopes'[s].body = scopes[s].body
                        /\ scopes'[s].bd_kind = "none" => scopes[s].bd_kind = "none"
                        /\ scopes'[s].enclosing = scopes[s].enclosing
                        /\ scopes'[s].gen = scopes[s].gen
      /\ \A f \in Fid : /\ fibers'[f].alive = fibers[f].alive
                        /\ fibers'[f].scope = fibers[f].scope
                        /\ fibers'[f].runs_scope = fibers[f].runs_scope
  BY DEF TreeKept, SamePlace, SameFiber
<1>3. Shrinks
  BY <1>1, <1>2 DEF Shrinks
<1>4. 1 \in DOMAIN work /\ work[1].of \in Sid /\ (work[1].fn = "reap_fiber" => work[1].id \in Fid)
  <2>1. 1 \in DOMAIN work
    BY <1>0, ThenWork
  <2> QED
    BY <1>0, <2>1, CallTyped
<1>5. Awaited'
  <2> SUFFICES ASSUME NEW s \in Sid, Open(s), ~scopes'[s].cancelled,
                      InWork(Do("cancel_scope", s, s))
               PROVE  InWork(Do("cancel_scope", s, s))'
    BY AwaitedStays
  <2>1. work[1] # Do("cancel_scope", s, s)
    BY DEF Do
  <2> QED
    BY <1>0, <2>1, StaysInWork
<1>6. Bodies'
  <2> SUFFICES ASSUME NEW s \in Sid, Open(s), scopes'[s].bd_kind = "none",
                      InWork(Do("mark_cancelled", s, s))
               PROVE  InWork(Do("mark_cancelled", s, s))'
    BY BodiesStay
  <2>1. work[1] # Do("mark_cancelled", s, s)
    BY DEF Do
  <2> QED
    BY <1>0, <2>1, StaysInWork
<1>7. Nesting'
  BY <1>1, <1>2, NestingStays
<1>8. Cancelling'
  <2> SUFFICES ASSUME NEW s \in Sid, Open(s)', Ending(s)'
               PROVE  \E j \in DOMAIN work' : Finishes(s, j)'
    BY DEF Cancelling
  <2> SUFFICES ASSUME Ending(s)
               PROVE  \E j \in DOMAIN work' : Finishes(s, j)'
    BY <1>1
  <2>1. Open(s) /\ Ending(s) /\ ~Finishes(s, 1)
    BY <1>1
  <2>2. ASSUME NEW f \in Fid, Reaps(work[1], f, s), LiveIn(f, s)'
        PROVE  \E i \in 1..Len(calls) : Reaps(calls[i], f, s)'
    <3>1. PICK i \in 1..Len(calls) : Reaps(calls[i], f, s)
      BY <1>1, <2>1, <2>2
    <3>2. Reaps(calls[i], f, s)'
      BY <1>2, <3>1 DEF Reaps
    <3> QED
      BY <3>2
  <2>3. work[1] = Do("mark_cancelled", s, s) => scopes'[s].bd_kind # "none"
    BY <2>1 DEF Do
  <2> QED
    BY <1>3, <2>1, <2>2, <2>3, CancellingThen
<1>9. \A k \in DOMAIN work' : CallOK(k)'
  BY <1>2, <1>3, <1>4, CallsThen
<1>10. Calls'
  BY <1>9 DEF Calls, NoRoot
<1>11. Order'
  <2>1. \A i \in 1..Len(calls), j \in 2..Len(work) : Open(work[j].of) =>
          ScopeRef(calls[i].of) \notin scopes[work[j].of].enclosing
    <3>1. \A j \in 2..Len(work) : j \in DOMAIN work /\ 1 < j
      BY <1>0, ThenWork
    <3> QED
      BY <1>0, <1>4, <3>1 DEF Order
  <2>2. \A i, j \in 1..Len(calls) : i < j /\ Open(calls[j].of) =>
          ScopeRef(calls[i].of) \notin scopes[calls[j].of].enclosing
    BY <1>0, <1>4 DEF Nesting
  <2>3. \A s \in Sid : Open(s)' => Open(s)
    BY <1>1
  <2> QED
    BY <1>2, <2>1, <2>2, <2>3, OrderThen
<1> QED
  BY <1>5, <1>6, <1>7, <1>8, <1>10, <1>11, FiberRowsStay, AwaitingStays, KidsStay, CountsStay
  DEF TreeInv

\* The call on top, when it is about a fiber.
LEMMA TopFiber ==
  ASSUME ScopeInv, NEW fn \in {"reap_child", "reap_fiber", "run_defers"}, Calling(fn)
  PROVE  /\ Callee \in Fid /\ work[1].of \in Sid /\ work[1].of # ROOT_SCOPE /\ work \in Seq(Call)
         /\ work # <<>> /\ 1 \in DOMAIN work /\ work[1] = Do(fn, Callee, work[1].of)
         /\ current = NoFiber /\ CallOK(1) /\ Head(work).of = work[1].of
<1>0. Typed /\ Calls /\ CallsAlone /\ work \in Seq(Call)
  BY InvParts DEF Typed, ControlOK
<1>1. work # <<>> /\ Head(work).fn = fn
  BY DEF Calling
<1>2. Head(work) = work[1] /\ 1 \in DOMAIN work
  BY <1>0, <1>1, Dropped
<1>3. work[1] \in Call /\ work[1].of \in Sid /\ work[1].id \in Fid
  BY <1>0, <1>1, <1>2, CallTyped
<1>4. Callee = work[1].id
  BY <1>2 DEF Callee
<1>5. work[1] = Do(fn, Callee, work[1].of)
  BY <1>1, <1>2, <1>3, <1>4 DEF Call, Do
<1>6. CallOK(1)
  BY <1>0, <1>2 DEF Calls
<1>7. work[1].of # ROOT_SCOPE
  BY <1>1, <1>2, <1>6 DEF CallOK
<1>8. current = NoFiber
  BY <1>0, <1>1 DEF CallsAlone
<1> QED
  BY <1>0, <1>1, <1>2, <1>3, <1>4, <1>5, <1>6, <1>7, <1>8

\* The tables and the queues as they were.
LEMMA AllKept ==
  ASSUME ScopeInv, UNCHANGED <<fibers, nfibers, nscopes, starting, pending, timers>>,
         \A s \in Sid : SameScope(s) /\ SameKids(s), current = NoFiber, current' = NoFiber,
         free_fibers' \in {free_fibers, <<>>}, free_scopes' \in {free_scopes, <<>>}
  PROVE  /\ TreeKept /\ NoRoot'
         /\ \A s \in Sid : scopes'[s].cancelled = scopes[s].cancelled /\ Ending(s)' = Ending(s)
<1>1. starting = None
  BY NotStarting
<1>2. TreeKept
  BY <1>1 DEF TreeKept, SameFiber, SameWait, SameScope, SamePlace
<1>3. NoRoot /\ ROOT_SCOPE \in Sid
  BY RootSpared
<1>4. NoRoot'
  BY <1>3 DEF NoRoot, SameScope
<1> QED
  BY <1>2, <1>4 DEF SameScope, Ending

\* The loop over a scope's children.
LEMMA TreeReapChildren ==
  ASSUME ScopeInv, ReapChildren
  PROVE  TreeInv'
<1>0. Kids /\ Calls /\ scopes \in [Sid -> Scope]
  BY InvParts
<1>1. Calling("reap_children")
  BY DEF ReapChildren
<1>2. PICK s \in Sid : s = Callee
  BY <1>1, TopScope
<1>3. /\ s # ROOT_SCOPE /\ work # <<>> /\ 1 \in DOMAIN work /\ current = NoFiber
      /\ work[1] = Do("reap_children", s, s)
  BY <1>1, <1>2, TopScope
<1>4. scopes[s].children \in Seq(FidRef)
  BY <1>0, ScopeFields
<1>5. PICK n \in Nat : n = Len(scopes[s].children) /\ DOMAIN scopes[s].children = 1..n
  BY <1>4, LenProperties
<1>6. \A i \in 1..n : scopes[s].children[i].id \in Fid
  <2>1. \A i \in 1..n : scopes[s].children[i] \in FidRef
    BY <1>4, <1>5, ElementOfSeq
  <2> QED
    BY <2>1 DEF FidRef
<1>7. PICK calls : calls = [i \in 1..n |-> Do("reap_child", scopes[s].children[i].id, s)]
  OBVIOUS
<1>8. calls \in Seq(Call) /\ Len(calls) = n
  <2>1. \A i \in 1..n : Do("reap_child", scopes[s].children[i].id, s) \in Call
    BY <1>6 DEF Do, Call
  <2>2. calls \in [1..n -> Call]
    BY <1>7, <2>1
  <2> QED
    BY <2>2, IsASeq, LenProperties
<1>9. Then(calls)
  BY <1>2, <1>5, <1>7 DEF ReapChildren
<1>10. /\ TreeKept /\ NoRoot'
       /\ \A t \in Sid : scopes'[t].cancelled = scopes[t].cancelled /\ Ending(t)' = Ending(t)
  <2>1. /\ UNCHANGED <<fibers, nfibers, scopes, nscopes, free_fibers, free_scopes, starting, pending,
                       timers, current>>
    BY DEF ReapChildren, tables, queues
  <2>2. \A t \in Sid : SameScope(t) /\ SameKids(t)
    BY <2>1 DEF SameScope, SameKids
  <2> QED
    BY <1>3, <2>1, <2>2, AllKept
<1>11. \A k \in 1..n : work'[k] = calls[k] /\ calls[k] = Do("reap_child", scopes[s].children[k].id, s)
  <2>1. work \in Seq(Call)
    BY <1>1, TopScope
  <2> QED
    BY <1>3, <1>7, <1>8, <1>9, <2>1, ThenWork
<1>12. ASSUME NEW k \in 1..n
       PROVE  CallOK(k)' /\ calls[k].of = s
  <2>1. work'[k].fn = "reap_child" /\ work'[k].of = s /\ calls[k].of = s
    <3>1. PICK g : g = scopes[s].children[k].id
      OBVIOUS
    <3>2. work'[k] = Do("reap_child", g, s) /\ calls[k] = Do("reap_child", g, s)
      BY <1>11, <3>1
    <3> QED
      BY <3>2 DEF Do
  <2>2. Open(s) => scopes[s].cancelled \/ scopes[s].bd_kind # "none"
    <3>1. CallOK(1)
      BY <1>0, <1>3 DEF Calls
    <3>2. work[1].fn = "reap_children" /\ work[1].of = s
      BY <1>3 DEF Do
    <3> QED
      BY <3>1, <3>2 DEF CallOK
  <2>3. Open(s)' = Open(s) /\ scopes' = scopes
    BY DEF ReapChildren, tables, Open
  <2> QED
    BY <1>3, <2>1, <2>2, <2>3 DEF CallOK, Open
<1>13. ASSUME NEW t \in Sid, NEW f \in Fid, Open(t), Reaps(work[1], f, t), LiveIn(f, t)
       PROVE  \E i \in 1..n : Reaps(calls[i], f, t)
  <2>1. t = s /\ fibers[f].runs_scope = NO_SCOPE
    BY <1>3, <1>13 DEF Reaps, Do
  <2>2. PICK i \in 1..n : scopes[s].children[i].id = f
    BY <1>0, <1>5, <1>13, <2>1 DEF Kids
  <2>3. calls[i] = Do("reap_child", f, s)
    BY <1>11, <2>2
  <2> QED
    BY <2>1, <2>3 DEF Reaps
<1>14. /\ work[1].fn = "reap_children" /\ work[1].of = s
       /\ \A t \in Sid : ~Finishes(t, 1)
  BY <1>3 DEF Do, Finishes
<1> QED
  BY <1>3, <1>8, <1>9, <1>10, <1>12, <1>13, <1>14, StillThen

\* Sequences of no call and of one.
LEMMA FewCalls ==
  ASSUME NEW c \in Call
  PROVE  /\ <<>> \in Seq(Call) /\ Len(<<>>) = 0
         /\ <<c>> \in Seq(Call) /\ Len(<<c>>) = 1 /\ <<c>>[1] = c
OBVIOUS

\* A call that does nothing more.
LEMMA StillDone ==
  ASSUME ScopeInv, TreeKept, NoRoot', work # <<>>, Then(<<>>),
         \A s \in Sid : scopes'[s].cancelled = scopes[s].cancelled,
         work[1].fn = "cancel_scope" =>
           ~Open(work[1].of) \/ scopes[work[1].of].cancelled,
         work[1].fn = "mark_cancelled" =>
           ~Open(work[1].of) \/ scopes'[work[1].of].bd_kind # "none",
         work[1].fn = "reap_fiber" => ~fibers[work[1].id].alive,
         \A s \in Sid : Open(s) /\ Ending(s) => ~Finishes(s, 1),
         \A s \in Sid : Open(s) /\ Ending(s)' => Ending(s),
         \A s \in Sid, f \in Fid : Open(s) /\ Reaps(work[1], f, s) => ~LiveIn(f, s)
  PROVE  TreeInv'
<1>1. PICK calls : calls = <<>>
  OBVIOUS
<1>2. Then(calls) /\ Len(calls) = 0 /\ calls \in Seq(Call)
  BY <1>1
<1>3. 1..Len(calls) = {}
  BY <1>2
<1>4. work[1].of \in Sid
  BY InvParts, Dropped, CallTyped DEF Typed, ControlOK
<1> QED
  BY <1>2, <1>3, <1>4, StillThen

\* A child is reaped where it is still there.
LEMMA TreeReapChild ==
  ASSUME ScopeInv, ReapChild
  PROVE  TreeInv'
<1>0. FiberRows
  BY InvParts
<1>1. Calling("reap_child")
  BY DEF ReapChild
<1>2. PICK f \in Fid, s \in Sid : f = Callee /\ s = work[1].of
  BY <1>1, TopFiber
<1>3. /\ s # ROOT_SCOPE /\ work \in Seq(Call) /\ work # <<>> /\ current = NoFiber /\ CallOK(1)
      /\ work[1] = Do("reap_child", f, s) /\ Head(work).of = s
  BY <1>1, <1>2, TopFiber
<1>4. work[1].fn = "reap_child" /\ work[1].id = f /\ work[1].of = s
  BY <1>3 DEF Do
<1>5. UNCHANGED <<fibers, nfibers, scopes, nscopes, free_fibers, free_scopes, starting, pending,
                  timers, current>>
  BY DEF ReapChild, tables, queues
<1>6. /\ TreeKept /\ NoRoot'
      /\ \A t \in Sid : scopes'[t].cancelled = scopes[t].cancelled /\ Ending(t)' = Ending(t)
  <2>1. \A t \in Sid : SameScope(t) /\ SameKids(t)
    BY <1>5 DEF SameScope, SameKids
  <2> QED
    BY <1>3, <1>5, <2>1, AllKept
<1>7. \A t \in Sid : ~Finishes(t, 1)
  BY <1>4 DEF Do, Finishes
<1>8. \A t \in Sid, g \in Fid : Reaps(work[1], g, t) => g = f /\ t = s
  BY <1>3 DEF Reaps, Do
<1>9. CASE fibers[f].alive /\ fibers[f].scope = s
  <2>1. PICK c : c = Do("reap_fiber", f, s)
    OBVIOUS
  <2>2. c \in Call /\ c.fn = "reap_fiber" /\ c.id = f /\ c.of = s
    BY <2>1 DEF Do, Call
  <2>3. PICK calls : calls = <<c>>
    OBVIOUS
  <2>4. Len(calls) = 1 /\ calls[1] = c /\ calls \in Seq(Call)
    BY <2>2, <2>3, FewCalls
  <2>5. Then(calls)
    BY <1>2, <1>3, <1>9, <2>1, <2>3 DEF ReapChild
  <2>6. work'[1] = c
    <3>1. \A i \in 1..Len(calls) : work'[i] = calls[i]
      BY <1>3, <2>4, <2>5, ThenWork
    <3> QED
      BY <2>4, <3>1
  <2>7. f # Root
    BY <1>0, <1>3, <1>9 DEF FiberRows
  <2>8. Open(s) => scopes[s].cancelled \/ scopes[s].bd_kind # "none"
    BY <1>3, <1>4 DEF CallOK
  <2>9. CallOK(1)'
    BY <1>3, <1>5, <1>9, <2>2, <2>6, <2>7, <2>8 DEF CallOK, Open
  <2>10. \A k \in 1..Len(calls) : CallOK(k)' /\ calls[k].of = work[1].of
    <3>1. \A k \in 1..Len(calls) : k = 1
      BY <2>4
    <3> QED
      BY <1>4, <2>2, <2>4, <2>9, <3>1
  <2>11. \A t \in Sid, g \in Fid : Open(t) /\ Reaps(work[1], g, t) /\ LiveIn(g, t) =>
           \E i \in 1..Len(calls) : Reaps(calls[i], g, t)
    BY <1>8, <2>1, <2>4 DEF Reaps
  <2> QED
    BY <1>3, <1>4, <1>6, <1>7, <2>4, <2>5, <2>10, <2>11, StillThen
<1>10. CASE ~(fibers[f].alive /\ fibers[f].scope = s)
  <2>1. Then(<<>>)
    BY <1>2, <1>3, <1>10 DEF ReapChild
  <2>2. \A t \in Sid, g \in Fid : Open(t) /\ Reaps(work[1], g, t) => ~LiveIn(g, t)
    BY <1>8, <1>10 DEF LiveIn
  <2> QED
    BY <1>3, <1>4, <1>6, <1>7, <2>1, <2>2, StillDone
<1> QED
  BY <1>9, <1>10

\* The cleanups of a reaped fiber: a cancellation may be queued, and a nested
\* run_task leaves the free lists empty.
LEMMA TreeRunDefers ==
  ASSUME ScopeInv, Disciplined, RunDefers
  PROVE  TreeInv'
<1>0. Typed
  BY InvParts
<1>1. Calling("run_defers") /\ Then(<<>>)
  BY DEF RunDefers
<1>2. PICK f \in Fid, s \in Sid : f = Callee /\ s = work[1].of
  BY <1>1, TopFiber
<1>3. work \in Seq(Call) /\ work # <<>> /\ current = NoFiber /\ work[1] = Do("run_defers", f, s)
  BY <1>1, <1>2, TopFiber
<1>4. work[1].fn = "run_defers"
  BY <1>3 DEF Do
<1>5. \A t \in Sid, g \in Fid : ~Reaps(work[1], g, t) /\ ~Finishes(t, 1)
  BY <1>4 DEF Reaps, Do, Finishes
<1>6. /\ UNCHANGED <<fibers, nfibers, scopes, nscopes, starting, timers, current>>
      /\ free_fibers' \in {free_fibers, <<>>} /\ free_scopes' \in {free_scopes, <<>>}
      /\ \/ pending' = pending
         \/ \E h \in fibers[f].knows : pending' = Append(pending, h)
  <2>1. \A nested \in NestedFree : nested[1] = <<>> /\ nested[2] = <<>>
    BY DEF Disciplined
  <2> QED
    BY <1>2, <2>1 DEF RunDefers, Disciplined, tables, queues
<1>7. \A t \in Sid : SameScope(t) /\ SameKids(t)
  BY <1>6 DEF SameScope, SameKids
<1>8. starting = None
  BY <1>3, NotStarting
<1>9. TreeKept
  BY <1>3, <1>6, <1>7, <1>8 DEF TreeKept, SameFiber, SameWait, SameScope, SamePlace
<1>10. NoRoot /\ ROOT_SCOPE \in Sid
  BY RootSpared
<1>11. \A i \in DOMAIN pending' : pending'[i].id # ROOT_SCOPE
  <2>1. CASE pending' = pending
    BY <1>10, <2>1 DEF NoRoot
  <2>2. ASSUME NEW h \in fibers[f].knows, pending' = Append(pending, h)
        PROVE  \A i \in DOMAIN pending' : pending'[i].id # ROOT_SCOPE
    <3>1. h \in SidRef /\ h.id # ROOT_SCOPE
      BY <1>0, <1>10, FiberFields DEF NoRoot, Typed, TablesOK
    <3>2. pending \in Seq(SidRef)
      BY <1>0 DEF Typed, QueuesOK
    <3>3. \A i \in DOMAIN pending' : \/ i \in DOMAIN pending /\ pending'[i] = pending[i]
                                     \/ pending'[i] = h
      BY <2>2, <3>1, <3>2, Appended
    <3> QED
      BY <1>10, <3>1, <3>3 DEF NoRoot
  <2> QED
    BY <1>6, <2>1, <2>2
<1>12. NoRoot'
  BY <1>6, <1>10, <1>11 DEF NoRoot
<1>13. \A t \in Sid : Ending(t)' = Ending(t)
  BY <1>6 DEF Ending
<1> QED
  BY <1>1, <1>3, <1>4, <1>5, <1>6, <1>9, <1>12, <1>13, StillDone

\* The calls that find their work done.
LEMMA TreeNoop ==
  ASSUME ScopeInv,
         \/ CancelScope /\ (scopes[Callee].cancelled \/ scopes[Callee].finalized)
         \/ MarkCancelled /\ scopes[Callee].bd_kind # "none"
         \/ ReapFiber /\ ~fibers[Callee].alive
         \/ TryFinalize /\ ~CanFinalize(Callee)
         \/ TimersFired
  PROVE  TreeInv'
<1>0. Typed /\ LiveCount /\ CallsAlone /\ Calls /\ work \in Seq(Call) /\ scopes \in [Sid -> Scope]
  BY InvParts DEF Typed, ControlOK
<1>1. Then(<<>>) /\ work # <<>>
  BY DEF CancelScope, MarkCancelled, ReapFiber, TryFinalize, TimersFired, Calling
<1>2. current = NoFiber
  BY <1>0, <1>1 DEF CallsAlone
<1>3. Head(work) = work[1] /\ 1 \in DOMAIN work /\ Callee = work[1].id
  BY <1>0, <1>1, Dropped DEF Callee
<1>4. /\ UNCHANGED <<fibers, nfibers, nscopes, free_fibers, free_scopes, starting, pending, timers,
                     current>>
  BY DEF CancelScope, MarkCancelled, ReapFiber, TryFinalize, TimersFired, tables, queues
<1>5. CallOK(1) /\ work[1].of \in Sid
  BY <1>0, <1>3, CallTyped DEF Calls
<1>6. \A t \in Sid : SameScope(t) /\ SameKids(t)
  <2>1. CASE scopes' = scopes
    BY <2>1 DEF SameScope, SameKids
  <2>2. ASSUME MarkCancelled, scopes[Callee].bd_kind # "none"
        PROVE  \A t \in Sid : SameScope(t) /\ SameKids(t)
    <3>1. PICK s \in Sid : s = Callee
      BY <2>2, TopScope DEF MarkCancelled
    <3>2. PICK k : k = EndedBody(scopes[s].bd_kind)
      OBVIOUS
    <3>3. k = scopes[s].bd_kind
      BY <2>2, <3>1, <3>2 DEF EndedBody
    <3>4. scopes' = [scopes EXCEPT ![s].bd_kind = k]
      BY <2>2, <3>1, <3>2 DEF MarkCancelled
    <3>5. BodyMarked(s, k)
      BY <1>0, <3>4, BodyMarkedDelta
    <3> QED
      BY <3>3, <3>5 DEF BodyMarked, SameRest, SameScope, SameKids
  <2> QED
    BY <2>1, <2>2 DEF CancelScope, ReapFiber, TryFinalize, TimersFired, tables
<1>7. /\ TreeKept /\ NoRoot'
      /\ \A t \in Sid : scopes'[t].cancelled = scopes[t].cancelled /\ Ending(t)' = Ending(t)
  BY <1>2, <1>4, <1>6, AllKept
<1>8. /\ work[1].fn = "cancel_scope" => ~Open(work[1].of) \/ scopes[work[1].of].cancelled
      /\ work[1].fn = "mark_cancelled" => scopes'[work[1].of].bd_kind # "none"
      /\ work[1].fn = "reap_fiber" => ~fibers[work[1].id].alive
      /\ work[1].fn = "try_finalize" => ~CanFinalize(work[1].of) /\ work[1].id = work[1].of
      /\ work[1].fn \notin {"reap_child", "reap_children", "run_defers"}
  BY <1>3, <1>5, <1>6
  DEF SameScope, CancelScope, MarkCancelled, ReapFiber, TryFinalize, TimersFired, Calling, CallOK, Open
<1>9. ASSUME NEW s \in Sid, Open(s), Ending(s)
      PROVE  ~Finishes(s, 1)
  <2> SUFFICES ASSUME Finishes(s, 1)
               PROVE  FALSE
    OBVIOUS
  <2>1. work[1] = Do("try_finalize", s, s)
    BY DEF Finishes
  <2>2. ~CanFinalize(s)
    BY <1>8, <2>1 DEF Do
  <2>3. 1..(1 - 1) = {}
    OBVIOUS
  <2>4. (\A f \in Fid : ~LiveIn(f, s)) /\ scopes[s].bd_kind # "none"
    BY <2>3 DEF Finishes
  <2>5. {f \in Fid : fibers[f].alive /\ IsChild(f, s)} = {}
    BY <2>4 DEF LiveIn, IsChild
  <2>6. scopes[s].live = 0
    <3>1. s \in Sid \ {ROOT_SCOPE}
      BY <1>9 DEF Open
    <3>2. scopes[s].live = Cardinality({f \in Fid : fibers[f].alive /\ IsChild(f, s)})
      BY <1>0, <3>1 DEF LiveCount
    <3> QED
      BY <2>5, <3>2, FS_EmptySet
  <2> QED
    BY <1>9, <2>2, <2>4, <2>6 DEF CanFinalize, Open
<1>10. ASSUME NEW s \in Sid, NEW f \in Fid, Reaps(work[1], f, s)
       PROVE  ~LiveIn(f, s)
  BY <1>8, <1>10 DEF Reaps, LiveIn, Do
<1> QED
  BY <1>1, <1>7, <1>8, <1>9, <1>10, StillDone

-----------------------------------------------------------------------------
(* The calls the loop makes, with nothing on the stack. *)

\* A queued cancellation is taken, or the timers are looked at.
LEMMA TreeLoopCalls ==
  ASSUME ScopeInv, DrainPending \/ RunTimers
  PROVE  TreeInv'
<1>0. Typed /\ Nesting /\ Calls /\ Cancelling
  BY InvParts
<1>1. /\ UNCHANGED <<fibers, nfibers, scopes, nscopes, free_fibers, free_scopes, starting, current>>
      /\ work = <<>> /\ current = NoFiber
  BY DEF DrainPending, RunTimers, Turn, Looping, tables
<1>2. NoRoot
  BY RootSpared
<1>3. PICK c : /\ work' = <<c>> /\ c.fn \in {"cancel_scope", "fire_timers"} /\ c.id = c.of
               /\ c.of \in Sid /\ (c.fn = "cancel_scope" => c.of # ROOT_SCOPE)
  <2>1. CASE DrainPending
    <3>1. pending # <<>> /\ pending \in Seq(SidRef)
      BY <1>0, <2>1 DEF DrainPending, Typed, QueuesOK
    <3>2. Len(pending) \in DOMAIN pending /\ Last(pending) = pending[Len(pending)]
      BY <3>1, LenProperties, EmptySeq DEF Last
    <3>3. pending[Len(pending)] \in SidRef
      BY <3>1, <3>2, LenProperties, ElementOfSeq
    <3>4. PICK t \in Sid : t = Last(pending).id /\ t # ROOT_SCOPE
      BY <1>2, <3>2, <3>3 DEF SidRef, NoRoot
    <3>5. work' = <<Do("cancel_scope", t, t)>>
      BY <2>1, <3>4 DEF DrainPending
    <3> QED
      BY <3>4, <3>5 DEF Do
  <2>2. CASE RunTimers
    <3>1. work' = <<Do("fire_timers", ROOT_SCOPE, ROOT_SCOPE)>> /\ ROOT_SCOPE \in Sid
      BY <2>2, RootSpared DEF RunTimers
    <3> QED
      BY <3>1 DEF Do
  <2> QED
    BY <2>1, <2>2
<1>4. DOMAIN work' = {1} /\ work'[1] = c
  BY <1>3
<1>5. NoRoot'
  <2>1. \A i \in DOMAIN pending' : pending'[i].id # ROOT_SCOPE
    <3>1. CASE pending' = pending
      BY <1>2, <3>1 DEF NoRoot
    <3>2. CASE DrainPending
      <4>1. pending # <<>> /\ pending \in Seq(SidRef) /\ pending' = Front(pending)
        BY <1>0, <3>2 DEF DrainPending, Typed, QueuesOK
      <4>2. \A i \in DOMAIN pending' : i \in DOMAIN pending /\ pending'[i] = pending[i]
        <5>1. PICK n \in Nat : n = Len(pending) /\ DOMAIN pending = 1..n
          BY <4>1, LenProperties
        <5>2. pending' = SubSeq(pending, 1, n - 1)
          BY <4>1, <5>1 DEF Front
        <5>3. n >= 1
          BY <4>1, <5>1, EmptySeq
        <5>4. DOMAIN pending' = 1..(n - 1) /\ \A i \in 1..(n - 1) : pending'[i] = pending[i]
          BY <4>1, <5>1, <5>2, <5>3
        <5> QED
          BY <5>1, <5>4
      <4> QED
        BY <1>2, <4>2 DEF NoRoot
    <3> QED
      BY <3>1, <3>2 DEF RunTimers
  <2>2. \A i \in DOMAIN timers' : timers'[i].kind = "deadline" => timers'[i].arg.id # ROOT_SCOPE
    <3>1. CASE timers' = timers
      BY <1>2, <3>1 DEF NoRoot
    <3>2. ASSUME NEW i \in DOMAIN timers,
                 timers' = [j \in DOMAIN timers |-> [timers[j] EXCEPT !.at = @ - timers[i].at]]
          PROVE  \A j \in DOMAIN timers' : timers'[j].kind = "deadline" =>
                   timers'[j].arg.id # ROOT_SCOPE
      <4>1. \A j \in DOMAIN timers : timers[j] \in Timer
        BY <1>0, LenProperties, ElementOfSeq DEF Typed, QueuesOK
      <4>2. ASSUME NEW j \in DOMAIN timers', NEW q \in Timer, q = timers[j]
            PROVE  timers'[j].kind = q.kind /\ timers'[j].arg = q.arg
        <5>1. PICK d : d = timers[i].at
          OBVIOUS
        <5>2. timers'[j] = [q EXCEPT !.at = @ - d]
          BY <3>2, <4>2, <5>1
        <5> QED
          BY <5>2 DEF Timer
      <4>3. DOMAIN timers' = DOMAIN timers
        BY <3>2
      <4> QED
        BY <1>2, <4>1, <4>2, <4>3 DEF NoRoot
    <3> QED
      BY <3>1, <3>2 DEF RunTimers, DrainPending
  <2> QED
    BY <1>1, <1>2, <2>1, <2>2 DEF NoRoot
<1>6. TreeKept
  <2>1. starting = None
    BY <1>1, NotStarting
  <2> QED
    BY <1>1, <2>1 DEF TreeKept, SameFiber, SameWait, SamePlace, SameKids
<1>7. \A x : ~InWork(x)
  BY <1>1 DEF InWork
<1>8. Awaited' /\ Bodies'
  BY <1>1, <1>6, <1>7, AwaitedStays, BodiesStay
<1>9. \A s \in Sid : Open(s)' = Open(s) /\ scopes' = scopes
  BY <1>1 DEF Open
<1>10. Nesting'
  BY <1>9, NestingStays
<1>11. Cancelling'
  <2>1. \A s \in Sid : Open(s) => ~Ending(s)
    BY <1>1, IdleTree
  <2>2. \A s \in Sid : Ending(s)' = Ending(s)
    BY <1>9 DEF Ending
  <2> QED
    BY <1>9, <2>1, <2>2 DEF Cancelling
<1>12. Calls'
  <2>1. CallOK(1)'
    <3>1. work'[1].fn \in {"cancel_scope", "fire_timers"} /\ work'[1].id = work'[1].of
          /\ (work'[1].fn = "cancel_scope" => work'[1].of # ROOT_SCOPE)
      BY <1>3, <1>4
    <3> QED
      BY <3>1 DEF CallOK
  <2> QED
    BY <1>4, <1>5, <2>1 DEF Calls, NoRoot
<1>13. Order'
  <2>1. \A i, j \in DOMAIN work' : ~(i < j)
    BY <1>4
  <2> QED
    BY <2>1 DEF Order
<1> QED
  BY <1>6, <1>8, <1>10, <1>11, <1>12, <1>13, FiberRowsStay, AwaitingStays, KidsStay, CountsStay
  DEF TreeInv

\* A scope is cancelled: its body is reaped and marked, then its children are reaped
\* and it is finalized.
LEMMA TreeCancelScope ==
  ASSUME ScopeInv, CancelScope, ~scopes[Callee].cancelled, ~scopes[Callee].finalized
  PROVE  TreeInv'
<1>0. Typed /\ FiberRows /\ Kids /\ Bodies /\ scopes \in [Sid -> Scope]
  BY InvParts
<1>1. Calling("cancel_scope")
  BY DEF CancelScope
<1>2. PICK s \in Sid : s = Callee
  BY <1>1, TopScope
<1>3. /\ s # ROOT_SCOPE /\ work \in Seq(Call) /\ work # <<>> /\ 1 \in DOMAIN work
      /\ current = NoFiber /\ work[1] = Do("cancel_scope", s, s)
  BY <1>1, <1>2, TopScope
<1>4. work[1].fn = "cancel_scope" /\ work[1].of = s /\ Open(s)
  BY <1>2, <1>3 DEF Do, Open
<1>5. scopes' = [scopes EXCEPT ![s].cancelled = TRUE]
  BY <1>2 DEF CancelScope
<1>6. Marked(s)
  BY <1>0, <1>5, MarkedDelta
<1>7. /\ UNCHANGED <<fibers, nfibers, nscopes, free_fibers, free_scopes, starting, pending, timers,
                     current>>
  BY DEF CancelScope, queues
<1>8. starting = None
  BY <1>3, NotStarting
<1>9. TreeKept
  <2>1. \A t \in Sid : SamePlace(t) /\ SameKids(t)
    BY <1>6 DEF Marked, SameRest, SamePlace, SameKids
  <2> QED
    BY <1>3, <1>7, <1>8, <2>1 DEF TreeKept, SameFiber, SameWait
<1>10. NoRoot'
  <2>1. NoRoot /\ ROOT_SCOPE \in Sid
    BY RootSpared
  <2>2. scopes'[ROOT_SCOPE].cancelled = scopes[ROOT_SCOPE].cancelled
    BY <1>3, <1>6, <2>1 DEF Marked
  <2> QED
    BY <1>7, <2>1, <2>2 DEF NoRoot
<1>11. /\ scopes'[s].cancelled /\ \A t \in Sid \ {s} : scopes'[t].cancelled = scopes[t].cancelled
       /\ scopes'[s].body = scopes[s].body /\ scopes'[s].bd_kind = scopes[s].bd_kind
       /\ Open(s)'
  BY <1>4, <1>6 DEF Marked, SameRest, Open
<1>12. PICK b \in Fid : b = scopes[s].body
  BY <1>0, ScopeFields
<1>13. PICK c1, c2, c3, c4 :
         /\ c1 = Do("reap_fiber", b, s) /\ c2 = Do("mark_cancelled", s, s)
         /\ c3 = Do("reap_children", s, s) /\ c4 = Do("try_finalize", s, s)
  OBVIOUS
<1>14. /\ c1 \in Call /\ c2 \in Call /\ c3 \in Call /\ c4 \in Call
       /\ c1.fn = "reap_fiber" /\ c1.id = b /\ c1.of = s
       /\ c2.fn = "mark_cancelled" /\ c2.id = s /\ c2.of = s
       /\ c3.fn = "reap_children" /\ c3.id = s /\ c3.of = s
       /\ c4.fn = "try_finalize" /\ c4.id = s /\ c4.of = s
  BY <1>13 DEF Do, Call
<1>15. \A t \in Sid, f \in Fid : ~Reaps(work[1], f, t) /\ ~Finishes(t, 1)
  BY <1>4 DEF Reaps, Do, Finishes
<1>16. \A f \in Fid : LiveIn(f, s) => fibers[f].runs_scope = NO_SCOPE \/ f = b
  BY <1>0, <1>12 DEF LiveIn, FiberRows
<1>17. \A f \in Fid : LiveIn(f, s)' = LiveIn(f, s) /\ fibers'[f] = fibers[f]
  BY <1>7 DEF LiveIn
<1>18. ASSUME NEW calls \in Seq(Call), Then(calls),
              \A k \in 1..Len(calls) : CallOK(k)' /\ calls[k].of = s,
              \E j \in DOMAIN work' : Finishes(s, j)'
       PROVE  TreeInv'
  <2>1. \A t \in Sid : scopes[t].cancelled => scopes'[t].cancelled
    BY <1>11
  <2>2. \A t \in Sid : Open(t) /\ Ending(t)' =>
           Ending(t) \/ \E j \in DOMAIN work' : Finishes(t, j)'
    BY <1>6, <1>11, <1>18 DEF Marked, SameRest, Ending
  <2> QED
    BY <1>3, <1>4, <1>9, <1>10, <1>11, <1>15, <1>18, <2>1, <2>2, StillThen
<1>19. CASE fibers[b].alive
  <2>1. PICK x, y, calls : x = <<c1, c2>> /\ y = <<c3, c4>> /\ calls = x \o y
    OBVIOUS
  <2>2. /\ calls \in Seq(Call) /\ Len(calls) = 4
        /\ calls[1] = c1 /\ calls[2] = c2 /\ calls[3] = c3 /\ calls[4] = c4
    <3>1. /\ x \in Seq(Call) /\ Len(x) = 2 /\ x[1] = c1 /\ x[2] = c2
          /\ y \in Seq(Call) /\ Len(y) = 2 /\ y[1] = c3 /\ y[2] = c4
      BY <1>14, <2>1
    <3>2. /\ calls \in Seq(Call) /\ DOMAIN calls = 1..(2 + 2) /\ Len(calls) \in Nat
          /\ DOMAIN calls = 1..Len(calls)
          /\ \A i \in 1..2 : calls[i] = x[i]
          /\ \A i \in 1..2 : calls[2 + i] = y[i]
      <4>1. calls \in Seq(Call) /\ DOMAIN calls = 1..(Len(x) + Len(y)) /\ DOMAIN x = 1..Len(x)
            /\ DOMAIN y = 1..Len(y)
            /\ (\A i \in DOMAIN x : calls[i] = x[i])
            /\ (\A i \in DOMAIN y : calls[Len(x) + i] = y[i])
        BY <2>1, <3>1, Joined
      <4>2. Len(calls) \in Nat /\ DOMAIN calls = 1..Len(calls)
        BY <4>1, LenProperties
      <4> QED
        BY <3>1, <4>1, <4>2
    <3>3. Len(calls) = 4
      BY <3>2
    <3> QED
      BY <3>1, <3>2, <3>3
  <2>3. Then(calls)
    BY <1>2, <1>12, <1>13, <1>19, <2>1 DEF CancelScope
  <2>4. /\ work'[1] = c1 /\ work'[2] = c2 /\ work'[3] = c3 /\ work'[4] = c4 /\ 4 \in DOMAIN work'
    <3>1. /\ \A i \in 1..4 : work'[i] = calls[i]
          /\ DOMAIN work' = 1..(4 + Len(work) - 1) /\ Len(work) \in Nat \ {0}
      BY <1>3, <2>2, <2>3, ThenWork
    <3> QED
      BY <2>2, <3>1
  <2>5. fibers[b].scope = s /\ b # Root
    <3>1. starting # ScopeRef(s)
      BY <1>3, NotStarting
    <3>2. Owned(b, s, s)
      BY <1>0, <1>4, <1>12, <3>1 DEF Bodies
    <3> QED
      BY <3>2 DEF Owned
  <2>6. CallOK(1)'
    BY <1>3, <1>7, <1>11, <1>14, <2>4, <2>5 DEF CallOK
  <2>7. CallOK(2)'
    <3>1. work'[2 - 1] = Do("reap_fiber", b, s)
      BY <1>13, <2>4
    <3> QED
      BY <1>3, <1>7, <1>11, <1>12, <1>14, <2>4, <3>1 DEF CallOK
  <2>8. CallOK(3)'
    BY <1>3, <1>11, <1>14, <2>4 DEF CallOK
  <2>9. CallOK(4)'
    BY <1>3, <1>11, <1>14, <2>4 DEF CallOK
  <2>10. \A k \in 1..Len(calls) : CallOK(k)' /\ calls[k].of = s
    <3>1. \A k \in 1..Len(calls) : k = 1 \/ k = 2 \/ k = 3 \/ k = 4
      BY <2>2
    <3> QED
      BY <1>14, <2>2, <2>6, <2>7, <2>8, <2>9, <3>1
  <2>11. Finishes(s, 4)'
    <3>1. 1 \in 1..(4 - 1) /\ 2 \in 1..(4 - 1) /\ 3 \in 1..(4 - 1)
      OBVIOUS
    <3>2. ASSUME NEW f \in Fid, LiveIn(f, s)'
          PROVE  \E i \in 1..(4 - 1) : Reaps(work[i], f, s)'
      <4>1. CASE f = b
        <5>1. Reaps(work[1], f, s)'
          BY <1>13, <2>4, <4>1 DEF Reaps
        <5> QED
          BY <3>1, <5>1
      <4>2. CASE f # b
        <5>1. fibers[f].runs_scope = NO_SCOPE
          BY <1>16, <1>17, <3>2, <4>2
        <5>2. Reaps(work[3], f, s)'
          BY <1>13, <1>17, <2>4, <5>1 DEF Reaps
        <5> QED
          BY <3>1, <5>2
      <4> QED
        BY <4>1, <4>2
    <3>3. \E i \in 1..(4 - 1) : work'[i] = Do("mark_cancelled", s, s)
      BY <1>13, <2>4, <3>1
    <3>4. work'[4] = Do("try_finalize", s, s)
      BY <1>13, <2>4
    <3> QED
      BY <3>2, <3>3, <3>4 DEF Finishes
  <2> QED
    BY <1>18, <2>2, <2>3, <2>4, <2>10, <2>11
<1>20. CASE ~fibers[b].alive
  <2>1. PICK calls : calls = <<c3, c4>>
    OBVIOUS
  <2>2. calls \in Seq(Call) /\ Len(calls) = 2 /\ calls[1] = c3 /\ calls[2] = c4
    BY <1>14, <2>1
  <2>3. Then(calls)
    <3>1. <<>> \o <<c3, c4>> = <<c3, c4>>
      OBVIOUS
    <3> QED
      BY <1>2, <1>12, <1>13, <1>20, <2>1, <3>1 DEF CancelScope
  <2>4. /\ work'[1] = c3 /\ work'[2] = c4 /\ 2 \in DOMAIN work'
    <3>1. /\ \A i \in 1..2 : work'[i] = calls[i]
          /\ DOMAIN work' = 1..(2 + Len(work) - 1) /\ Len(work) \in Nat \ {0}
      BY <1>3, <2>2, <2>3, ThenWork
    <3> QED
      BY <2>2, <3>1
  <2>5. CallOK(1)'
    BY <1>3, <1>11, <1>14, <2>4 DEF CallOK
  <2>6. CallOK(2)'
    BY <1>3, <1>11, <1>14, <2>4 DEF CallOK
  <2>7. \A k \in 1..Len(calls) : CallOK(k)' /\ calls[k].of = s
    <3>1. \A k \in 1..Len(calls) : k = 1 \/ k = 2
      BY <2>2
    <3> QED
      BY <1>14, <2>2, <2>5, <2>6, <3>1
  <2>8. Finishes(s, 2)'
    <3>1. 1 \in 1..(2 - 1)
      OBVIOUS
    <3>2. ASSUME NEW f \in Fid, LiveIn(f, s)'
          PROVE  \E i \in 1..(2 - 1) : Reaps(work[i], f, s)'
      <4>1. LiveIn(f, s) /\ f # b
        BY <1>17, <1>20, <3>2 DEF LiveIn
      <4>2. fibers[f].runs_scope = NO_SCOPE
        BY <1>16, <4>1
      <4>3. Reaps(work[1], f, s)'
        BY <1>13, <1>17, <2>4, <4>2 DEF Reaps
      <4> QED
        BY <3>1, <4>3
    <3>3. scopes'[s].bd_kind # "none"
      <4> SUFFICES ASSUME scopes[s].bd_kind = "none"
                   PROVE  FALSE
        BY <1>11
      <4>1. starting # ScopeRef(s)
        BY <1>3, NotStarting
      <4>2. InWork(Do("mark_cancelled", s, s))
        BY <1>0, <1>4, <1>12, <1>20, <4>1 DEF Bodies
      <4>3. PICK j \in DOMAIN work : work[j] = Do("mark_cancelled", s, s)
        BY <4>2 DEF InWork
      <4>4. CallOK(j)
        BY InvParts DEF Calls
      <4>5. work[j].fn = "mark_cancelled" /\ work[j].of = s
        BY <4>3 DEF Do
      <4>6. scopes[s].cancelled
        BY <1>4, <4>4, <4>5 DEF CallOK
      <4> QED
        BY <1>2, <4>6
    <3>4. work'[2] = Do("try_finalize", s, s)
      BY <1>13, <2>4
    <3> QED
      BY <3>2, <3>3, <3>4 DEF Finishes
  <2> QED
    BY <1>18, <2>2, <2>3, <2>4, <2>7, <2>8
<1> QED
  BY <1>19, <1>20

\* The outcome of a body that never ended is recorded.
LEMMA TreeMarkCancelled ==
  ASSUME ScopeInv, MarkCancelled, scopes[Callee].bd_kind = "none"
  PROVE  TreeInv'
<1>0. Typed /\ Calls /\ scopes \in [Sid -> Scope]
  BY InvParts
<1>1. Calling("mark_cancelled") /\ Then(<<>>)
  BY DEF MarkCancelled
<1>2. PICK s \in Sid : s = Callee
  BY <1>1, TopScope
<1>3. /\ s # ROOT_SCOPE /\ work \in Seq(Call) /\ work # <<>> /\ 1 \in DOMAIN work
      /\ current = NoFiber /\ work[1] = Do("mark_cancelled", s, s)
  BY <1>1, <1>2, TopScope
<1>4. work[1].fn = "mark_cancelled" /\ work[1].of = s
  BY <1>3 DEF Do
<1>5. PICK k : k = EndedBody(scopes[s].bd_kind)
  OBVIOUS
<1>6. k # "none"
  BY <1>2, <1>5 DEF EndedBody
<1>7. scopes' = [scopes EXCEPT ![s].bd_kind = k]
  BY <1>2, <1>5 DEF MarkCancelled
<1>8. BodyMarked(s, k)
  BY <1>0, <1>7, BodyMarkedDelta
<1>9. UNCHANGED <<fibers, nfibers, nscopes, free_fibers, free_scopes, starting, pending, timers,
                  current>>
  BY DEF MarkCancelled, queues
<1>10. starting = None
  BY <1>3, NotStarting
<1>11. Open(s) => ~fibers[scopes[s].body].alive
  <2>1. CallOK(1)
    BY <1>0, <1>3 DEF Calls
  <2>2. ~(1 > 1)
    OBVIOUS
  <2> QED
    BY <1>4, <2>1, <2>2 DEF CallOK
<1>12. TreeKept
  <2>1. \A t \in Sid : SamePlace(t) /\ SameKids(t)
    BY <1>6, <1>8, <1>10, <1>11 DEF BodyMarked, SameRest, SamePlace, SameKids
  <2> QED
    BY <1>3, <1>9, <1>10, <2>1 DEF TreeKept, SameFiber, SameWait
<1>13. \A t \in Sid : scopes'[t].cancelled = scopes[t].cancelled
  BY <1>8 DEF BodyMarked
<1>14. NoRoot'
  <2>1. NoRoot /\ ROOT_SCOPE \in Sid
    BY RootSpared
  <2> QED
    BY <1>9, <1>13, <2>1 DEF NoRoot
<1>15. (\A t \in Sid, f \in Fid : ~Reaps(work[1], f, t)) /\ \A t \in Sid : ~Finishes(t, 1)
  BY <1>4 DEF Reaps, Do, Finishes
<1>16. scopes'[s].bd_kind # "none"
  BY <1>6, <1>8 DEF BodyMarked
<1>17. \A t \in Sid : Open(t) /\ Ending(t)' => Ending(t)
  <2>1. Open(s) => Ending(s)
    BY <1>0, <1>3, <1>4 DEF Calls, CallOK, Ending
  <2>2. \A t \in Sid \ {s} : Ending(t)' = Ending(t)
    BY <1>8, <1>13 DEF BodyMarked, SameRest, Ending
  <2> QED
    BY <2>1, <2>2
<1> QED
  BY <1>1, <1>3, <1>4, <1>12, <1>13, <1>14, <1>15, <1>16, <1>17, StillDone

-----------------------------------------------------------------------------
(* The counts of live children. *)

\* The children of s that have not settled.
Live(s) == {f \in Fid : fibers[f].alive /\ IsChild(f, s)}

\* There are finitely many.
LEMMA LiveFinite ==
  ASSUME NEW s
  PROVE  IsFiniteSet(Live(s)) /\ IsFiniteSet(Live(s))'
<1>1. IsFiniteSet(Fid)
  BY SchedulerAssumption, FS_Interval DEF Fid
<1>2. Live(s) \subseteq Fid /\ Live(s)' \subseteq Fid
  BY DEF Live
<1> QED
  BY <1>1, <1>2, FS_Subset

\* A scope whose children stay keeps its count.
LEMMA CountKept ==
  ASSUME LiveCount, NEW s \in Sid \ {ROOT_SCOPE}, scopes'[s].live = scopes[s].live,
         \A f \in Fid : (fibers'[f].alive /\ IsChild(f, s)') <=> (fibers[f].alive /\ IsChild(f, s))
  PROVE  scopes'[s].live = Cardinality(Live(s)')
<1>1. Live(s)' = Live(s)
  BY DEF Live
<1>2. scopes[s].live = Cardinality(Live(s))
  BY DEF LiveCount, Live
<1> QED
  BY <1>1, <1>2

\* One that loses a child counts one less.
LEMMA CountLess ==
  ASSUME LiveCount, NEW s \in Sid \ {ROOT_SCOPE}, scopes'[s].live = scopes[s].live - 1,
         NEW c \in Fid, fibers[c].alive, IsChild(c, s), ~fibers'[c].alive,
         \A f \in Fid \ {c} :
           (fibers'[f].alive /\ IsChild(f, s)') <=> (fibers[f].alive /\ IsChild(f, s))
  PROVE  scopes'[s].live = Cardinality(Live(s)')
<1>1. Live(s)' = Live(s) \ {c} /\ c \in Live(s)
  BY DEF Live
<1>2. scopes[s].live = Cardinality(Live(s))
  BY DEF LiveCount, Live
<1>3. IsFiniteSet(Live(s))
  BY LiveFinite
<1>4. Cardinality(Live(s) \ {c}) = Cardinality(Live(s)) - 1
  BY <1>1, <1>3, FS_RemoveElement
<1> QED
  BY <1>1, <1>2, <1>4

\* One that gets a child counts one more.
LEMMA CountMore ==
  ASSUME LiveCount, NEW s \in Sid \ {ROOT_SCOPE}, scopes'[s].live = scopes[s].live + 1,
         NEW c \in Fid, ~fibers[c].alive, IsChild(c, s)', fibers'[c].alive,
         \A f \in Fid \ {c} :
           (fibers'[f].alive /\ IsChild(f, s)') <=> (fibers[f].alive /\ IsChild(f, s))
  PROVE  scopes'[s].live = Cardinality(Live(s)')
<1>1. Live(s)' = Live(s) \cup {c} /\ c \notin Live(s)
  BY DEF Live
<1>2. scopes[s].live = Cardinality(Live(s))
  BY DEF LiveCount, Live
<1>3. IsFiniteSet(Live(s))
  BY LiveFinite
<1>4. Cardinality(Live(s) \cup {c}) = Cardinality(Live(s)) + 1
  BY <1>1, <1>3, FS_AddElement
<1> QED
  BY <1>1, <1>2, <1>4

\* The counts of all scopes.
LEMMA CountsAre ==
  ASSUME \A s \in Sid \ {ROOT_SCOPE} : scopes'[s].live = Cardinality(Live(s)')
  PROVE  LiveCount'
<1> SUFFICES ASSUME NEW s \in Sid \ {ROOT_SCOPE}
             PROVE  scopes'[s].live = Cardinality({f \in Fid : fibers'[f].alive /\ IsChild(f, s)'})
  BY DEF LiveCount
<1>1. Live(s)' = {f \in Fid : fibers'[f].alive /\ IsChild(f, s)'}
  BY DEF Live
<1> QED
  BY <1>1

-----------------------------------------------------------------------------
(* The operations of the program that change the tree. *)

\* With no calls on the stack there is nothing to say of them.
LEMMA IdleCalls ==
  ASSUME work' = <<>>, NoRoot', \A s \in Sid : Open(s)' => ~Ending(s)'
  PROVE  Cancelling' /\ Calls' /\ Order'
<1>1. DOMAIN work' = {}
  OBVIOUS
<1>2. Cancelling'
  BY DEF Cancelling
<1>3. Calls' /\ Order'
  BY <1>1 DEF Calls, NoRoot, Order
<1> QED
  BY <1>2, <1>3

\* The children of every scope.
LEMMA KidsAre ==
  ASSUME \A s \in Sid : Open(s)' => \A kids : kids = scopes'[s].children =>
           /\ \A g \in Fid : LiveIn(g, s)' /\ fibers'[g].runs_scope = NO_SCOPE =>
                \E i \in DOMAIN kids : kids[i].id = g
           /\ ~scopes'[s].manual =>
                /\ scopes'[s].next_waiters = <<>>
                /\ \A i, j \in DOMAIN kids : kids[i].id = kids[j].id => i = j
                /\ \A i \in DOMAIN kids : Owned(kids[i].id, s, NO_SCOPE)'
  PROVE  Kids'
<1> DEFINE Alive(s, kids) ==
             \A g \in Fid : LiveIn(g, s)' /\ fibers'[g].runs_scope = NO_SCOPE =>
               \E i \in DOMAIN kids : kids[i].id = g
           Kept(s, kids) ==
             ~scopes'[s].manual =>
               /\ scopes'[s].next_waiters = <<>>
               /\ \A i, j \in DOMAIN kids : kids[i].id = kids[j].id => i = j
               /\ \A i \in DOMAIN kids : Owned(kids[i].id, s, NO_SCOPE)'
<1>0. \A s \in Sid : Open(s)' => \A kids : kids = scopes'[s].children =>
        Alive(s, kids) /\ Kept(s, kids)
  OBVIOUS
<1> SUFFICES ASSUME NEW s \in Sid, Open(s)'
             PROVE  /\ \A f \in Fid : LiveIn(f, s)' /\ fibers'[f].runs_scope = NO_SCOPE =>
                         \E i \in DOMAIN scopes'[s].children : scopes'[s].children[i].id = f
                    /\ ~scopes'[s].manual =>
                         /\ scopes'[s].next_waiters = <<>>
                         /\ \A i, j \in DOMAIN scopes'[s].children :
                              scopes'[s].children[i].id = scopes'[s].children[j].id => i = j
                         /\ \A i \in DOMAIN scopes'[s].children :
                              Owned(scopes[s].children[i].id, s, NO_SCOPE)'
  BY DEF Kids
<1>1. PICK kids : kids = scopes'[s].children
  OBVIOUS
<1> HIDE DEF Alive, Kept
<1>2. Alive(s, kids) /\ Kept(s, kids)
  BY <1>0, <1>1
<1>3. ASSUME ~scopes'[s].manual
      PROVE  /\ scopes'[s].next_waiters = <<>>
             /\ \A i, j \in DOMAIN kids : kids[i].id = kids[j].id => i = j
             /\ \A i \in DOMAIN kids : Owned(kids[i].id, s, NO_SCOPE)'
  BY <1>2, <1>3 DEF Kept
<1>4. ASSUME ~scopes'[s].manual, NEW i \in DOMAIN kids
      PROVE  Owned(scopes[s].children[i].id, s, NO_SCOPE)'
  <2>1. Owned(kids[i].id, s, NO_SCOPE)'
    BY <1>3, <1>4
  <2> QED
    BY <1>1, <2>1 DEF Owned
<1> QED
  BY <1>1, <1>2, <1>3, <1>4 DEF Alive

\* A row of the fiber table is handed out.
Takes(f) ==
  /\ FiberSlotLeft(free_fibers, nfibers) /\ f = Slot(free_fibers, nfibers)
  /\ free_fibers' = FreeAfter(free_fibers) /\ nfibers' = LenAfter(free_fibers, nfibers)
  /\ \A g \in Fid \ {f} : SameFiber(g)

\* The row that a spawn takes is that of no live fiber.
LEMMA SlotFree ==
  ASSUME ScopeInv, Disciplined, FiberSlotLeft(free_fibers, nfibers),
         NEW f, f = Slot(free_fibers, nfibers)
  PROVE  f \in Fid /\ ~fibers[f].alive
<1>1. Typed /\ FreeRows /\ Reached /\ ~StaleRefs
  BY InvParts DEF Disciplined
<1> QED
  BY <1>1, FiberSlot

\* It is nobody's: neither a live fiber's nor one that a scope still owns.
LEMMA TakenRow ==
  ASSUME ScopeInv, Disciplined, NEW f, Takes(f)
  PROVE  /\ f \in Fid /\ f # Root /\ ~fibers[f].alive /\ f < nfibers'
         /\ \A i \in DOMAIN free_fibers' : free_fibers'[i] # f
         /\ \A g \in Fid : \A s, r : Owned(g, s, r) => g # f /\ Owned(g, s, r)'
<1>0. Typed /\ FreeRows /\ Reached /\ ~StaleRefs
  BY InvParts DEF Disciplined
<1>1. /\ f \in Fid /\ f # Root /\ ~fibers[f].alive
      /\ nfibers' \in 0..MaxFibers /\ f < nfibers' /\ nfibers <= nfibers' /\ nfibers \in 0..MaxFibers
      /\ \A i \in DOMAIN free_fibers' : /\ i \in DOMAIN free_fibers
                                        /\ free_fibers'[i] = free_fibers[i] /\ free_fibers'[i] # f
      /\ \A k \in Fid : k < nfibers /\ (\A i \in DOMAIN free_fibers : free_fibers[i] # k) => k # f
  BY <1>0, FiberSlot DEF Takes
<1>2. ASSUME NEW g \in Fid, NEW s, NEW r, Owned(g, s, r)
      PROVE  g # f /\ Owned(g, s, r)'
  <2>1. g # f
    BY <1>1, <1>2 DEF Owned
  <2>2. fibers'[g].scope = fibers[g].scope /\ fibers'[g].runs_scope = fibers[g].runs_scope
    BY <2>1 DEF Takes, SameFiber
  <2>3. g < nfibers'
    <3>1. g \in Nat /\ nfibers \in Nat /\ nfibers' \in Nat
      BY <1>1, SchedulerAssumption DEF Fid
    <3> QED
      BY <1>1, <1>2, <3>1 DEF Owned
  <2> QED
    BY <1>1, <1>2, <2>1, <2>2, <2>3 DEF Owned
<1> QED
  BY <1>1, <1>2

\* The free lists stay right.
LEMMA TakenFree ==
  ASSUME ScopeInv, Disciplined, NEW f, Takes(f), UNCHANGED <<free_scopes, nscopes>>,
         \A s \in Sid : scopes'[s].finalized = scopes[s].finalized
  PROVE  FreeRows'
<1>0. Typed /\ FreeRows /\ Reached /\ ~StaleRefs
  BY InvParts DEF Disciplined
<1>1. /\ f \in Fid /\ f # Root /\ ~fibers[f].alive
      /\ nfibers' \in 0..MaxFibers /\ f < nfibers' /\ nfibers <= nfibers' /\ nfibers \in 0..MaxFibers
      /\ IsInjective(free_fibers')
      /\ \A i \in DOMAIN free_fibers' : /\ i \in DOMAIN free_fibers
                                        /\ free_fibers'[i] = free_fibers[i] /\ free_fibers'[i] # f
  BY <1>0, FiberSlot DEF Takes
<1>2. \A i \in DOMAIN free_fibers : free_fibers[i] \in Fid
  BY <1>0, LenProperties, ElementOfSeq DEF Typed, TablesOK
<1>3. \A i \in DOMAIN free_scopes : free_scopes[i] \in Sid
  BY <1>0, LenProperties, ElementOfSeq DEF Typed, TablesOK
<1>4. nfibers \in Nat /\ nfibers' \in Nat /\ nfibers > 0 /\ (\A g \in Fid : g \in Nat)
  BY <1>0, <1>1, SchedulerAssumption DEF Fid, FreeRows
<1>5. nfibers' > 0
  BY <1>1, <1>4
<1>6. ASSUME NEW i \in DOMAIN free_fibers'
      PROVE  /\ free_fibers'[i] # Root /\ free_fibers'[i] < nfibers'
             /\ ~fibers'[free_fibers'[i]].alive
  <2>1. PICK g \in Fid : g = free_fibers'[i]
    BY <1>1, <1>2
  <2>2. g # Root /\ g < nfibers /\ ~fibers[g].alive /\ g # f
    BY <1>0, <1>1, <2>1 DEF FreeRows
  <2>3. ~fibers'[g].alive
    BY <2>2 DEF Takes, SameFiber
  <2>4. g < nfibers'
    BY <1>1, <1>4, <2>2
  <2> QED
    BY <2>1, <2>2, <2>3, <2>4
<1>7. ASSUME NEW g \in Fid, g >= nfibers'
      PROVE  ~fibers'[g].alive
  <2>1. g >= nfibers /\ g # f
    BY <1>1, <1>4, <1>7
  <2>2. ~fibers[g].alive
    BY <1>0, <2>1 DEF FreeRows
  <2> QED
    BY <2>1, <2>2 DEF Takes, SameFiber
<1>8. /\ IsInjective(free_scopes') /\ nscopes' > 0
      /\ \A s \in Sid : s >= nscopes' => scopes'[s].finalized
      /\ \A i \in DOMAIN free_scopes' :
           /\ free_scopes'[i] # ROOT_SCOPE /\ free_scopes'[i] < nscopes'
           /\ scopes'[free_scopes'[i]].finalized
  BY <1>0, <1>3 DEF FreeRows
<1> QED
  BY <1>1, <1>5, <1>6, <1>7, <1>8 DEF FreeRows

\* sched_spawn.
LEMMA TreeSpawn ==
  ASSUME ScopeInv, Disciplined, NEW h, Spawn(h)
  PROVE  TreeInv'
<1>0. /\ Typed /\ FiberRows /\ Awaiting /\ Bodies /\ Kids /\ LiveCount
      /\ fibers \in [Fid -> FiberOK] /\ scopes \in [Sid -> Scope]
  BY InvParts
<1>1. /\ Pumping /\ h \in Handles /\ SpawnInto(h, Handles) /\ work = <<>>
      /\ UNCHANGED <<nscopes, free_scopes, timers, pending, work, starting, current>>
  BY DEF Spawn, control, Pumping
<1>2. h \in SidRef /\ h.id \in Sid /\ Open(h.id) /\ h = ScopeRef(h.id)
  BY <1>1, HandleOpen
<1>3. PICK x \in Sid : x = h.id
  BY <1>2
<1>4. PICK f : f = Slot(free_fibers, nfibers)
  OBVIOUS
<1>5. f \in Fid
  <2>1. FiberSlotLeft(free_fibers, nfibers)
    BY <1>1 DEF SpawnInto
  <2> QED
    BY <1>4, <2>1, SlotFree
<1>6. /\ \A g \in Fid \ {f} : fibers'[g] = fibers[g]
      /\ fibers'[f].alive /\ fibers'[f].scope = x /\ fibers'[f].runs_scope = NO_SCOPE
      /\ fibers'[f].wait_kind = "none" /\ fibers'[f].knows = scopes[x].enclosing \cup {h}
      /\ \A s \in Sid \ {x} : scopes'[s] = scopes[s]
      /\ SameScope(x) /\ scopes'[x].next_waiters = scopes[x].next_waiters
      /\ scopes'[x].children = Append(scopes[x].children, Ref(f, fibers[f].gen + 1))
      /\ scopes'[x].live = scopes[x].live + 1
  <2>1. Spawned(f, h)
    BY <1>0, <1>1, <1>2, <1>4, <1>5, SpawnDelta DEF Disciplined
  <2> QED
    BY <1>3, <2>1 DEF Spawned
<1>7. Takes(f)
  BY <1>1, <1>4, <1>6 DEF Takes, SpawnInto, SameFiber
<1>8. /\ f # Root /\ ~fibers[f].alive /\ f < nfibers'
      /\ \A i \in DOMAIN free_fibers' : free_fibers'[i] # f
      /\ \A g \in Fid : \A s, r : Owned(g, s, r) => g # f /\ Owned(g, s, r)'
  BY <1>7, TakenRow
<1>9. \A s \in Sid : SameScope(s)
  BY <1>6 DEF SameScope
<1>10. /\ \A s \in Sid : /\ Open(s)' = Open(s) /\ ScopeRef(s)' = ScopeRef(s) /\ Up(s)' = Up(s)
       /\ \A g \in Fid \ {f} : FiberRef(g)' = FiberRef(g)
       /\ \A g \in Fid \ {f}, s \in Sid : LiveIn(g, s)' = LiveIn(g, s) /\ IsChild(g, s)' = IsChild(g, s)
  <2>1. \A s \in Sid : Open(s)' = Open(s) /\ ScopeRef(s)' = ScopeRef(s)
    BY <1>9 DEF SameScope, Open, ScopeRef
  <2>2. \A s \in Sid : Up(s)' = Up(s)
    BY <1>9, <2>1 DEF SameScope, Up
  <2> QED
    BY <1>6, <2>1, <2>2 DEF FiberRef, LiveIn, IsChild
<1>11. FreeRows'
  BY <1>1, <1>7, <1>9, TakenFree DEF SameScope
<1>12. Open(x) /\ fibers'[f].knows = Up(x) /\ x # ROOT_SCOPE
  BY <1>2, <1>3, <1>6 DEF Up, Open
<1>13. FiberRows'
  <2>1. /\ fibers'[Root].knows = {} /\ fibers'[Root].scope = ROOT_SCOPE
        /\ fibers'[Root].runs_scope = NO_SCOPE
    BY <1>0, <1>6, <1>8, SchedulerAssumption DEF FiberRows, Fid, Root
  <2>2. ASSUME NEW g \in Fid \ {Root}, fibers'[g].alive, NEW s, s = fibers'[g].scope
        PROVE  /\ Open(s)' /\ fibers'[g].knows = Up(s)'
               /\ fibers'[g].runs_scope # NO_SCOPE =>
                    /\ fibers'[g].runs_scope = s /\ scopes'[s].body = g
                    /\ scopes'[s].bd_kind = "none"
    <3>1. CASE g = f
      BY <1>6, <1>10, <1>12, <2>2, <3>1
    <3>2. CASE g # f
      <4>1. fibers'[g] = fibers[g] /\ s \in Sid
        BY <1>0, <1>6, <2>2, <3>2, FiberFields
      <4>2. /\ Open(s) /\ fibers[g].knows = Up(s)
            /\ fibers[g].runs_scope # NO_SCOPE =>
                 fibers[g].runs_scope = s /\ scopes[s].body = g /\ scopes[s].bd_kind = "none"
        BY <1>0, <2>2, <4>1 DEF FiberRows
      <4> QED
        BY <1>9, <1>10, <4>1, <4>2 DEF SameScope
    <3> QED
      BY <3>1, <3>2
  <2> QED
    BY <2>1, <2>2 DEF FiberRows, Open, Up, ScopeRef
<1>14. Nesting'
  BY <1>9, <1>10, NestingStays DEF SameScope
<1>15. Awaited'
  <2> SUFFICES ASSUME NEW s \in Sid, Open(s)', NEW a, a = scopes'[s].awaiter
               PROVE  a # None /\ fibers'[a.id].alive /\ Awaits(a, s)'
    BY DEF Awaited, Awaits, Waits, ScopeRef
  <2>1. Open(s) /\ a = scopes[s].awaiter /\ scopes'[s].enclosing = scopes[s].enclosing
    BY <1>9, <1>10 DEF SameScope
  <2>2. a \in FidRef /\ a.id \in Fid /\ fibers[a.id].alive /\ Awaits(a, s)
    BY <1>1, <2>1, IdleTree
  <2>3. PICK g \in Fid \ {f} : g = a.id
    BY <1>8, <2>2
  <2>4. fibers'[g] = fibers[g] /\ FiberRef(g)' = FiberRef(g)
    BY <1>6, <1>10
  <2>5. a # None
    BY <2>2 DEF None, Fid
  <2> QED
    BY <1>1, <1>10, <2>1, <2>2, <2>3, <2>4, <2>5 DEF Awaits, Waits
<1>16. Awaiting'
  <2>1. ASSUME NEW g \in Fid, fibers'[g].alive, fibers'[g].wait_kind = "scope",
               NEW s, s = fibers'[g].wait_arg.id
        PROVE  Open(s)' /\ fibers'[g].wait_arg = ScopeRef(s)' /\ scopes'[s].awaiter = FiberRef(g)'
    <3>1. g # f /\ fibers'[g] = fibers[g]
      BY <1>6, <2>1
    <3>2. /\ s \in Sid /\ Open(s) /\ fibers[g].wait_arg = ScopeRef(s)
          /\ scopes[s].awaiter = FiberRef(g)
      BY <2>1, <3>1, ScopeWait
    <3> QED
      BY <1>9, <1>10, <3>1, <3>2 DEF SameScope
  <2>2. PICK c \in Fid \ {f} : c = current
    BY <1>1, <1>8, Pumped DEF Pumping
  <2>3. ASSUME starting' # None, NEW s, s = starting'.id
        PROVE  /\ current' # NoFiber /\ Open(s)' /\ starting' = ScopeRef(s)'
               /\ scopes'[s].awaiter = FiberRef(current)' /\ scopes'[s].bd_kind = "none"
               /\ \A g \in Fid : LiveIn(g, s)' => fibers'[g].runs_scope = NO_SCOPE
    <3>1. /\ current # NoFiber /\ Open(s) /\ starting = ScopeRef(s)
          /\ scopes[s].awaiter = FiberRef(current) /\ scopes[s].bd_kind = "none"
          /\ \A g \in Fid : LiveIn(g, s) => fibers[g].runs_scope = NO_SCOPE
      BY <1>0, <1>1, <2>3 DEF Awaiting
    <3>2. s \in Sid
      BY <1>0, <1>1, <2>3 DEF Typed, ControlOK, SidRef
    <3>3. FiberRef(current)' = FiberRef(current)
      BY <1>1, <1>10, <2>2 DEF FiberRef
    <3>4. \A g \in Fid : LiveIn(g, s)' => fibers'[g].runs_scope = NO_SCOPE
      BY <1>6, <1>10, <3>1, <3>2
    <3> QED
      BY <1>1, <1>9, <1>10, <3>1, <3>2, <3>3, <3>4 DEF SameScope
  <2>4. current' # NoFiber => fibers'[current'].wait_kind = "none"
    BY <1>0, <1>1, <1>6, <2>2 DEF Awaiting
  <2> QED
    BY <2>1, <2>3, <2>4 DEF Awaiting, Open, ScopeRef, FiberRef, LiveIn
<1>17. Bodies'
  <2> SUFFICES ASSUME NEW s \in Sid, Open(s)', starting' # ScopeRef(s)', NEW b, b = scopes'[s].body
               PROVE  /\ Owned(b, s, s)'
                      /\ scopes'[s].bd_kind = "none" => fibers'[b].alive
    BY DEF Bodies, Owned
  <2>1. /\ Open(s) /\ starting # ScopeRef(s) /\ b = scopes[s].body
        /\ scopes'[s].bd_kind = scopes[s].bd_kind
    BY <1>1, <1>9, <1>10 DEF SameScope
  <2>2. b \in Fid /\ Owned(b, s, s)
    BY <1>0, <2>1, ScopeFields DEF Bodies
  <2>3. b # f /\ Owned(b, s, s)'
    BY <1>8, <2>2
  <2>4. scopes[s].bd_kind = "none" => fibers[b].alive
    BY <1>1, <2>1, IdleTree
  <2> QED
    BY <1>6, <2>1, <2>2, <2>3, <2>4
<1>18. Kids'
  <2> SUFFICES ASSUME NEW s \in Sid, Open(s)', NEW kids, kids = scopes'[s].children
               PROVE  /\ \A g \in Fid : LiveIn(g, s)' /\ fibers'[g].runs_scope = NO_SCOPE =>
                           \E i \in DOMAIN kids : kids[i].id = g
                      /\ ~scopes'[s].manual =>
                           /\ scopes'[s].next_waiters = <<>>
                           /\ \A i, j \in DOMAIN kids : kids[i].id = kids[j].id => i = j
                           /\ \A i \in DOMAIN kids : Owned(kids[i].id, s, NO_SCOPE)'
    BY KidsAre
  <2>1. Open(s)
    BY <1>10
  <2>2. PICK old : old = scopes[s].children
    OBVIOUS
  <2>3. old \in Seq(FidRef)
    BY <1>0, <2>2, ScopeFields
  <2>4. \A i \in DOMAIN old : old[i].id \in Fid
    <3>1. \A i \in DOMAIN old : old[i] \in FidRef
      BY <2>3, LenProperties, ElementOfSeq
    <3> QED
      BY <3>1 DEF FidRef
  <2>5. /\ \A g \in Fid : LiveIn(g, s) /\ fibers[g].runs_scope = NO_SCOPE =>
             \E i \in DOMAIN old : old[i].id = g
        /\ ~scopes[s].manual =>
             /\ scopes[s].next_waiters = <<>>
             /\ \A i, j \in DOMAIN old : old[i].id = old[j].id => i = j
             /\ \A i \in DOMAIN old : Owned(old[i].id, s, NO_SCOPE)
    BY <1>0, <2>1, <2>2 DEF Kids
  <2>6. /\ scopes'[s].manual = scopes[s].manual
        /\ scopes'[s].next_waiters = scopes[s].next_waiters
    BY <1>6, <1>9 DEF SameScope
  <2>7. ~scopes[s].manual => \A i \in DOMAIN old : /\ Owned(old[i].id, s, NO_SCOPE)'
                                                   /\ old[i].id # f
    BY <1>8, <2>4, <2>5
  <2>8. CASE s # x
    <3>1. kids = old
      BY <1>6, <2>2, <2>8
    <3>2. \A g \in Fid : LiveIn(g, s)' => g # f
      BY <1>6, <2>8 DEF LiveIn
    <3> QED
      BY <1>6, <1>10, <2>5, <2>6, <2>7, <3>1, <3>2
  <2>9. CASE s = x
    <3>1. PICK e : e = Ref(f, fibers[f].gen + 1)
      OBVIOUS
    <3>2. e \in FidRef /\ e.id = f
      BY <1>0, <1>5, <3>1, FiberFields DEF Ref, FidRef
    <3>3. kids = Append(old, e)
      BY <1>6, <2>2, <2>9, <3>1
    <3>4. /\ Len(old) \in Nat /\ DOMAIN old = 1..Len(old)
          /\ DOMAIN kids = 1..(Len(old) + 1) /\ kids[Len(old) + 1] = e
          /\ \A i \in DOMAIN old : i \in DOMAIN kids /\ kids[i] = old[i]
          /\ \A i \in DOMAIN kids : \/ i \in DOMAIN old /\ kids[i] = old[i]
                                    \/ i = Len(old) + 1 /\ i \notin DOMAIN old /\ kids[i] = e
      BY <2>3, <3>2, <3>3, Appended
    <3>5. Owned(f, s, NO_SCOPE)'
      BY <1>6, <1>8, <2>9 DEF Owned
    <3>6. ASSUME NEW g \in Fid, LiveIn(g, s)', fibers'[g].runs_scope = NO_SCOPE
          PROVE  \E i \in DOMAIN kids : kids[i].id = g
      <4>1. CASE g = f
        <5>1. Len(old) + 1 \in DOMAIN kids
          BY <3>4
        <5> QED
          BY <3>2, <3>4, <4>1, <5>1
      <4>2. CASE g # f
        <5>1. LiveIn(g, s) /\ fibers[g].runs_scope = NO_SCOPE
          BY <1>6, <1>10, <3>6, <4>2
        <5> QED
          BY <2>5, <3>4, <5>1
      <4> QED
        BY <4>1, <4>2
    <3>7. ASSUME ~scopes'[s].manual
          PROVE  \A i, j \in DOMAIN kids : kids[i].id = kids[j].id => i = j
      BY <2>5, <2>6, <2>7, <3>2, <3>4, <3>7
    <3>8. ASSUME ~scopes'[s].manual, NEW i \in DOMAIN kids
          PROVE  Owned(kids[i].id, s, NO_SCOPE)'
      <4>1. CASE i \in DOMAIN old /\ kids[i] = old[i]
        BY <2>6, <2>7, <3>8, <4>1
      <4>2. CASE kids[i] = e
        BY <3>2, <3>5, <4>2
      <4> QED
        BY <3>4, <4>1, <4>2
    <3> QED
      BY <2>5, <2>6, <3>6, <3>7, <3>8
  <2> QED
    BY <2>8, <2>9
<1>19. LiveCount'
  <2> SUFFICES ASSUME NEW s \in Sid \ {ROOT_SCOPE}
               PROVE  scopes'[s].live = Cardinality(Live(s)')
    BY CountsAre
  <2>1. CASE s = x
    <3>1. IsChild(f, s)'
      BY <1>6, <1>8, <2>1 DEF IsChild
    <3> QED
      BY <1>0, <1>5, <1>6, <1>8, <1>10, <2>1, <3>1, CountMore
  <2>2. CASE s # x
    <3>1. ~IsChild(f, s)'
      BY <1>6, <2>2 DEF IsChild
    <3> QED
      BY <1>0, <1>6, <1>8, <1>10, <2>2, <3>1, CountKept
  <2> QED
    BY <2>1, <2>2
<1>20. NoRoot'
  <2>1. NoRoot /\ ROOT_SCOPE \in Sid
    BY RootSpared
  <2>2. \A k \in Up(x) : k.id # ROOT_SCOPE
    BY <1>12, UpOpen DEF Open
  <2> QED
    BY <1>1, <1>6, <1>9, <1>12, <2>1, <2>2 DEF NoRoot, SameScope
<1>21. \A s \in Sid : Open(s)' => ~Ending(s)'
  BY <1>1, <1>9, <1>10, IdleTree DEF SameScope, Ending
<1>22. Cancelling' /\ Calls' /\ Order'
  BY <1>1, <1>20, <1>21, IdleCalls
<1> QED
  BY <1>11, <1>13, <1>14, <1>15, <1>16, <1>17, <1>18, <1>19, <1>22 DEF TreeInv

\* The second half of start_scope: the body's fiber is queued, its creator waits.
LEMMA TreeStartBody ==
  ASSUME ScopeInv, Disciplined, StartBody
  PROVE  TreeInv'
<1>0. /\ Typed /\ FiberRows /\ Awaiting /\ Awaited /\ Bodies /\ Kids /\ LiveCount
      /\ fibers \in [Fid -> FiberOK] /\ scopes \in [Sid -> Scope]
  BY InvParts
<1>1. /\ Pumping /\ starting # None /\ work = <<>> /\ current' = NoFiber /\ starting' = None
      /\ UNCHANGED <<nscopes, free_scopes, timers, pending, work>>
  BY DEF StartBody, Pumping
<1>2. PICK c \in Fid : c = current /\ fibers[c].alive
  BY <1>1, Pumped DEF Pumping
<1>3. PICK s \in Sid : s = starting.id
  BY <1>0, <1>1 DEF Typed, ControlOK, SidRef
<1>4. /\ Open(s) /\ starting = ScopeRef(s) /\ scopes[s].awaiter = FiberRef(c)
      /\ scopes[s].bd_kind = "none"
      /\ \A g \in Fid : LiveIn(g, s) => fibers[g].runs_scope = NO_SCOPE
  BY <1>0, <1>1, <1>2, <1>3 DEF Awaiting
<1>5. FiberRef(c).id = c
  BY DEF FiberRef, Ref
<1>6. fibers[c].knows = scopes[s].enclosing
  BY <1>0, <1>2, <1>4, <1>5 DEF Awaited, Awaits
<1>7. PICK f : f = Slot(free_fibers, nfibers)
  OBVIOUS
<1>8. f \in Fid /\ f # c
  <2>1. FiberSlotLeft(free_fibers, nfibers)
    BY DEF StartBody
  <2>2. f \in Fid /\ ~fibers[f].alive
    BY <1>7, <2>1, SlotFree
  <2> QED
    BY <1>2, <2>2
<1>9. /\ \A g \in Fid \ {f, c} : fibers'[g] = fibers[g]
      /\ fibers'[f].alive /\ fibers'[f].scope = s /\ fibers'[f].runs_scope = s
      /\ fibers'[f].wait_kind = "none"
      /\ fibers'[f].knows = fibers[c].knows \cup {starting}
      /\ SameFiber(c) /\ fibers'[c].wait_kind = "scope" /\ fibers'[c].wait_arg = starting
      /\ scopes' = [scopes EXCEPT ![s].body = f]
  <2>1. BodyQueued(f, c)
    BY <1>0, <1>2, <1>7, <1>8, StartBodyDelta
  <2> QED
    BY <1>3, <2>1 DEF BodyQueued
<1>10. /\ \A t \in Sid \ {s} : scopes'[t] = scopes[t]
       /\ scopes'[s].body = f
       /\ \A t \in Sid : /\ scopes'[t].manual = scopes[t].manual
                         /\ scopes'[t].cancelled = scopes[t].cancelled
                         /\ scopes'[t].finalized = scopes[t].finalized
                         /\ scopes'[t].awaiter = scopes[t].awaiter
                         /\ scopes'[t].bd_kind = scopes[t].bd_kind
                         /\ scopes'[t].enclosing = scopes[t].enclosing
                         /\ scopes'[t].gen = scopes[t].gen
                         /\ scopes'[t].children = scopes[t].children
                         /\ scopes'[t].next_waiters = scopes[t].next_waiters
                         /\ scopes'[t].live = scopes[t].live
  <2>1. scopes[s] \in Scope /\ scopes'[s] = [scopes[s] EXCEPT !.body = f]
    BY <1>0, <1>9
  <2>2. \A t \in Sid \ {s} : scopes'[t] = scopes[t]
    BY <1>0, <1>9
  <2>3. ASSUME NEW q \in Scope, NEW r, r = [q EXCEPT !.body = f]
        PROVE  /\ r.body = f /\ r.manual = q.manual /\ r.cancelled = q.cancelled
               /\ r.finalized = q.finalized /\ r.awaiter = q.awaiter /\ r.bd_kind = q.bd_kind
               /\ r.enclosing = q.enclosing /\ r.gen = q.gen /\ r.children = q.children
               /\ r.next_waiters = q.next_waiters /\ r.live = q.live
    BY <2>3 DEF Scope
  <2> QED
    BY <2>1, <2>2, <2>3
<1>11. \A g \in Fid \ {f} : SameFiber(g)
  BY <1>9 DEF SameFiber
<1>12. Takes(f)
  BY <1>7, <1>11 DEF Takes, StartBody
<1>13. /\ f # Root /\ ~fibers[f].alive /\ f < nfibers'
       /\ \A i \in DOMAIN free_fibers' : free_fibers'[i] # f
       /\ \A g \in Fid : \A t, r : Owned(g, t, r) => g # f /\ Owned(g, t, r)'
  BY <1>12, TakenRow
<1>14. /\ \A t \in Sid : /\ Open(t)' = Open(t) /\ ScopeRef(t)' = ScopeRef(t) /\ Up(t)' = Up(t)
       /\ \A g \in Fid \ {f} : FiberRef(g)' = FiberRef(g)
       /\ \A g \in Fid \ {f}, t \in Sid : LiveIn(g, t)' = LiveIn(g, t) /\ IsChild(g, t)' = IsChild(g, t)
  <2>1. \A t \in Sid : Open(t)' = Open(t) /\ ScopeRef(t)' = ScopeRef(t)
    BY <1>10 DEF Open, ScopeRef
  <2>2. \A t \in Sid : Up(t)' = Up(t)
    BY <1>10, <2>1 DEF Up
  <2> QED
    BY <1>11, <2>1, <2>2 DEF SameFiber, FiberRef, LiveIn, IsChild
<1>15. FreeRows'
  BY <1>1, <1>10, <1>12, TakenFree
<1>16. fibers'[f].knows = Up(s) /\ s # ROOT_SCOPE
  BY <1>4, <1>6, <1>9 DEF Up, Open
<1>17. FiberRows'
  <2>1. /\ fibers'[Root].knows = {} /\ fibers'[Root].scope = ROOT_SCOPE
        /\ fibers'[Root].runs_scope = NO_SCOPE
    BY <1>0, <1>11, <1>13, SchedulerAssumption DEF FiberRows, Fid, Root, SameFiber
  <2>2. ASSUME NEW g \in Fid \ {Root}, fibers'[g].alive, NEW t, t = fibers'[g].scope
        PROVE  /\ Open(t)' /\ fibers'[g].knows = Up(t)'
               /\ fibers'[g].runs_scope # NO_SCOPE =>
                    /\ fibers'[g].runs_scope = t /\ scopes'[t].body = g
                    /\ scopes'[t].bd_kind = "none"
    <3>1. CASE g = f
      BY <1>4, <1>9, <1>10, <1>14, <1>16, <2>2, <3>1
    <3>2. CASE g # f
      <4>1. /\ fibers[g].alive /\ fibers[g].scope = t /\ fibers'[g].knows = fibers[g].knows
            /\ fibers'[g].runs_scope = fibers[g].runs_scope
        BY <1>11, <2>2, <3>2 DEF SameFiber
      <4>2. t \in Sid
        BY <1>0, <4>1, FiberFields
      <4>3. /\ Open(t) /\ fibers[g].knows = Up(t)
            /\ fibers[g].runs_scope # NO_SCOPE =>
                 fibers[g].runs_scope = t /\ scopes[t].body = g /\ scopes[t].bd_kind = "none"
        BY <1>0, <4>1 DEF FiberRows
      <4>4. fibers[g].runs_scope # NO_SCOPE => t # s
        BY <1>4, <2>2, <4>1 DEF LiveIn
      <4> QED
        BY <1>10, <1>14, <4>1, <4>2, <4>3, <4>4
    <3> QED
      BY <3>1, <3>2
  <2> QED
    BY <2>1, <2>2 DEF FiberRows, Open, Up, ScopeRef
<1>18. Nesting'
  BY <1>10, <1>14, NestingStays
<1>19. Awaited'
  <2> SUFFICES ASSUME NEW t \in Sid, Open(t)', NEW a, a = scopes'[t].awaiter
               PROVE  a # None /\ fibers'[a.id].alive /\ Awaits(a, t)'
    BY DEF Awaited, Awaits, Waits, ScopeRef
  <2>1. Open(t) /\ a = scopes[t].awaiter /\ scopes'[t].enclosing = scopes[t].enclosing
    BY <1>10, <1>14
  <2>2. a \in FidRef /\ a.id \in Fid /\ fibers[a.id].alive /\ Awaits(a, t)
    BY <1>1, <2>1, IdleTree
  <2>3. PICK g \in Fid \ {f} : g = a.id
    BY <1>13, <2>2
  <2>4. SameFiber(g) /\ FiberRef(g)' = FiberRef(g)
    BY <1>11, <1>14
  <2>5. a # None
    BY <2>2 DEF None, Fid
  <2>6. Waits(g, t)'
    <3>1. CASE g = c
      <4>1. starting = ScopeRef(t)
        BY <1>1, <1>2, <2>1, <2>3, <3>1, PumpedAwaits
      <4> QED
        BY <1>9, <1>14, <3>1, <4>1 DEF Waits
    <3>2. CASE g # c
      <4>1. fibers[g].wait_kind = "scope" /\ fibers[g].wait_arg = ScopeRef(t)
        BY <1>2, <2>2, <2>3, <3>2 DEF Awaits, Waits
      <4> QED
        BY <1>9, <1>14, <3>2, <4>1 DEF Waits
    <3> QED
      BY <3>1, <3>2
  <2>7. Awaits(a, t)'
    BY <2>1, <2>2, <2>3, <2>4, <2>6 DEF Awaits, SameFiber
  <2> QED
    BY <2>2, <2>3, <2>4, <2>5, <2>7 DEF SameFiber
<1>20. Awaiting'
  <2>1. ASSUME NEW g \in Fid, fibers'[g].alive, fibers'[g].wait_kind = "scope",
               NEW t, t = fibers'[g].wait_arg.id
        PROVE  Open(t)' /\ fibers'[g].wait_arg = ScopeRef(t)' /\ scopes'[t].awaiter = FiberRef(g)'
    <3>1. g # f
      BY <1>9, <2>1
    <3>2. CASE g = c
      BY <1>3, <1>4, <1>8, <1>9, <1>10, <1>14, <2>1, <3>2
    <3>3. CASE g # c
      <4>1. fibers'[g] = fibers[g]
        BY <1>9, <3>1, <3>3
      <4>2. /\ t \in Sid /\ Open(t) /\ fibers[g].wait_arg = ScopeRef(t)
            /\ scopes[t].awaiter = FiberRef(g)
        BY <2>1, <4>1, ScopeWait
      <4> QED
        BY <1>10, <1>14, <3>1, <4>1, <4>2
    <3> QED
      BY <3>2, <3>3
  <2> QED
    BY <1>1, <2>1 DEF Awaiting, Open, ScopeRef, FiberRef, LiveIn
<1>21. Bodies'
  <2> SUFFICES ASSUME NEW t \in Sid, Open(t)', NEW b, b = scopes'[t].body
               PROVE  /\ Owned(b, t, t)'
                      /\ scopes'[t].bd_kind = "none" => fibers'[b].alive
    BY DEF Bodies, Owned
  <2>1. CASE t = s
    <3>1. b = f
      BY <1>10, <2>1
    <3> QED
      BY <1>9, <1>13, <2>1, <3>1 DEF Owned
  <2>2. CASE t # s
    <3>1. /\ Open(t) /\ b = scopes[t].body /\ scopes'[t].bd_kind = scopes[t].bd_kind
      BY <1>10, <1>14, <2>2
    <3>2. starting # ScopeRef(t)
      BY <1>3, <2>2 DEF ScopeRef, Ref
    <3>3. b \in Fid /\ Owned(b, t, t)
      BY <1>0, <3>1, <3>2, ScopeFields DEF Bodies
    <3>4. b # f /\ Owned(b, t, t)'
      BY <1>13, <3>3
    <3>5. scopes[t].bd_kind = "none" => fibers[b].alive
      BY <1>1, <3>1, <3>2, IdleTree
    <3> QED
      BY <1>11, <3>1, <3>3, <3>4, <3>5 DEF SameFiber
  <2> QED
    BY <2>1, <2>2
<1>22. s # NO_SCOPE
  BY DEF Sid, NO_SCOPE
<1>23. Kids'
  <2> SUFFICES ASSUME NEW t \in Sid, Open(t)', NEW kids, kids = scopes'[t].children
               PROVE  /\ \A g \in Fid : LiveIn(g, t)' /\ fibers'[g].runs_scope = NO_SCOPE =>
                           \E i \in DOMAIN kids : kids[i].id = g
                      /\ ~scopes'[t].manual =>
                           /\ scopes'[t].next_waiters = <<>>
                           /\ \A i, j \in DOMAIN kids : kids[i].id = kids[j].id => i = j
                           /\ \A i \in DOMAIN kids : Owned(kids[i].id, t, NO_SCOPE)'
    BY KidsAre
  <2>1. /\ Open(t) /\ kids = scopes[t].children /\ scopes'[t].manual = scopes[t].manual
        /\ scopes'[t].next_waiters = scopes[t].next_waiters
    BY <1>10, <1>14
  <2>2. kids \in Seq(FidRef)
    BY <1>0, <2>1, ScopeFields
  <2>3. \A i \in DOMAIN kids : kids[i].id \in Fid
    <3>1. \A i \in DOMAIN kids : kids[i] \in FidRef
      BY <2>2, LenProperties, ElementOfSeq
    <3> QED
      BY <3>1 DEF FidRef
  <2>4. /\ \A g \in Fid : LiveIn(g, t) /\ fibers[g].runs_scope = NO_SCOPE =>
             \E i \in DOMAIN kids : kids[i].id = g
        /\ ~scopes[t].manual =>
             /\ scopes[t].next_waiters = <<>>
             /\ \A i, j \in DOMAIN kids : kids[i].id = kids[j].id => i = j
             /\ \A i \in DOMAIN kids : Owned(kids[i].id, t, NO_SCOPE)
    BY <1>0, <2>1 DEF Kids
  <2>5. ASSUME NEW g \in Fid, LiveIn(g, t)', fibers'[g].runs_scope = NO_SCOPE
        PROVE  \E i \in DOMAIN kids : kids[i].id = g
    <3>1. g # f
      BY <1>9, <1>22, <2>5
    <3>2. LiveIn(g, t) /\ fibers[g].runs_scope = NO_SCOPE
      BY <1>11, <1>14, <2>5, <3>1 DEF SameFiber
    <3> QED
      BY <2>4, <3>2
  <2>6. ~scopes[t].manual => \A i \in DOMAIN kids : Owned(kids[i].id, t, NO_SCOPE)'
    BY <1>13, <2>3, <2>4
  <2> QED
    BY <2>1, <2>4, <2>5, <2>6
<1>24. LiveCount'
  <2> SUFFICES ASSUME NEW t \in Sid \ {ROOT_SCOPE}
               PROVE  scopes'[t].live = Cardinality(Live(t)')
    BY CountsAre
  <2>1. ~IsChild(f, t)'
    BY <1>9, <1>22 DEF IsChild
  <2>2. \A g \in Fid : (fibers'[g].alive /\ IsChild(g, t)') <=> (fibers[g].alive /\ IsChild(g, t))
    BY <1>11, <1>13, <1>14, <2>1 DEF SameFiber
  <2> QED
    BY <1>0, <1>10, <2>2, CountKept
<1>25. NoRoot'
  <2>1. NoRoot /\ ROOT_SCOPE \in Sid
    BY RootSpared
  <2>2. \A k \in Up(s) : k.id # ROOT_SCOPE
    BY <1>4, UpOpen DEF Open
  <2> QED
    BY <1>1, <1>10, <1>11, <1>16, <2>1, <2>2 DEF NoRoot, SameFiber
<1>26. \A t \in Sid : Open(t)' => ~Ending(t)'
  BY <1>1, <1>10, <1>14, IdleTree DEF Ending
<1>27. Cancelling' /\ Calls' /\ Order'
  BY <1>1, <1>25, <1>26, IdleCalls
<1> QED
  BY <1>15, <1>17, <1>18, <1>19, <1>20, <1>21, <1>23, <1>24, <1>27 DEF TreeInv

\* The first half of start_scope: a row of the scope table is handed out.
LEMMA TreeStartScope ==
  ASSUME ScopeInv, Disciplined, NEW manual, StartScope(manual)
  PROVE  TreeInv'
<1>0. /\ Typed /\ FiberRows /\ Nesting /\ Awaiting /\ Awaited /\ Bodies /\ Kids /\ FreeRows
      /\ LiveCount /\ fibers \in [Fid -> FiberOK] /\ scopes \in [Sid -> Scope]
  BY InvParts
<1>1. /\ Pumping /\ starting = None /\ work = <<>>
      /\ UNCHANGED <<fibers, nfibers, free_fibers, timers, pending, work, current>>
  BY DEF StartScope, CanSuspend, Pumping, queues
<1>2. PICK c \in Fid : c = current /\ fibers[c].alive /\ fibers[c].wait_kind = "none"
  BY <1>1, Pumped DEF Pumping
<1>3. PICK s : s = Slot(free_scopes, nscopes)
  OBVIOUS
<1>4. /\ s \in Sid /\ s # ROOT_SCOPE /\ scopes[s].finalized
      /\ nscopes' > 0 /\ \A k \in Sid : k >= nscopes' => k >= nscopes /\ k # s
      /\ IsInjective(free_scopes')
      /\ \A i \in DOMAIN free_scopes' : /\ i \in DOMAIN free_scopes
                                        /\ free_scopes'[i] = free_scopes[i] /\ free_scopes'[i] # s
  BY <1>0, <1>3, ScopeSlot DEF StartScope
<1>5. Started(s, manual, c) /\ starting' = Ref(s, scopes[s].gen + 1)
  BY <1>0, <1>2, <1>3, <1>4, StartScopeDelta
<1>6. /\ \A t \in Sid \ {s} : scopes'[t] = scopes[t]
      /\ ~scopes'[s].cancelled /\ ~scopes'[s].finalized
      /\ scopes'[s].children = <<>> /\ scopes'[s].awaiter = FiberRef(c)
      /\ scopes'[s].bd_kind = "none" /\ scopes'[s].next_waiters = <<>> /\ scopes'[s].live = 0
      /\ scopes'[s].enclosing = fibers[c].knows /\ scopes'[s].gen = scopes[s].gen + 1
  BY <1>5 DEF Started
<1>7. /\ ~Open(s) /\ Open(s)' /\ starting' = ScopeRef(s)'
      /\ \A t \in Sid \ {s} : Open(t)' = Open(t) /\ ScopeRef(t)' = ScopeRef(t) /\ Up(t)' = Up(t)
      /\ \A g \in Fid : FiberRef(g)' = FiberRef(g)
      /\ \A g \in Fid, t \in Sid : LiveIn(g, t)' = LiveIn(g, t) /\ IsChild(g, t)' = IsChild(g, t)
      /\ \A g, t, r : Owned(g, t, r)' = Owned(g, t, r)
  <2>1. ~Open(s) /\ Open(s)' /\ starting' = ScopeRef(s)'
    BY <1>4, <1>5, <1>6 DEF Open, ScopeRef
  <2>2. \A t \in Sid \ {s} : Open(t)' = Open(t) /\ ScopeRef(t)' = ScopeRef(t)
    BY <1>6 DEF Open, ScopeRef
  <2>3. \A t \in Sid \ {s} : Up(t)' = Up(t)
    BY <1>6, <2>2 DEF Up
  <2>4. /\ \A g \in Fid : FiberRef(g)' = FiberRef(g)
        /\ \A g \in Fid, t \in Sid : LiveIn(g, t)' = LiveIn(g, t) /\ IsChild(g, t)' = IsChild(g, t)
        /\ \A g, t, r : Owned(g, t, r)' = Owned(g, t, r)
    BY <1>1 DEF FiberRef, LiveIn, IsChild, Owned
  <2> QED
    BY <2>1, <2>2, <2>3, <2>4
<1>8. \A g \in Fid : g # Root /\ fibers[g].alive => fibers[g].scope # s
  BY <1>0, <1>7 DEF FiberRows
<1>9. \A g \in Fid : ~LiveIn(g, s)
  BY <1>8 DEF LiveIn
<1>10. \A h \in fibers[c].knows : /\ h.id \in Sid /\ Open(h.id) /\ h.id # s /\ h = ScopeRef(h.id)
                                  /\ h.id # ROOT_SCOPE
  <2>1. \A h \in fibers[c].knows : h.id \in Sid /\ Open(h.id) /\ h = ScopeRef(h.id)
    BY <1>2, KnownOpen
  <2> QED
    BY <1>7, <2>1 DEF Open
<1>11. FiberRows'
  <2>1. /\ fibers'[Root].knows = {} /\ fibers'[Root].scope = ROOT_SCOPE
        /\ fibers'[Root].runs_scope = NO_SCOPE
    BY <1>0, <1>1 DEF FiberRows
  <2>2. ASSUME NEW g \in Fid \ {Root}, fibers'[g].alive, NEW t, t = fibers'[g].scope
        PROVE  /\ Open(t)' /\ fibers'[g].knows = Up(t)'
               /\ fibers'[g].runs_scope # NO_SCOPE =>
                    /\ fibers'[g].runs_scope = t /\ scopes'[t].body = g
                    /\ scopes'[t].bd_kind = "none"
    <3>1. t \in Sid \ {s} /\ t = fibers[g].scope /\ fibers[g].alive
      BY <1>0, <1>1, <1>8, <2>2, FiberFields
    <3>2. /\ Open(t) /\ fibers[g].knows = Up(t)
          /\ fibers[g].runs_scope # NO_SCOPE =>
               fibers[g].runs_scope = t /\ scopes[t].body = g /\ scopes[t].bd_kind = "none"
      BY <1>0, <3>1 DEF FiberRows
    <3> QED
      BY <1>1, <1>6, <1>7, <3>1, <3>2
  <2> QED
    BY <2>1, <2>2 DEF FiberRows, Open, Up, ScopeRef
<1>12. Nesting'
  <2> SUFFICES ASSUME NEW t \in Sid, Open(t)'
               PROVE  /\ (ScopeRef(t) \notin scopes[t].enclosing)'
                      /\ \A h \in scopes'[t].enclosing : NestedIn(t, h)'
    BY DEF Nesting
  <2>1. CASE t # s
    <3>1. Open(t) /\ scopes'[t] = scopes[t] /\ ScopeRef(t)' = ScopeRef(t) /\ Up(t)' = Up(t)
      BY <1>6, <1>7, <2>1
    <3>2. ScopeRef(t) \notin scopes[t].enclosing
      BY <1>0, <3>1 DEF Nesting
    <3>3. ASSUME NEW h \in scopes'[t].enclosing
          PROVE  NestedIn(t, h)'
      <4>1. h \in scopes[t].enclosing /\ h \in Up(t)
        BY <3>1, <3>3 DEF Up
      <4>2. h.id \in Sid \ {s} /\ Open(h.id) /\ h = ScopeRef(h.id)
        BY <1>7, <3>1, <4>1, UpOpen
      <4>3. scopes[h.id].enclosing \subseteq scopes[t].enclosing
        BY <3>1, <4>1, UpOpen
      <4>4. PICK k \in Up(t) : scopes[k.id].enclosing = Up(h.id)
        BY <1>0, <3>1, <4>1 DEF Nesting, NestedIn
      <4>5. k.id \in Sid \ {s}
        BY <1>7, <3>1, UpOpen
      <4> QED
        BY <1>6, <1>7, <3>1, <4>2, <4>3, <4>4, <4>5 DEF NestedIn
    <3> QED
      BY <3>1, <3>2, <3>3
  <2>2. CASE t = s
    <3>1. ScopeRef(s)'.id = s
      BY DEF ScopeRef, Ref
    <3>2. (ScopeRef(s) \notin scopes[s].enclosing)'
      BY <1>6, <1>10, <3>1
    <3>3. ASSUME NEW h \in scopes'[s].enclosing
          PROVE  NestedIn(s, h)'
      <4>1. h \in fibers[c].knows
        BY <1>6, <3>3
      <4>2. PICK u \in Sid : u = fibers[c].scope /\ Open(u) /\ fibers[c].knows = Up(u)
        BY <1>2, <4>1, KnownOpen
      <4>3. u # s /\ h \in Up(u) /\ scopes'[s].enclosing = Up(u)
        BY <1>6, <1>7, <4>1, <4>2
      <4>4. h.id \in Sid \ {s} /\ Open(h.id) /\ h = ScopeRef(h.id)
        BY <1>10, <4>1
      <4>5. scopes[h.id].enclosing \subseteq Up(u)
        BY <4>2, <4>3, UpOpen DEF Up
      <4>6. \E k \in Up(s)' : scopes'[k.id].enclosing = Up(h.id)
        <5>1. CASE h = ScopeRef(u)
          <6>1. ScopeRef(s)' \in Up(s)'
            BY DEF Up
          <6>2. h.id = u
            BY <5>1 DEF ScopeRef, Ref
          <6> QED
            BY <3>1, <4>3, <6>1, <6>2
        <5>2. CASE h \in scopes[u].enclosing
          <6>1. PICK k \in Up(u) : scopes[k.id].enclosing = Up(h.id)
            BY <1>0, <4>2, <5>2 DEF Nesting, NestedIn
          <6>2. k.id \in Sid \ {s}
            BY <1>7, <4>2, UpOpen
          <6>3. k \in Up(s)'
            BY <4>3 DEF Up
          <6> QED
            BY <1>6, <6>1, <6>2, <6>3
        <5> QED
          BY <4>3, <5>1, <5>2 DEF Up
      <4> QED
        BY <1>6, <1>7, <4>3, <4>4, <4>5, <4>6 DEF NestedIn
    <3> QED
      BY <2>2, <3>2, <3>3
  <2> QED
    BY <2>1, <2>2
<1>13. Awaited'
  <2> SUFFICES ASSUME NEW t \in Sid, Open(t)', NEW a, a = scopes'[t].awaiter
               PROVE  a # None /\ fibers'[a.id].alive /\ Awaits(a, t)'
    BY DEF Awaited, Awaits, Waits, ScopeRef
  <2>1. CASE t = s
    <3>1. a = FiberRef(c) /\ a.id = c
      BY <1>6, <2>1 DEF FiberRef, Ref
    <3>2. a # None
      BY <3>1 DEF None, Fid
    <3>3. Waits(c, s)'
      BY <1>1, <1>2, <1>7 DEF Waits
    <3>4. Awaits(a, s)'
      BY <1>1, <1>6, <1>7, <3>1, <3>3 DEF Awaits
    <3> QED
      BY <1>1, <1>2, <2>1, <3>1, <3>2, <3>4
  <2>2. CASE t # s
    <3>1. Open(t) /\ a = scopes[t].awaiter /\ scopes'[t].enclosing = scopes[t].enclosing
      BY <1>6, <1>7, <2>2
    <3>2. a \in FidRef /\ a.id \in Fid /\ fibers[a.id].alive /\ Awaits(a, t)
      BY <1>1, <3>1, IdleTree
    <3>3. PICK g \in Fid : g = a.id
      BY <3>2
    <3>4. a # None
      BY <3>2 DEF None, Fid
    <3>5. ScopeRef(t) # None
      BY DEF ScopeRef, Ref, None, Sid
    <3>6. fibers[g].wait_kind = "scope" /\ fibers[g].wait_arg = ScopeRef(t)
      BY <1>1, <3>2, <3>3, <3>5 DEF Awaits, Waits
    <3>7. Waits(g, t)'
      BY <1>1, <1>7, <2>2, <3>6 DEF Waits
    <3>8. Awaits(a, t)'
      BY <1>1, <1>7, <3>1, <3>2, <3>3, <3>7 DEF Awaits
    <3> QED
      BY <1>1, <3>2, <3>4, <3>8
  <2> QED
    BY <2>1, <2>2
<1>14. Awaiting'
  <2>1. ASSUME NEW g \in Fid, fibers'[g].alive, fibers'[g].wait_kind = "scope",
               NEW t, t = fibers'[g].wait_arg.id
        PROVE  Open(t)' /\ fibers'[g].wait_arg = ScopeRef(t)' /\ scopes'[t].awaiter = FiberRef(g)'
    <3>1. /\ t \in Sid /\ Open(t) /\ fibers[g].wait_arg = ScopeRef(t)
          /\ scopes[t].awaiter = FiberRef(g)
      BY <1>1, <2>1, ScopeWait
    <3>2. t # s
      BY <1>7, <3>1
    <3> QED
      BY <1>1, <1>6, <1>7, <3>1, <3>2
  <2>2. ASSUME NEW t, t = starting'.id
        PROVE  /\ current' # NoFiber /\ Open(t)' /\ starting' = ScopeRef(t)'
               /\ scopes'[t].awaiter = FiberRef(current)' /\ scopes'[t].bd_kind = "none"
               /\ \A g \in Fid : LiveIn(g, t)' => fibers'[g].runs_scope = NO_SCOPE
    <3>1. t = s
      BY <1>5, <2>2 DEF Ref
    <3>2. FiberRef(current)' = FiberRef(c)
      BY <1>1, <1>2 DEF FiberRef
    <3>3. current' # NoFiber
      BY <1>1 DEF Pumping
    <3> QED
      BY <1>4, <1>6, <1>7, <1>9, <3>1, <3>2, <3>3
  <2>3. fibers'[current'].wait_kind = "none"
    BY <1>1, <1>2
  <2> QED
    BY <2>1, <2>2, <2>3 DEF Awaiting, Open, ScopeRef, FiberRef, LiveIn
<1>15. Bodies'
  <2> SUFFICES ASSUME NEW t \in Sid, Open(t)', starting' # ScopeRef(t)', NEW b, b = scopes'[t].body
               PROVE  /\ Owned(b, t, t)'
                      /\ scopes'[t].bd_kind = "none" => fibers'[b].alive
    BY DEF Bodies, Owned
  <2>1. t # s
    BY <1>7
  <2>2. /\ Open(t) /\ b = scopes[t].body /\ scopes'[t].bd_kind = scopes[t].bd_kind
    BY <1>6, <1>7, <2>1
  <2>3. starting # ScopeRef(t)
    BY <1>1 DEF ScopeRef, Ref, None, Sid
  <2>4. Owned(b, t, t)
    BY <1>0, <2>2, <2>3 DEF Bodies
  <2>5. scopes[t].bd_kind = "none" => fibers[b].alive
    BY <1>1, <2>2, <2>3, IdleTree
  <2> QED
    BY <1>1, <1>7, <2>2, <2>4, <2>5
<1>16. Kids'
  <2> SUFFICES ASSUME NEW t \in Sid, Open(t)', NEW kids, kids = scopes'[t].children
               PROVE  /\ \A g \in Fid : LiveIn(g, t)' /\ fibers'[g].runs_scope = NO_SCOPE =>
                           \E i \in DOMAIN kids : kids[i].id = g
                      /\ ~scopes'[t].manual =>
                           /\ scopes'[t].next_waiters = <<>>
                           /\ \A i, j \in DOMAIN kids : kids[i].id = kids[j].id => i = j
                           /\ \A i \in DOMAIN kids : Owned(kids[i].id, t, NO_SCOPE)'
    BY KidsAre
  <2>1. CASE t = s
    <3>1. kids = <<>> /\ scopes'[t].next_waiters = <<>>
      BY <1>6, <2>1
    <3>2. DOMAIN kids = {}
      BY <3>1
    <3>3. \A g \in Fid : ~LiveIn(g, t)'
      BY <1>7, <1>9, <2>1
    <3> QED
      BY <3>1, <3>2, <3>3
  <2>2. CASE t # s
    <3>1. Open(t) /\ scopes'[t] = scopes[t] /\ kids = scopes[t].children
      BY <1>6, <1>7, <2>2
    <3>2. /\ \A g \in Fid : LiveIn(g, t) /\ fibers[g].runs_scope = NO_SCOPE =>
               \E i \in DOMAIN kids : kids[i].id = g
          /\ ~scopes[t].manual =>
               /\ scopes[t].next_waiters = <<>>
               /\ \A i, j \in DOMAIN kids : kids[i].id = kids[j].id => i = j
               /\ \A i \in DOMAIN kids : Owned(kids[i].id, t, NO_SCOPE)
      BY <1>0, <3>1 DEF Kids
    <3>3. ~scopes[t].manual => \A i \in DOMAIN kids : Owned(kids[i].id, t, NO_SCOPE)'
      BY <1>7, <3>2
    <3> QED
      BY <1>1, <1>7, <3>1, <3>2, <3>3
  <2> QED
    BY <2>1, <2>2
<1>17. FreeRows'
  <2>1. \A i \in DOMAIN free_scopes : free_scopes[i] \in Sid
    BY <1>0, LenProperties, ElementOfSeq DEF Typed, TablesOK
  <2>2. ASSUME NEW i \in DOMAIN free_scopes'
        PROVE  /\ free_scopes'[i] # ROOT_SCOPE /\ free_scopes'[i] < nscopes'
               /\ scopes'[free_scopes'[i]].finalized
    <3>1. PICK t \in Sid : t = free_scopes'[i] /\ t = free_scopes[i] /\ t # s
      BY <1>4, <2>1, <2>2
    <3>2. i \in DOMAIN free_scopes
      BY <1>4, <2>2
    <3>3. t # ROOT_SCOPE /\ t < nscopes /\ scopes[t].finalized
      BY <1>0, <3>1, <3>2 DEF FreeRows
    <3>4. nscopes \in Nat /\ nscopes' \in Nat /\ t \in Nat /\ nscopes <= nscopes'
      <4>1. nscopes \in 0..MaxScopes /\ MaxScopes \in Nat
        BY <1>0, SchedulerAssumption DEF Typed, TablesOK
      <4>2. nscopes' = LenAfter(free_scopes, nscopes)
        BY DEF StartScope
      <4> QED
        BY <4>1, <4>2 DEF LenAfter, Sid
    <3>5. t < nscopes'
      BY <3>3, <3>4
    <3> QED
      BY <1>6, <3>1, <3>3, <3>5
  <2>3. \A t \in Sid : t >= nscopes' => scopes'[t].finalized
    BY <1>0, <1>4, <1>6 DEF FreeRows
  <2>4. /\ IsInjective(free_fibers') /\ nfibers' > 0
        /\ \A i \in DOMAIN free_fibers' :
             free_fibers'[i] # Root /\ free_fibers'[i] < nfibers' /\ ~fibers'[free_fibers'[i]].alive
        /\ \A f \in Fid : f >= nfibers' => ~fibers'[f].alive
    BY <1>0, <1>1 DEF FreeRows
  <2> QED
    BY <1>4, <2>2, <2>3, <2>4 DEF FreeRows
<1>18. LiveCount'
  <2> SUFFICES ASSUME NEW t \in Sid \ {ROOT_SCOPE}
               PROVE  scopes'[t].live = Cardinality(Live(t)')
    BY CountsAre
  <2>1. CASE t = s
    <3>1. \A g \in Fid : ~(fibers'[g].alive /\ IsChild(g, t)')
      BY <1>1, <1>7, <1>8, <2>1 DEF IsChild
    <3>2. Live(t)' = {}
      BY <3>1 DEF Live
    <3> QED
      BY <1>6, <2>1, <3>2, FS_EmptySet
  <2>2. CASE t # s
    BY <1>0, <1>1, <1>6, <1>7, <2>2, CountKept
  <2> QED
    BY <2>1, <2>2
<1>19. NoRoot'
  <2>1. NoRoot /\ ROOT_SCOPE \in Sid
    BY RootSpared
  <2> QED
    BY <1>1, <1>4, <1>6, <2>1 DEF NoRoot
<1>20. \A t \in Sid : Open(t)' => ~Ending(t)'
  BY <1>1, <1>6, <1>7, IdleTree DEF Ending
<1>21. Cancelling' /\ Calls' /\ Order'
  BY <1>1, <1>19, <1>20, IdleCalls
<1> QED
  BY <1>11, <1>12, <1>13, <1>14, <1>15, <1>16, <1>17, <1>18, <1>21 DEF TreeInv

-----------------------------------------------------------------------------
(* A fiber ends: it completes or is reaped. *)

\* Of its scope, the count of live children and the outcome of the body may change; its
\* row is recycled at once only if it is a child of a manual scope.
SameSpot(s) ==
  /\ scopes'[s].manual = scopes[s].manual /\ scopes'[s].finalized = scopes[s].finalized
  /\ scopes'[s].cancelled = scopes[s].cancelled /\ scopes'[s].body = scopes[s].body
  /\ scopes'[s].awaiter = scopes[s].awaiter /\ scopes'[s].enclosing = scopes[s].enclosing
  /\ scopes'[s].gen = scopes[s].gen /\ scopes'[s].children = scopes[s].children
FiberEnds(f) ==
  /\ fibers[f].alive /\ Ended(f)
  /\ \A s \in Sid : /\ SameSpot(s)
                    /\ ~scopes[s].manual => scopes'[s].next_waiters = scopes[s].next_waiters
                    /\ \/ scopes'[s].bd_kind = scopes[s].bd_kind
                       \/ scopes[s].body = f /\ scopes'[s].bd_kind # "none"
  /\ starting = None /\ starting' = None /\ current' = NoFiber
  /\ UNCHANGED <<nfibers, nscopes, free_scopes>>
  /\ \/ free_fibers' = free_fibers
     \/ /\ free_fibers' = Append(free_fibers, f) /\ f # Root
        /\ fibers[f].runs_scope = NO_SCOPE /\ scopes[fibers[f].scope].manual

\* The rows mean what they meant, and those that a scope owns stay with it.
LEMMA EndMeaning ==
  ASSUME ScopeInv, NEW f \in Fid, FiberEnds(f)
  PROVE  /\ \A s \in Sid : /\ Open(s)' = Open(s) /\ ScopeRef(s)' = ScopeRef(s) /\ Up(s)' = Up(s)
         /\ \A g \in Fid : SameFiber(g) \/ g = f
         /\ \A g \in Fid : FiberRef(g)' = FiberRef(g) /\ fibers'[g].knows = fibers[g].knows
                           /\ fibers'[g].scope = fibers[g].scope
                           /\ fibers'[g].runs_scope = fibers[g].runs_scope
                           /\ (fibers'[g].alive <=> fibers[g].alive /\ g # f)
         /\ \A g \in Fid, s \in Sid : /\ LiveIn(g, s)' <=> LiveIn(g, s) /\ g # f
                                      /\ IsChild(g, s)' <=> IsChild(g, s)
<1>1. \A s \in Sid : SameSpot(s)
  BY DEF FiberEnds
<1>2. \A s \in Sid : Open(s)' = Open(s) /\ ScopeRef(s)' = ScopeRef(s)
  BY <1>1 DEF Open, ScopeRef, SameSpot
<1>3. \A s \in Sid : Up(s)' = Up(s)
  BY <1>1, <1>2 DEF Up, SameSpot
<1>4. \A g \in Fid : /\ SameFiber(g) \/ g = f
                     /\ fibers'[g].knows = fibers[g].knows /\ fibers'[g].scope = fibers[g].scope
                     /\ fibers'[g].runs_scope = fibers[g].runs_scope
                     /\ fibers'[g].gen = fibers[g].gen
                     /\ (fibers'[g].alive <=> fibers[g].alive /\ g # f)
  BY DEF FiberEnds, Ended, SameFiber
<1>5. \A g \in Fid : FiberRef(g)' = FiberRef(g)
  BY <1>4 DEF FiberRef
<1>6. \A g \in Fid, s \in Sid : /\ LiveIn(g, s)' <=> LiveIn(g, s) /\ g # f
                                /\ IsChild(g, s)' <=> IsChild(g, s)
  BY <1>4 DEF LiveIn, IsChild
<1> QED
  BY <1>2, <1>3, <1>4, <1>5, <1>6

\* The fibers that live on stay in their scopes, which keep their places.
LEMMA EndRows ==
  ASSUME ScopeInv, NEW f \in Fid, FiberEnds(f)
  PROVE  FiberRows' /\ Nesting' /\ Awaiting'
<1>0. FiberRows /\ fibers \in [Fid -> FiberOK]
  BY InvParts
<1>1. /\ \A s \in Sid : Open(s)' = Open(s) /\ ScopeRef(s)' = ScopeRef(s) /\ Up(s)' = Up(s)
      /\ \A g \in Fid : FiberRef(g)' = FiberRef(g) /\ fibers'[g].knows = fibers[g].knows
                        /\ fibers'[g].scope = fibers[g].scope
                        /\ fibers'[g].runs_scope = fibers[g].runs_scope
                        /\ (fibers'[g].alive <=> fibers[g].alive /\ g # f)
  BY EndMeaning
<1>2. \A s \in Sid : /\ SameSpot(s)
                     /\ scopes'[s].bd_kind = scopes[s].bd_kind \/ scopes[s].body = f
  BY DEF FiberEnds
<1>3. FiberRows'
  <2>1. /\ fibers'[Root].knows = {} /\ fibers'[Root].scope = ROOT_SCOPE
        /\ fibers'[Root].runs_scope = NO_SCOPE
    BY <1>0, <1>1, SchedulerAssumption, SMTT(30) DEF FiberRows, Fid, Root
  <2>2. ASSUME NEW g \in Fid \ {Root}, fibers'[g].alive, NEW t, t = fibers'[g].scope
        PROVE  /\ Open(t)' /\ fibers'[g].knows = Up(t)'
               /\ fibers'[g].runs_scope # NO_SCOPE =>
                    /\ fibers'[g].runs_scope = t /\ scopes'[t].body = g
                    /\ scopes'[t].bd_kind = "none"
    <3>1. fibers[g].alive /\ g # f /\ t = fibers[g].scope
      BY <1>1, <2>2
    <3>2. t \in Sid
      BY <1>0, <3>1, FiberFields
    <3>3. /\ Open(t) /\ fibers[g].knows = Up(t)
          /\ fibers[g].runs_scope # NO_SCOPE =>
               fibers[g].runs_scope = t /\ scopes[t].body = g /\ scopes[t].bd_kind = "none"
      BY <1>0, <3>1 DEF FiberRows
    <3> QED
      BY <1>1, <1>2, <3>1, <3>2, <3>3 DEF SameSpot
  <2> QED
    BY <2>1, <2>2 DEF FiberRows, Open, Up, ScopeRef
<1>4. Nesting'
  BY <1>1, <1>2, NestingStays DEF SameSpot
<1>5. Awaiting'
  <2>1. ASSUME NEW g \in Fid, fibers'[g].alive, fibers'[g].wait_kind = "scope",
               NEW t, t = fibers'[g].wait_arg.id
        PROVE  Open(t)' /\ fibers'[g].wait_arg = ScopeRef(t)' /\ scopes'[t].awaiter = FiberRef(g)'
    <3>1. g # f /\ fibers[g].alive
      BY <1>1, <2>1
    <3>2. fibers'[g] = fibers[g]
      BY <3>1 DEF FiberEnds, Ended
    <3>3. /\ t \in Sid /\ Open(t) /\ fibers[g].wait_arg = ScopeRef(t)
          /\ scopes[t].awaiter = FiberRef(g)
      BY <2>1, <3>1, <3>2, ScopeWait
    <3> QED
      BY <1>1, <1>2, <3>2, <3>3 DEF SameSpot
  <2>2. starting' = None /\ current' = NoFiber
    BY DEF FiberEnds
  <2> QED
    BY <2>1, <2>2 DEF Awaiting, Open, ScopeRef, FiberRef, LiveIn
<1> QED
  BY <1>3, <1>4, <1>5

\* The scopes that the fiber awaits are about to be cancelled; the others are awaited.
LEMMA EndAwaited ==
  ASSUME ScopeInv, NEW f \in Fid, FiberEnds(f), current # f => current = NoFiber,
         \A s \in Sid : Open(s) /\ InWork(Do("cancel_scope", s, s)) =>
           InWork(Do("cancel_scope", s, s))',
         \A s \in Sid : Open(s) /\ scopes[s].awaiter.id = f => InWork(Do("cancel_scope", s, s))'
  PROVE  Awaited'
<1>0. Typed /\ Awaited /\ scopes \in [Sid -> Scope]
  BY InvParts
<1>1. /\ \A s \in Sid : Open(s)' = Open(s) /\ ScopeRef(s)' = ScopeRef(s)
      /\ \A g \in Fid : FiberRef(g)' = FiberRef(g) /\ fibers'[g].knows = fibers[g].knows
                        /\ (fibers'[g].alive <=> fibers[g].alive /\ g # f)
  BY EndMeaning
<1> SUFFICES ASSUME NEW s \in Sid, Open(s)', NEW a, a = scopes'[s].awaiter
             PROVE  /\ a # None /\ (fibers'[a.id].alive => Awaits(a, s)')
                    /\ ~fibers'[a.id].alive =>
                         scopes'[s].cancelled \/ InWork(Do("cancel_scope", s, s))'
  BY DEF Awaited, Awaits, Waits, ScopeRef
<1>2. SameSpot(s)
  BY DEF FiberEnds
<1>3. /\ Open(s) /\ a = scopes[s].awaiter /\ scopes'[s].enclosing = scopes[s].enclosing
      /\ scopes'[s].cancelled = scopes[s].cancelled
  BY <1>1, <1>2 DEF SameSpot
<1>4. a # None /\ a \in FidRef
  BY <1>0, <1>3, ScopeFields DEF Awaited
<1>5. PICK g \in Fid : g = a.id
  BY <1>4 DEF FidRef
<1>6. CASE fibers[g].alive /\ g # f
  <2>1. Awaits(a, s)
    BY <1>0, <1>3, <1>5, <1>6 DEF Awaited
  <2>2. starting # ScopeRef(s)
    BY DEF FiberEnds, ScopeRef, Ref, None, Sid
  <2>3. fibers[g].wait_kind = "scope" /\ fibers[g].wait_arg = ScopeRef(s)
    BY <1>5, <2>1, <2>2 DEF Awaits, Waits
  <2>4. fibers'[g] = fibers[g]
    BY <1>6 DEF FiberEnds, Ended
  <2>5. Waits(g, s)'
    BY <1>1, <2>3, <2>4 DEF Waits
  <2>6. Awaits(a, s)'
    BY <1>1, <1>3, <1>5, <2>1, <2>5 DEF Awaits
  <2> QED
    BY <1>1, <1>4, <1>5, <1>6, <2>6
<1>7. CASE g = f
  BY <1>1, <1>3, <1>4, <1>5, <1>7
<1>8. CASE ~fibers[g].alive
  <2>1. scopes[s].cancelled \/ InWork(Do("cancel_scope", s, s))
    BY <1>0, <1>3, <1>5, <1>8 DEF Awaited
  <2> QED
    BY <1>1, <1>3, <1>4, <1>5, <1>8, <2>1
<1> QED
  BY <1>6, <1>7, <1>8

\* The rows that a scope owns stay with it.
LEMMA EndOwned ==
  ASSUME ScopeInv, NEW f \in Fid, FiberEnds(f)
  PROVE  \A g \in Fid, s \in Sid : \A r :
           Owned(g, s, r) /\ (r # NO_SCOPE \/ ~scopes[s].manual) => Owned(g, s, r)'
<1> SUFFICES ASSUME NEW g \in Fid, NEW s \in Sid, NEW r, Owned(g, s, r),
                    r # NO_SCOPE \/ ~scopes[s].manual
             PROVE  Owned(g, s, r)'
  OBVIOUS
<1>1. /\ fibers'[g].scope = fibers[g].scope /\ fibers'[g].runs_scope = fibers[g].runs_scope
      /\ nfibers' = nfibers
  BY EndMeaning DEF FiberEnds
<1>2. \A i \in DOMAIN free_fibers' : free_fibers'[i] # g
  <2>1. CASE free_fibers' = free_fibers
    BY <2>1 DEF Owned
  <2>2. CASE /\ free_fibers' = Append(free_fibers, f)
             /\ fibers[f].runs_scope = NO_SCOPE /\ scopes[fibers[f].scope].manual
    <3>1. free_fibers \in Seq(Fid)
      BY InvParts DEF Typed, TablesOK
    <3>2. \A i \in DOMAIN free_fibers' : \/ i \in DOMAIN free_fibers /\ free_fibers'[i] = free_fibers[i]
                                         \/ free_fibers'[i] = f
      BY <2>2, <3>1, Appended
    <3>3. g # f
      BY <2>2 DEF Owned
    <3> QED
      BY <3>2, <3>3 DEF Owned
  <2> QED
    BY <2>1, <2>2 DEF FiberEnds
<1> QED
  BY <1>1, <1>2 DEF Owned

\* The lists of children stay right.
LEMMA EndKids ==
  ASSUME ScopeInv, NEW f \in Fid, FiberEnds(f)
  PROVE  Kids'
<1>0. Kids /\ scopes \in [Sid -> Scope]
  BY InvParts
<1> SUFFICES ASSUME NEW s \in Sid, Open(s)', NEW kids, kids = scopes'[s].children
             PROVE  /\ \A g \in Fid : LiveIn(g, s)' /\ fibers'[g].runs_scope = NO_SCOPE =>
                         \E i \in DOMAIN kids : kids[i].id = g
                    /\ ~scopes'[s].manual =>
                         /\ scopes'[s].next_waiters = <<>>
                         /\ \A i, j \in DOMAIN kids : kids[i].id = kids[j].id => i = j
                         /\ \A i \in DOMAIN kids : Owned(kids[i].id, s, NO_SCOPE)'
  BY KidsAre
<1>1. /\ Open(s) /\ kids = scopes[s].children /\ scopes'[s].manual = scopes[s].manual
      /\ ~scopes[s].manual => scopes'[s].next_waiters = scopes[s].next_waiters
  BY EndMeaning DEF FiberEnds, SameSpot
<1>2. /\ \A g \in Fid : LiveIn(g, s) /\ fibers[g].runs_scope = NO_SCOPE =>
           \E i \in DOMAIN kids : kids[i].id = g
      /\ ~scopes[s].manual =>
           /\ scopes[s].next_waiters = <<>>
           /\ \A i, j \in DOMAIN kids : kids[i].id = kids[j].id => i = j
           /\ \A i \in DOMAIN kids : Owned(kids[i].id, s, NO_SCOPE)
  BY <1>0, <1>1 DEF Kids
<1>3. \A i \in DOMAIN kids : kids[i].id \in Fid
  <2>1. kids \in Seq(FidRef)
    BY <1>0, <1>1, ScopeFields
  <2>2. \A i \in DOMAIN kids : kids[i] \in FidRef
    BY <2>1, LenProperties, ElementOfSeq
  <2> QED
    BY <2>2 DEF FidRef
<1>4. \A g \in Fid : LiveIn(g, s)' /\ fibers'[g].runs_scope = NO_SCOPE =>
        LiveIn(g, s) /\ fibers[g].runs_scope = NO_SCOPE
  BY EndMeaning
<1>5. \A g \in Fid : Owned(g, s, NO_SCOPE) /\ ~scopes[s].manual => Owned(g, s, NO_SCOPE)'
  BY EndOwned
<1> QED
  BY <1>1, <1>2, <1>3, <1>4, <1>5

\* The bodies stay with their scopes; that of an ended one is recorded or about to be.
LEMMA EndBodies ==
  ASSUME ScopeInv, NEW f \in Fid, FiberEnds(f),
         \A s \in Sid : Open(s) /\ InWork(Do("mark_cancelled", s, s)) =>
           InWork(Do("mark_cancelled", s, s))',
         \A s \in Sid : Open(s) /\ scopes[s].body = f /\ scopes'[s].bd_kind = "none" =>
           InWork(Do("mark_cancelled", s, s))'
  PROVE  Bodies'
<1>0. Bodies /\ scopes \in [Sid -> Scope]
  BY InvParts
<1> SUFFICES ASSUME NEW s \in Sid, Open(s)', NEW b, b = scopes'[s].body
             PROVE  /\ Owned(b, s, s)'
                    /\ scopes'[s].bd_kind = "none" =>
                         fibers'[b].alive \/ InWork(Do("mark_cancelled", s, s))'
  BY DEF Bodies, Owned
<1>1. Open(s) /\ b = scopes[s].body
  BY EndMeaning DEF FiberEnds, SameSpot
<1>2. b \in Fid
  BY <1>0, <1>1, ScopeFields
<1>3. starting # ScopeRef(s)
  BY DEF FiberEnds, ScopeRef, Ref, None, Sid
<1>4. /\ Owned(b, s, s)
      /\ scopes[s].bd_kind = "none" => fibers[b].alive \/ InWork(Do("mark_cancelled", s, s))
  BY <1>0, <1>1, <1>3 DEF Bodies
<1>5. Owned(b, s, s)'
  <2>1. s # NO_SCOPE
    BY DEF Sid, NO_SCOPE
  <2> QED
    BY <1>2, <1>4, <2>1, EndOwned
<1>6. ASSUME scopes'[s].bd_kind = "none"
      PROVE  fibers'[b].alive \/ InWork(Do("mark_cancelled", s, s))'
  <2>1. scopes[s].bd_kind = "none"
    BY <1>6 DEF FiberEnds
  <2>2. fibers'[b].alive <=> fibers[b].alive /\ b # f
    BY <1>2, EndMeaning
  <2> QED
    BY <1>1, <1>4, <1>6, <2>1, <2>2
<1> QED
  BY <1>5, <1>6

\* The free lists stay right.
LEMMA EndFree ==
  ASSUME ScopeInv, NEW f \in Fid, FiberEnds(f)
  PROVE  FreeRows'
<1>0. FreeRows /\ free_fibers \in Seq(Fid) /\ free_scopes \in Seq(Sid)
  BY InvParts DEF Typed, TablesOK
<1>1. /\ fibers[f].alive /\ ~fibers'[f].alive
      /\ \A g \in Fid : fibers'[g].alive => fibers[g].alive
  BY EndMeaning DEF FiberEnds
<1>2. /\ nfibers' = nfibers /\ nscopes' = nscopes /\ free_scopes' = free_scopes
      /\ \A s \in Sid : scopes'[s].finalized = scopes[s].finalized
  BY DEF FiberEnds, SameSpot
<1>3. \A i \in DOMAIN free_fibers : free_fibers[i] \in Fid
  BY <1>0, LenProperties, ElementOfSeq
<1>4. \A i \in DOMAIN free_scopes : free_scopes[i] \in Sid
  BY <1>0, LenProperties, ElementOfSeq
<1>5. f < nfibers
  <2>1. ~(f >= nfibers)
    BY <1>0, <1>1 DEF FreeRows
  <2>2. f \in Int /\ nfibers \in Int
    BY InvParts DEF Typed, TablesOK, Fid
  <2> QED
    BY <2>1, <2>2
<1>6. /\ IsInjective(free_fibers')
      /\ \A i \in DOMAIN free_fibers' :
           free_fibers'[i] # Root /\ free_fibers'[i] < nfibers' /\ ~fibers'[free_fibers'[i]].alive
  <2>1. CASE free_fibers' = free_fibers
    BY <1>0, <1>1, <1>2, <1>3, <2>1 DEF FreeRows
  <2>2. CASE free_fibers' = Append(free_fibers, f) /\ f # Root
    <3>1. \A i \in DOMAIN free_fibers' :
            \/ i \in DOMAIN free_fibers /\ free_fibers'[i] = free_fibers[i]
            \/ i = Len(free_fibers) + 1 /\ i \notin DOMAIN free_fibers /\ free_fibers'[i] = f
      BY <1>0, <2>2, Appended
    <3>2. \A i \in DOMAIN free_fibers : free_fibers[i] # f
      BY <1>0, <1>1 DEF FreeRows
    <3>3. IsInjective(free_fibers')
      BY <1>0, <3>1, <3>2 DEF FreeRows, IsInjective
    <3> QED
      BY <1>0, <1>1, <1>2, <1>3, <1>5, <2>2, <3>1, <3>3, SMTT(30) DEF FreeRows
  <2> QED
    BY <2>1, <2>2 DEF FiberEnds
<1>7. /\ IsInjective(free_scopes')
      /\ \A i \in DOMAIN free_scopes' :
           /\ free_scopes'[i] # ROOT_SCOPE /\ free_scopes'[i] < nscopes'
           /\ scopes'[free_scopes'[i]].finalized
  BY <1>0, <1>2, <1>4 DEF FreeRows
<1>8. /\ nfibers' > 0 /\ nscopes' > 0
      /\ \A g \in Fid : g >= nfibers' => ~fibers'[g].alive
      /\ \A s \in Sid : s >= nscopes' => scopes'[s].finalized
  BY <1>0, <1>1, <1>2 DEF FreeRows
<1> QED
  BY <1>6, <1>7, <1>8 DEF FreeRows

\* The counts stay right where a child is counted off.
LEMMA EndCounts ==
  ASSUME ScopeInv, NEW f \in Fid, FiberEnds(f),
         \A s \in Sid \ {ROOT_SCOPE} :
           scopes'[s].live = IF IsChild(f, s) THEN scopes[s].live - 1 ELSE scopes[s].live
  PROVE  LiveCount'
<1>0. LiveCount
  BY InvParts
<1> SUFFICES ASSUME NEW s \in Sid \ {ROOT_SCOPE}
             PROVE  scopes'[s].live = Cardinality(Live(s)')
  BY CountsAre
<1>1. \A g \in Fid : /\ fibers'[g].alive <=> fibers[g].alive /\ g # f
                     /\ IsChild(g, s)' <=> IsChild(g, s)
  BY EndMeaning
<1>2. fibers[f].alive
  BY DEF FiberEnds
<1>3. CASE IsChild(f, s)
  <2>1. scopes'[s].live = scopes[s].live - 1
    BY <1>3
  <2>2. /\ ~fibers'[f].alive
        /\ \A g \in Fid \ {f} :
             (fibers'[g].alive /\ IsChild(g, s)') <=> (fibers[g].alive /\ IsChild(g, s))
    BY <1>1
  <2> QED
    BY <1>0, <1>2, <1>3, <2>1, <2>2, CountLess
<1>4. CASE ~IsChild(f, s)
  <2>1. scopes'[s].live = scopes[s].live
    BY <1>4
  <2>2. \A g \in Fid : (fibers'[g].alive /\ IsChild(g, s)') <=> (fibers[g].alive /\ IsChild(g, s))
    BY <1>1, <1>4
  <2> QED
    BY <1>0, <2>1, <2>2, CountKept
<1> QED
  BY <1>3, <1>4

\* The fiber being pumped completes; the calls to make are about its scope.
LEMMA TreeCompletes ==
  ASSUME ScopeInv, Pumping, NEW f \in Fid, f = current, FiberEnds(f),
         \A s \in Sid \ {ROOT_SCOPE} :
           scopes'[s].live = IF IsChild(f, s) THEN scopes[s].live - 1 ELSE scopes[s].live,
         \A s \in Sid : Open(s) /\ scopes[s].body = f => scopes'[s].bd_kind # "none",
         UNCHANGED <<pending, timers>>,
         \A j \in DOMAIN work' : CallOK(j)',
         \A i, j \in DOMAIN work' : work'[i].of = work'[j].of /\ work'[j].of \in Sid,
         \A s \in Sid : Open(s) /\ Ending(s)' => \E j \in DOMAIN work' : Finishes(s, j)'
  PROVE  TreeInv'
<1>0. Nesting
  BY InvParts
<1>1. work = <<>> /\ DOMAIN work = {} /\ starting = None
  BY DEF Pumping, FiberEnds
<1>2. \A c : ~InWork(c)
  BY <1>1 DEF InWork
<1>3. /\ \A s \in Sid : Open(s)' = Open(s) /\ ScopeRef(s)' = ScopeRef(s)
      /\ \A g \in Fid : fibers'[g].knows = fibers[g].knows
  BY EndMeaning
<1>4. \A s \in Sid : /\ scopes'[s].cancelled = scopes[s].cancelled
                     /\ scopes'[s].enclosing = scopes[s].enclosing
  BY DEF FiberEnds, SameSpot
<1>5. Awaited'
  <2>1. ASSUME NEW s \in Sid, Open(s), scopes[s].awaiter.id = f
        PROVE  FALSE
    <3>1. starting = ScopeRef(s)
      BY <2>1, PumpedAwaits
    <3> QED
      BY <1>1, <3>1 DEF ScopeRef, Ref, None, Sid
  <2> QED
    BY <1>2, <2>1, EndAwaited
<1>6. Bodies'
  BY <1>2, EndBodies
<1>7. Cancelling'
  BY <1>3 DEF Cancelling
<1>8. NoRoot'
  <2>1. NoRoot /\ ROOT_SCOPE \in Sid
    BY RootSpared
  <2> QED
    BY <1>3, <1>4, <2>1 DEF NoRoot
<1>9. Calls'
  BY <1>8 DEF Calls, NoRoot
<1>10. Order'
  <2> SUFFICES ASSUME NEW i \in DOMAIN work', NEW j \in DOMAIN work',
                      NEW u, u = work'[i].of, NEW v, v = work'[j].of, Open(v)'
               PROVE  (ScopeRef(u) \notin scopes[v].enclosing)'
    BY DEF Order, Open, ScopeRef
  <2>1. u = v /\ v \in Sid
    OBVIOUS
  <2>2. ScopeRef(v) \notin scopes[v].enclosing
    BY <1>0, <1>3, <2>1 DEF Nesting
  <2> QED
    BY <1>3, <1>4, <2>1, <2>2
<1> QED
  BY <1>5, <1>6, <1>7, <1>9, <1>10, EndRows, EndKids, EndFree, EndCounts DEF TreeInv

\* The body of an open scope, when none is being started.
LEMMA BodyRow ==
  ASSUME ScopeInv, starting = None, NEW s \in Sid, Open(s)
  PROVE  scopes[s].body \in Fid /\ Owned(scopes[s].body, s, s) /\ s # NO_SCOPE
<1>0. Bodies /\ scopes \in [Sid -> Scope]
  BY InvParts
<1>1. starting # ScopeRef(s) /\ s # NO_SCOPE
  BY DEF ScopeRef, Ref, None, Sid, NO_SCOPE
<1> QED
  BY <1>0, <1>1, ScopeFields DEF Bodies

\* The root ends: the scopes are left as they are.
LEMMA TreeCompleteRoot ==
  ASSUME ScopeInv, NEW kind, CompleteRoot(kind)
  PROVE  TreeInv'
<1>0. Typed
  BY InvParts
<1>1. /\ Pumping /\ starting = None /\ current = Root /\ current' = NoFiber
      /\ UNCHANGED <<nfibers, scopes, nscopes, free_fibers, free_scopes, starting, work, pending,
                     timers>>
  BY DEF CompleteRoot, CanComplete, CanSuspend, queues
<1>2. PICK f \in Fid : f = current /\ f = Root /\ fibers[f].alive
  BY <1>1, Pumped DEF Pumping
<1>3. Ended(f)
  BY <1>0, <1>2, SettleDelta DEF CompleteRoot
<1>4. FiberEnds(f)
  BY <1>1, <1>2, <1>3 DEF FiberEnds, SameSpot
<1>5. \A s \in Sid : ~IsChild(f, s)
  BY <1>2 DEF IsChild
<1>6. \A s \in Sid : Open(s) => scopes[s].body # f
  BY <1>1, <1>2, BodyRow DEF Owned
<1>7. DOMAIN work' = {}
  BY <1>1 DEF Pumping
<1>8. \A s \in Sid : scopes'[s].live = scopes[s].live /\ Ending(s)' = Ending(s)
  BY <1>1 DEF Ending
<1>9. \A s \in Sid : Open(s) => ~Ending(s)
  BY <1>1, IdleTree DEF Pumping
<1> QED
  BY <1>1, <1>2, <1>4, <1>5, <1>6, <1>7, <1>8, <1>9, TreeCompletes

\* The body of a scope ends: what is left of its children is to be reaped.
LEMMA TreeCompleteBody ==
  ASSUME ScopeInv, NEW kind, kind # "none", CompleteBody(kind)
  PROVE  TreeInv'
<1>0. Typed /\ FiberRows /\ fibers \in [Fid -> FiberOK] /\ scopes \in [Sid -> Scope]
  BY InvParts
<1>1. /\ Pumping /\ starting = None /\ current # Root /\ current' = NoFiber
      /\ UNCHANGED <<nfibers, nscopes, free_fibers, free_scopes, starting, pending, timers>>
  BY DEF CompleteBody, CanComplete, CanSuspend, queues
<1>2. PICK f \in Fid : f = current /\ f # Root /\ fibers[f].alive
  BY <1>1, Pumped DEF Pumping
<1>3. Ended(f)
  BY <1>0, <1>2, SettleDelta DEF CompleteBody
<1>4. PICK s : s = fibers[f].runs_scope
  OBVIOUS
<1>5. s # NO_SCOPE
  BY <1>2, <1>4 DEF CompleteBody
<1>6. s = fibers[f].scope /\ scopes[s].body = f /\ Open(s)
  BY <1>0, <1>2, <1>4, <1>5 DEF FiberRows
<1>7. s \in Sid
  BY <1>0, <1>6, FiberFields
<1>8. BodyMarked(s, kind)
  <2>1. PICK b : b = (IF kind = "err" /\ ~scopes[s].manual THEN TRUE ELSE scopes[s].fail_set)
    OBVIOUS
  <2>2. scopes' = [scopes EXCEPT ![s].bd_kind = kind, ![s].fail_set = b]
    BY <1>2, <1>4, <2>1 DEF CompleteBody
  <2> QED
    BY <1>0, <1>7, <2>2, BodyMarkedDelta
<1>9. FiberEnds(f)
  <2>1. ASSUME NEW t \in Sid
        PROVE  /\ SameSpot(t) /\ scopes'[t].next_waiters = scopes[t].next_waiters
               /\ \/ scopes'[t].bd_kind = scopes[t].bd_kind
                  \/ scopes[t].body = f /\ scopes'[t].bd_kind # "none"
    BY <1>6, <1>8 DEF BodyMarked, SameRest, SameSpot
  <2> QED
    BY <1>1, <1>2, <1>3, <2>1 DEF FiberEnds
<1>10. \A t \in Sid : ~IsChild(f, t) /\ scopes'[t].live = scopes[t].live
  BY <1>4, <1>5, <1>8 DEF IsChild, BodyMarked
<1>11. ASSUME NEW t \in Sid, Open(t), scopes[t].body = f
       PROVE  scopes'[t].bd_kind # "none"
  <2>1. t = s
    BY <1>1, <1>6, <1>11, BodyRow DEF Owned
  <2> QED
    BY <1>8, <2>1 DEF BodyMarked
<1>12. PICK c1, c2 : c1 = Do("reap_children", s, s) /\ c2 = Do("try_finalize", s, s)
  OBVIOUS
<1>13. /\ c1.fn = "reap_children" /\ c1.id = s /\ c1.of = s
       /\ c2.fn = "try_finalize" /\ c2.id = s /\ c2.of = s
  BY <1>12 DEF Do
<1>14. work' = <<c1, c2>>
  BY <1>2, <1>4, <1>12 DEF CompleteBody
<1>15. DOMAIN work' = {1, 2} /\ work'[1] = c1 /\ work'[2] = c2
  BY <1>14
<1>16. s # ROOT_SCOPE /\ scopes'[s].bd_kind # "none"
  BY <1>6, <1>8 DEF Open, BodyMarked
<1>17. CallOK(1)'
  BY <1>13, <1>15, <1>16 DEF CallOK
<1>18. CallOK(2)'
  BY <1>13, <1>15, <1>16 DEF CallOK
<1>19. \A j \in DOMAIN work' : CallOK(j)'
  BY <1>15, <1>17, <1>18
<1>20. \A j \in DOMAIN work' : work'[j].of = s
  BY <1>13, <1>15
<1>21. Finishes(s, 2)'
  <2>1. ASSUME NEW g \in Fid, LiveIn(g, s)'
        PROVE  Reaps(work[1], g, s)'
    <3>1. LiveIn(g, s) /\ g # f /\ fibers'[g].runs_scope = fibers[g].runs_scope
      BY <1>7, <1>9, <2>1, EndMeaning
    <3>2. fibers[g].runs_scope = NO_SCOPE
      BY <1>0, <1>6, <3>1 DEF FiberRows, LiveIn
    <3> QED
      BY <1>12, <1>15, <3>1, <3>2 DEF Reaps
  <2> QED
    BY <1>12, <1>15, <1>16, <2>1 DEF Finishes
<1>22. ASSUME NEW t \in Sid, Open(t), Ending(t)'
       PROVE  \E j \in DOMAIN work' : Finishes(t, j)'
  <2>1. ~Ending(t)
    BY <1>1, <1>22, IdleTree DEF Pumping
  <2>2. t = s
    BY <1>8, <1>22, <2>1 DEF BodyMarked, SameRest, Ending
  <2> QED
    BY <1>15, <1>21, <2>2
<1> QED
  BY <1>1, <1>2, <1>7, <1>9, <1>10, <1>11, <1>19, <1>20, <1>22, TreeCompletes

\* A child ends: it is counted off, and its failure may cancel the scope.
LEMMA TreeCompleteChild ==
  ASSUME ScopeInv, NEW kind, CompleteChild(kind)
  PROVE  TreeInv'
<1>0. Typed /\ FiberRows /\ Kids /\ fibers \in [Fid -> FiberOK] /\ scopes \in [Sid -> Scope]
  BY InvParts
<1>1. /\ Pumping /\ starting = None /\ current # Root /\ current' = NoFiber
      /\ UNCHANGED <<nfibers, nscopes, free_scopes, starting, pending, timers>>
  BY DEF CompleteChild, CanComplete, CanSuspend
<1>2. PICK f \in Fid : f = current /\ f # Root /\ fibers[f].alive /\ fibers[f].runs_scope = NO_SCOPE
  BY <1>1, Pumped DEF Pumping, CompleteChild
<1>3. PICK s \in Sid : s = fibers[f].scope
  BY <1>0, <1>2, FiberFields
<1>4. Open(s)
  BY <1>0, <1>2, <1>3 DEF FiberRows
<1>5. /\ Ended(f)
      /\ \A t \in Sid \ {s} : scopes'[t] = scopes[t]
      /\ SameScope(s) /\ scopes'[s].children = scopes[s].children
      /\ scopes'[s].live = scopes[s].live - 1
      /\ scopes'[s].next_waiters = IF scopes[s].next_waiters # <<>>
                                   THEN Tail(scopes[s].next_waiters) ELSE scopes[s].next_waiters
  BY <1>0, <1>2, <1>3, ChildDelta
<1>6. ~scopes[s].manual => scopes[s].next_waiters = <<>>
  BY <1>0, <1>4 DEF Kids
<1>7. \/ free_fibers' = free_fibers
      \/ free_fibers' = Append(free_fibers, f) /\ scopes[s].manual
  <2>1. free_fibers' = IF Recycles(s) THEN Append(free_fibers, f) ELSE free_fibers
    BY <1>2, <1>3 DEF CompleteChild
  <2>2. Recycles(s) => scopes[s].manual
    BY <1>6 DEF Recycles
  <2> QED
    BY <2>1, <2>2
<1>8. FiberEnds(f)
  <2>1. ASSUME NEW t \in Sid
        PROVE  /\ SameSpot(t) /\ scopes'[t].bd_kind = scopes[t].bd_kind
               /\ ~scopes[t].manual => scopes'[t].next_waiters = scopes[t].next_waiters
    BY <1>5, <1>6 DEF SameScope, SameSpot
  <2> QED
    BY <1>1, <1>2, <1>3, <1>5, <1>7, <2>1 DEF FiberEnds
<1>9. \A t \in Sid \ {ROOT_SCOPE} :
        scopes'[t].live = IF IsChild(f, t) THEN scopes[t].live - 1 ELSE scopes[t].live
  <2>1. \A t \in Sid : IsChild(f, t) <=> t = s
    BY <1>2, <1>3 DEF IsChild
  <2> QED
    BY <1>5, <2>1
<1>10. \A t \in Sid : Open(t) => scopes[t].body # f
  BY <1>1, <1>2, BodyRow DEF Owned
<1>11. PICK c : /\ c \in {Do("cancel_scope", s, s), Do("try_finalize", s, s)}
                /\ work' = <<c>>
  BY <1>2, <1>3 DEF CompleteChild
<1>12. c.fn \in {"cancel_scope", "try_finalize"} /\ c.id = s /\ c.of = s
  BY <1>11 DEF Do
<1>13. DOMAIN work' = {1} /\ work'[1] = c
  BY <1>11
<1>14. CallOK(1)'
  BY <1>4, <1>12, <1>13 DEF CallOK, Open
<1>15. \A j \in DOMAIN work' : CallOK(j)' /\ work'[j].of = s
  BY <1>12, <1>13, <1>14
<1>16. \A t \in Sid : Open(t) => ~Ending(t)'
  <2>1. \A t \in Sid : Ending(t)' = Ending(t)
    BY <1>5 DEF SameScope, Ending
  <2> QED
    BY <1>1, <2>1, IdleTree DEF Pumping
<1> QED
  BY <1>1, <1>2, <1>8, <1>9, <1>10, <1>15, <1>16, TreeCompletes

\* A fiber is reaped: the scope it awaits, which is inside its own, is cancelled next.
LEMMA TreeReapFiber ==
  ASSUME ScopeInv, ReapFiber, fibers[Callee].alive
  PROVE  TreeInv'
<1>0. /\ Typed /\ FiberRows /\ Nesting /\ Cancelling /\ Order
      /\ fibers \in [Fid -> FiberOK] /\ scopes \in [Sid -> Scope]
  BY InvParts
<1>1. Calling("reap_fiber")
  BY DEF ReapFiber
<1>2. PICK f \in Fid : f = Callee /\ fibers[f].alive
  BY <1>1, TopFiber
<1>3. PICK s \in Sid : s = work[1].of
  BY <1>1, TopFiber
<1>4. /\ s # ROOT_SCOPE /\ work \in Seq(Call) /\ work # <<>> /\ 1 \in DOMAIN work
      /\ work[1] = Do("reap_fiber", f, s) /\ current = NoFiber /\ CallOK(1)
  BY <1>1, <1>2, <1>3, TopFiber
<1>5. work[1].fn = "reap_fiber" /\ work[1].id = f
  BY <1>4 DEF Do
<1>6. f # Root /\ fibers[f].scope = s
  BY <1>2, <1>3, <1>4, <1>5 DEF CallOK
<1>7. /\ Open(s) /\ fibers[f].knows = Up(s)
      /\ fibers[f].runs_scope # NO_SCOPE => fibers[f].runs_scope = s /\ scopes[s].body = f
  BY <1>0, <1>2, <1>6 DEF FiberRows
<1>8. starting = None
  BY <1>4, NotStarting
<1>9. UNCHANGED <<nfibers, nscopes, free_fibers, free_scopes, starting, pending, timers, current>>
  BY DEF ReapFiber, queues
<1>10. Ended(f)
  BY <1>0, <1>2, SettleDelta DEF ReapFiber
<1>11. \/ fibers[f].runs_scope = NO_SCOPE /\ CountedOff(s)
       \/ fibers[f].runs_scope # NO_SCOPE /\ scopes' = scopes
  <2>1. scopes' = LiveAfterReap(f)
    BY <1>2 DEF ReapFiber
  <2> QED
    BY <1>0, <1>6, <2>1, CountedOffDelta DEF LiveAfterReap
<1>12. \A u \in Sid : /\ SameSpot(u) /\ scopes'[u].bd_kind = scopes[u].bd_kind
                      /\ scopes'[u].next_waiters = scopes[u].next_waiters
  BY <1>11 DEF CountedOff, SameRest, SameSpot
<1>13. FiberEnds(f)
  BY <1>2, <1>4, <1>8, <1>9, <1>10, <1>12 DEF FiberEnds
<1>14. \A u \in Sid \ {ROOT_SCOPE} :
         scopes'[u].live = IF IsChild(f, u) THEN scopes[u].live - 1 ELSE scopes[u].live
  <2>1. \A u \in Sid : IsChild(f, u) <=> u = s /\ fibers[f].runs_scope = NO_SCOPE
    BY <1>6 DEF IsChild
  <2> QED
    BY <1>11, <2>1 DEF CountedOff
<1>15. PICK t : t = fibers[f].wait_arg.id
  OBVIOUS
<1>16. ASSUME fibers[f].wait_kind = "scope"
       PROVE  /\ t \in Sid /\ Open(t) /\ t # ROOT_SCOPE /\ fibers[f].wait_arg = ScopeRef(t)
              /\ scopes[t].enclosing = Up(s)
  BY <1>2, <1>7, <1>15, <1>16, ScopeWait DEF Open
<1>17. PICK k, d : k = Do("cancel_scope", t, t) /\ d = Do("run_defers", f, s)
  OBVIOUS
<1>18. /\ d \in Call /\ d.fn = "run_defers" /\ d.id = f /\ d.of = s
       /\ k.fn = "cancel_scope" /\ k.id = t /\ k.of = t
       /\ fibers[f].wait_kind = "scope" => k \in Call
  BY <1>16, <1>17 DEF Do, Call
<1>19. PICK calls : /\ Then(calls) /\ calls \in Seq(Call)
                    /\ \A i \in 1..Len(calls) : calls[i] = d \/ (i = 1 /\ calls[i] = k)
                    /\ fibers[f].wait_kind = "scope" => 1 \in 1..Len(calls) /\ calls[1] = k
                    /\ fibers[f].wait_kind # "scope" => \A i \in 1..Len(calls) : calls[i] = d
  <2>1. CASE fibers[f].wait_kind = "scope"
    <3>1. PICK x, y, calls : x = <<k>> /\ y = <<d>> /\ calls = x \o y
      OBVIOUS
    <3>2. /\ x \in Seq(Call) /\ Len(x) = 1 /\ x[1] = k
          /\ y \in Seq(Call) /\ Len(y) = 1 /\ y[1] = d
      BY <1>18, <2>1, <3>1, FewCalls
    <3>3. /\ calls \in Seq(Call) /\ DOMAIN x = 1..1 /\ DOMAIN y = 1..1
          /\ DOMAIN calls = 1..(1 + 1)
          /\ \A i \in DOMAIN x : calls[i] = x[i]
          /\ \A i \in DOMAIN y : calls[1 + i] = y[i]
      BY <3>1, <3>2, Joined
    <3>4. DOMAIN calls = 1..Len(calls)
      BY <3>3, LenProperties
    <3>5. 1 \in 1..1 /\ calls[1] = k /\ calls[1 + 1] = d
      BY <3>2, <3>3
    <3>6. \A i \in 1..(1 + 1) : i = 1 \/ i = 1 + 1
      OBVIOUS
    <3>7. 1 \in 1..(1 + 1)
      OBVIOUS
    <3>8. Then(calls)
      BY <1>2, <1>6, <1>15, <1>17, <2>1, <3>1 DEF ReapFiber, Cascade
    <3>9. \A i \in 1..Len(calls) : calls[i] = d \/ (i = 1 /\ calls[i] = k)
      BY <3>3, <3>4, <3>5, <3>6
    <3>10. 1 \in 1..Len(calls)
      BY <3>3, <3>4, <3>7
    <3> QED
      BY <2>1, <3>3, <3>5, <3>8, <3>9, <3>10
  <2>2. CASE fibers[f].wait_kind # "scope"
    <3>1. PICK calls : calls = <<d>>
      OBVIOUS
    <3>2. calls \in Seq(Call) /\ Len(calls) = 1 /\ calls[1] = d
      BY <1>18, <3>1, FewCalls
    <3>3. Then(calls)
      <4>1. <<>> \o <<d>> = <<d>>
        OBVIOUS
      <4> QED
        BY <1>2, <1>6, <1>17, <2>2, <3>1, <4>1 DEF ReapFiber, Cascade
    <3>4. \A i \in 1..Len(calls) : calls[i] = d
      BY <3>2
    <3> QED
      BY <2>2, <3>2, <3>3, <3>4
  <2> QED
    BY <2>1, <2>2
<1>20. \A i \in 1..Len(calls) : work'[i] = calls[i] /\ i \in DOMAIN work'
  BY <1>4, <1>19, ThenWork
<1>21. /\ \A u \in Sid : Open(u)' = Open(u)
       /\ \A g \in Fid : fibers'[g].alive => /\ fibers[g].alive /\ g # f
                                             /\ fibers'[g].scope = fibers[g].scope
                                             /\ fibers'[g].runs_scope = fibers[g].runs_scope
       /\ \A g \in Fid : fibers'[g].knows = fibers[g].knows
       /\ \A g \in Fid, u \in Sid : LiveIn(g, u)' => g # f
  BY <1>13, EndMeaning
<1>22. \A c : InWork(c) /\ c.fn # "reap_fiber" => InWork(c)'
  BY <1>4, <1>5, <1>19, StaysInWork
<1>23. Awaited'
  <2>1. \A u \in Sid : InWork(Do("cancel_scope", u, u)) => InWork(Do("cancel_scope", u, u))'
    BY <1>22 DEF Do
  <2>2. ASSUME NEW u \in Sid, Open(u), scopes[u].awaiter.id = f
        PROVE  InWork(Do("cancel_scope", u, u))'
    <3>1. fibers[f].wait_kind = "scope" /\ fibers[f].wait_arg = ScopeRef(u)
      BY <1>2, <1>4, <2>2, AwaiterWaits
    <3>2. u = t
      BY <1>15, <3>1 DEF ScopeRef, Ref
    <3>3. 1 \in DOMAIN work' /\ work'[1] = k
      BY <1>19, <1>20, <3>1
    <3> QED
      BY <1>17, <3>2, <3>3 DEF InWork
  <2> QED
    BY <1>4, <1>13, <2>1, <2>2, EndAwaited
<1>24. Bodies'
  <2>1. \A u \in Sid : InWork(Do("mark_cancelled", u, u)) => InWork(Do("mark_cancelled", u, u))'
    BY <1>22 DEF Do
  <2>2. ASSUME NEW u \in Sid, Open(u), scopes[u].body = f, scopes'[u].bd_kind = "none"
        PROVE  InWork(Do("mark_cancelled", u, u))'
    <3>1. u = s /\ scopes[s].bd_kind = "none"
      BY <1>6, <1>8, <1>12, <2>2, BodyRow DEF Owned
    <3>2. scopes[s].cancelled
      BY <1>3, <1>4, <1>5, <1>7, <3>1 DEF CallOK
    <3>3. PICK j \in DOMAIN work : Finishes(s, j)
      BY <1>0, <1>7, <3>2 DEF Cancelling, Ending
    <3>4. PICK i \in 1..(j - 1) : work[i] = Do("mark_cancelled", s, s)
      BY <3>1, <3>3 DEF Finishes
    <3>5. i \in DOMAIN work
      <4>1. DOMAIN work = 1..Len(work) /\ Len(work) \in Nat
        BY <1>4, LenProperties
      <4> QED
        BY <4>1
    <3>6. InWork(Do("mark_cancelled", s, s))
      BY <3>4, <3>5 DEF InWork
    <3> QED
      BY <2>1, <3>1, <3>6
  <2> QED
    BY <1>13, <2>1, <2>2, EndBodies
<1>25. Shrinks
  BY <1>12, <1>21 DEF Shrinks, SameSpot
<1>26. Cancelling'
  <2> SUFFICES ASSUME NEW u \in Sid, Open(u)', Ending(u)'
               PROVE  \E j \in DOMAIN work' : Finishes(u, j)'
    BY DEF Cancelling
  <2>1. Ending(u)
    BY <1>12 DEF SameSpot, Ending
  <2>2. ~Finishes(u, 1) /\ work[1] # Do("mark_cancelled", u, u)
    BY <1>5 DEF Finishes, Do
  <2>3. \A g \in Fid : Reaps(work[1], g, u) => g = f
    BY <1>5 DEF Reaps, Do
  <2>4. \A g \in Fid : ~(Reaps(work[1], g, u) /\ LiveIn(g, u)')
    BY <1>21, <2>3
  <2> QED
    BY <1>4, <1>19, <1>25, <2>1, <2>2, <2>4, CancellingThen
<1>27. Calls'
  <2>1. ASSUME NEW i \in 1..Len(calls)
        PROVE  CallOK(i)'
    <3>1. CASE calls[i] = d
      <4>1. work'[i] = d
        BY <1>20, <3>1
      <4> QED
        BY <1>4, <1>18, <4>1 DEF CallOK
    <3>2. CASE calls[i] = k /\ fibers[f].wait_kind = "scope"
      <4>1. work'[i] = k
        BY <1>20, <3>2
      <4> QED
        BY <1>16, <1>18, <3>2, <4>1 DEF CallOK
    <3> QED
      BY <1>19, <3>1, <3>2
  <2>2. \A j \in DOMAIN work' : CallOK(j)'
    BY <1>4, <1>5, <1>19, <1>21, <1>25, <2>1, CallsThen
  <2>3. NoRoot'
    <3>1. NoRoot /\ ROOT_SCOPE \in Sid
      BY RootSpared
    <3> QED
      BY <1>9, <1>12, <1>21, <3>1 DEF NoRoot, SameSpot
  <2> QED
    BY <2>2, <2>3 DEF Calls, NoRoot
<1>28. Order'
  <2>1. ASSUME fibers[f].wait_kind = "scope", NEW v \in Sid, Open(v),
               ScopeRef(t) \in scopes[v].enclosing
        PROVE  ScopeRef(s) \in scopes[v].enclosing
    <3>1. t \in Sid /\ scopes[t].enclosing = Up(s)
      BY <1>16, <2>1
    <3>2. ScopeRef(t) \in Up(v) /\ ScopeRef(t).id = t
      BY <2>1 DEF Up, ScopeRef, Ref
    <3>3. scopes[t].enclosing \subseteq scopes[v].enclosing
      BY <2>1, <3>2, UpOpen
    <3> QED
      BY <3>1, <3>3 DEF Up
  <2>2. ASSUME NEW i \in 1..Len(calls)
        PROVE  \/ calls[i].of = s
               \/ fibers[f].wait_kind = "scope" /\ i = 1 /\ calls[i].of = t
    BY <1>18, <1>19
  <2>3. ASSUME NEW i \in 1..Len(calls), NEW j \in 2..Len(work), Open(work[j].of)
        PROVE  ScopeRef(calls[i].of) \notin scopes[work[j].of].enclosing
    <3>1. j \in DOMAIN work /\ 1 < j
      BY <1>4, <1>19, ThenWork
    <3>2. work[j].of \in Sid
      BY <1>0, <3>1, CallTyped
    <3>3. ScopeRef(s) \notin scopes[work[j].of].enclosing
      BY <1>0, <1>3, <1>4, <2>3, <3>1 DEF Order
    <3> QED
      BY <2>1, <2>2, <2>3, <3>2, <3>3
  <2>4. ASSUME NEW i \in 1..Len(calls), NEW j \in 1..Len(calls), i < j
        PROVE  ScopeRef(calls[i].of) \notin scopes[calls[j].of].enclosing
    <3>1. j # 1
      BY <2>4
    <3>2. calls[j].of = s
      BY <2>2, <3>1
    <3>3. ScopeRef(s) \notin scopes[s].enclosing
      BY <1>0, <1>7 DEF Nesting
    <3> QED
      BY <1>7, <2>1, <2>2, <3>2, <3>3
  <2>5. \A u \in Sid : /\ Open(u)' => Open(u)
                       /\ scopes'[u].gen = scopes[u].gen
                       /\ scopes'[u].enclosing = scopes[u].enclosing
    BY <1>12, <1>21 DEF SameSpot
  <2> QED
    BY <1>4, <1>19, <2>3, <2>4, <2>5, OrderThen
<1> QED
  BY <1>13, <1>14, <1>23, <1>24, <1>26, <1>27, <1>28, EndRows, EndKids, EndFree, EndCounts
  DEF TreeInv

-----------------------------------------------------------------------------
(* A scope is finalized. *)

\* Nothing lives in a scope that can be finalized, and no open scope is inside it: the
\* call to cancel one would be on the stack before the call to finalize this one.
LEMMA LastOut ==
  ASSUME ScopeInv, current = NoFiber, NEW s \in Sid, s # ROOT_SCOPE, CanFinalize(s),
         1 \in DOMAIN work, work[1].of = s
  PROVE  /\ Open(s)
         /\ \A f \in Fid : ~LiveIn(f, s)
         /\ \A t \in Sid : Open(t) => ScopeRef(s) \notin scopes[t].enclosing
<1>0. /\ Typed /\ FiberRows /\ Nesting /\ Awaited /\ Cancelling /\ Order /\ LiveCount
      /\ fibers \in [Fid -> FiberOK]
  BY InvParts
<1>1. Open(s) /\ scopes[s].bd_kind # "none" /\ scopes[s].live = 0
  BY DEF Open, CanFinalize
<1>2. Live(s) = {}
  <2>1. Cardinality(Live(s)) = 0
    BY <1>0, <1>1 DEF LiveCount, Live
  <2> QED
    BY <2>1, LiveFinite, FS_EmptySet
<1>3. ASSUME NEW f \in Fid, LiveIn(f, s)
      PROVE  FALSE
  <2>1. f # Root /\ fibers[f].alive /\ fibers[f].scope = s
    BY <1>3 DEF LiveIn
  <2>2. fibers[f].runs_scope = NO_SCOPE
    BY <1>0, <1>1, <2>1 DEF FiberRows
  <2> QED
    BY <1>2, <2>1, <2>2 DEF Live, IsChild
<1>4. ASSUME NEW t \in Sid, Open(t), ScopeRef(s) \in scopes[t].enclosing
      PROVE  FALSE
  <2>1. PICK k \in Up(t) : scopes[k.id].enclosing = Up(s)
    <3>1. NestedIn(t, ScopeRef(s)) /\ ScopeRef(s).id = s
      BY <1>0, <1>4 DEF Nesting, ScopeRef, Ref
    <3> QED
      BY <3>1 DEF NestedIn
  <2>2. PICK u \in Sid : u = k.id
    BY <1>4, UpOpen
  <2>3. Open(u) /\ scopes[u].enclosing = Up(s) /\ ScopeRef(s) \in scopes[u].enclosing
    BY <1>4, <2>1, <2>2, UpOpen DEF Up
  <2>4. PICK a \in Fid : a = scopes[u].awaiter.id
    BY <2>3, AwaiterWaits
  <2>5. CASE fibers[a].alive
    <3>1. fibers[a].knows = Up(s)
      BY <2>3, <2>4, <2>5, AwaiterWaits
    <3>2. a # Root
      BY <1>0, <3>1 DEF FiberRows, Up
    <3>3. Open(fibers[a].scope) /\ fibers[a].knows = Up(fibers[a].scope)
      BY <1>0, <2>5, <3>2 DEF FiberRows
    <3>4. fibers[a].scope \in Sid
      BY <1>0, FiberFields
    <3>5. fibers[a].scope = s
      BY <1>1, <3>1, <3>3, <3>4, UpInjective
    <3> QED
      BY <1>3, <2>5, <3>2, <3>5 DEF LiveIn
  <2>6. CASE ~fibers[a].alive
    <3>1. scopes[u].cancelled \/ InWork(Do("cancel_scope", u, u))
      BY <1>0, <2>3, <2>4, <2>6 DEF Awaited
    <3>2. PICK j \in DOMAIN work : work[j].of = u
      <4>1. CASE scopes[u].cancelled
        <5>1. PICK j \in DOMAIN work : Finishes(u, j)
          BY <1>0, <2>3, <4>1 DEF Cancelling, Ending
        <5>2. work[j].of = u
          BY <5>1 DEF Finishes, Do
        <5> QED
          BY <5>2
      <4>2. CASE InWork(Do("cancel_scope", u, u))
        BY <4>2 DEF InWork, Do
      <4> QED
        BY <3>1, <4>1, <4>2
    <3>3. j # 1
      BY <1>0, <2>3, <3>2 DEF Nesting
    <3>4. j \in Nat /\ j >= 1
      BY <1>0, CallTyped
    <3>5. 1 < j
      BY <3>3, <3>4
    <3> QED
      BY <1>0, <2>3, <3>2, <3>5 DEF Order
  <2> QED
    BY <2>5, <2>6
<1> QED
  BY <1>1, <1>3, <1>4

\* The rows of a scope that is not manual, its body's and its children's, join the free
\* list; none was on it, and none comes twice.
LEMMA ReclaimedRows ==
  ASSUME ScopeInv, starting = None, NEW s \in Sid, Open(s), ~scopes[s].manual, Reclaimed(s)
  PROVE  /\ IsInjective(free_fibers')
         /\ \A i \in DOMAIN free_fibers' :
              \/ i \in DOMAIN free_fibers /\ free_fibers'[i] = free_fibers[i]
              \/ /\ free_fibers'[i] \in Fid /\ free_fibers'[i] # Root /\ free_fibers'[i] < nfibers
                 /\ fibers[free_fibers'[i]].scope = s
<1>0. /\ Kids /\ FreeRows /\ free_fibers \in Seq(Fid) /\ scopes \in [Sid -> Scope]
  BY InvParts DEF Typed, TablesOK
<1>1. PICK b \in Fid : b = scopes[s].body /\ Owned(b, s, s) /\ s # NO_SCOPE
  BY BodyRow
<1>2. PICK kids \in Seq(FidRef) : kids = scopes[s].children
  BY <1>0, ScopeFields
<1>3. /\ \A i, j \in DOMAIN kids : kids[i].id = kids[j].id => i = j
      /\ \A i \in DOMAIN kids : Owned(kids[i].id, s, NO_SCOPE)
  BY <1>0, <1>2 DEF Kids
<1>4. PICK ids, x, y : /\ ids = [i \in DOMAIN kids |-> kids[i].id] /\ x = free_fibers \o ids
                       /\ y = <<b>>
  OBVIOUS
<1>5. free_fibers' = x \o y
  BY <1>1, <1>2, <1>4 DEF Reclaimed
<1>6. /\ \A i \in DOMAIN kids : kids[i].id \in Fid
      /\ DOMAIN kids = 1..Len(kids) /\ Len(kids) \in Nat
  <2>1. \A i \in DOMAIN kids : kids[i] \in FidRef
    BY LenProperties, ElementOfSeq
  <2> QED
    BY <2>1, LenProperties DEF FidRef
<1>7. ids \in Seq(Fid) /\ DOMAIN ids = DOMAIN kids /\ \A i \in DOMAIN kids : ids[i] = kids[i].id
  <2>1. DOMAIN ids = DOMAIN kids /\ \A i \in DOMAIN kids : ids[i] = kids[i].id
    BY <1>4
  <2>2. ids \in [1..Len(kids) -> Fid]
    BY <1>4, <1>6
  <2> QED
    BY <1>6, <2>1, <2>2, SeqDef
<1>8. y \in Seq(Fid) /\ Len(y) = 1 /\ y[1] = b
  BY <1>4
<1>9. PICK n \in Nat :
        /\ n = Len(free_fibers) /\ x \in Seq(Fid)
        /\ \A i \in DOMAIN x : \/ i \in DOMAIN free_fibers /\ x[i] = free_fibers[i]
                               \/ /\ i \notin DOMAIN free_fibers /\ i \in Nat /\ i - n \in DOMAIN ids
                                  /\ x[i] = ids[i - n]
  <2>1. x = free_fibers \o ids
    BY <1>4
  <2>2. PICK n \in Nat : n = Len(free_fibers)
    BY <1>0, LenProperties
  <2>3. /\ x \in Seq(Fid)
        /\ \A i \in DOMAIN x : \/ i \in DOMAIN free_fibers /\ x[i] = free_fibers[i]
                               \/ /\ i \notin DOMAIN free_fibers /\ i \in Nat
                                  /\ i - Len(free_fibers) \in DOMAIN ids
                                  /\ x[i] = ids[i - Len(free_fibers)]
    BY <1>0, <1>7, <2>1, Joined
  <2> QED
    BY <2>2, <2>3
<1>10. /\ Len(x) \in Nat /\ DOMAIN x = 1..Len(x) /\ DOMAIN y = 1..1
       /\ \A i \in DOMAIN free_fibers' :
            \/ i \in DOMAIN x /\ free_fibers'[i] = x[i]
            \/ /\ i \notin DOMAIN x /\ i \in Nat /\ i - Len(x) \in DOMAIN y
               /\ free_fibers'[i] = y[i - Len(x)]
  <2>1. /\ DOMAIN y = 1..Len(y) /\ Len(x) \in Nat /\ DOMAIN x = 1..Len(x)
        /\ \A i \in DOMAIN free_fibers' :
             \/ i \in DOMAIN x /\ free_fibers'[i] = x[i]
             \/ /\ i \notin DOMAIN x /\ i \in Nat /\ i - Len(x) \in DOMAIN y
                /\ free_fibers'[i] = y[i - Len(x)]
    <3>1. x \in Seq(Fid) /\ y \in Seq(Fid)
      BY <1>8, <1>9
    <3> QED
      BY <1>5, <3>1, Joined
  <2> QED
    BY <1>8, <2>1
<1>11. ASSUME NEW i \in DOMAIN free_fibers'
       PROVE  \/ i \in DOMAIN free_fibers /\ free_fibers'[i] = free_fibers[i]
              \/ /\ i \in Nat /\ i - n \in DOMAIN kids /\ free_fibers'[i] = kids[i - n].id
              \/ i = Len(x) + 1 /\ free_fibers'[i] = b
  <2>1. CASE i \in DOMAIN x /\ free_fibers'[i] = x[i]
    BY <1>7, <1>9, <2>1
  <2>2. CASE i \in Nat /\ i - Len(x) \in DOMAIN y /\ free_fibers'[i] = y[i - Len(x)]
    <3>1. i - Len(x) = 1
      BY <1>10, <2>2
    <3>2. i = Len(x) + 1
      BY <1>10, <2>2, <3>1
    <3> QED
      BY <1>8, <2>2, <3>1, <3>2
  <2> QED
    BY <1>10, <2>1, <2>2
<1>12. \A i \in DOMAIN kids : kids[i].id # b
  BY <1>1, <1>3 DEF Owned
<1>13. IsInjective(free_fibers')
  <2> SUFFICES ASSUME NEW i \in DOMAIN free_fibers', NEW j \in DOMAIN free_fibers',
                      free_fibers'[i] = free_fibers'[j]
               PROVE  i = j
    BY DEF IsInjective
  <2>1. \A l \in DOMAIN free_fibers : /\ free_fibers[l] # b
                                      /\ \A p \in DOMAIN kids : free_fibers[l] # kids[p].id
    BY <1>1, <1>3 DEF Owned
  <2>2. CASE i \in DOMAIN free_fibers /\ free_fibers'[i] = free_fibers[i]
    <3>1. j \in DOMAIN free_fibers /\ free_fibers'[j] = free_fibers[j]
      BY <1>11, <2>1, <2>2
    <3> QED
      BY <1>0, <2>2, <3>1 DEF FreeRows, IsInjective
  <2>3. CASE i \in Nat /\ i - n \in DOMAIN kids /\ free_fibers'[i] = kids[i - n].id
    <3>1. j \in Nat /\ j - n \in DOMAIN kids /\ free_fibers'[j] = kids[j - n].id
      BY <1>11, <1>12, <2>1, <2>3
    <3>2. i - n = j - n
      BY <1>3, <2>3, <3>1
    <3> QED
      BY <2>3, <3>1, <3>2
  <2>4. CASE i = Len(x) + 1 /\ free_fibers'[i] = b
    BY <1>11, <1>12, <2>1, <2>4
  <2> QED
    BY <1>11, <2>2, <2>3, <2>4
<1>14. ASSUME NEW i \in DOMAIN free_fibers'
       PROVE  \/ i \in DOMAIN free_fibers /\ free_fibers'[i] = free_fibers[i]
              \/ /\ free_fibers'[i] \in Fid /\ free_fibers'[i] # Root /\ free_fibers'[i] < nfibers
                 /\ fibers[free_fibers'[i]].scope = s
  BY <1>1, <1>3, <1>6, <1>11 DEF Owned
<1> QED
  BY <1>13, <1>14

\* A scope is finalized: its awaiter is resumed and its rows are recycled.
LEMMA TreeTryFinalize ==
  ASSUME ScopeInv, TryFinalize, CanFinalize(Callee)
  PROVE  TreeInv'
<1>0. /\ Typed /\ FiberRows /\ Awaited /\ Awaiting /\ Bodies /\ Kids /\ FreeRows /\ LiveCount
      /\ fibers \in [Fid -> FiberOK] /\ scopes \in [Sid -> Scope]
      /\ free_fibers \in Seq(Fid) /\ free_scopes \in Seq(Sid)
  BY InvParts DEF Typed, TablesOK
<1>1. Calling("try_finalize") /\ Then(<<>>)
  BY DEF TryFinalize
<1>2. PICK s \in Sid : s = Callee
  BY <1>1, TopScope
<1>3. /\ s # ROOT_SCOPE /\ work \in Seq(Call) /\ work # <<>> /\ 1 \in DOMAIN work
      /\ current = NoFiber /\ work[1] = Do("try_finalize", s, s)
  BY <1>1, <1>2, TopScope
<1>4. work[1].fn = "try_finalize" /\ work[1].of = s
  BY <1>3 DEF Do
<1>5. /\ Open(s)
      /\ \A g \in Fid : ~LiveIn(g, s)
      /\ \A t \in Sid : Open(t) => ScopeRef(s) \notin scopes[t].enclosing
  BY <1>2, <1>3, <1>4, LastOut
<1>6. starting = None /\ UNCHANGED <<nfibers, nscopes, timers, pending, current, starting>>
  BY <1>3, NotStarting DEF TryFinalize
<1>7. \/ /\ scopes[s].manual /\ scopes' = [scopes EXCEPT ![s].finalized = TRUE]
         /\ UNCHANGED <<free_fibers, free_scopes>>
      \/ ~scopes[s].manual /\ Reclaimed(s)
  BY <1>2 DEF TryFinalize
<1>8. Finalized(s)
  BY <1>0, <1>2, Finalizes
<1>9. \A t \in Sid \ {s} : scopes'[t] = scopes[t]
  BY <1>8 DEF Finalized
<1>10. /\ \A t \in Sid : /\ Open(t)' <=> Open(t) /\ t # s
                         /\ ScopeRef(t)' = ScopeRef(t) /\ Up(t)' = Up(t)
                         /\ scopes'[t].gen = scopes[t].gen
                         /\ scopes'[t].enclosing = scopes[t].enclosing
                         /\ scopes'[t].cancelled = scopes[t].cancelled
                         /\ scopes'[t].live = scopes[t].live
       /\ \A t \in Sid : scopes[t].finalized => scopes'[t].finalized
       /\ scopes'[s].finalized
  <2>1. \A t \in Sid : /\ Open(t)' <=> Open(t) /\ t # s
                       /\ scopes'[t].gen = scopes[t].gen
                       /\ scopes'[t].enclosing = scopes[t].enclosing
                       /\ scopes'[t].cancelled = scopes[t].cancelled
                       /\ scopes'[t].live = scopes[t].live
    BY <1>8 DEF Finalized, Open
  <2>2. \A t \in Sid : ScopeRef(t)' = ScopeRef(t)
    BY <2>1 DEF ScopeRef
  <2>3. \A t \in Sid : Up(t)' = Up(t)
    BY <2>1, <2>2 DEF Up
  <2>4. (\A t \in Sid : scopes[t].finalized => scopes'[t].finalized) /\ scopes'[s].finalized
    BY <1>8 DEF Finalized
  <2> QED
    BY <2>1, <2>2, <2>3, <2>4
<1>11. PICK a : a = scopes[s].awaiter
  OBVIOUS
<1>12. a \in FidRef /\ a.id \in Fid /\ a # None
  BY <1>3, <1>5, <1>11, AwaiterWaits DEF None, Fid
<1>13. PICK w \in Fid : w = a.id
  BY <1>12
<1>14. /\ \A g \in Fid \ {w} : fibers'[g] = fibers[g]
       /\ \A g \in Fid : SameFiber(g) /\ FiberRef(g)' = FiberRef(g)
       /\ fibers[w].alive => fibers'[w].wait_kind = "none"
  <2>1. fibers' = IF fibers[w].alive THEN [fibers EXCEPT ![w].wait_kind = "none"] ELSE fibers
    BY <1>2, <1>11, <1>12, <1>13 DEF TryFinalize
  <2>2. /\ \A g \in Fid \ {w} : fibers'[g] = fibers[g]
        /\ SameFiber(w) /\ (fibers[w].alive => fibers'[w].wait_kind = "none")
    BY <1>0, <2>1, ResumeDelta DEF SameFiber
  <2> QED
    BY <2>2 DEF SameFiber, FiberRef
<1>15. \A g \in Fid, t \in Sid : LiveIn(g, t)' = LiveIn(g, t) /\ IsChild(g, t)' = IsChild(g, t)
  BY <1>14 DEF SameFiber, LiveIn, IsChild
<1>16. \A g \in Fid : fibers'[g].alive = fibers[g].alive /\ fibers'[g].scope = fibers[g].scope
                      /\ fibers'[g].runs_scope = fibers[g].runs_scope
                      /\ fibers'[g].knows = fibers[g].knows
  BY <1>14 DEF SameFiber
<1>17. /\ IsInjective(free_fibers')
       /\ \A i \in DOMAIN free_fibers' :
            \/ i \in DOMAIN free_fibers /\ free_fibers'[i] = free_fibers[i]
            \/ /\ free_fibers'[i] \in Fid /\ free_fibers'[i] # Root /\ free_fibers'[i] < nfibers
               /\ fibers[free_fibers'[i]].scope = s
  BY <1>0, <1>5, <1>6, <1>7, ReclaimedRows DEF FreeRows
<1>18. /\ IsInjective(free_scopes')
       /\ \A i \in DOMAIN free_scopes' :
            \/ i \in DOMAIN free_scopes /\ free_scopes'[i] = free_scopes[i]
            \/ free_scopes'[i] = s
  <2>1. CASE free_scopes' = free_scopes
    BY <1>0, <2>1 DEF FreeRows
  <2>2. CASE free_scopes' = Append(free_scopes, s)
    <3>1. \A i \in DOMAIN free_scopes' :
            \/ i \in DOMAIN free_scopes /\ free_scopes'[i] = free_scopes[i]
            \/ i = Len(free_scopes) + 1 /\ i \notin DOMAIN free_scopes /\ free_scopes'[i] = s
      BY <1>0, <2>2, Appended
    <3>2. \A i \in DOMAIN free_scopes : free_scopes[i] # s
      BY <1>0, <1>5 DEF FreeRows, Open
    <3>3. IsInjective(free_scopes')
      BY <1>0, <3>1, <3>2 DEF FreeRows, IsInjective
    <3> QED
      BY <3>1, <3>3
  <2> QED
    BY <1>7, <2>1, <2>2 DEF Reclaimed
<1>19. FreeRows'
  <2>1. \A i \in DOMAIN free_fibers : free_fibers[i] \in Fid
    BY <1>0, LenProperties, ElementOfSeq
  <2>2. \A i \in DOMAIN free_scopes : free_scopes[i] \in Sid
    BY <1>0, LenProperties, ElementOfSeq
  <2>3. ASSUME NEW i \in DOMAIN free_fibers'
        PROVE  /\ free_fibers'[i] # Root /\ free_fibers'[i] < nfibers'
               /\ ~fibers'[free_fibers'[i]].alive
    <3>1. CASE i \in DOMAIN free_fibers /\ free_fibers'[i] = free_fibers[i]
      BY <1>0, <1>6, <1>16, <2>1, <3>1 DEF FreeRows
    <3>2. CASE /\ free_fibers'[i] \in Fid /\ free_fibers'[i] # Root /\ free_fibers'[i] < nfibers
               /\ fibers[free_fibers'[i]].scope = s
      BY <1>5, <1>6, <1>16, <3>2 DEF LiveIn
    <3> QED
      BY <1>17, <3>1, <3>2
  <2>4. s < nscopes
    <3>1. ~(s >= nscopes)
      BY <1>0, <1>5 DEF FreeRows, Open
    <3>2. s \in Int /\ nscopes \in Int
      BY <1>0 DEF Typed, TablesOK, Sid
    <3> QED
      BY <3>1, <3>2
  <2>5. ASSUME NEW i \in DOMAIN free_scopes'
        PROVE  /\ free_scopes'[i] # ROOT_SCOPE /\ free_scopes'[i] < nscopes'
               /\ scopes'[free_scopes'[i]].finalized
    <3>1. CASE i \in DOMAIN free_scopes /\ free_scopes'[i] = free_scopes[i]
      BY <1>0, <1>6, <1>10, <2>2, <3>1 DEF FreeRows
    <3>2. CASE free_scopes'[i] = s
      BY <1>3, <1>6, <1>10, <2>4, <3>2
    <3> QED
      BY <1>18, <3>1, <3>2
  <2>6. /\ nfibers' > 0 /\ nscopes' > 0
        /\ \A g \in Fid : g >= nfibers' => ~fibers'[g].alive
        /\ \A t \in Sid : t >= nscopes' => scopes'[t].finalized
    BY <1>0, <1>6, <1>10, <1>16 DEF FreeRows
  <2> QED
    BY <1>17, <1>18, <2>3, <2>5, <2>6 DEF FreeRows
<1>20. FiberRows'
  <2>1. /\ fibers'[Root].knows = {} /\ fibers'[Root].scope = ROOT_SCOPE
        /\ fibers'[Root].runs_scope = NO_SCOPE
    BY <1>0, <1>16, SchedulerAssumption DEF FiberRows, Fid, Root
  <2>2. ASSUME NEW g \in Fid \ {Root}, fibers'[g].alive, NEW t, t = fibers'[g].scope
        PROVE  /\ Open(t)' /\ fibers'[g].knows = Up(t)'
               /\ fibers'[g].runs_scope # NO_SCOPE =>
                    /\ fibers'[g].runs_scope = t /\ scopes'[t].body = g
                    /\ scopes'[t].bd_kind = "none"
    <3>1. fibers[g].alive /\ t = fibers[g].scope
      BY <1>16, <2>2
    <3>2. t \in Sid
      BY <1>0, <3>1, FiberFields
    <3>3. t # s
      BY <1>5, <3>1 DEF LiveIn
    <3>4. /\ Open(t) /\ fibers[g].knows = Up(t)
          /\ fibers[g].runs_scope # NO_SCOPE =>
               fibers[g].runs_scope = t /\ scopes[t].body = g /\ scopes[t].bd_kind = "none"
      BY <1>0, <3>1 DEF FiberRows
    <3> QED
      BY <1>9, <1>10, <1>16, <3>1, <3>2, <3>3, <3>4
  <2> QED
    BY <2>1, <2>2 DEF FiberRows, Open, Up, ScopeRef
<1>21. Nesting'
  BY <1>5, <1>10, NestingStays
<1>22. \A c : InWork(c) /\ c.fn # "try_finalize" => InWork(c)'
  <2>1. PICK calls : calls = <<>>
    OBVIOUS
  <2>2. calls \in Seq(Call) /\ Then(calls)
    BY <1>1, <2>1
  <2> QED
    BY <1>3, <1>4, <2>2, StaysInWork
<1>23. Awaited'
  <2> SUFFICES ASSUME NEW t \in Sid, Open(t)', NEW e, e = scopes'[t].awaiter
               PROVE  /\ e # None /\ (fibers'[e.id].alive => Awaits(e, t)')
                      /\ ~fibers'[e.id].alive =>
                           scopes'[t].cancelled \/ InWork(Do("cancel_scope", t, t))'
    BY DEF Awaited, Awaits, Waits, ScopeRef
  <2>1. Open(t) /\ t # s /\ e = scopes[t].awaiter
    BY <1>9, <1>10
  <2>2. PICK g \in Fid : g = e.id
    BY <1>3, <2>1, AwaiterWaits
  <2>3. e # None
    BY <1>0, <2>1 DEF Awaited
  <2>4. CASE fibers[g].alive
    <3>1. /\ e = FiberRef(g) /\ fibers[g].wait_kind = "scope" /\ fibers[g].wait_arg = ScopeRef(t)
          /\ fibers[g].knows = scopes[t].enclosing
      BY <1>3, <2>1, <2>2, <2>4, AwaiterWaits
    <3>2. g # w
      <4> SUFFICES ASSUME g = w
                   PROVE  FALSE
        OBVIOUS
      <4>1. fibers[g].wait_arg = ScopeRef(s)
        BY <1>3, <1>5, <1>11, <1>13, <2>4, AwaiterWaits
      <4> QED
        BY <2>1, <3>1, <4>1 DEF ScopeRef, Ref
    <3>3. fibers'[g] = fibers[g] /\ FiberRef(g)' = FiberRef(g)
      BY <1>14, <3>2
    <3>4. Waits(g, t)'
      BY <1>10, <3>1, <3>3 DEF Waits
    <3>5. Awaits(e, t)'
      BY <1>10, <2>2, <3>1, <3>3, <3>4 DEF Awaits
    <3> QED
      BY <1>16, <2>2, <2>3, <2>4, <3>5
  <2>5. CASE ~fibers[g].alive
    <3>1. scopes[t].cancelled \/ InWork(Do("cancel_scope", t, t))
      BY <1>0, <2>1, <2>2, <2>5 DEF Awaited
    <3>2. InWork(Do("cancel_scope", t, t)) => InWork(Do("cancel_scope", t, t))'
      BY <1>22 DEF Do
    <3> QED
      BY <1>10, <1>16, <2>2, <2>3, <2>5, <3>1, <3>2
  <2> QED
    BY <2>4, <2>5
<1>24. Awaiting'
  <2>1. ASSUME NEW g \in Fid, fibers'[g].alive, fibers'[g].wait_kind = "scope",
               NEW t, t = fibers'[g].wait_arg.id
        PROVE  Open(t)' /\ fibers'[g].wait_arg = ScopeRef(t)' /\ scopes'[t].awaiter = FiberRef(g)'
    <3>1. g # w /\ fibers[g].alive
      BY <1>14, <1>16, <2>1
    <3>2. fibers'[g] = fibers[g]
      BY <1>14, <3>1
    <3>3. /\ t \in Sid /\ Open(t) /\ fibers[g].wait_arg = ScopeRef(t)
          /\ scopes[t].awaiter = FiberRef(g)
      BY <2>1, <3>1, <3>2, ScopeWait
    <3>4. t # s
      BY <1>11, <1>13, <3>1, <3>3 DEF FiberRef, Ref
    <3> QED
      BY <1>9, <1>10, <1>14, <3>2, <3>3, <3>4
  <2>2. starting' = None /\ current' = NoFiber
    BY <1>3, <1>6
  <2> QED
    BY <2>1, <2>2 DEF Awaiting, Open, ScopeRef, FiberRef, LiveIn
<1>25. ASSUME NEW g \in Fid, NEW t \in Sid \ {s}, NEW r, Owned(g, t, r)
       PROVE  Owned(g, t, r)'
  <2>1. \A i \in DOMAIN free_fibers' : free_fibers'[i] # g
    BY <1>17, <1>25 DEF Owned
  <2> QED
    BY <1>6, <1>16, <1>25, <2>1 DEF Owned
<1>26. Bodies'
  <2> SUFFICES ASSUME NEW t \in Sid, Open(t)', NEW b, b = scopes'[t].body
               PROVE  /\ Owned(b, t, t)'
                      /\ scopes'[t].bd_kind = "none" =>
                           fibers'[b].alive \/ InWork(Do("mark_cancelled", t, t))'
    BY DEF Bodies, Owned
  <2>1. /\ Open(t) /\ t # s /\ b = scopes[t].body /\ scopes'[t].bd_kind = scopes[t].bd_kind
    BY <1>9, <1>10
  <2>2. b \in Fid /\ Owned(b, t, t)
    BY <1>6, <2>1, BodyRow
  <2>3. starting # ScopeRef(t)
    BY <1>3, NotStarting
  <2>4. scopes[t].bd_kind = "none" => fibers[b].alive \/ InWork(Do("mark_cancelled", t, t))
    BY <1>0, <2>1, <2>3 DEF Bodies
  <2>5. InWork(Do("mark_cancelled", t, t)) => InWork(Do("mark_cancelled", t, t))'
    BY <1>22 DEF Do
  <2> QED
    BY <1>16, <1>25, <2>1, <2>2, <2>4, <2>5
<1>27. Kids'
  <2> SUFFICES ASSUME NEW t \in Sid, Open(t)', NEW kids, kids = scopes'[t].children
               PROVE  /\ \A g \in Fid : LiveIn(g, t)' /\ fibers'[g].runs_scope = NO_SCOPE =>
                           \E i \in DOMAIN kids : kids[i].id = g
                      /\ ~scopes'[t].manual =>
                           /\ scopes'[t].next_waiters = <<>>
                           /\ \A i, j \in DOMAIN kids : kids[i].id = kids[j].id => i = j
                           /\ \A i \in DOMAIN kids : Owned(kids[i].id, t, NO_SCOPE)'
    BY KidsAre
  <2>1. Open(t) /\ t # s /\ scopes'[t] = scopes[t] /\ kids = scopes[t].children
    BY <1>9, <1>10
  <2>2. kids \in Seq(FidRef)
    BY <1>0, <2>1, ScopeFields
  <2>3. \A i \in DOMAIN kids : kids[i].id \in Fid
    <3>1. \A i \in DOMAIN kids : kids[i] \in FidRef
      BY <2>2, LenProperties, ElementOfSeq
    <3> QED
      BY <3>1 DEF FidRef
  <2>4. /\ \A g \in Fid : LiveIn(g, t) /\ fibers[g].runs_scope = NO_SCOPE =>
             \E i \in DOMAIN kids : kids[i].id = g
        /\ ~scopes[t].manual =>
             /\ scopes[t].next_waiters = <<>>
             /\ \A i, j \in DOMAIN kids : kids[i].id = kids[j].id => i = j
             /\ \A i \in DOMAIN kids : Owned(kids[i].id, t, NO_SCOPE)
    BY <1>0, <2>1 DEF Kids
  <2>5. \A g \in Fid : LiveIn(g, t)' /\ fibers'[g].runs_scope = NO_SCOPE =>
          \E i \in DOMAIN kids : kids[i].id = g
    BY <1>15, <1>16, <2>4
  <2>6. ~scopes[t].manual => \A i \in DOMAIN kids : Owned(kids[i].id, t, NO_SCOPE)'
    BY <1>25, <2>1, <2>3, <2>4
  <2> QED
    BY <2>1, <2>4, <2>5, <2>6
<1>28. LiveCount'
  <2> SUFFICES ASSUME NEW t \in Sid \ {ROOT_SCOPE}
               PROVE  scopes'[t].live = Cardinality(Live(t)')
    BY CountsAre
  <2>1. \A g \in Fid : (fibers'[g].alive /\ IsChild(g, t)') <=> (fibers[g].alive /\ IsChild(g, t))
    BY <1>15, <1>16
  <2> QED
    BY <1>0, <1>10, <2>1, CountKept
<1>29. Shrinks
  BY <1>9, <1>10, <1>16 DEF Shrinks
<1>30. PICK calls \in Seq(Call) : Then(calls) /\ 1..Len(calls) = {}
  <2>1. PICK calls : calls = <<>>
    OBVIOUS
  <2>2. Then(calls) /\ Len(calls) = 0 /\ calls \in Seq(Call)
    BY <1>1, <2>1
  <2>3. 1..Len(calls) = {}
    BY <2>2
  <2> QED
    BY <2>2, <2>3
<1>31. Cancelling'
  <2> SUFFICES ASSUME NEW t \in Sid, Open(t)', Ending(t)'
               PROVE  \E j \in DOMAIN work' : Finishes(t, j)'
    BY DEF Cancelling
  <2>1. t # s
    BY <1>10
  <2>2. Ending(t)
    BY <1>9, <2>1 DEF Ending
  <2>3. ~Finishes(t, 1) /\ work[1] # Do("mark_cancelled", t, t)
    BY <1>3, <2>1 DEF Finishes, Do
  <2>4. \A g \in Fid : ~Reaps(work[1], g, t)
    BY <1>4 DEF Reaps, Do
  <2> QED
    BY <1>3, <1>29, <1>30, <2>2, <2>3, <2>4, CancellingThen
<1>32. Calls'
  <2>1. \A j \in DOMAIN work' : CallOK(j)'
    BY <1>3, <1>4, <1>29, <1>30, CallsThen
  <2>2. NoRoot'
    <3>1. NoRoot /\ ROOT_SCOPE \in Sid
      BY RootSpared
    <3> QED
      BY <1>6, <1>10, <1>16, <3>1 DEF NoRoot
  <2> QED
    BY <2>1, <2>2 DEF Calls, NoRoot
<1>33. Order'
  <2>1. \A t \in Sid : Open(t)' => Open(t)
    BY <1>10
  <2> QED
    BY <1>3, <1>10, <1>30, <2>1, OrderThen
<1> QED
  BY <1>19, <1>20, <1>21, <1>23, <1>24, <1>26, <1>27, <1>28, <1>31, <1>32, <1>33 DEF TreeInv

-----------------------------------------------------------------------------
(* The theorems. *)

\* The tree starts as the root fiber, in the root scope.
LEMMA TreeInit == Init => TreeInv
<1> SUFFICES ASSUME Init
             PROVE  TreeInv
  OBVIOUS
<1>0. Root \in Fid /\ ROOT_SCOPE \in Sid
  BY SchedulerAssumption DEF Fid, Sid, Root, ROOT_SCOPE
<1>1. /\ \A f \in Fid : /\ fibers[f].knows = {} /\ fibers[f].scope = ROOT_SCOPE
                        /\ fibers[f].runs_scope = NO_SCOPE /\ fibers[f].wait_kind = "none"
                        /\ fibers[f].waiters = <<>>
      /\ \A f \in Fid \ {Root} : ~fibers[f].alive
  BY DEF Init, NoFiberRow, NewFiber
<1>2. /\ \A s \in Sid : /\ ~scopes[s].cancelled /\ scopes[s].live = 0
                        /\ scopes[s].next_waiters = <<>>
      /\ \A s \in Sid \ {ROOT_SCOPE} : scopes[s].finalized
  BY DEF Init, NoScopeRow, NewScope
<1>3. /\ free_fibers = <<>> /\ free_scopes = <<>> /\ timers = <<>> /\ pending = <<>>
      /\ work = <<>> /\ current = NoFiber /\ starting = None /\ nfibers = 1 /\ nscopes = 1
  BY DEF Init
<1>4. \A s \in Sid : ~Open(s)
  BY <1>2 DEF Open
<1>5. DOMAIN work = {} /\ DOMAIN timers = {} /\ DOMAIN pending = {} /\ DOMAIN free_fibers = {}
      /\ DOMAIN free_scopes = {}
  BY <1>3
<1>6. FiberRows
  BY <1>0, <1>1 DEF FiberRows
<1>7. Nesting /\ Awaited /\ Bodies /\ Kids /\ Cancelling
  BY <1>4 DEF Nesting, Awaited, Bodies, Kids, Cancelling
<1>8. Awaiting
  BY <1>1, <1>3 DEF Awaiting
<1>9. FreeRows
  <2>1. \A f \in Fid : f >= nfibers => f # Root
    BY <1>3 DEF Fid, Root
  <2>2. \A s \in Sid : s >= nscopes => s # ROOT_SCOPE
    BY <1>3 DEF Sid, ROOT_SCOPE
  <2> QED
    BY <1>1, <1>2, <1>3, <1>5, <2>1, <2>2 DEF FreeRows, IsInjective
<1>10. LiveCount
  <2> SUFFICES ASSUME NEW s \in Sid \ {ROOT_SCOPE}
               PROVE  scopes[s].live = Cardinality({f \in Fid : fibers[f].alive /\ IsChild(f, s)})
    BY DEF LiveCount
  <2>1. {f \in Fid : fibers[f].alive /\ IsChild(f, s)} = {}
    BY <1>1 DEF IsChild
  <2> QED
    BY <1>2, <2>1, FS_EmptySet
<1>11. Calls /\ Order
  BY <1>0, <1>1, <1>2, <1>5 DEF Calls, Order
<1> QED
  BY <1>6, <1>7, <1>8, <1>9, <1>10, <1>11 DEF TreeInv

\* Only the root is queued.
LEMMA WakeInit == Init => WakeInv
<1> SUFFICES ASSUME Init
             PROVE  WakeInv
  OBVIOUS
<1>0. Root \in Fid
  BY SchedulerAssumption DEF Fid, Root
<1>1. \A f \in Fid : fibers[f].wait_kind = "none" /\ fibers[f].waiters = <<>>
  BY DEF Init, NoFiberRow, NewFiber
<1>2. \A s \in Sid : scopes[s].next_waiters = <<>>
  BY DEF Init, NoScopeRow, NewScope
<1>3. DOMAIN timers = {} /\ current = NoFiber /\ nfibers = 1
  BY DEF Init
<1>4. PICK e : e = [fid |-> Ref(Root, 1), focus |-> "start"]
  OBVIOUS
<1>5. ready = <<e>> /\ e.fid.id = Root
  BY <1>4 DEF Init, Ref
<1>6. DOMAIN ready = {1} /\ ready[1].fid.id = Root
  BY <1>5
<1>7. /\ \A f \in Fid : DOMAIN fibers[f].waiters = {}
      /\ \A s \in Sid : DOMAIN scopes[s].next_waiters = {}
  BY <1>1, <1>2
<1>8. ReadyOnce
  BY <1>0, <1>1, <1>3, <1>6, <1>7 DEF ReadyOnce, Unawaited, Root, NoFiber
<1>9. TimerOnce /\ WaiterOnce /\ DrainerOnce
  BY <1>3, <1>7 DEF TimerOnce, WaiterOnce, DrainerOnce
<1>10. Reached
  BY <1>3, <1>6, <1>7 DEF Reached, NamesFiber, Root
<1> QED
  BY <1>8, <1>9, <1>10 DEF WakeInv

\* Every operation of the program keeps the tree.
LEMMA TreeProgram ==
  ASSUME ScopeInv, Disciplined, ProgramStep
  PROVE  TreeInv'
<1>1. ASSUME NEW h \in AllHandles, Spawn(h) \/ Cancel(h) \/ TakeSettled(h) \/ AwaitNext(h)
      PROVE  TreeInv'
  BY <1>1, TreeSpawn, TreeQueues, TreeParks
<1>2. ASSUME NEW h \in AllHandles, NEW d \in Durations, CancelAfter(h, d)
      PROVE  TreeInv'
  BY <1>2, TreeQueues
<1>3. ASSUME NEW h \in AllHandles, NEW c \in Range(scopes[h.id].children), AwaitHandle(h, c)
      PROVE  TreeInv'
  BY <1>3, TreeAwaitHandle
<1>4. ASSUME Yield \/ AwaitIo \/ StartBody \/ \E d \in Durations : Sleep(d)
      PROVE  TreeInv'
  BY <1>4, TreeParks, TreeStartBody
<1>5. ASSUME NEW manual \in BOOLEAN, StartScope(manual)
      PROVE  TreeInv'
  BY <1>5, TreeStartScope
<1>6. ASSUME NEW kind \in {"ok", "err"},
             CompleteRoot(kind) \/ CompleteBody(kind) \/ CompleteChild(kind)
      PROVE  TreeInv'
  BY <1>6, TreeCompleteRoot, TreeCompleteBody, TreeCompleteChild
<1> QED
  BY <1>1, <1>2, <1>3, <1>4, <1>5, <1>6 DEF ProgramStep

\* So do the calls that cancel, reap and finalize ...
LEMMA TreeCalls ==
  ASSUME ScopeInv, Disciplined, CallStep
  PROVE  TreeInv'
<1>1. ASSUME CancelScope
      PROVE  TreeInv'
  BY <1>1, TreeCancelScope, TreeNoop
<1>2. ASSUME MarkCancelled
      PROVE  TreeInv'
  BY <1>2, TreeMarkCancelled, TreeNoop
<1>3. ASSUME ReapChildren \/ ReapChild \/ RunDefers
      PROVE  TreeInv'
  BY <1>3, TreeReapChildren, TreeReapChild, TreeRunDefers
<1>4. ASSUME ReapFiber
      PROVE  TreeInv'
  BY <1>4, TreeReapFiber, TreeNoop
<1>5. ASSUME TryFinalize
      PROVE  TreeInv'
  BY <1>5, TreeTryFinalize, TreeNoop
<1> QED
  BY <1>1, <1>2, <1>3, <1>4, <1>5 DEF CallStep

\* ... and the loop of run_task.
LEMMA TreeLoop ==
  ASSUME ScopeInv, LoopStep
  PROVE  TreeInv'
BY TreeLoopCalls, TreeWakes, TreeNoop DEF LoopStep

\* Nothing happens in a step that leaves the variables alone.
LEMMA ScopeStutter ==
  ASSUME ScopeInv, UNCHANGED vars
  PROVE  TreeInv' /\ WakeInv'
<1>1. UNCHANGED <<fibers, nfibers, scopes, nscopes, free_fibers, free_scopes, ready, timers, pending,
                  root_kind, current, starting, work, halted>>
  BY DEF vars, tables, queues, control
<1>2. TreeInv'
  <2>1. /\ FiberRows' = FiberRows /\ Nesting' = Nesting /\ Awaited' = Awaited
        /\ Awaiting' = Awaiting /\ Bodies' = Bodies /\ Kids' = Kids
    BY <1>1 DEF FiberRows, Nesting, NestedIn, Awaited, Awaits, Waits, Awaiting, Bodies, Kids,
                Owned, Open, Up, ScopeRef, FiberRef, LiveIn, InWork
  <2>2. /\ FreeRows' = FreeRows /\ LiveCount' = LiveCount /\ Cancelling' = Cancelling
        /\ Calls' = Calls /\ Order' = Order
    BY <1>1 DEF FreeRows, LiveCount, IsChild, Cancelling, Ending, Finishes, Reaps, Calls, CallOK, Order,
                Open, ScopeRef, LiveIn
  <2> QED
    BY <2>1, <2>2, InvParts DEF TreeInv
<1>3. WakeInv'
  <2>1. /\ ReadyOnce' = ReadyOnce /\ TimerOnce' = TimerOnce /\ WaiterOnce' = WaiterOnce
        /\ DrainerOnce' = DrainerOnce /\ Reached' = Reached
    BY <1>1 DEF ReadyOnce, Unawaited, TimerOnce, WaiterOnce, DrainerOnce, Reached, NamesFiber
  <2> QED
    BY <2>1, InvParts DEF WakeInv
<1> QED
  BY <1>2, <1>3

\* The invariant is kept by every step of a disciplined program.
LEMMA ScopeStep ==
  ASSUME ScopeInv, Disciplined, [Next]_vars
  PROVE  ScopeInv'
<1>1. RowsInv'
  BY RowsInvStep DEF ScopeInv
<1>2. CASE Next
  BY <1>1, <1>2, TreeProgram, TreeCalls, TreeLoop, WakeProgram, WakeCalls, WakeLoop
  DEF Next, ScopeInv
<1>3. CASE UNCHANGED vars
  BY <1>1, <1>3, ScopeStutter DEF ScopeInv
<1> QED
  BY <1>2, <1>3

\* The invariant holds throughout.
LEMMA ScopeAlways ==
  ASSUME Disciplined
  PROVE  Spec => []ScopeInv
<1>1. Init => ScopeInv
  BY RowsInit, TreeInit, WakeInit DEF ScopeInv
<1>2. ScopeInv /\ [Next]_vars => ScopeInv'
  BY ScopeStep
<1> QED
  BY <1>1, <1>2, PTL DEF Spec

\* The counter that try_finalize_scope trusts is the number of the scope's children
\* that have not settled, in every state a disciplined program reaches.
THEOREM LiveCountRight ==
  ASSUME Disciplined
  PROVE  Spec => []LiveCount
<1>1. ScopeInv => LiveCount
  BY InvParts
<1> QED
  BY <1>1, ScopeAlways, PTL

\* Structured concurrency: no fiber of a scope lives on once the scope has ended.
THEOREM NothingOutlives ==
  ASSUME Disciplined
  PROVE  Spec => []NothingOutlivesScope
<1>1. ScopeInv => NothingOutlivesScope
  <2> SUFFICES ASSUME ScopeInv, NEW s \in Sid \ {ROOT_SCOPE}, scopes[s].finalized,
                      NEW f \in Fid \ {Root}, fibers[f].scope = s, fibers[f].alive
               PROVE  FALSE
    BY DEF NothingOutlivesScope
  <2>1. Open(s)
    BY InvParts DEF FiberRows
  <2> QED
    BY <2>1 DEF Open
<1> QED
  BY <1>1, ScopeAlways, PTL

\* The free lists name rows of ended fibers and scopes only, each once.
THEOREM FreeRowsFree ==
  ASSUME Disciplined
  PROVE  Spec => []FreeRowsEnded
<1>1. ScopeInv => FreeRowsEnded
  <2> SUFFICES ASSUME ScopeInv
               PROVE  FreeRowsEnded
    OBVIOUS
  <2>1. FreeRows
    BY InvParts
  <2>2. \A f \in Range(free_fibers) : ~fibers[f].alive
    BY <2>1 DEF FreeRows, Range
  <2>3. \A s \in Range(free_scopes) : scopes[s].finalized
    BY <2>1 DEF FreeRows, Range
  <2> QED
    BY <2>1, <2>2, <2>3 DEF FreeRowsEnded, FreeRows
<1> QED
  BY <1>1, ScopeAlways, PTL

\* What one step may do to the row of a live fiber.
LiveRowStep == \A f \in Fid : fibers[f].alive => fibers'[f].gen = fibers[f].gen

\* A spawn never hands out the row of a live fiber, whose references would then name
\* another: the free lists and the table's end lead to ended fibers' rows only.
THEOREM LiveRowsStay ==
  ASSUME Disciplined
  PROVE  Spec => LiveRowKept
<1>1. ScopeInv /\ [Next]_vars => [LiveRowStep]_vars
  <2> SUFFICES ASSUME ScopeInv, [Next]_vars, NEW f \in Fid, fibers[f].alive
               PROVE  fibers'[f].gen = fibers[f].gen
    BY DEF LiveRowStep
  <2>1. Keeps(f) \/ HandedOut(f) \/ Ends(f)
    BY RowsNext DEF ScopeInv, RowsStep
  <2>2. ~HandedOut(f)
    BY SlotFree DEF HandedOut
  <2> QED
    BY <2>1, <2>2 DEF Keeps, Ends
<1>2. Spec => [][LiveRowStep]_vars
  BY <1>1, ScopeAlways, PTL DEF Spec
<1> QED
  BY <1>2 DEF LiveRowKept, LiveRowStep

\* Between steps the fiber that opened a scope is alive and waits for it, as long as
\* anything lives in the scope: a cancellation from above finds every fiber below.
THEOREM TreeStaysIntact ==
  ASSUME Disciplined
  PROVE  Spec => []TreeIntact
<1>1. ScopeInv => TreeIntact
  <2> SUFFICES ASSUME ScopeInv, Looping, NEW f \in Fid \ {Root}, fibers[f].alive
               PROVE  LET s == scopes[fibers[f].scope]
                          a == s.awaiter
                      IN /\ ~s.finalized /\ a # None
                         /\ fibers[a.id].alive /\ fibers[a.id].gen = a.gen
                         /\ fibers[a.id].wait_kind = "scope"
                         /\ fibers[a.id].wait_arg.id = fibers[f].scope
    BY DEF TreeIntact
  <2>1. current = NoFiber /\ work = <<>>
    BY DEF Looping
  <2>2. PICK s \in Sid : s = fibers[f].scope
    BY InvParts, FiberFields
  <2>3. Open(s)
    BY <2>2, InvParts DEF FiberRows
  <2>4. PICK a : a = scopes[s].awaiter
    OBVIOUS
  <2>5. a \in FidRef /\ fibers[a.id].alive
    BY <2>1, <2>3, <2>4, IdleTree
  <2>6. /\ a = FiberRef(a.id) /\ fibers[a.id].wait_kind = "scope"
        /\ fibers[a.id].wait_arg = ScopeRef(s)
    BY <2>1, <2>3, <2>4, <2>5, AwaiterWaits
  <2>7. a.gen = fibers[a.id].gen /\ fibers[a.id].wait_arg.id = s /\ a # None
    BY <2>5, <2>6 DEF FiberRef, ScopeRef, Ref, None, FidRef, Fid
  <2> QED
    BY <2>2, <2>3, <2>4, <2>5, <2>6, <2>7 DEF Open
<1> QED
  BY <1>1, ScopeAlways, PTL

\* A cancellation is complete when it returns to the loop, however deep the tree below.
THEOREM CancellationCompletes ==
  ASSUME Disciplined
  PROVE  Spec => []CancelEnds
<1>1. ScopeInv => CancelEnds
  <2> SUFFICES ASSUME ScopeInv, Looping, NEW s \in Sid, scopes[s].cancelled
               PROVE  scopes[s].finalized
    BY DEF CancelEnds
  <2>1. s # ROOT_SCOPE
    BY InvParts DEF Calls
  <2>2. ~Open(s)
    BY IdleTree DEF Looping
  <2> QED
    BY <2>1, <2>2 DEF Open
<1> QED
  BY <1>1, ScopeAlways, PTL
=============================================================================

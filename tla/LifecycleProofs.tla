--------------------------- MODULE LifecycleProofs ---------------------------
(***************************************************************************)
(* Proofs about Lifecycle: the stores outlive their users, a Stop that     *)
(* returns nil means what it says, and bodies are interrupted, for any     *)
(* number of callers, requests, workers and wrappers.                      *)
(***************************************************************************)
EXTENDS Lifecycle, TLAPS

\* The owner of the shutdown is unique, and what it has done by each phase.
OwnerInv ==
  /\ \A c \in Callers : pc[c] \in StopPhases => stopDone = "pending"
  /\ \A c, d \in Callers :
       pc[c] \in StopPhases /\ pc[d] \in StopPhases => c = d
  /\ stopDone = "none" => ~draining
  /\ \A c \in Callers : pc[c] \in StopPhases => (draining <=> pc[c] # "begin")
  /\ \A c \in Callers :
       pc[c] \in {"drainSessions", "closeSessions", "awaitSessions", "drain",
                  "finalize"} => admissionClosed
  /\ admissionClosed => draining
  /\ \A c \in Callers : pc[c] \in StopPhases \ {"finalize"} => finalizer = "none"
  /\ stopDone = "none" => finalizer = "none"
  /\ finalizer # "none" => admissionClosed
  /\ store = "closed" <=> finalizer = "done"

\* Whoever may use a store is tracked, and the finalizer saw nobody tracked.
UserInv ==
  /\ \A r \in Requests :
       req[r] \in Using \cup {"returning", "recycling"} => tracked[r]
  /\ \A r \in Requests : req[r] \in Active /\ ~tracked[r] => draining
  /\ finalizer \in {"workers", "done"} =>
       \A r \in Requests : req[r] \in Active => ~tracked[r]
  /\ finalizer = "done" => ActiveWorkers = {} /\ replay # "open"

\* The Start that claimed the listener is unique and owns the open port.
ClaimPhases == {"listen", "bound", "unbound", "abandon", "abandonAlone"}

ListenerInv ==
  /\ \A a \in Starters : pc[a] \in ClaimPhases => listener = "claimed"
  /\ \A a, b \in Starters :
       pc[a] \in ClaimPhases /\ pc[b] \in ClaimPhases => a = b
  /\ listener = "claimed" => \A a \in ports : pc[a] \in ClaimPhases
  /\ listener \in {"unclaimed", "abandoned", "ended"} => ports = {}
  /\ finalizer \in {"handlers", "workers", "done"} =>
       listener \in {"unclaimed", "abandoned", "ended"}

\* The kept result of Stop.
ResultInv ==
  /\ stopDone = "closed" => ~running
  /\ stopDone = "closed" /\ ~stopFailed => finalizer = "done"
  /\ \A c \in Callers : pc[c] = "nil" => stopDone = "closed" /\ ~stopFailed

\* A request that reads its body has a wrapper.
BoundInv ==
  \A r \in Requests :
    req[r] \in {"register", "body", "eof"} => wrapper[r] # NoWrapper

\* Leases: a leased wrapper has one lessee and is not in the pool.
LeaseInv ==
  /\ \A r, s \in Requests :
       wrapper[r] = wrapper[s] /\ wrapper[r] # NoWrapper => r = s
  /\ \A r \in Requests : wrapper[r] \notin pool
  /\ \A w \in registered : w \notin pool
  /\ \A w \in pending : w \notin pool /\ scheduled[w]
  /\ \A r \in Requests : req[r] = "recycling" => wrapper[r] \notin registered

\* A body that is read is registered, or is to be cancelled, or was cut.
ReadInv ==
  /\ \A r \in Requests : req[r] \in {"register", "body"} =>
       ~released[wrapper[r]] /\ ~complete[wrapper[r]]
  /\ \A r \in Requests : req[r] = "body" =>
       connClosed[r] \/ wrapper[r] \in registered \cup pending
  /\ \A c \in Callers :
       pc[c] \in StopPhases \ {"begin", "snapshot"} => registered = {}
  /\ \A c \in Callers :
       pc[c] \in StopPhases \ {"cancelBodies"} => pending = {}
  /\ stopDone = "none" => ~cancelled /\ pending = {}
  /\ \A c \in Callers : pc[c] \in {"begin", "snapshot", "cancelBodies"} => ~cancelled
  /\ cancelled => draining /\ registered = {} /\ pending = {}

\* Blame: a client that had left when admission closed is never overruled.
BlameInv ==
  /\ \A r \in goneFirst : gone[r]
  /\ ~draining => pending = {}
  /\ ~draining => \A r \in Requests :
       wrapper[r] # NoWrapper => cause[wrapper[r]] # "shutdown"
  /\ ClientBlamedFirst

-----------------------------------------------------------------------------
\* Steps of callers, listener, finalizer and workers leave the requests alone.
LEMMA ServerFrame ==
  ASSUME \/ \E a \in Starters : StartStep(a)
         \/ ServeEnds \/ FinalizerStep \/ UNCHANGED vars
         \/ \E c \in Callers : StopStep(c)
         \/ \E c \in Stoppers : Expire(c)
         \/ \E k \in Workers : EndWorker(k)
  PROVE  UNCHANGED <<req, wrapper, pool, tracked>>
<1> USE DEF vars, connVars, bodyVars, leaseVars
<1>1. ASSUME NEW a \in Starters, StartStep(a)
      PROVE UNCHANGED <<req, wrapper, pool, tracked>>
  BY <1>1 DEF StartStep, StartRefused, StartClaims, Listen, StartCommits,
     AbandonListener
<1>2. ASSUME NEW c \in Callers, StopStep(c)
      PROVE UNCHANGED <<req, wrapper, pool, tracked>>
  BY <1>2 DEF StopStep, StopClaims, StopJoins, BeginShutdown,
     CancelLifecycleRequestBodies, CancelBody, CancelLifecycle, CloseAdmission,
     DrainSessions, CloseSessions, AwaitSessions, Drained, ForceClose, StopReturns
<1> QED
  BY <1>1, <1>2 DEF ServeEnds, FinalizerStep, FinalizeListener,
     FinalizeHandlers, FinalizeStores, Expire, EndWorker

-----------------------------------------------------------------------------
Typed == TypeOK /\ BoundInv

LEMMA TypedInit == Init => Typed
<1> SUFFICES ASSUME Init PROVE Typed
  OBVIOUS
<1>1. StopTypeOK /\ ServerTypeOK
  BY DEF Init, StopTypeOK, ServerTypeOK, StartPhases
<1>2. ProxyTypeOK /\ RequestTypeOK /\ BoundInv
  BY DEF Init, ProxyTypeOK, RequestTypeOK, BoundInv, Phases
<1>3. BodyTypeOK
  BY DEF Init, BodyTypeOK
<1> QED
  BY <1>1, <1>2, <1>3 DEF Typed, TypeOK

LEMMA TypeStep == ASSUME Typed, [Next]_vars PROVE TypeOK'
<1> USE DEF Typed
<1> USE DEF vars, serverVars, startVars, stopVars, finalVars, proxyVars,
      sessionVars, storeVars, connVars, bodyVars, leaseVars, flagVars
<1>1. ASSUME NEW a \in Starters, StartStep(a) PROVE TypeOK'
  <2> USE <1>1 DEF TypeOK, StartStep, StartRefused, StartClaims, Listen,
        StartCommits, AbandonListener
  <2>1. StopTypeOK'
    BY DEF StopTypeOK, StartPhases, Callers
  <2>2. ServerTypeOK'
    BY ZenonT(60) DEF ServerTypeOK
  <2>3. ProxyTypeOK' /\ RequestTypeOK' /\ BodyTypeOK'
    BY DEF ProxyTypeOK, RequestTypeOK, BodyTypeOK
  <2> QED
    BY <2>1, <2>2, <2>3
<1>2. ASSUME NEW c \in Callers, StopStep(c) PROVE TypeOK'
  <2> USE DEF TypeOK, Goto
  <2>1. CASE \/ StopClaims(c) \/ StopJoins(c) \/ BeginShutdown(c)
             \/ CancelLifecycle(c) \/ CloseAdmission(c) \/ DrainSessions(c)
    <3> USE <2>1 DEF StopClaims, StopJoins, BeginShutdown, CancelLifecycle,
          CloseAdmission, DrainSessions
    <3>1. StopTypeOK'
      BY DEF StopTypeOK, StopPhases
    <3>2. ServerTypeOK'
      BY ZenonT(60) DEF ServerTypeOK
    <3>3. ProxyTypeOK'
      BY ZenonT(60) DEF ProxyTypeOK
    <3>4. RequestTypeOK'
      <4>1. goneFirst' \subseteq Requests
        BY DEF RequestTypeOK, TypeOK
      <4>2. UNCHANGED <<req, tracked, connClosed, hijacked, gone>>
        OBVIOUS
      <4> QED
        BY <4>1, <4>2 DEF RequestTypeOK, TypeOK
    <3>5. BodyTypeOK'
      BY DEF BodyTypeOK
    <3> QED
      BY <3>1, <3>2, <3>3, <3>4, <3>5
  <2>2. CASE CancelLifecycleRequestBodies(c)
    <3> USE <2>2 DEF CancelLifecycleRequestBodies
    <3>1. StopTypeOK'
      BY DEF StopTypeOK, StopPhases
    <3>2. ServerTypeOK' /\ ProxyTypeOK' /\ RequestTypeOK'
      BY DEF ServerTypeOK, ProxyTypeOK, RequestTypeOK
    <3>3. BodyTypeOK'
      BY DEF BodyTypeOK
    <3> QED
      BY <3>1, <3>2, <3>3
  <2>3. ASSUME NEW w \in Wrappers, CancelBody(c, w) PROVE TypeOK'
    <3> USE <2>3 DEF CancelBody
    <3>1. StopTypeOK' /\ ServerTypeOK' /\ ProxyTypeOK'
      BY DEF StopTypeOK, ServerTypeOK, ProxyTypeOK
    <3>2. RequestTypeOK'
      BY DEF RequestTypeOK, CancelForShutdown
    <3>3. BodyTypeOK'
      BY DEF BodyTypeOK, CancelForShutdown
    <3> QED
      BY <3>1, <3>2, <3>3
  <2>4. CASE CloseSessions(c) \/ AwaitSessions(c) \/ Drained(c)
             \/ ForceClose(c) \/ StopReturns(c)
    <3> USE <2>4 DEF CloseSessions, AwaitSessions, Drained, ForceClose,
          StopReturns, StartFinalizer
    <3>1. StopTypeOK'
      BY DEF StopTypeOK, StopPhases
    <3>2. ServerTypeOK'
      BY ZenonT(60) DEF ServerTypeOK
    <3>3. ProxyTypeOK' /\ BodyTypeOK'
      BY DEF ProxyTypeOK, BodyTypeOK
    <3>4. RequestTypeOK'
      BY DEF RequestTypeOK
    <3> QED
      BY <3>1, <3>2, <3>3, <3>4
  <2> QED
    BY <1>2, <2>1, <2>2, <2>3, <2>4 DEF StopStep
<1>3. CASE \/ ServeEnds \/ FinalizerStep \/ UNCHANGED vars
           \/ \E c \in Stoppers : Expire(c)
  <2> USE <1>3 DEF TypeOK, ServeEnds, FinalizerStep, FinalizeListener,
        FinalizeHandlers, FinalizeStores, Expire
  <2>1. StopTypeOK'
    BY DEF StopTypeOK
  <2>2. ServerTypeOK'
    BY ZenonT(60) DEF ServerTypeOK
  <2>3. ProxyTypeOK' /\ RequestTypeOK' /\ BodyTypeOK'
    BY DEF ProxyTypeOK, RequestTypeOK, BodyTypeOK
  <2> QED
    BY <2>1, <2>2, <2>3
<1>4. ASSUME NEW r \in Requests, HandlerStep(r) PROVE TypeOK'
  <2> USE DEF TypeOK, Moves
  <2>1. StopTypeOK' /\ ServerTypeOK'
    BY <1>4 DEF StopTypeOK, ServerTypeOK, HandlerStep, Admit, Lease, Register,
       ReleaseAtEnd, RegisterSession, ReleaseBody, Recycle
  <2>2. ProxyTypeOK'
    BY <1>4 DEF ProxyTypeOK, HandlerStep, Admit, Lease, Register,
       ReleaseAtEnd, RegisterSession, ReleaseBody, Recycle
  <2>3. RequestTypeOK'
    <3> USE DEF RequestTypeOK, Phases, Active, Using
    <3>1. CASE Register(r)
      BY <3>1 DEF Register, CancelForShutdown
    <3>2. CASE Lease(r)
      BY <3>2 DEF Lease
    <3>3. CASE Admit(r) \/ RegisterSession(r)
      BY <3>3 DEF Admit, RegisterSession
    <3>4. CASE ReleaseAtEnd(r) \/ ReleaseBody(r) \/ Recycle(r)
      BY <3>4 DEF ReleaseAtEnd, ReleaseBody, Recycle
    <3> QED
      BY <1>4, <3>1, <3>2, <3>3, <3>4 DEF HandlerStep
  <2>4. BodyTypeOK'
    <3>1. CASE Lease(r)
      <4>1. CASE UNCHANGED bodyVars
        BY <4>1 DEF BodyTypeOK
      <4>2. ASSUME NEW w \in pool,
                   pool' = pool \ {w},
                   wrapper' = [wrapper EXCEPT ![r] = w],
                   scheduled' = [scheduled EXCEPT ![w] = FALSE],
                   complete' = [complete EXCEPT ![w] = FALSE],
                   released' = [released EXCEPT ![w] = FALSE],
                   cause' = [cause EXCEPT ![w] = "open"],
                   UNCHANGED <<registered, pending>>
            PROVE BodyTypeOK'
        BY <4>2 DEF BodyTypeOK
      <4> QED
        BY <3>1, <4>1, <4>2 DEF Lease
    <3>2. CASE Register(r)
      BY <3>2, ZenonT(60) DEF BodyTypeOK, Register, CancelForShutdown, BoundInv
    <3>3. CASE ReleaseAtEnd(r)
      BY <3>3 DEF BodyTypeOK, ReleaseAtEnd, Release, BoundInv
    <3>4. CASE ReleaseBody(r)
      BY <3>4 DEF BodyTypeOK, ReleaseBody, Release
    <3>5. CASE Recycle(r)
      BY <3>5 DEF BodyTypeOK, Recycle
    <3>6. CASE Admit(r) \/ RegisterSession(r)
      BY <3>6 DEF BodyTypeOK, Admit, RegisterSession
    <3> QED
      BY <1>4, <3>1, <3>2, <3>3, <3>4, <3>5, <3>6 DEF HandlerStep
  <2> QED
    BY <2>1, <2>2, <2>3, <2>4
<1>5. ASSUME NEW r \in Requests,
             \/ Enter(r) \/ ReadToEnd(r) \/ ReadFails(r) \/ ClientLeaves(r)
             \/ UseReplay(r) \/ UpstreamEnds(r) \/ Upgrade(r)
             \/ SocketEnds(r) \/ AnswerEnds(r)
             \/ \E k \in Workers : BeginWorker(r, k)
      PROVE TypeOK'
  <2> USE <1>5 DEF TypeOK, Enter, ReadToEnd, ReadFails, ClientLeaves,
        UseReplay, UpstreamEnds, Upgrade, SocketEnds, AnswerEnds,
        BeginWorker, Moves
  <2>1. StopTypeOK' /\ ServerTypeOK'
    BY DEF StopTypeOK, ServerTypeOK
  <2>2. ProxyTypeOK'
    BY DEF ProxyTypeOK
  <2>3. RequestTypeOK'
    BY ZenonT(60) DEF RequestTypeOK, Phases, Active, Using
  <2>4. BodyTypeOK'
    BY DEF BodyTypeOK
  <2> QED
    BY <2>1, <2>2, <2>3, <2>4
<1>6. ASSUME NEW k \in Workers, EndWorker(k) PROVE TypeOK'
  BY <1>6 DEF TypeOK, EndWorker, StopTypeOK, ServerTypeOK, ProxyTypeOK,
     RequestTypeOK, BodyTypeOK
<1> QED
  BY <1>1, <1>2, <1>3, <1>4, <1>5, <1>6 DEF Next

LEMMA BoundStep == ASSUME Typed, [Next]_vars PROVE BoundInv'
<1> USE DEF Typed, TypeOK, RequestTypeOK, BodyTypeOK, BoundInv, vars, connVars,
      bodyVars, leaseVars
<1>1. ASSUME UNCHANGED <<req, wrapper>> PROVE BoundInv'
  BY <1>1
<1>2. ASSUME NEW r \in Requests, HandlerStep(r) PROVE BoundInv'
  <2> USE DEF Moves
  <2>1. CASE Lease(r)
    BY <2>1, NoWrapperAssumption DEF Lease
  <2>2. CASE Recycle(r)
    BY <2>2 DEF Recycle
  <2>3. CASE Admit(r) \/ Register(r) \/ ReleaseAtEnd(r)
             \/ RegisterSession(r) \/ ReleaseBody(r)
    BY <2>3 DEF Admit, Register, ReleaseAtEnd, RegisterSession, ReleaseBody
  <2> QED
    BY <1>2, <2>1, <2>2, <2>3 DEF HandlerStep
<1>3. ASSUME NEW r \in Requests,
             \/ Enter(r) \/ ReadToEnd(r) \/ ReadFails(r) \/ UpstreamEnds(r)
             \/ Upgrade(r) \/ SocketEnds(r) \/ AnswerEnds(r)
             \/ ClientLeaves(r) \/ UseReplay(r)
             \/ \E k \in Workers : BeginWorker(r, k)
      PROVE BoundInv'
  BY <1>3 DEF Enter, ReadToEnd, ReadFails, UpstreamEnds, Upgrade, SocketEnds,
     AnswerEnds, ClientLeaves, UseReplay, BeginWorker, Moves
<1> QED
  BY <1>1, <1>2, <1>3, ServerFrame DEF Next

\* Every variable keeps its type (all of Server, ProxyHandler and wrappers).
THEOREM TypeInvariant == Spec => []TypeOK
<1>1. Typed /\ [Next]_vars => Typed'
  BY TypeStep, BoundStep DEF Typed
<1>2. Typed => TypeOK
  BY DEF Typed
<1> QED
  BY TypedInit, <1>1, <1>2, PTL DEF Spec

-----------------------------------------------------------------------------
(* The owner of the shutdown.                                              *)

\* Requests and workers leave the shutdown alone.
LEMMA RequestFrame ==
  ASSUME NEW r \in Requests,
         \/ Enter(r) \/ HandlerStep(r) \/ ReadToEnd(r) \/ ReadFails(r)
         \/ ClientLeaves(r) \/ UseReplay(r) \/ UpstreamEnds(r) \/ Upgrade(r)
         \/ SocketEnds(r) \/ AnswerEnds(r)
         \/ \E k \in Workers : BeginWorker(r, k)
  PROVE  UNCHANGED <<serverVars, draining, cancelled, store, goneFirst, pending>>
<1> USE DEF proxyVars, storeVars, bodyVars, connVars
<1>1. CASE HandlerStep(r)
  BY <1>1 DEF HandlerStep, Admit, Lease, Register, ReleaseAtEnd,
     RegisterSession, ReleaseBody, Recycle
<1> QED
  BY <1>1 DEF Enter, ReadToEnd, ReadFails, ClientLeaves, UseReplay,
     UpstreamEnds, Upgrade, SocketEnds, AnswerEnds, BeginWorker

LEMMA OwnerStep == ASSUME TypeOK, OwnerInv, [Next]_vars PROVE OwnerInv'
<1> USE DEF TypeOK, StopTypeOK, ServerTypeOK, OwnerInv, StopPhases, Callers
<1>1. ASSUME UNCHANGED <<serverVars, draining, store>> PROVE OwnerInv'
  BY <1>1 DEF serverVars, startVars, stopVars, finalVars
<1> USE DEF serverVars, startVars, stopVars, finalVars, proxyVars, storeVars,
      vars
<1>2. ASSUME NEW a \in Starters, StartStep(a) PROVE OwnerInv'
  BY <1>2 DEF StartStep, StartRefused, StartClaims, Listen, StartCommits,
     AbandonListener
<1>3. ASSUME NEW c \in Callers, StopStep(c) PROVE OwnerInv'
  <2> USE DEF Goto
  <2>1. CASE StopClaims(c) \/ StopJoins(c)
    BY <2>1 DEF StopClaims, StopJoins, MayStop
  <2>2. CASE BeginShutdown(c) \/ CancelLifecycleRequestBodies(c)
             \/ CancelLifecycle(c)
    BY <2>2 DEF BeginShutdown, CancelLifecycleRequestBodies, CancelLifecycle
  <2>3. CASE CloseAdmission(c) \/ DrainSessions(c) \/ CloseSessions(c)
             \/ AwaitSessions(c)
    BY <2>3 DEF CloseAdmission, DrainSessions, CloseSessions, AwaitSessions
  <2>4. CASE Drained(c) \/ ForceClose(c)
    BY <2>4 DEF Drained, ForceClose, StartFinalizer
  <2>5. CASE StopReturns(c)
    BY <2>5 DEF StopReturns
  <2>6. ASSUME NEW w \in Wrappers, CancelBody(c, w) PROVE OwnerInv'
    BY <1>1, <2>6 DEF CancelBody
  <2> QED
    BY <1>3, <2>1, <2>2, <2>3, <2>4, <2>5, <2>6 DEF StopStep
<1>4. CASE ServeEnds \/ FinalizerStep
  BY <1>4 DEF ServeEnds, FinalizerStep, FinalizeListener, FinalizeHandlers,
     FinalizeStores
<1>5. CASE \/ \E c \in Stoppers : Expire(c)
           \/ \E k \in Workers : EndWorker(k)
           \/ UNCHANGED vars
  BY <1>5 DEF Expire, EndWorker
<1> QED
  BY <1>1, <1>2, <1>3, <1>4, <1>5, RequestFrame DEF Next

-----------------------------------------------------------------------------
(* The listener, and the result of Stop.                                   *)

LEMMA ListenerStep ==
  ASSUME TypeOK, OwnerInv, ListenerInv, [Next]_vars PROVE ListenerInv'
<1> USE DEF TypeOK, StopTypeOK, ServerTypeOK, ListenerInv, ClaimPhases, Callers
<1>1. ASSUME UNCHANGED <<pc, listener, ports, finalizer>> PROVE ListenerInv'
  BY <1>1
<1> USE DEF serverVars, startVars, stopVars, finalVars, vars
<1>2. ASSUME NEW a \in Starters, StartStep(a) PROVE ListenerInv'
  <2>1. CASE StartRefused(a) \/ StartClaims(a)
    BY <2>1 DEF StartRefused, StartClaims, OwnerInv
  <2>2. CASE Listen(a)
    BY <2>2 DEF Listen
  <2>3. CASE StartCommits(a)
    BY <2>3 DEF StartCommits
  <2>4. CASE AbandonListener(a)
    BY <2>4 DEF AbandonListener
  <2> QED
    BY <1>2, <2>1, <2>2, <2>3, <2>4 DEF StartStep
<1>3. ASSUME NEW c \in Callers, StopStep(c) PROVE ListenerInv'
  <2> USE DEF Goto
  <2>1. CASE \/ StopClaims(c) \/ StopJoins(c) \/ BeginShutdown(c)
             \/ CancelLifecycleRequestBodies(c) \/ CancelLifecycle(c)
    BY <2>1 DEF StopClaims, StopJoins, MayStop, BeginShutdown,
       CancelLifecycleRequestBodies, CancelLifecycle
  <2>2. CASE CloseAdmission(c) \/ DrainSessions(c) \/ CloseSessions(c)
             \/ AwaitSessions(c) \/ StopReturns(c)
    BY <2>2 DEF CloseAdmission, DrainSessions, CloseSessions, AwaitSessions,
       StopReturns
  <2>3. CASE Drained(c) \/ ForceClose(c)
    BY <2>3 DEF Drained, ForceClose, StartFinalizer
  <2>4. ASSUME NEW w \in Wrappers, CancelBody(c, w) PROVE ListenerInv'
    BY <1>1, <2>4 DEF CancelBody
  <2> QED
    BY <1>3, <2>1, <2>2, <2>3, <2>4 DEF StopStep
<1>4. CASE ServeEnds \/ FinalizerStep
  BY <1>4 DEF ServeEnds, FinalizerStep, FinalizeListener, FinalizeHandlers,
     FinalizeStores
<1>5. CASE \/ \E c \in Stoppers : Expire(c)
           \/ \E k \in Workers : EndWorker(k)
           \/ UNCHANGED vars
  BY <1>1, <1>5 DEF Expire, EndWorker
<1> QED
  BY <1>1, <1>2, <1>3, <1>4, <1>5, RequestFrame DEF Next

LEMMA ResultStep ==
  ASSUME TypeOK, OwnerInv, ResultInv, [Next]_vars PROVE ResultInv'
<1> USE DEF TypeOK, StopTypeOK, ServerTypeOK, ResultInv, Callers
<1>1. ASSUME UNCHANGED <<pc, stopDone, stopFailed, finalizer, running>>
      PROVE ResultInv'
  BY <1>1
<1> USE DEF serverVars, startVars, stopVars, finalVars, vars
<1>2. ASSUME NEW a \in Starters, StartStep(a) PROVE ResultInv'
  BY <1>2 DEF StartStep, StartRefused, StartClaims, Listen, StartCommits,
     AbandonListener
<1>3. ASSUME NEW c \in Callers, StopStep(c) PROVE ResultInv'
  <2> USE DEF Goto
  <2>1. CASE StopClaims(c) \/ StopJoins(c)
    BY <2>1 DEF StopClaims, StopJoins, MayStop
  <2>2. CASE \/ BeginShutdown(c) \/ CancelLifecycleRequestBodies(c)
             \/ CancelLifecycle(c) \/ CloseAdmission(c) \/ DrainSessions(c)
             \/ CloseSessions(c)
    BY <2>2 DEF BeginShutdown, CancelLifecycleRequestBodies, CancelLifecycle,
       CloseAdmission, DrainSessions, CloseSessions
  <2>3. CASE AwaitSessions(c) \/ Drained(c) \/ ForceClose(c)
    BY <2>3 DEF AwaitSessions, Drained, ForceClose, StartFinalizer, OwnerInv,
       StopPhases
  <2>4. CASE StopReturns(c)
    BY <2>4 DEF StopReturns, OwnerInv, StopPhases
  <2>5. ASSUME NEW w \in Wrappers, CancelBody(c, w) PROVE ResultInv'
    BY <1>1, <2>5 DEF CancelBody
  <2> QED
    BY <1>3, <2>1, <2>2, <2>3, <2>4, <2>5 DEF StopStep
<1>4. CASE ServeEnds \/ FinalizerStep
  BY <1>4 DEF ServeEnds, FinalizerStep, FinalizeListener, FinalizeHandlers,
     FinalizeStores
<1>5. CASE \/ \E c \in Stoppers : Expire(c)
           \/ \E k \in Workers : EndWorker(k)
           \/ UNCHANGED vars
  BY <1>1, <1>5 DEF Expire, EndWorker
<1> QED
  BY <1>1, <1>2, <1>3, <1>4, <1>5, RequestFrame DEF Next

-----------------------------------------------------------------------------
(* The users of the stores.                                                *)

LEMMA UserStep ==
  ASSUME TypeOK, OwnerInv, UserInv, [Next]_vars PROVE UserInv'
<1> USE DEF TypeOK, RequestTypeOK, ProxyTypeOK, ServerTypeOK, UserInv,
      ActiveWorkers, OwnerInv
<1>1. ASSUME UNCHANGED <<req, tracked, worker, replay, finalizer>>,
             draining => draining'
      PROVE UserInv'
  BY <1>1
<1>2. ASSUME NEW a \in Starters, StartStep(a) PROVE UserInv'
  <2>1. UNCHANGED <<req, tracked, worker, replay, finalizer, draining>>
    BY <1>2 DEF StartStep, StartRefused, StartClaims, Listen, StartCommits,
       AbandonListener, finalVars, proxyVars, storeVars, connVars
  <2> QED
    BY <1>1, <2>1
<1>3. ASSUME NEW c \in Callers, StopStep(c) PROVE UserInv'
  <2>1. CASE Drained(c) \/ ForceClose(c)
    BY <2>1 DEF Drained, ForceClose, StartFinalizer, proxyVars, storeVars,
       connVars
  <2>2. CASE \/ StopClaims(c) \/ StopJoins(c) \/ BeginShutdown(c)
             \/ CancelLifecycleRequestBodies(c)
             \/ (\E w \in Wrappers : CancelBody(c, w))
             \/ CancelLifecycle(c) \/ CloseAdmission(c) \/ DrainSessions(c)
             \/ CloseSessions(c) \/ AwaitSessions(c) \/ StopReturns(c)
    <3>1. UNCHANGED <<req, tracked, worker, replay, finalizer>>
      BY <2>2 DEF StopClaims, StopJoins, BeginShutdown, CancelBody,
         CancelLifecycleRequestBodies, CancelLifecycle, CloseAdmission,
         DrainSessions, CloseSessions, AwaitSessions, StopReturns, serverVars,
         finalVars, proxyVars, storeVars, connVars
    <3>2. draining => draining'
      BY <2>2 DEF StopClaims, StopJoins, BeginShutdown, CancelBody,
         CancelLifecycleRequestBodies, CancelLifecycle, CloseAdmission,
         DrainSessions, CloseSessions, AwaitSessions, StopReturns, proxyVars
    <3> QED
      BY <1>1, <3>1, <3>2
  <2> QED
    BY <1>3, <2>1, <2>2 DEF StopStep
<1>4. CASE FinalizerStep
  BY <1>4 DEF FinalizerStep, FinalizeListener, FinalizeHandlers,
     FinalizeStores, TrackedRequests, ActiveRequests, proxyVars, storeVars,
     connVars
<1>5. ASSUME NEW r \in Requests, HandlerStep(r) PROVE UserInv'
  BY <1>5 DEF HandlerStep, Admit, Lease, Register, ReleaseAtEnd,
     RegisterSession, ReleaseBody, Recycle, Moves, Active, Using, serverVars,
     finalVars, proxyVars, storeVars, connVars
<1>6. ASSUME NEW r \in Requests, Enter(r) PROVE UserInv'
  BY <1>6, ZenonT(60) DEF Enter, Moves, Active, Using, serverVars, finalVars, proxyVars,
     storeVars
<1>7. ASSUME NEW r \in Requests,
             \/ ReadToEnd(r) \/ ReadFails(r) \/ ClientLeaves(r)
             \/ UpstreamEnds(r) \/ Upgrade(r) \/ SocketEnds(r)
             \/ AnswerEnds(r)
      PROVE UserInv'
  BY <1>7 DEF ReadToEnd, ReadFails, ClientLeaves, UpstreamEnds, Upgrade,
     SocketEnds, AnswerEnds, Moves, Active, Using, serverVars, finalVars,
     proxyVars, storeVars, connVars
<1>8. ASSUME NEW r \in Requests,
             UseReplay(r) \/ \E k \in Workers : BeginWorker(r, k)
      PROVE UserInv'
  BY <1>8 DEF UseReplay, BeginWorker, serverVars, finalVars, storeVars, connVars
<1>9. CASE \/ ServeEnds \/ \E c \in Stoppers : Expire(c)
           \/ UNCHANGED vars
  BY <1>1, <1>9 DEF ServeEnds, Expire, vars, serverVars, finalVars, proxyVars,
     storeVars, connVars
<1>10. ASSUME NEW k \in Workers, EndWorker(k) PROVE UserInv'
  BY <1>10 DEF EndWorker, serverVars, finalVars, storeVars, connVars
<1> QED
  BY <1>2, <1>3, <1>4, <1>5, <1>6, <1>7, <1>8, <1>9, <1>10 DEF Next

-----------------------------------------------------------------------------
(* Request bodies.                                                         *)

\* What the steps of Start, Serve, the finalizer and the workers leave alone.
LEMMA BodyFrame ==
  ASSUME \/ \E a \in Starters : StartStep(a)
         \/ ServeEnds \/ FinalizerStep \/ UNCHANGED vars
         \/ \E c \in Stoppers : Expire(c)
         \/ \E k \in Workers : EndWorker(k)
  PROVE  UNCHANGED <<bodyVars, req, connVars, draining, cancelled>>
<1> USE DEF vars, proxyVars
<1>1. ASSUME NEW a \in Starters, StartStep(a)
      PROVE UNCHANGED <<bodyVars, req, connVars, draining, cancelled>>
  BY <1>1 DEF StartStep, StartRefused, StartClaims, Listen, StartCommits,
     AbandonListener
<1> QED
  BY <1>1 DEF ServeEnds, FinalizerStep, FinalizeListener,
     FinalizeHandlers, FinalizeStores, Expire, EndWorker

LEMMA LeaseStep ==
  ASSUME TypeOK, BoundInv, LeaseInv, [Next]_vars PROVE LeaseInv'
<1> USE DEF TypeOK, RequestTypeOK, BodyTypeOK, LeaseInv, bodyVars, leaseVars,
      flagVars
<1>1. ASSUME UNCHANGED <<wrapper, pool, registered, pending, scheduled, req>>
      PROVE LeaseInv'
  BY <1>1
<1>2. ASSUME NEW c \in Callers, StopStep(c) PROVE LeaseInv'
  <2>1. CASE CancelLifecycleRequestBodies(c)
    BY <2>1 DEF CancelLifecycleRequestBodies
  <2>2. ASSUME NEW w \in Wrappers, CancelBody(c, w) PROVE LeaseInv'
    BY <2>2 DEF CancelBody
  <2>3. CASE \/ StopClaims(c) \/ StopJoins(c) \/ BeginShutdown(c)
             \/ CancelLifecycle(c) \/ CloseAdmission(c) \/ DrainSessions(c)
             \/ CloseSessions(c) \/ AwaitSessions(c) \/ Drained(c)
             \/ ForceClose(c) \/ StopReturns(c)
    BY <1>1, <2>3 DEF StopClaims, StopJoins, BeginShutdown, CancelLifecycle,
       CloseAdmission, DrainSessions, CloseSessions, AwaitSessions, Drained,
       ForceClose, StopReturns
  <2> QED
    BY <1>2, <2>1, <2>2, <2>3 DEF StopStep
<1>3. ASSUME NEW r \in Requests, HandlerStep(r) PROVE LeaseInv'
  <2> USE DEF Moves
  <2>1. CASE Lease(r)
    BY <2>1, NoWrapperAssumption, SMTT(60) DEF Lease
  <2>2. CASE Register(r)
    BY <2>2 DEF Register, BoundInv
  <2>3. CASE ReleaseAtEnd(r) \/ ReleaseBody(r)
    BY <2>3, NoWrapperAssumption DEF ReleaseAtEnd, ReleaseBody, Release
  <2>4. CASE Recycle(r)
    BY <2>4, NoWrapperAssumption DEF Recycle
  <2>5. CASE Admit(r) \/ RegisterSession(r)
    BY <2>5 DEF Admit, RegisterSession
  <2> QED
    BY <1>3, <2>1, <2>2, <2>3, <2>4, <2>5 DEF HandlerStep
<1>4. ASSUME NEW r \in Requests,
             \/ Enter(r) \/ ReadToEnd(r) \/ ReadFails(r) \/ UpstreamEnds(r)
             \/ Upgrade(r) \/ SocketEnds(r) \/ AnswerEnds(r)
      PROVE LeaseInv'
  BY <1>4 DEF Enter, ReadToEnd, ReadFails, UpstreamEnds, Upgrade, SocketEnds,
     AnswerEnds, Moves
<1>5. ASSUME NEW r \in Requests,
             \/ ClientLeaves(r) \/ UseReplay(r)
             \/ \E k \in Workers : BeginWorker(r, k)
      PROVE LeaseInv'
  BY <1>1, <1>5 DEF ClientLeaves, UseReplay, BeginWorker
<1> QED
  BY <1>1, <1>2, <1>3, <1>4, <1>5, BodyFrame DEF Next

LEMMA ReadStep ==
  ASSUME TypeOK, BoundInv, OwnerInv, LeaseInv, ReadInv, [Next]_vars
  PROVE  ReadInv'
<1> USE DEF TypeOK, StopTypeOK, ProxyTypeOK, RequestTypeOK, BodyTypeOK, ReadInv,
      StopPhases, Callers
<1>1. ASSUME UNCHANGED <<wrapper, registered, pending, released, complete, req,
                         connClosed, pc, stopDone, cancelled, draining>>
      PROVE ReadInv'
  BY <1>1
<1> USE DEF serverVars, stopVars, proxyVars, connVars, bodyVars, leaseVars,
      flagVars
<1>2. ASSUME NEW a \in Starters, StartStep(a) PROVE ReadInv'
  <2>1. UNCHANGED <<bodyVars, req, connVars, draining, cancelled, stopDone>>
    BY <1>2, BodyFrame DEF StartStep, StartRefused, StartClaims, Listen,
       StartCommits, AbandonListener
  <2>2. \A c \in Callers : pc'[c] \in StopPhases => pc'[c] = pc[c]
    BY <1>2 DEF StartStep, StartRefused, StartClaims, Listen, StartCommits,
       AbandonListener
  <2> QED
    BY <2>1, <2>2
<1>3. ASSUME NEW c \in Callers, StopStep(c) PROVE ReadInv'
  <2> USE DEF Goto, OwnerInv
  <2>1. CASE StopClaims(c) \/ StopJoins(c) \/ BeginShutdown(c)
    BY <2>1 DEF StopClaims, StopJoins, MayStop, BeginShutdown
  <2>2. CASE CancelLifecycleRequestBodies(c)
    BY <2>2 DEF CancelLifecycleRequestBodies
  <2>3. ASSUME NEW w \in Wrappers, CancelBody(c, w) PROVE ReadInv'
    <3>1. \A r \in Requests : req[r] \in {"register", "body"} =>
            ~released'[wrapper[r]] /\ ~complete'[wrapper[r]]
      BY <2>3, NoWrapperAssumption DEF CancelBody, CancelForShutdown, BoundInv
    <3>2. \A r \in Requests : req[r] = "body" =>
            connClosed'[r] \/ wrapper[r] \in registered \cup pending'
      BY <2>3 DEF CancelBody, CancelForShutdown, LesseeOf
    <3>3. /\ UNCHANGED <<wrapper, registered, req, pc, stopDone, cancelled,
                        draining>>
          /\ pending' \subseteq pending
      BY <2>3 DEF CancelBody
    <3> QED
      BY <3>1, <3>2, <3>3
  <2>4. CASE CancelLifecycle(c)
    BY <2>4 DEF CancelLifecycle
  <2>5. CASE CloseAdmission(c) \/ DrainSessions(c) \/ CloseSessions(c)
    BY <2>5 DEF CloseAdmission, DrainSessions, CloseSessions
  <2>6. CASE AwaitSessions(c) \/ Drained(c)
    BY <2>6 DEF AwaitSessions, Drained
  <2>7. CASE ForceClose(c) \/ StopReturns(c)
    BY <2>7 DEF ForceClose, StopReturns
  <2> QED
    BY <1>3, <2>1, <2>2, <2>3, <2>4, <2>5, <2>6, <2>7 DEF StopStep
<1>4. ASSUME NEW r \in Requests, HandlerStep(r) PROVE ReadInv'
  <2> USE DEF Moves
  <2>1. CASE Lease(r)
    BY <2>1, NoWrapperAssumption DEF Lease, LeaseInv, BoundInv
  <2>2. CASE Register(r)
    <3>1. wrapper[r] \in Wrappers /\ ~released[wrapper[r]]
                              /\ ~complete[wrapper[r]]
      BY <2>2 DEF Register, BoundInv
    <3>2. CASE draining
      <4>1. \A s \in Requests : req[s] \in {"register", "body"} =>
              ~released'[wrapper[s]] /\ ~complete'[wrapper[s]]
        BY <2>2, <3>1, <3>2 DEF Register, CancelForShutdown, BoundInv
      <4>2. connClosed'[r] /\ \A s \in Requests : connClosed[s] => connClosed'[s]
        BY <2>2, <3>1, <3>2, ZenonT(60) DEF Register, CancelForShutdown
      <4>3. /\ req' = [req EXCEPT ![r] = "body"]
            /\ UNCHANGED <<wrapper, registered, pending, pc, stopDone, cancelled,
                          draining>>
        BY <2>2, <3>2 DEF Register
      <4> QED
        BY <2>2, <4>1, <4>2, <4>3 DEF Register
    <3>3. CASE ~draining
      BY <2>2, <3>1, <3>3 DEF Register, BoundInv, OwnerInv
    <3> QED
      BY <3>2, <3>3
  <2>3. CASE ReleaseAtEnd(r) \/ ReleaseBody(r)
    BY <2>3, NoWrapperAssumption DEF ReleaseAtEnd, ReleaseBody, Release,
       LeaseInv, BoundInv
  <2>4. CASE Admit(r) \/ RegisterSession(r) \/ Recycle(r)
    BY <2>4 DEF Admit, RegisterSession, Recycle
  <2> QED
    BY <1>4, <2>1, <2>2, <2>3, <2>4 DEF HandlerStep
<1>5. ASSUME NEW r \in Requests, ReadToEnd(r) PROVE ReadInv'
  BY <1>5, NoWrapperAssumption DEF ReadToEnd, Moves, LeaseInv, BoundInv
<1>6. ASSUME NEW r \in Requests,
             \/ Enter(r) \/ ReadFails(r) \/ UpstreamEnds(r) \/ Upgrade(r)
             \/ SocketEnds(r) \/ AnswerEnds(r)
      PROVE ReadInv'
  BY <1>6 DEF Enter, ReadFails, UpstreamEnds, Upgrade, SocketEnds, AnswerEnds,
     Moves
<1>7. ASSUME NEW r \in Requests,
             \/ ClientLeaves(r) \/ UseReplay(r)
             \/ \E k \in Workers : BeginWorker(r, k)
      PROVE ReadInv'
  BY <1>1, <1>7 DEF ClientLeaves, UseReplay, BeginWorker
<1>8. CASE \/ ServeEnds \/ FinalizerStep \/ UNCHANGED vars
           \/ \E c \in Stoppers : Expire(c)
           \/ \E k \in Workers : EndWorker(k)
  <2>1. UNCHANGED <<pc, stopDone>>
    BY <1>8 DEF ServeEnds, FinalizerStep, FinalizeListener, FinalizeHandlers,
       FinalizeStores, vars, Expire, EndWorker
  <2> QED
    BY <1>1, <1>8, <2>1, BodyFrame
<1> QED
  BY <1>2, <1>3, <1>4, <1>5, <1>6, <1>7, <1>8 DEF Next

LEMMA BlameStep ==
  ASSUME TypeOK, BoundInv, OwnerInv, LeaseInv, BlameInv, [Next]_vars
  PROVE  BlameInv'
<1> USE DEF TypeOK, ProxyTypeOK, RequestTypeOK, BodyTypeOK, BlameInv,
      ClientBlamedFirst
<1>1. ASSUME UNCHANGED <<gone, goneFirst, draining, pending, wrapper, cause>>
      PROVE BlameInv'
  BY <1>1
<1> USE DEF proxyVars, connVars, bodyVars, leaseVars, flagVars
<1>2. ASSUME NEW c \in Callers, StopStep(c) PROVE BlameInv'
  <2>1. CASE BeginShutdown(c)
    <3>1. ~draining
      BY <2>1 DEF BeginShutdown, OwnerInv, StopPhases
    <3> QED
      BY <2>1, <3>1 DEF BeginShutdown
  <2>2. CASE CancelLifecycleRequestBodies(c)
    BY <2>2 DEF CancelLifecycleRequestBodies, OwnerInv, StopPhases
  <2>3. ASSUME NEW w \in Wrappers, CancelBody(c, w) PROVE BlameInv'
    <3>1. draining /\ UNCHANGED <<gone, goneFirst, draining, wrapper>>
      BY <2>3 DEF CancelBody
    <3>2. \A r \in goneFirst :
            wrapper[r] # NoWrapper => cause'[wrapper[r]] # "shutdown"
      BY <2>3 DEF CancelBody, CancelForShutdown, LesseeOf
    <3> QED
      BY <3>1, <3>2
  <2>4. CASE \/ StopClaims(c) \/ StopJoins(c) \/ CancelLifecycle(c)
             \/ CloseAdmission(c) \/ DrainSessions(c) \/ CloseSessions(c)
             \/ AwaitSessions(c) \/ Drained(c) \/ ForceClose(c)
             \/ StopReturns(c)
    BY <1>1, <2>4 DEF StopClaims, StopJoins, CancelLifecycle, CloseAdmission,
       DrainSessions, CloseSessions, AwaitSessions, Drained, ForceClose,
       StopReturns
  <2> QED
    BY <1>2, <2>1, <2>2, <2>3, <2>4 DEF StopStep
<1>3. ASSUME NEW r \in Requests, HandlerStep(r) PROVE BlameInv'
  <2>1. CASE Lease(r)
    <3>1. CASE UNCHANGED bodyVars
      BY <1>1, <2>1, <3>1 DEF Lease
    <3>2. ASSUME NEW w \in pool,
                 wrapper' = [wrapper EXCEPT ![r] = w],
                 cause' = [cause EXCEPT ![w] = "open"],
                 UNCHANGED pending
          PROVE BlameInv'
      <4>1. \A s \in Requests : wrapper'[s] # NoWrapper =>
              \/ cause'[wrapper'[s]] = "open"
              \/ wrapper'[s] = wrapper[s] /\ cause'[wrapper'[s]] = cause[wrapper[s]]
        BY <3>2
      <4>2. UNCHANGED <<gone, goneFirst, draining>>
        BY <2>1 DEF Lease
      <4> QED
        BY <3>2, <4>1, <4>2
    <3> QED
      BY <2>1, <3>1, <3>2 DEF Lease
  <2>2. CASE Register(r)
    <3>1. CASE draining
      <4>1. UNCHANGED <<gone, goneFirst, draining, wrapper, pending>>
        BY <2>2 DEF Register
      <4>2. \A s \in goneFirst :
              wrapper[s] # NoWrapper => cause'[wrapper[s]] # "shutdown"
        BY <2>2, <3>1 DEF Register, CancelForShutdown, LeaseInv
      <4> QED
        BY <3>1, <4>1, <4>2
    <3>2. CASE ~draining
      BY <1>1, <2>2, <3>2 DEF Register
    <3> QED
      BY <3>1, <3>2
  <2>3. CASE ReleaseAtEnd(r) \/ ReleaseBody(r)
    BY <2>3 DEF ReleaseAtEnd, ReleaseBody, Release
  <2>4. CASE Recycle(r)
    BY <2>4 DEF Recycle
  <2>5. CASE Admit(r) \/ RegisterSession(r)
    BY <1>1, <2>5 DEF Admit, RegisterSession
  <2> QED
    BY <1>3, <2>1, <2>2, <2>3, <2>4, <2>5 DEF HandlerStep
<1>4. ASSUME NEW r \in Requests, ReadFails(r) PROVE BlameInv'
  BY <1>4 DEF ReadFails
<1>5. ASSUME NEW r \in Requests, ClientLeaves(r) PROVE BlameInv'
  BY <1>5 DEF ClientLeaves
<1>6. ASSUME NEW r \in Requests,
             \/ Enter(r) \/ ReadToEnd(r) \/ UpstreamEnds(r) \/ Upgrade(r)
             \/ SocketEnds(r) \/ AnswerEnds(r) \/ UseReplay(r)
             \/ \E k \in Workers : BeginWorker(r, k)
      PROVE BlameInv'
  BY <1>1, <1>6 DEF Enter, ReadToEnd, UpstreamEnds, Upgrade, SocketEnds,
     AnswerEnds, UseReplay, BeginWorker
<1> QED
  BY <1>1, <1>2, <1>3, <1>4, <1>5, <1>6, BodyFrame DEF Next

-----------------------------------------------------------------------------
(* The theorems.                                                           *)

IInv ==
  /\ Typed
  /\ OwnerInv /\ UserInv /\ ListenerInv /\ ResultInv
  /\ LeaseInv /\ ReadInv /\ BlameInv

LEMMA InitIInv == Init => IInv
<1> SUFFICES ASSUME Init PROVE IInv
  OBVIOUS
<1>1. OwnerInv /\ ListenerInv /\ ResultInv
  BY DEF Init, OwnerInv, ListenerInv, ResultInv, StopPhases, ClaimPhases,
     Callers
<1>2. UserInv
  BY DEF Init, UserInv, Active, Using
<1>3. LeaseInv
  BY NoWrapperAssumption DEF Init, LeaseInv
<1>4. ReadInv
  BY DEF Init, ReadInv, StopPhases
<1>5. BlameInv
  BY DEF Init, BlameInv, ClientBlamedFirst
<1> QED
  BY TypedInit, <1>1, <1>2, <1>3, <1>4, <1>5 DEF IInv

\* The conjunction of the layers is inductive (every action of the module).
THEOREM LifecycleInvariant == Spec => []IInv
<1>1. IInv /\ [Next]_vars => IInv'
  <2> SUFFICES ASSUME IInv, [Next]_vars PROVE IInv'
    OBVIOUS
  <2>1. Typed'
    BY TypeStep, BoundStep DEF IInv, Typed
  <2>2. OwnerInv' /\ UserInv' /\ ListenerInv' /\ ResultInv'
    BY OwnerStep, UserStep, ListenerStep, ResultStep DEF IInv, Typed
  <2>3. LeaseInv' /\ ReadInv' /\ BlameInv'
    BY LeaseStep, ReadStep, BlameStep DEF IInv, Typed
  <2> QED
    BY <2>1, <2>2, <2>3 DEF IInv
<1> QED
  BY InitIInv, <1>1, PTL DEF Spec

\* No handler and no worker runs once the finalizer closed the stores, for
\* any number of them (WaitLifecycleWorkers after requestHandlers.Wait).
THEOREM StoresAlwaysOutliveUsers == Spec => []StoresOutliveUsers
<1>1. IInv => StoresOutliveUsers
  <2> SUFFICES ASSUME IInv, store = "closed" PROVE StoresOutliveUsers
    BY DEF StoresOutliveUsers
  <2>1. finalizer = "done"
    BY DEF IInv, OwnerInv
  <2>2. \A r \in Requests : req[r] \notin Using
    BY <2>1 DEF IInv, UserInv, Active
  <2>3. ActiveWorkers = {} /\ replay # "open"
    BY <2>1 DEF IInv, UserInv
  <2> QED
    BY <2>2, <2>3 DEF StoresOutliveUsers
<1> QED
  BY LifecycleInvariant, <1>1, PTL

\* Whoever got nil from Stop finds no port, no handler and no open store, and
\* a server whose Stop returned does not run, for any number of callers.
THEOREM StopAlwaysMeansOver == Spec => []StopMeansOver
<1>1. IInv => StopMeansOver
  <2> SUFFICES ASSUME IInv PROVE StopMeansOver
    OBVIOUS
  <2>1. ASSUME NEW c \in Stoppers, pc[c] = "nil"
        PROVE /\ ports = {} /\ listener \notin {"claimed", "serving"}
              /\ store = "closed"
              /\ \A r \in Requests : req[r] \notin Using
    <3>1. finalizer = "done"
      BY <2>1 DEF IInv, ResultInv, Callers
    <3>2. ports = {} /\ listener \notin {"claimed", "serving"}
      BY <3>1 DEF IInv, ListenerInv
    <3>3. \A r \in Requests : req[r] \notin Using
      BY <3>1 DEF IInv, UserInv, Active
    <3>4. store = "closed"
      BY <3>1 DEF IInv, OwnerInv
    <3> QED
      BY <3>2, <3>3, <3>4
  <2>2. stopDone = "closed" => ~running
    BY DEF IInv, ResultInv
  <2> QED
    BY <2>1, <2>2 DEF StopMeansOver
<1> QED
  BY LifecycleInvariant, <1>1, PTL

\* Bodies are cut, blamed and recycled as they should be (BeginShutdown and
\* the methods of lifecycleRequestBody), for any number of requests.
THEOREM BodiesAlwaysInterrupted == Spec => []BodiesInterrupted
<1>1. IInv => BodiesInterrupted
  <2> SUFFICES ASSUME IInv PROVE BodiesInterrupted
    OBVIOUS
  <2>1. StalledBodiesCut
    BY DEF IInv, ReadInv, StalledBodiesCut
  <2>2. ClientBlamedFirst
    BY DEF IInv, BlameInv
  <2>3. PoolIsClean
    BY DEF IInv, LeaseInv, PoolIsClean
  <2> QED
    BY <2>1, <2>2, <2>3 DEF BodiesInterrupted
<1> QED
  BY LifecycleInvariant, <1>1, PTL

=============================================================================

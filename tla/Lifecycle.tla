------------------------------ MODULE Lifecycle ------------------------------
(***************************************************************************)
(* Start and Stop of one server generation: server/server.go, the shutdown *)
(* half of proxy/handler.go, and the session registry of                   *)
(* proxy/responses_websocket.go.                                           *)
(*                                                                         *)
(* Several callers may call Start and Stop at once.  The first Stop owns   *)
(* the shutdown: it closes admission, cuts the bodies that are still being *)
(* read, cancels upstream work, closes the websocket sessions and shuts    *)
(* net/http down, by force when its context ends.  One finalizer, which    *)
(* outlives the caller's deadline, then waits for the listener, for every  *)
(* tracked handler and for every detached worker before it closes the two  *)
(* stores.  A request may be stopped by its client (a body that never      *)
(* comes, a reader that does not read, an open socket), by an upstream, or *)
(* not at all.  Health probes, which touch no store, are left out.         *)
(***************************************************************************)
EXTENDS FiniteSets

CONSTANTS
  Starters,            \* goroutines that call Start (once each)
  Stoppers,            \* goroutines that call Stop, each with a context
  Requests,            \* inbound requests
  Workers,             \* detached workers: insight, discovery, observation
  Wrappers,            \* lifecycleRequestBody objects
  NoWrapper            \* a request without a body

ASSUME CallersAssumption == Starters \cap Stoppers = {}
ASSUME NoWrapperAssumption == NoWrapper \notin Wrappers

Callers == Starters \cup Stoppers

VARIABLES
  \* Server
  pc, expired, listener, ports, running, stopDone, stopFailed,
  http, admissionClosed, finalizer, finalFailed,
  \* ProxyHandler
  draining, cancelled, sessionsDraining, sessions, captured, store, replay,
  worker,
  \* requests and their connections
  req, tracked, connClosed, hijacked, gone, goneFirst,
  \* request bodies
  wrapper, pool, registered, pending, scheduled, complete, released, cause

startVars == <<listener, ports>>
stopVars == <<stopDone, stopFailed>>
finalVars == <<finalizer, finalFailed>>
serverVars == <<pc, expired, startVars, running, stopVars, http,
                admissionClosed, finalVars>>
sessionVars == <<sessionsDraining, sessions, captured>>
storeVars == <<store, replay>>
proxyVars == <<draining, cancelled, sessionVars, storeVars, worker>>
connVars == <<tracked, connClosed, hijacked, gone, goneFirst>>
leaseVars == <<wrapper, pool>>
flagVars == <<scheduled, complete, released, cause>>
bodyVars == <<leaseVars, registered, pending, flagVars>>
vars == <<serverVars, proxyVars, req, connVars, bodyVars>>

\* Phases of a request.  Using: the handler proper runs and may use the stores.
Using == {"admitted", "register", "body", "eof", "upstream", "upgraded",
          "socket", "client"}
Active == Using \cup {"entered", "returning", "recycling"}
Phases == Active \cup {"none", "done"}

ActiveRequests == {r \in Requests : req[r] \in Active}
TrackedRequests == {r \in ActiveRequests : tracked[r]}
ActiveWorkers == {k \in Workers : worker[k] = "active"}
LesseeOf(w) == {r \in Requests : wrapper[r] = w}

-----------------------------------------------------------------------------
Init ==
  /\ pc = [c \in Callers |-> "idle"]
  /\ expired = [c \in Stoppers |-> FALSE]
  /\ listener = "unclaimed"
  /\ ports = {}
  /\ running = FALSE
  /\ stopDone = "none"
  /\ stopFailed = FALSE
  /\ http = "serving"
  /\ admissionClosed = FALSE
  /\ finalizer = "none"
  /\ finalFailed = FALSE
  /\ draining = FALSE
  /\ cancelled = FALSE
  /\ sessionsDraining = FALSE
  /\ sessions = {}
  /\ captured = {}
  /\ store = "open"
  /\ replay = "absent"
  /\ worker = [k \in Workers |-> "idle"]
  /\ req = [r \in Requests |-> "none"]
  /\ tracked = [r \in Requests |-> FALSE]
  /\ connClosed = [r \in Requests |-> FALSE]
  /\ hijacked = [r \in Requests |-> FALSE]
  /\ gone = [r \in Requests |-> FALSE]
  /\ goneFirst = {}
  /\ wrapper = [r \in Requests |-> NoWrapper]
  /\ pool = Wrappers
  /\ registered = {}
  /\ pending = {}
  /\ scheduled = [w \in Wrappers |-> FALSE]
  /\ complete = [w \in Wrappers |-> FALSE]
  /\ released = [w \in Wrappers |-> TRUE]
  /\ cause = [w \in Wrappers |-> "open"]

-----------------------------------------------------------------------------
(* Start: the listener is opened between two critical sections of stopMu.  *)

StartRefused(a) ==
  /\ pc[a] = "idle"
  /\ stopDone # "none" \/ draining \/ listener # "unclaimed"
  /\ pc' = [pc EXCEPT ![a] = "error"]
  /\ UNCHANGED <<expired, startVars, running, stopVars, http, admissionClosed,
                 finalVars, proxyVars, req, connVars, bodyVars>>

StartClaims(a) ==
  /\ pc[a] = "idle"
  /\ stopDone = "none" /\ ~draining /\ listener = "unclaimed"
  /\ listener' = "claimed"
  /\ pc' = [pc EXCEPT ![a] = "listen"]
  /\ UNCHANGED <<expired, ports, running, stopVars, http, admissionClosed,
                 finalVars, proxyVars, req, connVars, bodyVars>>

\* Listen opens a port or fails, with or without the cancellation by Stop.
Listen(a) ==
  /\ pc[a] = "listen"
  /\ \/ /\ ports' = ports \cup {a}
        /\ pc' = [pc EXCEPT ![a] = "bound"]
     \/ /\ pc' = [pc EXCEPT ![a] = "unbound"]
        /\ UNCHANGED ports
  /\ UNCHANGED <<expired, listener, running, stopVars, http, admissionClosed,
                 finalVars, proxyVars, req, connVars, bodyVars>>

\* The second critical section: serve, or give the listener up.
StartCommits(a) ==
  /\ pc[a] \in {"bound", "unbound"}
  /\ IF pc[a] = "bound" /\ stopDone = "none"
     THEN /\ listener' = "serving"
          /\ running' = TRUE
          /\ pc' = [pc EXCEPT ![a] = "started"]
     ELSE /\ pc' = [pc EXCEPT ![a] = IF stopDone = "none" THEN "abandonAlone"
                                     ELSE "abandon"]
          /\ UNCHANGED <<listener, running>>
  /\ UNCHANGED <<expired, ports, stopVars, http, admissionClosed,
                 finalVars, proxyVars, req, connVars, bodyVars>>

\* Close the late listener and listenerDone; without a Stop, Start stops itself.
AbandonListener(a) ==
  /\ pc[a] \in {"abandon", "abandonAlone"}
  /\ ports' = ports \ {a}
  /\ listener' = "abandoned"
  /\ pc' = [pc EXCEPT ![a] = IF pc[a] = "abandon" THEN "error" ELSE "stop"]
  /\ UNCHANGED <<expired, running, stopVars, http, admissionClosed,
                 finalVars, proxyVars, req, connVars, bodyVars>>

\* The Serve goroutine ends: after Shutdown or Close, or by itself.
ServeEnds ==
  /\ listener = "serving"
  /\ ports' = {}
  /\ running' = FALSE
  /\ listener' = "ended"
  /\ UNCHANGED <<pc, expired, stopVars, http, admissionClosed, finalVars,
                 proxyVars, req, connVars, bodyVars>>

-----------------------------------------------------------------------------
(* Stop: the first caller owns the shutdown, the others wait for its end.  *)

MayStop(c) == pc[c] = IF c \in Starters THEN "stop" ELSE "idle"

\* Start stops with the background context, which never ends.
ContextEnded(c) == c \in Stoppers /\ expired[c]

Goto(c, phase) == pc' = [pc EXCEPT ![c] = phase]

StopClaims(c) ==
  /\ MayStop(c)
  /\ IF stopDone = "none"
     THEN stopDone' = "pending" /\ Goto(c, "begin")
     ELSE UNCHANGED stopDone /\ Goto(c, "wait")
  /\ UNCHANGED <<expired, startVars, running, stopFailed, http,
                 admissionClosed, finalVars, proxyVars, req, connVars, bodyVars>>

StopJoins(c) ==
  /\ pc[c] = "wait"
  /\ \/ stopDone = "closed" /\ Goto(c, IF stopFailed THEN "error" ELSE "nil")
     \/ stopDone # "closed" /\ ContextEnded(c) /\ Goto(c, "error")
  /\ UNCHANGED <<expired, startVars, running, stopVars, http,
                 admissionClosed, finalVars, proxyVars, req, connVars, bodyVars>>

\* BeginShutdown: draining, then a snapshot of the bodies, then each of them,
\* then the lifecycle context.  goneFirst is history.
BeginShutdown(c) ==
  /\ pc[c] = "begin"
  /\ draining' = TRUE
  /\ goneFirst' = {r \in Requests : gone[r]}
  /\ Goto(c, "snapshot")
  /\ UNCHANGED <<expired, startVars, running, stopVars, http, admissionClosed,
                 finalVars, cancelled, sessionVars, storeVars, worker, req,
                 tracked, connClosed, hijacked, gone, bodyVars>>

CancelLifecycleRequestBodies(c) ==
  /\ pc[c] = "snapshot"
  /\ pending' = registered
  /\ scheduled' = [w \in Wrappers |-> scheduled[w] \/ w \in registered]
  /\ registered' = {}
  /\ Goto(c, "cancelBodies")
  /\ UNCHANGED <<expired, startVars, running, stopVars, http, admissionClosed,
                 finalVars, proxyVars, req, connVars, leaseVars, complete,
                 released, cause>>

\* cancelForShutdown of one wrapper leased to a request of rs: blame the client
\* if it went first, then cut the connection, or close a body that is read.
CancelForShutdown(w, rs) ==
  /\ cause' = IF released[w] \/ cause[w] # "open" THEN cause
              ELSE [cause EXCEPT ![w] =
                      IF \E r \in rs : gone[r] THEN "other" ELSE "shutdown"]
  /\ released' = [released EXCEPT ![w] = @ \/ complete[w]]
  /\ connClosed' = [r \in Requests |->
       connClosed[r] \/ (r \in rs /\ ~released[w] /\ ~complete[w])]

CancelBody(c, w) ==
  /\ pc[c] = "cancelBodies" /\ w \in pending
  /\ CancelForShutdown(w, LesseeOf(w))
  /\ pending' = pending \ {w}
  /\ UNCHANGED <<serverVars, proxyVars, req, tracked, hijacked, gone, goneFirst,
                 leaseVars, registered, scheduled, complete>>

CancelLifecycle(c) ==
  /\ pc[c] = "cancelBodies" /\ pending = {}
  /\ cancelled' = TRUE
  /\ Goto(c, "closeAdmission")
  /\ UNCHANGED <<expired, startVars, running, stopVars, http, admissionClosed,
                 finalVars, draining, sessionVars, storeVars, worker, req,
                 connVars, bodyVars>>

CloseAdmission(c) ==
  /\ pc[c] = "closeAdmission"
  /\ admissionClosed' = TRUE
  /\ Goto(c, "drainSessions")
  /\ UNCHANGED <<expired, startVars, running, stopVars, http, finalVars,
                 proxyVars, req, connVars, bodyVars>>

\* ShutdownWebSocketSessions: phase one, phase two and phase three.
DrainSessions(c) ==
  /\ pc[c] = "drainSessions"
  /\ sessionsDraining' = TRUE
  /\ captured' = sessions
  /\ Goto(c, "closeSessions")
  /\ UNCHANGED <<expired, startVars, running, stopVars, http, admissionClosed,
                 finalVars, draining, cancelled, sessions, storeVars, worker,
                 req, connVars, bodyVars>>

CloseSessions(c) ==
  /\ pc[c] = "closeSessions"
  /\ connClosed' = [r \in Requests |-> connClosed[r] \/ r \in captured]
  /\ Goto(c, "awaitSessions")
  /\ UNCHANGED <<expired, startVars, running, stopVars, http, admissionClosed,
                 finalVars, proxyVars, req, tracked, hijacked, gone, goneFirst,
                 bodyVars>>

\* The sessions ended, or the wait did, at its own deadline or the caller's.
AwaitSessions(c) ==
  /\ pc[c] = "awaitSessions"
  /\ stopFailed' = (captured \cap sessions # {})
  /\ http' = "closing"                   \* httpServer.Shutdown begins
  /\ Goto(c, "drain")
  /\ UNCHANGED <<expired, startVars, running, stopDone, admissionClosed,
                 finalVars, proxyVars, req, connVars, bodyVars>>

StartFinalizer ==
  finalizer' = IF listener = "unclaimed" THEN "handlers" ELSE "listener"

\* Shutdown returns when no connection but the hijacked ones is active.
Drained(c) ==
  /\ pc[c] = "drain"
  /\ \A r \in ActiveRequests : hijacked[r]
  /\ http' = "shut"
  /\ StartFinalizer
  /\ Goto(c, "finalize")
  /\ UNCHANGED <<expired, startVars, running, stopVars, admissionClosed,
                 finalFailed, proxyVars, req, connVars, bodyVars>>

\* Shutdown gives up with its context, and Close cuts the connections.
ForceClose(c) ==
  /\ pc[c] = "drain" /\ ContextEnded(c)
  /\ http' = "closed"
  /\ connClosed' = [r \in Requests |->
       connClosed[r] \/ (r \in ActiveRequests /\ ~hijacked[r])]
  /\ stopFailed' = TRUE
  /\ StartFinalizer
  /\ Goto(c, "finalize")
  /\ UNCHANGED <<expired, startVars, running, stopDone, admissionClosed,
                 finalFailed, proxyVars, req, tracked, hijacked, gone,
                 goneFirst, bodyVars>>

\* The finalizer: listener, handlers, then WaitLifecycleWorkers.
\* Mutant of FinalizeListener: Stop does not wait for the listener.
FinalizeAtOnce ==
  /\ finalizer = "listener"
  /\ finalizer' = "handlers"
  /\ UNCHANGED <<pc, expired, startVars, running, stopVars, http,
                 admissionClosed, finalFailed, proxyVars, req, connVars, bodyVars>>

FinalizeListener ==
  /\ finalizer = "listener"
  /\ listener \in {"abandoned", "ended"}
  /\ finalizer' = "handlers"
  /\ UNCHANGED <<pc, expired, startVars, running, stopVars, http,
                 admissionClosed, finalFailed, proxyVars, req, connVars, bodyVars>>

\* Mutant of FinalizeHandlers: a forced Close counts as the end of handlers.
FinalizeForced ==
  /\ finalizer = "handlers"
  /\ TrackedRequests = {} \/ http = "closed"
  /\ finalizer' = "workers"
  /\ UNCHANGED <<pc, expired, startVars, running, stopVars, http,
                 admissionClosed, finalFailed, proxyVars, req, connVars, bodyVars>>

FinalizeHandlers ==
  /\ finalizer = "handlers"
  /\ TrackedRequests = {}
  /\ finalizer' = "workers"
  /\ UNCHANGED <<pc, expired, startVars, running, stopVars, http,
                 admissionClosed, finalFailed, proxyVars, req, connVars, bodyVars>>

\* Closing the database may report an error; it is closed all the same.
FinalizeStores ==
  /\ finalizer = "workers"
  /\ ActiveWorkers = {}
  /\ replay' = IF replay = "open" THEN "closed" ELSE replay
  /\ store' = "closed"
  /\ finalFailed' \in BOOLEAN
  /\ finalizer' = "done"
  /\ UNCHANGED <<pc, expired, startVars, running, stopVars, http,
                 admissionClosed, draining, cancelled, sessionVars, worker,
                 req, connVars, bodyVars>>

\* The owner returns with the finalizer or with its context, whichever select
\* takes; the result is kept for every other caller of Stop.
StopReturns(c) ==
  /\ pc[c] = "finalize"
  /\ \/ finalizer = "done" /\ stopFailed' = (stopFailed \/ finalFailed)
     \/ ContextEnded(c) /\ stopFailed' = TRUE
  /\ running' = FALSE
  /\ stopDone' = "closed"
  /\ Goto(c, IF stopFailed' THEN "error" ELSE "nil")
  /\ UNCHANGED <<expired, startVars, http, admissionClosed, finalVars,
                 proxyVars, req, connVars, bodyVars>>

\* Environment: the context of a caller of Stop ends.
Expire(c) ==
  /\ ~expired[c]
  /\ expired' = [expired EXCEPT ![c] = TRUE]
  /\ UNCHANGED <<pc, startVars, running, stopVars, http, admissionClosed,
                 finalVars, proxyVars, req, connVars, bodyVars>>

-----------------------------------------------------------------------------
(* Requests: withRequestHandlerDrain, withRequestLog and the handler.      *)

Moves(r, phase) == req' = [req EXCEPT ![r] = phase]

\* net/http calls the handler; a connection may have been cut by then.
Enter(r) ==
  /\ req[r] = "none"
  /\ listener \in {"serving", "ended"} /\ http # "shut"
  /\ tracked' = [tracked EXCEPT ![r] = ~admissionClosed]
  /\ connClosed' = [connClosed EXCEPT ![r] = (http = "closed")]
  /\ Moves(r, "entered")
  /\ UNCHANGED <<serverVars, proxyVars, hijacked, gone, goneFirst, bodyVars>>

\* The admission check of withRequestLog; a refusal answers 503.
Admit(r) ==
  /\ req[r] = "entered"
  /\ Moves(r, IF draining THEN "done" ELSE "admitted")
  /\ UNCHANGED <<serverVars, proxyVars, connVars, bodyVars>>

\* BindRequestBodyToLifecycle leases a wrapper, if the request has a body.
Lease(r) ==
  /\ req[r] = "admitted"
  /\ \/ /\ Moves(r, "upstream")
        /\ UNCHANGED bodyVars
     \/ \E w \in pool :
          /\ pool' = pool \ {w}
          /\ wrapper' = [wrapper EXCEPT ![r] = w]
          /\ scheduled' = [scheduled EXCEPT ![w] = FALSE]
          /\ complete' = [complete EXCEPT ![w] = FALSE]
          /\ released' = [released EXCEPT ![w] = FALSE]
          /\ cause' = [cause EXCEPT ![w] = "open"]
          /\ Moves(r, "register")
          /\ UNCHANGED <<registered, pending>>
  /\ UNCHANGED <<serverVars, proxyVars, connVars>>

\* Mutant of Register: registration does not look at draining again.
RegisterAlways(r) ==
  /\ req[r] = "register"
  /\ registered' = registered \cup {wrapper[r]}
  /\ Moves(r, "body")
  /\ UNCHANGED <<serverVars, proxyVars, connVars, leaseVars, pending, flagVars>>

\* registerLifecycleRequestBody; refused, the body is cancelled at once.
Register(r) ==
  /\ req[r] = "register"
  /\ IF draining
     THEN /\ scheduled' = [scheduled EXCEPT ![wrapper[r]] = TRUE]
          /\ CancelForShutdown(wrapper[r], {r})
          /\ UNCHANGED registered
     ELSE /\ registered' = registered \cup {wrapper[r]}
          /\ UNCHANGED <<scheduled, released, cause, connClosed>>
  /\ Moves(r, "body")
  /\ UNCHANGED <<serverVars, proxyVars, tracked, hijacked, gone, goneFirst,
                 leaseVars, pending, complete>>

\* release: the first call settles the cause and leaves the registry.
Release(w) ==
  /\ released' = [released EXCEPT ![w] = TRUE]
  /\ cause' = IF released[w] \/ cause[w] # "open" THEN cause
              ELSE [cause EXCEPT ![w] = "other"]
  /\ registered' = registered \ {w}

\* Read meets the end of the body, which may be buffered, and then releases it.
ReadToEnd(r) ==
  /\ req[r] = "body"
  /\ complete' = [complete EXCEPT ![wrapper[r]] = TRUE]
  /\ Moves(r, "eof")
  /\ UNCHANGED <<serverVars, proxyVars, connVars, leaseVars, registered,
                 pending, scheduled, released, cause>>

ReleaseAtEnd(r) ==
  /\ req[r] = "eof"
  /\ Release(wrapper[r])
  /\ Moves(r, "upstream")
  /\ UNCHANGED <<serverVars, proxyVars, connVars, leaseVars, pending,
                 scheduled, complete>>

\* Read fails, by itself, as its client left or as its connection was cut; the
\* handler answers with an error.
ReadFails(r) ==
  /\ req[r] = "body"
  /\ cause' = IF gone[r] /\ cause[wrapper[r]] = "open"
              THEN [cause EXCEPT ![wrapper[r]] = "other"] ELSE cause
  /\ Moves(r, "client")
  /\ UNCHANGED <<serverVars, proxyVars, connVars, leaseVars, registered,
                 pending, scheduled, complete, released>>

\* The context of a request ends: its client left, or its connection is cut.
\* Nothing looks at it once the body is read.
ClientLeaves(r) ==
  /\ req[r] \in {"entered", "admitted", "register", "body", "eof"} /\ ~gone[r]
  /\ gone' = [gone EXCEPT ![r] = TRUE]
  /\ UNCHANGED <<serverVars, proxyVars, req, tracked, connClosed, hijacked,
                 goneFirst, bodyVars>>

\* responsesChatReplayStore creates the store on first use.
UseReplay(r) ==
  /\ req[r] \in {"upstream", "socket"}
  /\ replay = "absent" /\ ~draining
  /\ replay' = "open"
  /\ UNCHANGED <<serverVars, draining, cancelled, sessionVars, store, worker,
                 req, connVars, bodyVars>>

\* The upstream answers, or the lifecycle context ends the call.
UpstreamEnds(r) ==
  /\ req[r] = "upstream"
  /\ Moves(r, "client")
  /\ UNCHANGED <<serverVars, proxyVars, connVars, bodyVars>>

\* beginLifecycleWorker: the worker may outlive the request that began it.
BeginWorker(r, k) ==
  /\ req[r] \in {"upstream", "socket"}
  /\ worker[k] = "idle" /\ ~draining
  /\ worker' = [worker EXCEPT ![k] = "active"]
  /\ UNCHANGED <<serverVars, draining, cancelled, sessionVars, storeVars, req,
                 connVars, bodyVars>>

EndWorker(k) ==
  /\ worker[k] = "active"
  /\ worker' = [worker EXCEPT ![k] = "ended"]
  /\ UNCHANGED <<serverVars, draining, cancelled, sessionVars, storeVars, req,
                 connVars, bodyVars>>

\* HandleResponsesWebSocket: the upgrade takes the connection from net/http.
Upgrade(r) ==
  /\ req[r] = "upstream" /\ wrapper[r] = NoWrapper
  /\ ~sessionsDraining /\ ~connClosed[r]
  /\ hijacked' = [hijacked EXCEPT ![r] = TRUE]
  /\ Moves(r, "upgraded")
  /\ UNCHANGED <<serverVars, proxyVars, tracked, connClosed, gone, goneFirst,
                 bodyVars>>

\* Mutant of RegisterSession: a session registers while sessions are drained.
RegisterSessionAlways(r) ==
  /\ req[r] = "upgraded"
  /\ sessions' = sessions \cup {r}
  /\ Moves(r, "socket")
  /\ UNCHANGED <<serverVars, draining, cancelled, sessionsDraining, captured,
                 storeVars, worker, connVars, bodyVars>>

RegisterSession(r) ==
  /\ req[r] = "upgraded"
  /\ IF sessionsDraining
     THEN Moves(r, "returning") /\ UNCHANGED sessions
     ELSE Moves(r, "socket") /\ sessions' = sessions \cup {r}
  /\ UNCHANGED <<serverVars, draining, cancelled, sessionsDraining, captured,
                 storeVars, worker, connVars, bodyVars>>

\* The session ends with its socket: closed by the client or by the server.
SocketEnds(r) ==
  /\ req[r] = "socket"
  /\ sessions' = sessions \ {r}
  /\ Moves(r, "returning")
  /\ UNCHANGED <<serverVars, draining, cancelled, sessionsDraining, captured,
                 storeVars, worker, connVars, bodyVars>>

\* The answer is written, or the connection is cut.
AnswerEnds(r) ==
  /\ req[r] = "client"
  /\ Moves(r, "returning")
  /\ UNCHANGED <<serverVars, proxyVars, connVars, bodyVars>>

\* ReleaseAndRecycle: release, and then pool what no shutdown snapshot holds.
ReleaseBody(r) ==
  /\ req[r] = "returning"
  /\ IF wrapper[r] = NoWrapper
     THEN UNCHANGED <<released, cause, registered>>
     ELSE Release(wrapper[r])
  /\ Moves(r, "recycling")
  /\ UNCHANGED <<serverVars, proxyVars, connVars, leaseVars, pending,
                 scheduled, complete>>

Recycle(r) ==
  /\ req[r] = "recycling"
  /\ pool' = pool \cup {w \in {wrapper[r]} \ {NoWrapper} : ~scheduled[w]}
  /\ wrapper' = [wrapper EXCEPT ![r] = NoWrapper]
  /\ Moves(r, "done")                    \* requestHandlers.Done
  /\ UNCHANGED <<serverVars, proxyVars, connVars, registered, pending, flagVars>>

-----------------------------------------------------------------------------
StartStep(a) ==
  \/ StartRefused(a) \/ StartClaims(a) \/ Listen(a) \/ StartCommits(a)
  \/ AbandonListener(a)

StopStep(c) ==
  \/ StopClaims(c) \/ StopJoins(c) \/ BeginShutdown(c)
  \/ CancelLifecycleRequestBodies(c) \/ (\E w \in Wrappers : CancelBody(c, w))
  \/ CancelLifecycle(c) \/ CloseAdmission(c) \/ DrainSessions(c)
  \/ CloseSessions(c) \/ AwaitSessions(c) \/ Drained(c) \/ ForceClose(c)
  \/ StopReturns(c)

FinalizerStep == FinalizeListener \/ FinalizeHandlers \/ FinalizeStores

\* Steps of a handler that wait for nobody.
HandlerStep(r) ==
  \/ Admit(r) \/ Lease(r) \/ Register(r) \/ ReleaseAtEnd(r)
  \/ RegisterSession(r) \/ ReleaseBody(r) \/ Recycle(r)

Next ==
  \/ \E a \in Starters : StartStep(a)
  \/ ServeEnds
  \/ \E c \in Callers : StopStep(c)
  \/ FinalizerStep
  \/ \E c \in Stoppers : Expire(c)
  \/ \E r \in Requests :
       \/ Enter(r) \/ HandlerStep(r) \/ ReadToEnd(r) \/ ReadFails(r)
       \/ ClientLeaves(r) \/ UseReplay(r) \/ UpstreamEnds(r) \/ Upgrade(r)
       \/ SocketEnds(r) \/ AnswerEnds(r)
       \/ \E k \in Workers : BeginWorker(r, k)
  \/ \E k \in Workers : EndWorker(k)

Spec == Init /\ [][Next]_vars

\* Goroutines run, Listen returns, contexts of Stop have deadlines.  A request
\* is bound to move only where nothing outside can hold it: its connection was
\* cut or, for a call upstream or a worker, the lifecycle was cancelled.
Fairness ==
  /\ \A a \in Starters :
       WF_vars(Listen(a) \/ StartCommits(a) \/ AbandonListener(a))
  /\ WF_vars(ServeEnds /\ http # "serving")
  /\ \A c \in Callers : WF_vars(StopStep(c) /\ pc[c] # "idle")
  /\ WF_vars(FinalizerStep)
  /\ \A c \in Stoppers : WF_vars(Expire(c))
  /\ \A r \in Requests :
       /\ WF_vars(HandlerStep(r))
       /\ WF_vars(connClosed[r] /\ (ReadFails(r) \/ SocketEnds(r) \/ AnswerEnds(r)))
       /\ WF_vars(cancelled /\ UpstreamEnds(r))
  /\ \A k \in Workers : WF_vars(cancelled /\ EndWorker(k))

FairSpec == Spec /\ Fairness

-----------------------------------------------------------------------------
StartPhases == {"listen", "bound", "unbound", "started", "abandon",
                "abandonAlone", "stop"}
StopPhases == {"begin", "snapshot", "cancelBodies", "closeAdmission",
               "drainSessions", "closeSessions", "awaitSessions", "drain",
               "finalize"}

StopTypeOK ==
  /\ pc \in [Callers -> StartPhases \cup StopPhases \cup
                        {"idle", "wait", "nil", "error"}]
  /\ expired \in [Stoppers -> BOOLEAN]
  /\ stopDone \in {"none", "pending", "closed"}
  /\ stopFailed \in BOOLEAN

ServerTypeOK ==
  /\ listener \in {"unclaimed", "claimed", "serving", "abandoned", "ended"}
  /\ ports \subseteq Starters
  /\ running \in BOOLEAN
  /\ http \in {"serving", "closing", "shut", "closed"}
  /\ admissionClosed \in BOOLEAN
  /\ finalizer \in {"none", "listener", "handlers", "workers", "done"}
  /\ finalFailed \in BOOLEAN

ProxyTypeOK ==
  /\ draining \in BOOLEAN /\ cancelled \in BOOLEAN
  /\ sessionsDraining \in BOOLEAN
  /\ sessions \subseteq Requests /\ captured \subseteq Requests
  /\ store \in {"open", "closed"}
  /\ replay \in {"absent", "open", "closed"}
  /\ worker \in [Workers -> {"idle", "active", "ended"}]

RequestTypeOK ==
  /\ req \in [Requests -> Phases]
  /\ tracked \in [Requests -> BOOLEAN] /\ connClosed \in [Requests -> BOOLEAN]
  /\ hijacked \in [Requests -> BOOLEAN] /\ gone \in [Requests -> BOOLEAN]
  /\ goneFirst \subseteq Requests

BodyTypeOK ==
  /\ wrapper \in [Requests -> Wrappers \cup {NoWrapper}]
  /\ pool \subseteq Wrappers
  /\ registered \subseteq Wrappers /\ pending \subseteq Wrappers
  /\ scheduled \in [Wrappers -> BOOLEAN] /\ complete \in [Wrappers -> BOOLEAN]
  /\ released \in [Wrappers -> BOOLEAN]
  /\ cause \in [Wrappers -> {"open", "other", "shutdown"}]

\* Types: the shutdown, the server, the handler, its requests and wrappers.
TypeOK ==
  StopTypeOK /\ ServerTypeOK /\ ProxyTypeOK /\ RequestTypeOK /\ BodyTypeOK

(***************************************************************************)
(* The stores outlive their users: once they are closed, no admitted       *)
(* handler and no detached worker runs, whether the shutdown was graceful, *)
(* forced, or abandoned by its caller at a deadline.  The lock of the      *)
(* store file goes with it (docs/state-recovery.md, "Shutdown retains the  *)
(* lock until a successful drain").                                        *)
(***************************************************************************)
StoresOutliveUsers ==
  store = "closed" =>
    /\ \A r \in Requests : req[r] \notin Using
    /\ ActiveWorkers = {}
    /\ replay # "open"

(***************************************************************************)
(* Stop means over: when Stop has returned nil to anyone, no port is open, *)
(* no handler of the generation runs and the stores are closed; and when   *)
(* it has returned at all, the server does not count as running, also if   *)
(* a Start was about to publish its listener.                              *)
(***************************************************************************)
StopMeansOver ==
  /\ \A c \in Stoppers : pc[c] = "nil" =>
       /\ ports = {} /\ listener \notin {"claimed", "serving"}
       /\ store = "closed"
       /\ \A r \in Requests : req[r] \notin Using
  /\ stopDone = "closed" => ~running

(***************************************************************************)
(* Bodies at shutdown.  A request still blocked in Read when the lifecycle *)
(* is cancelled has its connection cut, also one that was bound while the  *)
(* snapshot of the registry was taken; a client that had left when         *)
(* admission closed is not reported as a local shutdown; and a wrapper     *)
(* that the snapshot still has to cancel is not in the pool, where a       *)
(* request of a later generation could lease it.                           *)
(***************************************************************************)
StalledBodiesCut ==
  cancelled => \A r \in Requests : req[r] = "body" => connClosed[r]

ClientBlamedFirst ==
  \A r \in goneFirst : wrapper[r] # NoWrapper => cause[wrapper[r]] # "shutdown"

PoolIsClean == pool \cap pending = {}

BodiesInterrupted == StalledBodiesCut /\ ClientBlamedFirst /\ PoolIsClean

(***************************************************************************)
(* A Stop that began ends with the stores closed, without another Stop,    *)
(* even if every caller gave up at its deadline and whatever clients and   *)
(* upstreams do.                                                           *)
(***************************************************************************)
StoresReleased == (stopDone = "pending") ~> (store = "closed")

=============================================================================

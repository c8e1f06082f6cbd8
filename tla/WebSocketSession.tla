-------------------------- MODULE WebSocketSession --------------------------
(***************************************************************************)
(* How a Responses WebSocket session ends: proxy/responses_websocket.go.   *)
(*                                                                         *)
(* A session has a handler that serves its requests one at a time, a pump  *)
(* that reads frames, and a ping loop; the shutdown of the server closes   *)
(* it from outside.  Any of them may begin the closing.  A graceful close  *)
(* puts up a barrier, under which nobody closes the socket or cancels the  *)
(* upstream call until the close frame had its chance.  An upstream call   *)
(* does not inherit the session's context: it ends only when the upstream  *)
(* answers or its own cancel function is called.  The lifecycle root, whose *)
(* cancellation Lifecycle models, is left out: the session must cut its    *)
(* calls by itself.                                                        *)
(***************************************************************************)
EXTENDS Naturals, FiniteSets

CONSTANTS
  Limit,               \* responsesWebSocketOutstandingRequestLimit
  MaxCalls             \* bound: upstream calls of a session

NoCall == 0
Closers == {"handler", "pump", "ping", "shutdown"}

VARIABLES
  closing, barrier, socketClosed,
  cause,               \* closeCause
  sessionDone,         \* the session's context is cancelled
  inflightCancel,      \* the call whose cancel function is kept
  inflightGen,         \* calls made so far
  holds,               \* inflightCancelHolds
  cancelled,           \* calls whose context is cancelled
  draining, registered, snapshot, \* responsesWSDraining, and the session in
                       \* responsesWSSessions and in the copy shutdown took
  frames, outstanding, \* requests queued, and slots taken
  handler, pump, ping, shutdown,
  closer,              \* where a goroutine is in closing the session
  taken                \* the cancel function it took under the lock

closeVars == <<closing, barrier, socketClosed, cause>>
callVars == <<inflightCancel, inflightGen, holds>>
contextVars == <<sessionDone, cancelled>>
drainVars == <<draining, registered, snapshot>>
queueVars == <<frames, outstanding>>
closerVars == <<closer, taken>>
goroutines == <<handler, pump, ping, shutdown>>
vars == <<closeVars, callVars, contextVars, drainVars, queueVars, closerVars,
          goroutines>>

Init ==
  /\ closing = FALSE
  /\ barrier = "none"
  /\ socketClosed = FALSE
  /\ cause = "unknown"
  /\ sessionDone = FALSE
  /\ inflightCancel = NoCall
  /\ inflightGen = 0
  /\ holds = 0
  /\ cancelled = {}
  /\ draining = FALSE
  /\ registered = FALSE
  /\ snapshot = FALSE
  /\ frames = 0
  /\ outstanding = 0
  /\ handler = "register"
  /\ pump = "none"
  /\ ping = "none"
  /\ shutdown = "idle"
  /\ closer = [a \in Closers |-> "no"]
  /\ taken = [a \in Closers |-> NoCall]

(***************************************************************************)
(* Closing a session                                                       *)
(***************************************************************************)
\* markCloseCauseLocked: the first cause stays.
MarkCause(c) == cause' = IF cause = "unknown" THEN c ELSE cause

CloserAt(a, pc) == closer[a] = pc
CloserGoto(a, pc) == closer' = [closer EXCEPT ![a] = pc]
NotClosing(a) == closer[a] = "no"

BarrierUp == barrier = "pending"

\* startControlClose, of closeWithControl and of ShutdownWebSocketSessions
StartControlClose(a) ==
  /\ CloserAt(a, "control")
  /\ closing' = TRUE
  /\ MarkCause(IF a = "shutdown" THEN "server" ELSE "client")
  /\ \/ /\ socketClosed
        /\ CloserGoto(a, "begin")
        /\ UNCHANGED barrier
     \/ /\ ~socketClosed /\ barrier # "none"
        /\ CloserGoto(a, "await")
        /\ UNCHANGED barrier
     \/ /\ ~socketClosed /\ barrier = "none"
        /\ barrier' = "pending"
        /\ CloserGoto(a, "write")
  /\ UNCHANGED <<socketClosed, callVars, contextVars, drainVars, queueVars,
                 taken, goroutines>>

\* The owner's write has ended, or its deadline has passed; shutdown goes on
\* at its deadline also when the barrier belongs to somebody else.
ReleaseBarrier(a) ==
  /\ CloserAt(a, "write") \/ (CloserAt(a, "await") /\ a = "shutdown")
  /\ barrier' = "released"
  /\ CloserGoto(a, "begin")
  /\ UNCHANGED <<closing, socketClosed, cause, callVars, contextVars,
                 drainVars, queueVars, taken, goroutines>>

AwaitBarrier(a) ==
  /\ CloserAt(a, "await")
  /\ ~BarrierUp
  /\ CloserGoto(a, "begin")
  /\ UNCHANGED <<closeVars, callVars, contextVars, drainVars, queueVars,
                 taken, goroutines>>

\* What beginClosing does with its lock held; under the barrier it leaves the
\* cancelling to the owner of the barrier.
TakeCancels(a, held) ==
  /\ closing' = TRUE
  /\ MarkCause("client")
  /\ IF BarrierUp
     THEN CloserGoto(a, "hard") /\ UNCHANGED taken
     ELSE /\ CloserGoto(a, "cancel")
          /\ taken' = [taken EXCEPT ![a] =
                         IF held > 0 THEN NoCall ELSE inflightCancel]

BeginClosing(a) ==
  /\ CloserAt(a, "begin")
  /\ TakeCancels(a, holds)
  /\ UNCHANGED <<barrier, socketClosed, callVars, contextVars, drainVars,
                 queueVars, goroutines>>

\* beginClosingForStreamWriteFailure: the call of a client that is gone may
\* still finish; the handler, which is awake, cancels it soon.
Hold ==
  IF cause \in {"unknown", "client"} /\ inflightCancel # NoCall THEN 1
  ELSE holds
BeginHolding ==
  /\ CloserAt("handler", "holding")
  /\ holds' = Hold
  /\ TakeCancels("handler", Hold)
  /\ UNCHANGED <<barrier, socketClosed, inflightCancel, inflightGen,
                 contextVars, drainVars, queueVars, goroutines>>

CallCancels(a) ==
  /\ CloserAt(a, "cancel")
  /\ sessionDone' = TRUE
  /\ cancelled' = cancelled \cup ({taken[a]} \ {NoCall})
  /\ taken' = [taken EXCEPT ![a] = NoCall]
  /\ CloserGoto(a, "hard")
  /\ UNCHANGED <<closeVars, callVars, drainVars, queueVars, goroutines>>

HardClose(a) ==
  /\ CloserAt(a, "hard")
  /\ socketClosed \/ ~BarrierUp
  /\ socketClosed' = TRUE
  /\ CloserGoto(a, "no")
  /\ UNCHANGED <<closing, barrier, cause, callVars, contextVars, drainVars,
                 queueVars, taken, goroutines>>

(***************************************************************************)
(* The handler                                                             *)
(***************************************************************************)
HandlerAt(pc) == handler = pc /\ NotClosing("handler")
HandlerGoto(pc) == handler' = pc

Admitted == ~draining

\* The session is served, or its socket takes no read deadline.
Register ==
  /\ HandlerAt("register")
  /\ Admitted
  /\ registered' = TRUE
  /\ \/ HandlerGoto("select") /\ pump' = "reading" /\ ping' = "ticking"
     \/ HandlerGoto("end") /\ UNCHANGED <<pump, ping>>
  /\ UNCHANGED <<closeVars, callVars, contextVars, draining, snapshot,
                 queueVars, closerVars, shutdown>>

\* A session that comes while the server drains is sent away.
Refuse ==
  /\ HandlerAt("register")
  /\ ~Admitted
  /\ HandlerGoto("end")
  /\ CloserGoto("handler", "control")
  /\ UNCHANGED <<closeVars, callVars, contextVars, drainVars, queueVars,
                 taken, pump, ping, shutdown>>

TakeFrame ==
  /\ HandlerAt("select")
  /\ frames > 0
  /\ frames' = frames - 1
  /\ HandlerGoto(IF closing THEN "end" ELSE "turn")
  /\ UNCHANGED <<closeVars, callVars, contextVars, drainVars, outstanding,
                 closerVars, pump, ping, shutdown>>

LeaveLoop ==
  /\ HandlerAt("select")
  /\ sessionDone \/ (pump = "ended" /\ frames = 0)
  /\ HandlerGoto("end")
  /\ UNCHANGED <<closeVars, callVars, contextVars, drainVars, queueVars,
                 closerVars, pump, ping, shutdown>>

\* handleCreateRequest goes on, or the request ends before its upstream call.
BeginTurn ==
  /\ HandlerAt("turn")
  /\ \/ ~closing /\ inflightGen < MaxCalls /\ HandlerGoto("call")
     \/ HandlerGoto("served")
  /\ UNCHANGED <<closeVars, callVars, contextVars, drainVars, queueVars,
                 closerVars, pump, ping, shutdown>>

\* Mutant of Over: only the context is asked.
OverOnceCancelled == sessionDone
Over == closing \/ sessionDone

\* setInflightCancel: work that comes after the closing is cancelled at once.
SetInflightCancel(from, to) ==
  /\ HandlerAt(from)
  /\ inflightGen' = inflightGen + 1
  /\ IF Over
     THEN /\ closing' = TRUE
          /\ cancelled' = cancelled \cup {inflightGen'}
          /\ UNCHANGED inflightCancel
     ELSE /\ inflightCancel' = inflightGen'
          /\ UNCHANGED <<closing, cancelled>>
  /\ HandlerGoto(to)
  /\ UNCHANGED <<barrier, socketClosed, cause, holds, sessionDone, drainVars,
                 queueVars, closerVars, pump, ping, shutdown>>

PostTurn == SetInflightCancel("call", "waiting")
PostCompaction == SetInflightCancel("compact", "compacting")

\* The upstream answers, or fails; a call that is cancelled fails.
Answered ==
  /\ HandlerAt("waiting")
  /\ \/ inflightGen \notin cancelled /\ HandlerGoto("streaming")
     \/ HandlerGoto("finish")
  /\ UNCHANGED <<closeVars, callVars, contextVars, drainVars, queueVars,
                 closerVars, pump, ping, shutdown>>

\* An event cannot be written: the client is gone or too slow.
WriteFails ==
  /\ HandlerAt("streaming")
  /\ HandlerGoto("finish")
  /\ CloserGoto("handler", "holding")
  /\ UNCHANGED <<closeVars, callVars, contextVars, drainVars, queueVars,
                 taken, pump, ping, shutdown>>

StreamEnds ==
  /\ HandlerAt("streaming")
  /\ \/ HandlerGoto("finish")
     \/ inflightGen \notin cancelled /\ HandlerGoto("complete")
  /\ UNCHANGED <<closeVars, callVars, contextVars, drainVars, queueVars,
                 closerVars, pump, ping, shutdown>>

\* finishUpstream: the hold is released, the cancel function is cleared and
\* called.
FinishCall(from, to) ==
  /\ HandlerAt(from)
  /\ holds' = 0
  /\ inflightCancel' = NoCall
  /\ cancelled' = cancelled \cup {inflightGen}
  /\ HandlerGoto(to)
  /\ UNCHANGED <<closeVars, inflightGen, sessionDone, drainVars, queueVars,
                 closerVars, pump, ping, shutdown>>

FinishFailed == FinishCall("finish", "served")
FinishComplete == FinishCall("complete", "remember")
FinishCompaction == FinishCall("compacting", "served")

\* maybeAutoCompactHistory, after a turn that completed
MaybeCompact ==
  /\ HandlerAt("remember")
  /\ \/ ~closing /\ ~sessionDone /\ inflightGen < MaxCalls
        /\ HandlerGoto("compact")
     \/ HandlerGoto("served")
  /\ UNCHANGED <<closeVars, callVars, contextVars, drainVars, queueVars,
                 closerVars, pump, ping, shutdown>>

\* A slot is free once its request has been served, whatever became of it.
Served ==
  /\ HandlerAt("served")
  /\ outstanding' = outstanding - 1
  /\ HandlerGoto("select") \/ (closing /\ HandlerGoto("end"))
  /\ UNCHANGED <<closeVars, callVars, contextVars, drainVars, frames,
                 closerVars, pump, ping, shutdown>>

\* The deferred teardown
EndHandler ==
  /\ HandlerAt("end")
  /\ HandlerGoto("leaving")
  /\ CloserGoto("handler", "begin")
  /\ UNCHANGED <<closeVars, callVars, contextVars, drainVars, queueVars,
                 taken, pump, ping, shutdown>>

Unregister ==
  /\ HandlerAt("leaving")
  /\ registered' = FALSE
  /\ HandlerGoto("done")
  /\ UNCHANGED <<closeVars, callVars, contextVars, draining, snapshot,
                 queueVars, closerVars, pump, ping, shutdown>>

(***************************************************************************)
(* The pump, the ping loop and shutdown                                    *)
(***************************************************************************)
PumpAt(pc) == pump = pc /\ NotClosing("pump")

\* Mutant of SlotFree: off by one.
SlotFreeBeyond == outstanding <= Limit
SlotFree == outstanding < Limit

\* A request is accepted if a slot is free.
ReadFrame ==
  /\ PumpAt("reading")
  /\ ~socketClosed
  /\ SlotFree
  /\ outstanding' = outstanding + 1
  /\ pump' = "sending"
  /\ UNCHANGED <<closeVars, callVars, contextVars, drainVars, frames,
                 closerVars, handler, ping, shutdown>>

TooMany ==
  /\ PumpAt("reading")
  /\ ~socketClosed
  /\ ~SlotFree
  /\ pump' = "stopping"
  /\ CloserGoto("pump", "control")
  /\ UNCHANGED <<closeVars, callVars, contextVars, drainVars, queueVars,
                 taken, handler, ping, shutdown>>

QueueFrame ==
  /\ PumpAt("sending")
  /\ \/ frames < Limit /\ frames' = frames + 1 /\ pump' = "reading"
        /\ UNCHANGED outstanding
     \/ sessionDone /\ outstanding' = outstanding - 1 /\ pump' = "ended"
        /\ UNCHANGED frames
  /\ UNCHANGED <<closeVars, callVars, contextVars, drainVars, closerVars,
                 handler, ping, shutdown>>

\* The client has gone, no pong came in time, or the socket is closed.
ReadFails ==
  /\ PumpAt("reading")
  /\ pump' = "stopping"
  /\ CloserGoto("pump", "begin")
  /\ UNCHANGED <<closeVars, callVars, contextVars, drainVars, queueVars,
                 taken, handler, ping, shutdown>>

PumpEnds ==
  /\ PumpAt("stopping")
  /\ pump' = "ended"
  /\ UNCHANGED <<closeVars, callVars, contextVars, drainVars, queueVars,
                 closerVars, handler, ping, shutdown>>

PingFails ==
  /\ ping = "ticking"
  /\ ping' = "ended"
  /\ CloserGoto("ping", "begin")
  /\ UNCHANGED <<closeVars, callVars, contextVars, drainVars, queueVars,
                 taken, handler, pump, shutdown>>

PingEnds ==
  /\ ping = "ticking"
  /\ sessionDone \/ handler = "done"
  /\ ping' = "ended"
  /\ UNCHANGED <<closeVars, callVars, contextVars, drainVars, queueVars,
                 closerVars, handler, pump, shutdown>>

ShutdownAt(pc) == shutdown = pc /\ NotClosing("shutdown")

\* New sessions are refused from the step that copies the registered ones.
Drain ==
  /\ ShutdownAt("idle")
  /\ draining' = TRUE
  /\ snapshot' = registered
  /\ shutdown' = IF registered THEN "mark" ELSE "done"
  /\ UNCHANGED <<closeVars, callVars, contextVars, registered, queueVars,
                 closerVars, handler, pump, ping>>

MarkServerShutdown ==
  /\ ShutdownAt("mark")
  /\ MarkCause("server")
  /\ shutdown' = "wait"
  /\ CloserGoto("shutdown", "control")
  /\ UNCHANGED <<closing, barrier, socketClosed, callVars, contextVars,
                 drainVars, queueVars, taken, handler, pump, ping>>

AwaitHandler ==
  /\ ShutdownAt("wait")
  /\ shutdown' = IF handler = "done" THEN "done" ELSE "timedOut"
  /\ UNCHANGED <<closeVars, callVars, contextVars, drainVars, queueVars,
                 closerVars, handler, pump, ping>>

Close(a) ==
  \/ StartControlClose(a) \/ ReleaseBarrier(a) \/ AwaitBarrier(a)
  \/ BeginClosing(a) \/ CallCancels(a) \/ HardClose(a)

Next ==
  \/ \E a \in Closers : Close(a)
  \/ BeginHolding
  \/ Register \/ Refuse \/ TakeFrame \/ LeaveLoop \/ BeginTurn
  \/ PostTurn \/ PostCompaction \/ Answered \/ WriteFails \/ StreamEnds
  \/ FinishFailed \/ FinishComplete \/ FinishCompaction \/ MaybeCompact
  \/ Served \/ EndHandler \/ Unregister
  \/ ReadFrame \/ TooMany \/ QueueFrame \/ ReadFails \/ PumpEnds
  \/ PingFails \/ PingEnds
  \/ Drain \/ MarkServerShutdown \/ AwaitHandler

Spec == Init /\ [][Next]_vars

(***************************************************************************)
(* Properties                                                              *)
(***************************************************************************)
Waiting == handler \in {"waiting", "streaming", "compacting"}

\* Once a session is closing and whoever closes it has gone through, the
\* upstream call that its handler waits for is cancelled, whether the call was
\* made before the closing or after it, and however the barrier, a second
\* closer and the end of another call came in between.  A call that is missed
\* keeps the handler, and the shutdown that waits for it, until the upstream
\* answers.
CallsCut ==
  (closing /\ Waiting /\ \A a \in Closers : NotClosing(a))
    => inflightGen \in cancelled

\* "The two outstanding slots are exactly one active request plus one queued
\* request": the pump never waits for room in the queue, which would keep it
\* from seeing that the client has gone.
OneQueued ==
  /\ frames + (IF handler \in {"select", "register", "end", "leaving", "done"}
               THEN 0 ELSE 1) <= Limit
  /\ pump = "sending" => frames < Limit

\* When shutdown reports that every session has ended, none is being served,
\* also not one that registered while it took its copy.
DrainCovers ==
  shutdown = "done" => handler \in {"register", "end", "leaving", "done"}

\* Closing ends what the session does upstream, and shutdown waits for it.
SessionsCut == CallsCut /\ DrainCovers
=============================================================================

-------------------------- MODULE ConversationTurn --------------------------
(***************************************************************************)
(* Turns of conversations whose history can move to another owner:         *)
(* proxy/conversation_migration.go and conversation_history.go.            *)
(*                                                                         *)
(* Before a turn is sent upstream, a durable marker of its conversation is *)
(* written; it stays until the outcome is known.  A completed response is  *)
(* saved as an immutable snapshot.  A turn that ends otherwise saves the   *)
(* items the client was handed, as far as the proxy can tell, and clears   *)
(* the marker, points it at the snapshot, or leaves it.  A later turn from *)
(* an earlier point of the conversation could repeat work the model does   *)
(* not know of, so a marker it does not continue from refuses it.          *)
(*                                                                         *)
(* The stream is a pipe: the upstream's writer hands over one event, the   *)
(* reader returns it and passes it on before it reads again.  A websocket  *)
(* bridge reads ahead of its writer only after an unterminated last event. *)
(*                                                                         *)
(* Turn 0 is a completed one that every conversation here goes back to; a  *)
(* conversation is the path of the threads that branched off from there.   *)
(***************************************************************************)
EXTENDS Integers, Sequences

CONSTANTS
  N,            \* turns (bound)
  Threads,      \* client threads
  Resending,    \* threads of verified clients, which resend what they received
  MaxStreams,   \* the later turns are admitted and sent, not answered (bound)
  MaxEvents,    \* stream events of all turns together (bound)
  MaxFaults     \* storage failures, limits and reused IDs, crashes, shutdowns (bound)

Turns == 1..N

VARIABLES
  \* the durable store
  \* snaps[t]: the conversation of turn t's snapshot, or NoRoot
  \* marker[t]: whether t's attempt is marked pending, and how
  snaps, marker,
  \* the process: its turns, and whether a failed write stopped the store
  turn, broken, stopping,
  events, faults,
  \* history
  \* fate[t]: what a turn that goes back before t could repeat
  fate, inert

vars == <<snaps, marker, turn, broken, stopping, events, faults, fate, inert>>

NoRoot == <<"no conversation">>
Fates == {"clean", "held", "owed"}
Kinds == {"message", "call", "args", "odd"}
Terminals == {"failed", "completed"}

\* A turn as its client begins it. trace: what is known of its last send;
\* kept and told: what the store holds of it (history).
Begun(c, src, root) ==
  [phase |-> "open", client |-> c, source |-> src, root |-> root, bridged |-> FALSE,
   pending |-> FALSE, trace |-> "none", lost |-> FALSE,
   blocked |-> FALSE, failed |-> FALSE, saved |-> FALSE, unprotected |-> FALSE,
   uncertain |-> FALSE, hidden |-> FALSE, trouble |-> FALSE,
   handoff |-> FALSE, seen |-> <<>>, read |-> 0, got |-> 0, cut |-> FALSE,
   over |-> "no", kept |-> {}, told |-> "no", gone |-> FALSE]

\* What is remembered of a closed turn: its conversation.
Closed(T) == [Begun("nobody", 0, T.root) EXCEPT !.phase = "closed"]
Unborn == [Begun("nobody", 0, NoRoot) EXCEPT !.phase = "unborn"]

Trusted(T) == T.client \in Resending
Open(t) == turn[t].phase = "open"
Active(root) == {t \in Turns : Open(t) /\ turn[t].root = root}
ClientEnded(T) == T.gone /\ ~stopping

\* marker[t]: no marker, one of the attempt, or one released to its snapshot.
Marked(root) == {t \in Turns : marker[t] # "none" /\ turn[t].root = root}

\* pendingReleasedTo, or trust
Admits(root, src, trusted) ==
  \A t \in Marked(root) : trusted \/ (marker[t] = "released" /\ src = t)

Init ==
  /\ snaps = [t \in 0..N |-> IF t = 0 THEN <<>> ELSE NoRoot]
  /\ marker = [t \in Turns |-> "none"]
  /\ turn = [t \in Turns |-> Unborn]
  /\ broken = FALSE /\ stopping = FALSE
  /\ events = 0 /\ faults = 0
  /\ fate = [t \in Turns |-> "clean"]
  /\ inert = [t \in Turns |-> FALSE]

-----------------------------------------------------------------------------
(* The store.  A write commits, is refused for a limit or a reused response *)
(* ID, or fails; a failed one may have committed and stops the store until *)
(* the process restarts.                                                   *)

Writes == {"ok", "full", "reused", "lost", "kept"}
Failing == {"lost", "kept"}
Commits(w) == w \in {"ok", "kept"}

\* The outcomes of one write now, and what it costs of the bound.
Write(w) ==
  /\ \/ w = "ok" /\ ~broken
     \/ w \in {"full", "reused", "kept"} /\ ~broken /\ faults < MaxFaults
     \/ w = "lost" /\ (broken \/ faults < MaxFaults)
  /\ broken' = (broken \/ w \in Failing)
  /\ faults' = faults + (IF w = "ok" \/ broken THEN 0 ELSE 1)

NoWrite(w) == w = "ok" /\ UNCHANGED <<broken, faults>>

\* clearAttempt and save: the conversation has no marker, or only t's.
Cleared(root) == [t \in Turns |-> IF turn[t].root = root THEN "none" ELSE marker[t]]
MarkedBy(t, how) == [Cleared(turn[t].root) EXCEPT ![t] = how]

-----------------------------------------------------------------------------
(* What a turn may save: items its stream carried, by their events.        *)

Items(T) == {i \in 1..Len(T.seen) : T.seen[i] \in {"message", "call"}}
\* A terminal event is the last one.
Observed(T) ==
  IF T.seen # <<>> /\ T.seen[Len(T.seen)] \in Terminals THEN Len(T.seen) - 1 ELSE Len(T.seen)

Executable(T) == T.hidden \/ \E i \in 1..Len(T.seen) : T.seen[i] \in {"call", "args", "odd"}
Unstaged(T) == T.hidden \/ \E i \in 1..Len(T.seen) : T.seen[i] = "odd"
OpenItems(T) ==
  \E i \in 1..Len(T.seen) :
    T.seen[i] = "args" /\ \A j \in (i + 1)..Len(T.seen) : T.seen[j] # "call"

\* Mutant of Delivered: forgets that the reader may hold one event back.
DeliveredEarly(T, ended) == {i \in Items(T) : ended \/ i <= Observed(T) - 1}

\* deliveredOutput: those followed by another event, or all.
Delivered(T, ended) == {i \in Items(T) : ended \/ i <= Observed(T) - 2}

\* Mutant of Unsavable: leaves out a call that may have reached the client.
UnsavableLoosely(T, ended) == Unstaged(T) \/ OpenItems(T) \/ Delivered(T, ended) = {}

\* endedHistory: an outcome that cannot be saved.
Unsavable(T, ended) ==
  \/ ~ended /\ \E i \in Items(T) : i > Observed(T) - 2 /\ T.seen[i] = "call"
  \/ Unstaged(T) \/ OpenItems(T) \/ Delivered(T, ended) = {}

\* Mutant of Needs: with nothing to save, nothing is cleared.
NeedsOutput(T, ended) == Delivered(T, ended) # {} /\ (Executable(T) => ~Unsavable(T, ended))

\* saveEndedHistory and saveEndedInertHistory write at most once here; the
\* clearing that follows a refused save of inert items is taken to succeed
\* unless the store stopped.
Needs(T, ended) == IF Executable(T) THEN ~Unsavable(T, ended)
                   ELSE T.pending \/ Delivered(T, ended) # {}

\* releaseEndedAttempt: turn t settles as T with the write's outcome w.
SettleAs(T, ended, w) ==
  LET ok == IF Executable(T) THEN ~Unsavable(T, ended) /\ w = "ok"
            ELSE w \in {"ok", "full"}
      saves == Needs(T, ended) /\ Commits(w) /\ Delivered(T, ended) # {}
  IN [T EXCEPT !.pending = @ /\ ~ok,
               !.failed = @ \/ ok,
               !.blocked = @ \/ (~ok /\ Needs(T, ended)),
               !.trouble = @ \/ w # "ok",
               !.kept = IF saves THEN Delivered(T, ended) ELSE @,
               !.told = IF ok \/ (Needs(T, ended) /\ Commits(w)) THEN "settled" ELSE @]

\* The store after it.
SettleStore(t, T, ended, w) ==
  LET saves == Delivered(T, ended) # {} IN
  IF ~Needs(T, ended) THEN NoWrite(w) /\ UNCHANGED <<snaps, marker>>
  ELSE /\ Write(w)
       /\ saves \/ w \notin {"full", "reused"}
       /\ snaps' = IF Commits(w) /\ saves THEN [snaps EXCEPT ![t] = T.root] ELSE snaps
       /\ marker' = CASE Commits(w) /\ Executable(T) -> MarkedBy(t, "released")
                      [] (Commits(w) \/ w = "full") /\ ~Executable(T) -> Cleared(T.root)
                      [] OTHER -> marker

-----------------------------------------------------------------------------
(* Admission and sends.                                                    *)

\* acquireFrom: its own branch may be busy; a trusted client's turn branches
\* from a conversation another thread's turn holds.
Conversation(c, root) ==
  IF c \in Resending /\ \E t \in Active(root) : turn[t].client # c
  THEN Append(root, c) ELSE root

\* prepareConversationTurn: the saved history the request continues.
Begin(t, c, src) ==
  LET root == Conversation(c, snaps[src]) IN
  /\ turn[t].phase = "unborn" /\ \A u \in 1..(t - 1) : turn[u].phase # "unborn"
  /\ ~stopping /\ ~broken
  /\ snaps[src] # NoRoot
  /\ Active(Append(snaps[src], c)) = {} /\ Active(root) = {}
  /\ Admits(root, src, c \in Resending)
  /\ turn' = [turn EXCEPT ![t] = Begun(c, src, root)]
  /\ UNCHANGED <<snaps, marker, broken, stopping, events, faults, fate, inert>>

\* What t forgives once it may be sent: what its history holds.
Forgiven(t) ==
  {u \in Turns : turn[u].phase = "closed" /\ turn[u].root = turn[t].root
                 /\ (Trusted(turn[t]) \/ (u = turn[t].source /\ fate[u] = "held"))}

PersistIntent(t, w) ==
  LET T == turn[t] IN
  /\ Open(t) /\ T.trace = "none" /\ ~T.pending /\ ~T.trouble
  /\ Admits(T.root, T.source, Trusted(T))
  /\ Write(w) /\ w # "reused"
  /\ marker' = IF Commits(w) THEN MarkedBy(t, "attempt") ELSE marker
  /\ turn' = [turn EXCEPT ![t].pending = (w = "ok"), ![t].trouble = w # "ok"]
  /\ fate' = [u \in Turns |-> IF Commits(w) /\ u \in Forgiven(t) THEN "clean" ELSE fate[u]]
  /\ UNCHANGED <<snaps, stopping, events, inert>>

\* One more upstream send; a refused one is not tried again once unsafe.
Dispatch(t) ==
  LET T == turn[t] IN
  /\ Open(t) /\ T.pending /\ T.trace \in {"none", "safe"} /\ ~T.gone /\ ~stopping
  /\ turn' = [turn EXCEPT ![t].trace = "sent"]
  /\ UNCHANGED <<snaps, marker, broken, stopping, events, faults, fate, inert>>

\* Refused, or certainly not delivered.
SafeFailure(t) ==
  /\ Open(t) /\ turn[t].trace = "sent"
  /\ turn' = [turn EXCEPT ![t].trace = "safe"]
  /\ UNCHANGED <<snaps, marker, broken, stopping, events, faults, fate, inert>>

\* Nobody knows whether it ran. The client's own cancellation is no block.
AmbiguousFailure(t) ==
  LET T == turn[t] IN
  /\ Open(t) /\ T.trace = "sent"
  /\ \E cancelled \in {FALSE, ClientEnded(T)} :
       turn' = [turn EXCEPT ![t].trace = "unsafe", ![t].blocked = ~cancelled,
                            ![t].lost = ~cancelled]
  /\ UNCHANGED <<snaps, marker, broken, stopping, events, faults, fate, inert>>

\* A terminal failure event without output before anything was committed.
FailedBeforeCommit(t, w) ==
  LET T == turn[t] IN
  /\ Open(t) /\ T.trace = "sent"
  /\ SettleStore(t, T, TRUE, w)
  /\ turn' = [turn EXCEPT ![t] = [SettleAs(T, TRUE, w) EXCEPT !.trace = "unsafe"]]
  /\ UNCHANGED <<stopping, events, fate, inert>>

-----------------------------------------------------------------------------
(* The stream.                                                             *)

Streaming(t) == turn[t].phase = "open" /\ turn[t].trace = "stream"
\* The writer may transform the next event: the one before was read.
CanObserve(t) == Streaming(t) /\ turn[t].over = "no" /\ turn[t].read = Len(turn[t].seen)
                 /\ ~turn[t].cut
                 /\ \A i \in 1..Len(turn[t].seen) : turn[t].seen[i] \notin Terminals

\* The response begins with an event that only names it; it is passed on to
\* an HTTP client, or bridged to a websocket.
Commit(t, bridged) ==
  /\ Open(t) /\ turn[t].trace = "sent"
  /\ t <= MaxStreams
  /\ turn' = [turn EXCEPT ![t].trace = "stream", ![t].bridged = bridged,
                          ![t].seen = <<"created">>, ![t].read = 1, ![t].got = 1]
  /\ UNCHANGED <<snaps, marker, broken, stopping, events, faults, fate, inert>>

\* saveResponse of an output event; cut: the stream ends within it.
Observe(t, kind, cut) ==
  LET T == turn[t] IN
  /\ CanObserve(t) /\ events < MaxEvents
  /\ cut => T.bridged
  /\ events' = events + 1
  /\ turn' = [turn EXCEPT ![t].seen = Append(@, kind), ![t].cut = cut]
  /\ UNCHANGED <<snaps, marker, broken, stopping, faults, fate, inert>>

\* saveResponse of response.completed. A completion that does not validate
\* ends the stream like any other failure to process it (ReadEnd).
Complete(t, w) ==
  LET T == turn[t] IN
  /\ CanObserve(t)
  /\ Write(w)
  /\ snaps' = IF Commits(w) THEN [snaps EXCEPT ![t] = T.root] ELSE snaps
  /\ marker' = IF Commits(w) THEN Cleared(T.root) ELSE marker
  /\ turn' = [turn EXCEPT
       ![t] = IF w = "ok"
              THEN [T EXCEPT !.saved = TRUE, !.seen = Append(@, "completed"), !.told = "complete"]
              ELSE [T EXCEPT !.blocked = TRUE, !.trouble = TRUE, !.over = "end",
                             !.told = IF Commits(w) THEN "complete" ELSE @]]
  /\ UNCHANGED <<stopping, events, fate, inert>>

\* A completion with state the history cannot hold is passed on unsaved.
Unprotect(t, w) ==
  LET T == turn[t] IN
  /\ CanObserve(t)
  /\ Write(w) /\ w \notin {"full", "reused"}
  /\ marker' = IF Commits(w) THEN Cleared(T.root) ELSE marker
  /\ turn' = [turn EXCEPT
       ![t] = IF w = "ok"
              THEN [T EXCEPT !.unprotected = TRUE, !.blocked = TRUE, !.pending = FALSE,
                             !.seen = Append(@, "completed"), !.told = "complete"]
              ELSE [T EXCEPT !.blocked = TRUE, !.trouble = TRUE, !.over = "end",
                             !.told = IF Commits(w) THEN "complete" ELSE @]]
  /\ UNCHANGED <<snaps, stopping, events, fate, inert>>

\* releaseFailedAttempt: executable output inside the failure itself.
FailWithOutput(t) ==
  /\ CanObserve(t)
  /\ turn' = [turn EXCEPT ![t].hidden = TRUE, ![t].over = "end"]
  /\ UNCHANGED <<snaps, marker, broken, stopping, events, faults, fate, inert>>

\* The same after executable output: settle once the client has it.
FailDeferred(t) ==
  LET T == turn[t] IN
  /\ CanObserve(t) /\ Executable(T)
  /\ turn' = [turn EXCEPT
       ![t] = IF Unsavable(T, TRUE) THEN [T EXCEPT !.over = "end"]
              ELSE [T EXCEPT !.handoff = TRUE, !.seen = Append(@, "failed")]]
  /\ UNCHANGED <<snaps, marker, broken, stopping, events, faults, fate, inert>>

FailInert(t, w) ==
  LET T == turn[t] S == SettleAs(T, TRUE, w) IN
  /\ CanObserve(t) /\ ~Executable(T)
  /\ SettleStore(t, T, TRUE, w)
  /\ turn' = [turn EXCEPT ![t] = IF S.failed THEN [S EXCEPT !.seen = Append(@, "failed")]
                                 ELSE [S EXCEPT !.over = "end"]]
  /\ UNCHANGED <<stopping, events, fate, inert>>

\* A consumer reads again once it passed on what it has; a bridge whose last
\* event is not terminated reads on to find out.
Consumed(T) == T.got = T.read \/ (T.bridged /\ T.cut)
\* streamReadStarting has a deferred end to settle: the one just read.
Due(T) == T.handoff /\ T.read = Len(T.seen) /\ T.seen[T.read] = "failed"

ReadEvent(t) ==
  LET T == turn[t] IN
  /\ Streaming(t) /\ Consumed(T) /\ T.read < Len(T.seen) /\ T.over # "read"
  /\ turn' = [turn EXCEPT ![t].read = @ + 1]
  /\ UNCHANGED <<snaps, marker, broken, stopping, events, faults, fate, inert>>

StartReadSettling(t, w) ==
  LET T == turn[t] S == [SettleAs(T, TRUE, w) EXCEPT !.handoff = FALSE] IN
  /\ Streaming(t) /\ T.over # "read" /\ Consumed(T) /\ Due(T)
  /\ SettleStore(t, T, TRUE, w)
  /\ turn' = [turn EXCEPT ![t] = [S EXCEPT !.over = IF S.failed THEN @ ELSE "read"]]
  /\ UNCHANGED <<stopping, events, fate, inert>>

Deliver(t) ==
  LET T == turn[t] IN
  /\ Streaming(t) /\ T.got < T.read /\ ~T.gone
  /\ turn' = [turn EXCEPT ![t].got = @ + 1]
  /\ UNCHANGED <<snaps, marker, broken, stopping, events, faults, fate, inert>>

\* conversationCompletionBody.Read returns the end: the upstream closed or
\* reset the stream, or it could not be processed.
Known(T) == T.saved \/ T.unprotected \/ T.failed
AtEnd(T) == T.over # "read" /\ T.read = Len(T.seen) /\ Consumed(T) /\ ~Due(T)

\* The outcome is known already, the client ended it, or it was blocked.
ReadEnd(t) ==
  LET T == turn[t] IN
  /\ Streaming(t) /\ AtEnd(T) /\ (Known(T) \/ ClientEnded(T) \/ T.blocked)
  /\ turn' = [turn EXCEPT ![t].over = "read",
                          ![t].uncertain = @ \/ (~Known(T) /\ ~ClientEnded(T))]
  /\ UNCHANGED <<snaps, marker, broken, stopping, events, faults, fate, inert>>

\* The bridge may still be writing what it read.
ReadEndBridged(t) ==
  LET T == turn[t]
      bad == ~T.handoff /\ Executable(T) /\ Unsavable(T, TRUE) IN
  /\ Streaming(t) /\ AtEnd(T) /\ T.bridged
  /\ ~Known(T) /\ ~ClientEnded(T) /\ ~T.blocked
  /\ turn' = [turn EXCEPT ![t].over = "read", ![t].uncertain = @ \/ bad,
                          ![t].handoff = @ \/ ~bad]
  /\ UNCHANGED <<snaps, marker, broken, stopping, events, faults, fate, inert>>

ReadEndSettling(t, w) ==
  LET T == turn[t] S == SettleAs(T, TRUE, w) IN
  /\ Streaming(t) /\ AtEnd(T) /\ ~T.bridged
  /\ ~Known(T) /\ ~ClientEnded(T) /\ ~T.blocked
  /\ SettleStore(t, T, TRUE, w)
  /\ turn' = [turn EXCEPT ![t] = [S EXCEPT !.over = "read", !.uncertain = ~S.failed]]
  /\ UNCHANGED <<stopping, events, fate, inert>>

\* The bridge wrote all it read, through the end or where it stopped.
Written(T) == T.got = T.read /\ ~T.gone /\ ~stopping
StreamDelivered(t, w) ==
  LET T == turn[t] IN
  /\ Streaming(t) /\ T.bridged /\ T.handoff /\ Written(T)
  /\ SettleStore(t, T, TRUE, w)
  /\ turn' = [turn EXCEPT ![t] = [SettleAs(T, TRUE, w) EXCEPT !.handoff = FALSE,
                                                              !.over = "read"]]
  /\ UNCHANGED <<stopping, events, fate, inert>>

-----------------------------------------------------------------------------
(* Ends.                                                                   *)

\* The client disconnects or cancels, while that can make a difference.
ClientEnds(t) ==
  LET T == turn[t] IN
  /\ Open(t) /\ ~T.gone /\ T.trace \in {"sent", "stream"} /\ ~Known(T)
  /\ turn' = [turn EXCEPT ![t].gone = TRUE]
  /\ UNCHANGED <<snaps, marker, broken, stopping, events, faults, fate, inert>>

Shutdown ==
  /\ ~stopping /\ faults < MaxFaults
  /\ stopping' = TRUE
  /\ faults' = faults + 1
  /\ UNCHANGED <<snaps, marker, turn, broken, events, fate, inert>>

\* The handler returns.
CanFinish(T) ==
  IF T.trace = "sent" THEN FALSE
  ELSE IF T.trace = "stream"
  THEN \/ T.gone \/ stopping
       \/ T.over = "read" /\ T.got = T.read /\ ~(T.bridged /\ T.handoff)
  ELSE TRUE

\* What the client could run of it, and what its snapshot holds.
Received(T) ==
  {i \in 1..T.got : \/ T.seen[i] \in {"call", "odd"}
                    \/ T.seen[i] = "args" /\ \A j \in i..T.got : T.seen[j] # "call"}
FateOf(T) ==
  IF T.lost THEN "owed"
  ELSE IF T.told = "complete" \/ T.gone \/ Received(T) = {} THEN "clean"
  ELSE IF Received(T) \subseteq T.kept THEN "held" ELSE "owed"

Close(t, T) ==
  /\ turn' = [turn EXCEPT ![t] = Closed(T)]
  /\ fate' = [fate EXCEPT ![t] = FateOf(T)]
  /\ inert' = [inert EXCEPT ![t] = ~Executable(T) /\ ~T.trouble /\ ~T.lost]
  /\ UNCHANGED <<stopping, events>>

Unsettled(T) == T.pending /\ ~T.saved
Dispatched(T) == T.trace # "none"
Interrupted(T) ==
  Unsettled(T) /\ Dispatched(T) /\ ~T.blocked /\ ~T.uncertain /\ ClientEnded(T)
\* Every attempt is proven not to have run.
Safe(T) == T.trace \in {"none", "safe"}

FinishSettled(t) ==
  LET T == turn[t] IN
  /\ Open(t) /\ CanFinish(T) /\ ~Interrupted(T)
  /\ Unsettled(T) => ~Safe(T) /\ (T.blocked \/ T.uncertain)
  /\ Close(t, T)
  /\ UNCHANGED <<snaps, marker, broken, faults>>

\* releaseInterruptedAttempt: the client owns the outcome. A save refused for
\* a limit still clears the marker; a reused ID or a failed write does not.
FinishInterrupted(t, w) ==
  LET T == turn[t] items == Delivered(T, FALSE) IN
  /\ Open(t) /\ CanFinish(T) /\ Interrupted(T)
  /\ Write(w) /\ (items = {} => w \notin {"full", "reused"})
  /\ snaps' = IF Commits(w) /\ items # {} THEN [snaps EXCEPT ![t] = T.root] ELSE snaps
  /\ marker' = IF Commits(w) \/ w = "full" THEN Cleared(T.root) ELSE marker
  /\ Close(t, [T EXCEPT !.kept = IF Commits(w) THEN items ELSE {}, !.trouble = w # "ok"])

FinishSafe(t, w) ==
  LET T == turn[t] IN
  /\ Open(t) /\ CanFinish(T) /\ ~Interrupted(T) /\ Unsettled(T) /\ Safe(T)
  /\ Write(w) /\ w \notin {"full", "reused"}
  /\ marker' = IF Commits(w) THEN Cleared(T.root) ELSE marker
  /\ Close(t, [T EXCEPT !.trouble = @ \/ w # "ok"])
  /\ UNCHANGED snaps

\* The proxy ended it: only items followed by another event count.
FinishEnded(t, w) ==
  LET T == turn[t] IN
  /\ Open(t) /\ CanFinish(T) /\ ~Interrupted(T) /\ Unsettled(T) /\ ~Safe(T)
  /\ ~T.blocked /\ ~T.uncertain
  /\ SettleStore(t, T, FALSE, w)
  /\ Close(t, SettleAs(T, FALSE, w))

\* The process dies, or is restarted when it is stopped or storage failed.
Restart ==
  /\ IF \A t \in Turns : ~Open(t) THEN (broken \/ stopping) /\ UNCHANGED faults
     ELSE faults < MaxFaults /\ faults' = faults + 1
  /\ turn' = [t \in Turns |-> IF Open(t) THEN Closed(turn[t]) ELSE turn[t]]
  /\ fate' = [t \in Turns |->
       IF ~Open(t) THEN fate[t]
       ELSE IF turn[t].told = "no" /\ turn[t].trace \in {"sent", "stream"} THEN "owed"
       ELSE FateOf(turn[t])]
  /\ broken' = FALSE /\ stopping' = FALSE
  /\ UNCHANGED <<snaps, marker, events, inert>>

Next ==
  \/ \E t \in Turns :
       \/ \E c \in Threads, src \in 0..N : Begin(t, c, src)
       \/ Dispatch(t) \/ SafeFailure(t) \/ AmbiguousFailure(t)
       \/ \E bridged \in BOOLEAN : Commit(t, bridged)
       \/ \E kind \in Kinds, cut \in BOOLEAN : Observe(t, kind, cut)
       \/ FailWithOutput(t) \/ FailDeferred(t)
       \/ ReadEvent(t) \/ Deliver(t) \/ ReadEnd(t) \/ ReadEndBridged(t)
       \/ ClientEnds(t) \/ FinishSettled(t)
       \/ \E w \in Writes :
            \/ PersistIntent(t, w) \/ FailedBeforeCommit(t, w)
            \/ Complete(t, w) \/ Unprotect(t, w) \/ FailInert(t, w)
            \/ StartReadSettling(t, w) \/ ReadEndSettling(t, w) \/ StreamDelivered(t, w)
            \/ FinishInterrupted(t, w) \/ FinishSafe(t, w) \/ FinishEnded(t, w)
  \/ Shutdown \/ Restart

Spec == Init /\ [][Next]_vars

-----------------------------------------------------------------------------
TypeOK ==
  /\ snaps \in [0..N -> Seq(Threads) \cup {NoRoot}]
  /\ marker \in [Turns -> {"none", "attempt", "released"}]
  /\ broken \in BOOLEAN /\ stopping \in BOOLEAN
  /\ fate \in [Turns -> Fates]
  /\ inert \in [Turns -> BOOLEAN]
  /\ \A t \in Turns : turn[t].got <= turn[t].read /\ turn[t].read <= Len(turn[t].seen)

\* A client that is not known to resend what it received never gets a turn
\* generated whose history leaves out work an earlier turn of the conversation
\* may have done: sends that may have run, calls handed over and not in the
\* history. The client's own cancellation, and a turn admitted since that
\* continued from the work or resent it, settle it (beginAttemptFrom, finish).
NoWorkRepeated ==
  [][\A t \in Turns :
       turn[t].phase = "open" /\ turn[t].trace # "sent" /\ turn'[t].trace = "sent"
       /\ ~Trusted(turn[t])
       => \A u \in Turns : turn[u].phase = "closed" /\ turn[u].root = turn[t].root
                           => fate[u] = "clean"]_vars

\* A snapshot of a response that did not complete holds only calls the client
\* was handed: a history with a call nobody ran would end in a tool result
\* that cannot exist (deliveredOutput, streamReadStarting, streamDelivered).
SavedWasReceived ==
  [][\A t \in Turns :
       snaps[t] = NoRoot /\ snaps'[t] # NoRoot /\ (CanObserve(t) => ~Open(t)')
       => \A i \in IF Open(t)' THEN turn'[t].kept ELSE Delivered(turn[t], FALSE) :
            turn[t].seen[i] = "call" => i <= turn[t].got]_vars

\* A turn after which nothing can be repeated - it had only reasoning and
\* messages, or was never generated - does not leave its conversation refused
\* (finish, releaseEndedAttempt).
InertTurnFreed ==
  \A t \in Turns : inert[t] => marker[t] = "none"
=============================================================================

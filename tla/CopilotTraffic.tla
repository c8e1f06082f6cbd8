--------------------------- MODULE CopilotTraffic ---------------------------
(***************************************************************************)
(* The rate-limit controller of Copilot providers,                         *)
(* proxy/copilot_traffic.go.                                               *)
(*                                                                         *)
(* A recognised 429 opens a cooldown for one of the keys of its request:   *)
(* its model, its account or its integration.  While it runs, requests of  *)
(* that key are answered locally.  The first request after it probes every *)
(* expired cooldown of its keys; the others wait for that probe, which is  *)
(* over when its response was closed or, for a 429, read to its end.       *)
(*                                                                         *)
(* Time is relative: remaining[k] is until - now, cut off at zero.  An     *)
(* entry is named by its key; probe[k] = c says that it still holds the    *)
(* channel that the permit of c put there.                                 *)
(***************************************************************************)
EXTENDS Integers, FiniteSets

CONSTANTS
  Callers,      \* goroutines with one inference request at a time
  Nobody,       \* the nil probe channel
  Keys,         \* cooldown keys
  Requests,     \* sequences of keys: model, account, integration
  RelayedKeys,  \* keys of the Responses streams that report failures themselves
  Delays,       \* valid delays of a Retry-After
  MaxEntries,   \* maxCopilotTrafficEntries
  WaiterLimits  \* values of maxCopilotProbeWaiters

ASSUME NobodyAssumption == Nobody \notin Callers
ASSUME RequestAssumption ==
  \A r \in Requests : DOMAIN r \subseteq Nat /\ \A i \in DOMAIN r : r[i] \in Keys
ASSUME RelayAssumption == RelayedKeys \subseteq Keys
ASSUME LimitAssumption ==
  MaxEntries \in Nat /\ WaiterLimits \subseteq Nat /\ Delays \subseteq Nat \ {0}

VARIABLES
  \* copilotTrafficController, protected by mu
  present, remaining, probe, waiters, maxWaiters,
  \* acquireCopilotInference of each caller
  pc, keys, waitOn, woken,
  \* copilotInferencePermit: the keys whose probes were not released yet
  held,
  \* copilotTrafficBody: what it carries, its reader, its closer, observeOnce
  answer, complete, reader, closer, once,
  \* history: delays that probes brought back and nobody may pass
  owed

tableVars == <<present, remaining, probe>>
waitVars  == <<waiters, maxWaiters, waitOn>>
bodyVars  == <<answer, complete, reader, closer, once>>
vars == <<tableVars, waitVars, pc, keys, woken, held, bodyVars, owed>>

KeysOf(c) == {keys[c][i] : i \in DOMAIN keys[c]}

\* A response: plain, a 429, or a stream with a rate-limit failure in it.  The
\* evidence is a recognised code, of a key, with a valid delay; without it, a
\* 429 is like one that was not read to its end.
Kinds == {"plain", "throttled", "stream"}
NoAnswer == [kind |-> "plain", evidence |-> {}]

-----------------------------------------------------------------------------
Init ==
  /\ present = [k \in Keys |-> FALSE]
  /\ remaining = [k \in Keys |-> 0]
  /\ probe = [k \in Keys |-> Nobody]
  /\ waiters = 0 /\ maxWaiters \in WaiterLimits
  /\ pc = [c \in Callers |-> "idle"]
  /\ keys \in [Callers -> Requests]
  /\ waitOn = [c \in Callers |-> Nobody]
  /\ woken = [c \in Callers |-> FALSE]
  /\ held = [c \in Callers |-> {}]
  /\ answer = [c \in Callers |-> NoAnswer]
  /\ complete = [c \in Callers |-> FALSE]
  /\ reader = [c \in Callers |-> "none"]
  /\ closer = [c \in Callers |-> "none"]
  /\ once = [c \in Callers |-> "no"]
  /\ owed = [k \in Keys |-> 0]

-----------------------------------------------------------------------------
(* The critical sections of the controller.                                *)

\* Mutant of Closed: a released probe leaves its channel open.
ClosedNothing(c) == woken

\* close(reservation.probe) wakes the callers that wait for c.
Closed(c) == [d \in Callers |-> woken[d] \/ (pc[d] = "wait" /\ waitOn[d] = c)]

\* permit.release: give back the probes; an entry that expired goes.
Release(c) ==
  LET mine == {k \in held[c] : probe[k] = c}
  IN /\ held' = [held EXCEPT ![c] = {}]
     /\ probe' = [k \in Keys |-> IF k \in mine THEN Nobody ELSE probe[k]]
     /\ present' = [k \in Keys |-> present[k] /\ ~(k \in mine /\ remaining[k] = 0)]
     /\ woken' = IF held[c] = {} THEN woken ELSE Closed(c)
     /\ UNCHANGED remaining

\* Mutant of Evictable: a recovering entry may go too.
EvictableAny == {k \in Keys : present[k]}

\* A full table evicts the oldest entry without a probe.
Evictable == {k \in Keys : present[k] /\ probe[k] = Nobody}

\* A reset can only move further away.
Until(k, delay) == IF remaining[k] < delay THEN delay ELSE remaining[k]

\* observeThrottle with a recognised code and a valid delay.
Throttle(k, delay) ==
  LET full == Cardinality({j \in Keys : present[j]}) >= MaxEntries
  IN \/ /\ present[k]
        /\ remaining' = [remaining EXCEPT ![k] = Until(k, delay)]
        /\ UNCHANGED <<present, probe, owed>>
     \/ /\ ~present[k] /\ ~full
        /\ present' = [present EXCEPT ![k] = TRUE]
        /\ remaining' = [remaining EXCEPT ![k] = delay]
        /\ UNCHANGED <<probe, owed>>
     \/ /\ ~present[k] /\ full
        /\ \E old \in Evictable :
             /\ \A j \in Evictable : remaining[old] <= remaining[j]
             /\ present' = [present EXCEPT ![old] = FALSE, ![k] = TRUE]
             /\ remaining' = [remaining EXCEPT ![old] = 0, ![k] = delay]
             /\ probe' = [probe EXCEPT ![old] = Nobody]
             /\ owed' = [owed EXCEPT ![old] = 0]    \* a full table may forget
     \/ /\ ~present[k] /\ full
        /\ Evictable = {}
        /\ UNCHANGED <<tableVars, owed>>

-----------------------------------------------------------------------------
(* acquireCopilotInference.                                                *)

\* A new request of the caller.
Start(c) ==
  /\ pc[c] = "idle"
  /\ \E r \in Requests : keys' = [keys EXCEPT ![c] = r]
  /\ pc' = [pc EXCEPT ![c] = "check"]
  /\ UNCHANGED <<tableVars, waitVars, woken, held, bodyVars, owed>>

\* The context has ended, or the process shuts down.
Leave(c) ==
  /\ pc[c] = "check"
  /\ pc' = [pc EXCEPT ![c] = "idle"]
  /\ UNCHANGED <<tableVars, waitVars, keys, woken, held, bodyVars, owed>>

Active(c) == {k \in KeysOf(c) : present[k] /\ remaining[k] > 0}

\* A local 429 with the latest of the active resets.
Reject(c) ==
  /\ pc[c] = "check"
  /\ Active(c) # {}
  /\ pc' = [pc EXCEPT ![c] = "idle"]
  /\ UNCHANGED <<tableVars, waitVars, keys, woken, held, bodyVars, owed>>

\* The positions of the keys that somebody probes.
Probed(c) == {i \in DOMAIN keys[c] : present[keys[c][i]] /\ probe[keys[c][i]] # Nobody}

QueueFull == waiters >= maxWaiters

\* A local 503.
RejectFull(c) ==
  /\ pc[c] = "check"
  /\ Active(c) = {}
  /\ Probed(c) # {}
  /\ QueueFull
  /\ pc' = [pc EXCEPT ![c] = "idle"]
  /\ UNCHANGED <<tableVars, waitVars, keys, woken, held, bodyVars, owed>>

\* Wait for the last of the probes; the others are checked again afterwards.
Wait(c) ==
  /\ pc[c] = "check"
  /\ Active(c) = {}
  /\ ~QueueFull
  /\ \E i \in Probed(c) :
       /\ \A j \in Probed(c) : j <= i
       /\ waitOn' = [waitOn EXCEPT ![c] = probe[keys[c][i]]]
  /\ waiters' = waiters + 1
  /\ woken' = [woken EXCEPT ![c] = FALSE]
  /\ pc' = [pc EXCEPT ![c] = "wait"]
  /\ UNCHANGED <<tableVars, maxWaiters, keys, held, bodyVars, owed>>

Wake(c) ==
  /\ pc[c] = "wait"
  /\ woken[c]
  /\ waiters' = waiters - 1
  /\ waitOn' = [waitOn EXCEPT ![c] = Nobody]
  /\ woken' = [woken EXCEPT ![c] = FALSE]
  /\ pc' = [pc EXCEPT ![c] = "check"]
  /\ UNCHANGED <<tableVars, maxWaiters, keys, held, bodyVars, owed>>

\* The context, or the process, ends during the wait.
Abandon(c) ==
  /\ pc[c] = "wait"
  /\ waiters' = waiters - 1
  /\ waitOn' = [waitOn EXCEPT ![c] = Nobody]
  /\ woken' = [woken EXCEPT ![c] = FALSE]
  /\ pc' = [pc EXCEPT ![c] = "idle"]
  /\ UNCHANGED <<tableVars, maxWaiters, keys, held, bodyVars, owed>>

\* The request goes out, as the probe of every expired cooldown of its keys.
Admit(c) ==
  /\ pc[c] = "check"
  /\ Active(c) = {}
  /\ Probed(c) = {}
  /\ LET mine == {k \in KeysOf(c) : present[k]}
     IN /\ held' = [held EXCEPT ![c] = mine]
        /\ probe' = [k \in Keys |-> IF k \in mine THEN c ELSE probe[k]]
  /\ pc' = [pc EXCEPT ![c] = "send"]
  /\ UNCHANGED <<present, remaining, waitVars, keys, woken, bodyVars, owed>>

-----------------------------------------------------------------------------
(* The response.                                                           *)

\* The context ended while the lock was taken, the attempt was not sent, or
\* the send failed.
SendFails(c) ==
  /\ pc[c] = "send"
  /\ Release(c)
  /\ pc' = [pc EXCEPT ![c] = "idle"]
  /\ UNCHANGED <<waitVars, keys, bodyVars, owed>>

\* A response tells nothing, or a delay of one of the keys.
Evidence(c) == {{}} \cup {{<<k, d>>} : k \in KeysOf(c), d \in Delays}

\* finishCopilotInference: the body takes the permit along.
Respond(c) ==
  /\ pc[c] = "send"
  /\ \E kind \in Kinds, evidence \in Evidence(c) :
       /\ kind = "plain" <=> evidence = {}
       /\ answer' = [answer EXCEPT ![c] = [kind |-> kind, evidence |-> evidence]]
       /\ pc' = [pc EXCEPT ![c] = IF kind = "plain" /\ held[c] = {} THEN "idle" ELSE "body"]
  /\ UNCHANGED <<tableVars, waitVars, keys, woken, held, complete, reader, closer,
                 once, owed>>

\* The probe of c brought back a delay: nobody is admitted before it passed.
Owe(c) ==
  LET renewed == {e \in answer[c].evidence : e[1] \in held[c] /\ owed[e[1]] < e[2]}
  IN \/ \E e \in renewed : owed' = [owed EXCEPT ![e[1]] = e[2]]
     \/ renewed = {} /\ UNCHANGED owed

\* The 429 was read to its end, or so far that it is no evidence any more.
ReadThrottled(c) ==
  /\ pc[c] = "body" /\ answer[c].kind = "throttled"
  /\ reader[c] = "none" /\ once[c] # "done"
  /\ \E end \in BOOLEAN :
       /\ complete' = [complete EXCEPT ![c] = @ \/ end]
       /\ IF end /\ once[c] = "no" THEN Owe(c) ELSE UNCHANGED owed
  /\ reader' = [reader EXCEPT ![c] = "observe"]
  /\ UNCHANGED <<tableVars, waitVars, pc, keys, woken, held, answer, closer, once>>

\* A read of the stream returned its failure event.  The reader holds the
\* mutex of the body until it has dealt with it.
ReadFailure(c) ==
  /\ pc[c] = "body" /\ answer[c].kind = "stream"
  /\ answer[c].evidence # {}
  /\ reader[c] = "none" /\ once[c] = "no"
  /\ Owe(c)
  /\ reader' = [reader EXCEPT ![c] = "event"]
  /\ UNCHANGED <<tableVars, waitVars, pc, keys, woken, held, answer, complete,
                 closer, once>>

\* observeStreamEvent; the observer is done with the first failure.
ObserveEvent(c) ==
  /\ reader[c] = "event"
  /\ \E e \in answer[c].evidence : Throttle(e[1], e[2])
  /\ answer' = [answer EXCEPT ![c].evidence = {}]
  /\ reader' = [reader EXCEPT ![c] = "none"]
  /\ UNCHANGED <<waitVars, pc, keys, woken, held, complete, closer, once>>

\* The body is garbage.
Forget(c) ==
  /\ answer' = [answer EXCEPT ![c] = NoAnswer]
  /\ complete' = [complete EXCEPT ![c] = FALSE]
  /\ reader' = [reader EXCEPT ![c] = "none"]

\* The request is over.
Finish(c) ==
  /\ closer' = [closer EXCEPT ![c] = "none"]
  /\ once' = [once EXCEPT ![c] = "no"]
  /\ pc' = [pc EXCEPT ![c] = "idle"]

\* Close closes the body below, then observes; nothing is left to observe if
\* a reader has done it.
Close(c) ==
  /\ pc[c] = "body"
  /\ closer[c] = "none"
  /\ IF once[c] = "done"
     THEN Finish(c)
     ELSE /\ closer' = [closer EXCEPT ![c] = "observe"]
          /\ UNCHANGED <<pc, once>>
  /\ UNCHANGED <<tableVars, waitVars, keys, woken, held, answer, complete, reader, owed>>

\* Mutant of Quiet: the observation does not wait for the reader.
QuietAlways(c) == TRUE

\* The observation takes the mutex that a stream's reader holds.
Quiet(c) == reader[c] # "event"

\* observe, first half: a complete 429 opens or renews its cooldown.
Observe(c) ==
  /\ once[c] = "no"
  /\ reader[c] = "observe" \/ closer[c] = "observe"
  /\ Quiet(c)
  /\ IF complete[c]
     THEN \E e \in answer[c].evidence : Throttle(e[1], e[2])
     ELSE UNCHANGED <<tableVars, owed>>
  /\ once' = [once EXCEPT ![c] = "release"]
  /\ UNCHANGED <<waitVars, pc, keys, woken, held, answer, complete, reader, closer>>

\* observe, second half: the probes are given back.  Everybody who waits for
\* the Once returns with it.
ObserveRelease(c) ==
  /\ once[c] = "release"
  /\ Release(c)
  /\ Forget(c)
  /\ IF closer[c] = "observe"
     THEN Finish(c)
     ELSE /\ once' = [once EXCEPT ![c] = "done"]
          /\ UNCHANGED <<pc, closer>>
  /\ UNCHANGED <<waitVars, keys, owed>>

\* observeResponsesFailure, called by the relay of a Responses stream, which sees
\* the failure from outside the body: its request may hold a permit, may have
\* given it back, or never had one.
ObserveResponsesFailure ==
  /\ \E k \in RelayedKeys, d \in Delays : Throttle(k, d)
  /\ UNCHANGED <<waitVars, pc, keys, woken, held, bodyVars>>

Less(n) == IF n > 0 THEN n - 1 ELSE 0

Tick ==
  /\ \E k \in Keys : remaining[k] > 0
  /\ remaining' = [k \in Keys |-> Less(remaining[k])]
  /\ owed' = [k \in Keys |-> Less(owed[k])]
  /\ UNCHANGED <<present, probe, waitVars, pc, keys, woken, held, bodyVars>>

-----------------------------------------------------------------------------
Caller(c) ==
  \/ Start(c) \/ Leave(c) \/ Reject(c) \/ RejectFull(c) \/ Wait(c) \/ Wake(c)
  \/ Abandon(c) \/ Admit(c) \/ SendFails(c) \/ Respond(c) \/ ReadThrottled(c) \/ ReadFailure(c) \/ ObserveEvent(c)
  \/ Close(c) \/ Observe(c) \/ ObserveRelease(c)

Next == (\E c \in Callers : Caller(c)) \/ ObserveResponsesFailure \/ Tick

Spec == Init /\ [][Next]_vars

\* What a request that was admitted has to do: its send returns (it carries a
\* deadline), and whoever got the response closes it (every caller defers the
\* Close) and observes it.
Progress(c) ==
  SendFails(c) \/ Respond(c) \/ ObserveEvent(c) \/ Close(c) \/ Observe(c) \/ ObserveRelease(c)

\* A goroutine that can run does.  Nothing is assumed of new requests, of
\* contexts, of reads or of the clock.
Fairness(c) == WF_vars(Wake(c)) /\ WF_vars(Progress(c))

FairSpec == Spec /\ \A c \in Callers : Fairness(c)

-----------------------------------------------------------------------------
(* Properties.                                                             *)

\* Every variable keeps its type, and the waiters stay within their limit.
TypeOK ==
  /\ present \in [Keys -> BOOLEAN]
  /\ remaining \in [Keys -> Nat]
  /\ probe \in [Keys -> Callers \cup {Nobody}]
  /\ waiters \in 0..maxWaiters
  /\ pc \in [Callers -> {"idle", "check", "wait", "send", "body"}]
  /\ keys \in [Callers -> Requests]
  /\ waitOn \in [Callers -> Callers \cup {Nobody}]
  /\ woken \in [Callers -> BOOLEAN]
  /\ held \in [Callers -> SUBSET Keys]
  /\ answer \in [Callers -> [kind : Kinds, evidence : SUBSET (Keys \X Delays)]]
  /\ complete \in [Callers -> BOOLEAN]
  /\ reader \in [Callers -> {"none", "observe", "event"}]
  /\ closer \in [Callers -> {"none", "observe"}]
  /\ once \in [Callers -> {"no", "release", "done"}]
  /\ owed \in [Keys -> Nat]

\* An entry has a probe exactly while one unfinished request holds it: through
\* evictions, renewals and releases no probe is shared, lost or left behind.
ProbesPermitted ==
  /\ \A k \in Keys, c \in Callers : k \in held[c] <=> present[k] /\ probe[k] = c
  /\ \A c \in Callers : held[c] # {} => pc[c] \in {"send", "body"} /\ once[c] # "done"

\* The counter of waiters is exact, and no waiter sleeps behind a probe that
\* is over: it was woken, or the request it waits for still holds a probe.
WaitersCovered ==
  /\ waiters = Cardinality({c \in Callers : pc[c] = "wait"})
  /\ \A c \in Callers : pc[c] = "wait" /\ ~woken[c] =>
       /\ waitOn[c] \in Callers
       /\ held[waitOn[c]] # {}

\* A renewed cooldown is installed before anybody can pass: from the moment
\* the probe read a new reset, no request of that key is admitted before it.
RenewalBeatsWaiters ==
  [][\A c \in Callers : pc[c] = "check" /\ pc'[c] = "send" =>
       \A k \in KeysOf(c) : owed[k] = 0]_vars

\* Nobody waits for ever: every wait for a probe ends.  (Newcomers may be
\* faster: whoever wakes up may have to wait again.)
WaitsEnd == \A c \in Callers : pc[c] = "wait" ~> pc[c] # "wait"
=============================================================================

---------------------------- MODULE AzureTraffic ----------------------------
(***************************************************************************)
(* The per-deployment recovery controller of proxy/azure_traffic.go        *)
(* together with the two body wrappers of proxy/route_executor.go that     *)
(* decide when a probe is over.                                            *)
(*                                                                         *)
(* A deployment that answered 429 (or 2xx with an exhausted quota) gets a  *)
(* cooldown entry.  While the entry exists, a call either fails over to    *)
(* another target with a local 429, waits in the FIFO queue of the entry,  *)
(* or holds the single probe permit.  The permit is given back when the    *)
(* stream shows output, when an accepted body reached EOF, or when an      *)
(* abandoned body is neither being read nor being closed any more.         *)
(*                                                                         *)
(* Time is relative: remaining[e] is until - now, cut off at zero, so a    *)
(* Tick lowers every pending delay by one and behaviours may be infinite.  *)
(* Every action is one critical section of controller.mu.                  *)
(***************************************************************************)
EXTENDS Integers, SequencesExt

CONSTANTS
  Callers,             \* goroutines running one route attempt at a time
  Keys,                \* deployments: resource origin + upstream model
  Entries,             \* identities of azureCooldown objects
  NoEntry,             \* the nil *azureCooldown
  Weights,             \* the content lengths of the requests
  Delays,              \* reset delays a response can announce
  MaxEntries,          \* maxAzureTrafficEntries
  MaxWaiters,          \* maxAzureTrafficWaiters
  MaxBytes,            \* maxAzureTrafficWaitingBytes
  MaxDeploymentWaiters,\* maxAzureDeploymentWaiters
  MaxDeploymentBytes,  \* maxAzureDeploymentWaitingBytes
  MaxThrottles         \* bound of the model: throttled responses per behaviour

ASSUME NoEntryAssumption == NoEntry \notin Entries
ASSUME WeightsAssumption == Weights \subseteq Nat
ASSUME DelaysAssumption == Delays \subseteq Nat \ {0}
ASSUME LimitsAssumption ==
  {MaxEntries, MaxWaiters, MaxBytes, MaxDeploymentWaiters,
   MaxDeploymentBytes, MaxThrottles} \subseteq Nat

VARIABLES
  \* azureTrafficController and its entries, protected by mu
  cooldowns, remaining, probe, queue, entryBytes, waiters, waitingBytes,
  \* one admission per caller (acquireAzureRouteInference)
  pc, key, canSwitch, weight, ctx, queuedOn, woken, alarm,
  \* permit and body of the caller's attempt
  permit, reader, closer,
  \* environment
  shutdown, throttles

entryVars == <<cooldowns, remaining, probe>>
queueVars == <<queue, entryBytes, waiters, waitingBytes>>
callVars  == <<pc, key, canSwitch, weight, ctx, queuedOn, alarm>>
bodyVars  == <<reader, closer>>
envVars   == <<shutdown, throttles>>
vars == <<entryVars, queueVars, callVars, woken, permit, bodyVars, envVars>>

Unarmed == -1          \* no timer: reset channel is nil

\* A fresh azureTrafficPermit; ended is history: output or an accepted EOF came.
NewPermit(e) ==
  [entry |-> e, bodyPending |-> FALSE, reads |-> 0, closing |-> FALSE,
   requested |-> FALSE, released |-> FALSE, ended |-> FALSE]

NoPermit == NewPermit(NoEntry)

EntryOf(c) == cooldowns[key[c]]
LiveEntries == {cooldowns[k] : k \in Keys} \ {NoEntry}

\* The probe permit of c still excludes other callers.
Holding(c) == permit[c].entry # NoEntry /\ ~permit[c].released

-----------------------------------------------------------------------------
Init ==
  /\ cooldowns = [k \in Keys |-> NoEntry]
  /\ remaining = [e \in Entries |-> 0]
  /\ probe = [e \in Entries |-> FALSE]
  /\ queue = [e \in Entries |-> <<>>]
  /\ entryBytes = [e \in Entries |-> 0]
  /\ waiters = 0
  /\ waitingBytes = 0
  /\ pc = [c \in Callers |-> "idle"]
  /\ key \in [Callers -> Keys]
  /\ canSwitch = [c \in Callers |-> FALSE]
  /\ weight = [c \in Callers |-> 0]
  /\ ctx = [c \in Callers |-> "live"]
  /\ queuedOn = [c \in Callers |-> NoEntry]
  /\ woken = [c \in Callers |-> FALSE]
  /\ alarm = [c \in Callers |-> Unarmed]
  /\ permit = [c \in Callers |-> NoPermit]
  /\ reader = [c \in Callers |-> "none"]
  /\ closer = [c \in Callers |-> "none"]
  /\ shutdown = FALSE
  /\ throttles = 0

-----------------------------------------------------------------------------
(* Building blocks of the critical sections.                               *)

\* Mutant: notify replaces the channel without closing the old one.
NotifiedNobody(e) == woken

\* notify: close(e.changed) wakes every caller selecting on that channel.
Notified(e) == [c \in Callers |-> woken[c] \/ (pc[c] = "wait" /\ queuedOn[c] = e)]

\* The part of releaseProbeLocked that touches the entry.
EntryKept(c, e) ==
  ~ (queue[e] = <<>> /\ remaining[e] = 0 /\ EntryOf(c) = e)

\* Mutant of ReleaseProbe: a resolved permit releases a second time.
ReleaseProbeAgain(c, p) ==
  /\ permit' = [permit EXCEPT ![c] = [p EXCEPT !.released = TRUE]]
  /\ probe' = [probe EXCEPT ![p.entry] = FALSE]
  /\ cooldowns' = IF EntryKept(c, p.entry) THEN cooldowns
                  ELSE [cooldowns EXCEPT ![key[c]] = NoEntry]
  /\ woken' = Notified(p.entry)

ReleaseProbe(c, p) ==
  /\ permit' = [permit EXCEPT ![c] = [p EXCEPT !.released = TRUE]]
  /\ IF p.released
     THEN UNCHANGED <<probe, cooldowns, woken>>
     ELSE /\ probe' = [probe EXCEPT ![p.entry] = FALSE]
          /\ cooldowns' = IF EntryKept(c, p.entry) THEN cooldowns
                          ELSE [cooldowns EXCEPT ![key[c]] = NoEntry]
          /\ woken' = Notified(p.entry)

\* releaseIfCompleteLocked, called with the already updated permit p.
\* (CompleteWhileRead is a mutant: reads in flight are forgotten.)
CompleteWhileRead(p) == p.requested /\ ~p.bodyPending
Complete(p) == p.requested /\ ~p.bodyPending /\ p.reads = 0

ReleaseIfComplete(c, p) ==
  IF Complete(p)
  THEN ReleaseProbe(c, p)
  ELSE /\ permit' = [permit EXCEPT ![c] = p]
       /\ UNCHANGED <<probe, cooldowns, woken>>

\* Entries a full map drops: idle, expired and unqueued ones.
Swept(k) ==
  LET e == cooldowns[k]
  IN  e # NoEntry /\ ~probe[e] /\ queue[e] = <<>> /\ remaining[e] = 0

AtCapacity(map) == Cardinality({k \in Keys : map[k] # NoEntry}) >= MaxEntries

AfterSweep ==
  IF AtCapacity(cooldowns)
  THEN [k \in Keys |-> IF Swept(k) THEN NoEntry ELSE cooldowns[k]]
  ELSE cooldowns

\* Objects nobody refers to: what the allocator may hand out.
Unreferenced ==
  {e \in Entries \ LiveEntries :
     \A c \in Callers : permit[c].entry # e /\ queuedOn[c] # e}

\* The waiter of c leaves the queue it is in (QueueConsistent: it is in it).
DropWaiter(c, e) ==
  /\ \E i \in 1..Len(queue[e]) :
       /\ queue[e][i] = c
       /\ queue' = [queue EXCEPT ![e] = RemoveAt(@, i)]
  /\ entryBytes' = [entryBytes EXCEPT ![e] = @ - weight[c]]
  /\ waiters' = waiters - 1
  /\ waitingBytes' = waitingBytes - weight[c]

-----------------------------------------------------------------------------
(* observe(status, headers): a throttled response renews the cooldown.     *)

Throttle(k, d) ==
  /\ throttles < MaxThrottles
  /\ throttles' = throttles + 1
  /\ UNCHANGED <<probe, shutdown, permit, queueVars>>
  /\ \/ /\ cooldowns[k] # NoEntry
        /\ UNCHANGED cooldowns
        /\ LET e == cooldowns[k]
           IN  IF d > remaining[e]
               THEN /\ remaining' = [remaining EXCEPT ![e] = d]
                    /\ woken' = Notified(e)
               ELSE UNCHANGED <<remaining, woken>>
     \/ /\ cooldowns[k] = NoEntry
        /\ UNCHANGED woken
        /\ IF AtCapacity(AfterSweep)
           THEN cooldowns' = AfterSweep /\ UNCHANGED remaining
           ELSE /\ Unreferenced # {}
                /\ LET e == CHOOSE x \in Unreferenced : TRUE
                   IN  /\ cooldowns' = [AfterSweep EXCEPT ![k] = e]
                       /\ remaining' = [remaining EXCEPT ![e] = d]

-----------------------------------------------------------------------------
(* acquireAzureRouteInference.                                             *)

\* A new attempt; the executor computed canSwitch for it.
Start(c) ==
  /\ pc[c] = "idle"
  /\ \E k \in Keys, s \in BOOLEAN, w \in Weights :
       /\ key' = [key EXCEPT ![c] = k]
       /\ canSwitch' = [canSwitch EXCEPT ![c] = s]
       /\ weight' = [weight EXCEPT ![c] = w]
  /\ pc' = [pc EXCEPT ![c] = "check"]
  /\ UNCHANGED <<entryVars, queueVars, ctx, queuedOn, alarm, woken, permit,
                 bodyVars, envVars>>

\* Every return of the admission ends its contexts and its locals.
Returned(c, next) ==
  /\ pc' = [pc EXCEPT ![c] = next]
  /\ canSwitch' = [canSwitch EXCEPT ![c] = FALSE]
  /\ ctx' = [ctx EXCEPT ![c] = "live"]
  /\ weight' = [weight EXCEPT ![c] = IF next = "leave" THEN @ ELSE 0]

\* First critical section: an untracked deployment needs no permit.
Check(c) ==
  /\ pc[c] = "check"
  /\ IF EntryOf(c) = NoEntry
     THEN Returned(c, "send")
     ELSE /\ pc' = [pc EXCEPT ![c] = "admit"]
          /\ UNCHANGED <<canSwitch, weight, ctx>>
  /\ UNCHANGED <<entryVars, queueVars, key, queuedOn, alarm, woken, permit,
                 bodyVars, envVars>>

\* Returns without a grant run the deferred waiter removal.
Return(c, next) ==
  /\ Returned(c, IF queuedOn[c] = NoEntry THEN next ELSE "leave")
  /\ UNCHANGED <<entryVars, queueVars, key, queuedOn, alarm, woken, permit,
                 bodyVars, envVars>>

AdmitAborted(c) ==
  /\ pc[c] = "admit"
  /\ ctx[c] = "canceled" \/ shutdown
  /\ Return(c, "idle")

InLoop(c) == pc[c] = "admit" /\ ctx[c] # "canceled" /\ ~shutdown

\* (A queued caller never gets here: see QueueConsistent.)
AdmitUntracked(c) ==
  /\ InLoop(c)
  /\ EntryOf(c) = NoEntry
  /\ Return(c, "send")

Busy(e) == remaining[e] > 0 \/ probe[e] \/ queue[e] # <<>>

\* Local 429: fail over, give up after maxAzureTrafficWait, or a delay that
\* does not fit the remaining deadline (any positive one, for some deadline).
AdmitRejected(c) ==
  /\ InLoop(c)
  /\ EntryOf(c) # NoEntry
  /\ \/ canSwitch[c] /\ Busy(EntryOf(c))
     \/ ctx[c] = "expired"
     \/ remaining[EntryOf(c)] > 0
  /\ Return(c, "idle")

MayAdmit(c) ==
  /\ InLoop(c)
  /\ EntryOf(c) # NoEntry
  /\ ~(canSwitch[c] /\ Busy(EntryOf(c)))
  /\ ctx[c] = "live"

\* Mutant of First: whoever comes takes a free probe.
AnyoneFirst(c) == TRUE

First(c) ==
  LET q == queue[EntryOf(c)] IN q = <<>> \/ (queuedOn[c] # NoEntry /\ Head(q) = c)

\* The caller may take the probe of its entry now.
Admissible(c) == remaining[EntryOf(c)] = 0 /\ ~probe[EntryOf(c)] /\ First(c)

AdmitGranted(c) ==
  /\ MayAdmit(c)
  /\ Admissible(c)
  /\ LET e == EntryOf(c)
     IN  /\ probe' = [probe EXCEPT ![e] = TRUE]
         /\ permit' = [permit EXCEPT ![c] = NewPermit(e)]
         /\ IF queuedOn[c] # NoEntry
            THEN /\ queue' = [queue EXCEPT ![e] = Tail(@)]
                 /\ entryBytes' = [entryBytes EXCEPT ![e] = @ - weight[c]]
                 /\ waiters' = waiters - 1
                 /\ waitingBytes' = waitingBytes - weight[c]
            ELSE UNCHANGED queueVars
  /\ queuedOn' = [queuedOn EXCEPT ![c] = NoEntry]
  /\ Returned(c, "send")
  /\ UNCHANGED <<cooldowns, remaining, key, alarm, woken, bodyVars, envVars>>

QueueFull(c, e) ==
  \/ Len(queue[e]) >= MaxDeploymentWaiters
  \/ weight[c] > MaxDeploymentBytes - entryBytes[e]
  \/ waiters >= MaxWaiters
  \/ weight[c] > MaxBytes - waitingBytes

\* 503 rate_limit_queue_full.
AdmitFull(c) ==
  /\ MayAdmit(c)
  /\ ~Admissible(c)
  /\ queuedOn[c] = NoEntry
  /\ QueueFull(c, EntryOf(c))
  /\ Return(c, "idle")

\* Join the queue once, capture the channel and arm the timer.
AdmitWaits(c) ==
  /\ MayAdmit(c)
  /\ ~Admissible(c)
  /\ LET e == EntryOf(c)
     IN  /\ IF queuedOn[c] = NoEntry
            THEN /\ ~QueueFull(c, e)
                 /\ queue' = [queue EXCEPT ![e] = Append(@, c)]
                 /\ entryBytes' = [entryBytes EXCEPT ![e] = @ + weight[c]]
                 /\ waiters' = waiters + 1
                 /\ waitingBytes' = waitingBytes + weight[c]
                 /\ queuedOn' = [queuedOn EXCEPT ![c] = e]
            ELSE UNCHANGED <<queueVars, queuedOn>>
         /\ alarm' = [alarm EXCEPT ![c] = IF remaining[e] > 0 THEN remaining[e]
                                                            ELSE Unarmed]
  /\ woken' = [woken EXCEPT ![c] = FALSE]
  /\ pc' = [pc EXCEPT ![c] = "wait"]
  /\ UNCHANGED <<entryVars, key, canSwitch, weight, ctx, permit, bodyVars, envVars>>

\* The select of the loop; the timer is stopped afterwards.
Wake(c) ==
  /\ pc[c] = "wait"
  /\ woken[c] \/ alarm[c] = 0 \/ ctx[c] # "live" \/ shutdown
  /\ pc' = [pc EXCEPT ![c] = "admit"]
  /\ alarm' = [alarm EXCEPT ![c] = Unarmed]
  /\ woken' = [woken EXCEPT ![c] = FALSE]
  /\ UNCHANGED <<entryVars, queueVars, key, canSwitch, weight, ctx, queuedOn, permit,
                 bodyVars, envVars>>

\* The deferred removal of an unserved waiter, a critical section of its own.
Leave(c) ==
  /\ pc[c] = "leave"
  /\ DropWaiter(c, queuedOn[c])
  /\ woken' = Notified(queuedOn[c])
  /\ queuedOn' = [queuedOn EXCEPT ![c] = NoEntry]
  /\ pc' = [pc EXCEPT ![c] = "idle"]
  /\ weight' = [weight EXCEPT ![c] = 0]
  /\ UNCHANGED <<entryVars, key, canSwitch, ctx, alarm, permit, bodyVars, envVars>>

-----------------------------------------------------------------------------
(* The attempt: singleInferenceSend and the body wrappers.                 *)

Held(c) == permit[c].entry # NoEntry

\* No response, or nobody kept its body: the executor releases the permit.
SendFailed(c) ==
  /\ pc[c] = "send"
  /\ IF Held(c)
     THEN ReleaseIfComplete(c, [permit[c] EXCEPT !.requested = TRUE])
     ELSE UNCHANGED <<permit, probe, cooldowns, woken>>
  /\ pc' = [pc EXCEPT ![c] = "end"]
  /\ UNCHANGED <<remaining, queueVars, key, canSwitch, weight, ctx, queuedOn, alarm,
                 bodyVars, envVars>>

\* holdResponseBody, before the response headers are observed.
Respond(c) ==
  /\ pc[c] = "send"
  /\ permit' = [permit EXCEPT ![c].bodyPending = Held(c)]
  /\ pc' = [pc EXCEPT ![c] = "body"]
  /\ UNCHANGED <<entryVars, queueVars, key, canSwitch, weight, ctx, queuedOn, alarm,
                 woken, bodyVars, envVars>>

\* Headers, a JSON failure or a streamed failure event report a throttle.
Observe(c) ==
  /\ pc[c] = "body"
  /\ reader[c] \in {"none", "got"}
  /\ \E d \in Delays : Throttle(key[c], d)
  /\ UNCHANGED <<callVars, bodyVars>>

\* routeAttemptTransportBody.Read, entry: refused once Close began.
ReadBegin(c) ==
  /\ pc[c] = "body" /\ Held(c)
  /\ reader[c] = "none"
  /\ ~permit[c].closing
  /\ permit' = [permit EXCEPT ![c].reads = @ + 1]
  /\ reader' = [reader EXCEPT ![c] = "reading"]
  /\ UNCHANGED <<entryVars, queueVars, callVars, woken, closer, envVars>>

\* routeAttemptTransportBody.Read, the deferred endBodyRead.
ReadEnd(c) ==
  /\ reader[c] = "reading"
  /\ ReleaseIfComplete(c, [permit[c] EXCEPT !.reads = @ - 1])
  /\ reader' = [reader EXCEPT ![c] = "got"]
  /\ UNCHANGED <<remaining, queueVars, callVars, closer, envVars>>

\* The chunk held neither output nor the end of the body.
ReadMore(c) ==
  /\ reader[c] = "got"
  /\ reader' = [reader EXCEPT ![c] = "none"]
  /\ UNCHANGED <<entryVars, queueVars, callVars, woken, permit, closer, envVars>>

\* mergeStreamingEventProgress: output or tool activity resolves the probe.
Resolve(c) ==
  /\ reader[c] = "got"
  /\ ReleaseProbe(c, [permit[c] EXCEPT !.ended = TRUE])
  /\ reader' = [reader EXCEPT ![c] = "none"]
  /\ UNCHANGED <<remaining, queueVars, callVars, closer, envVars>>

\* EOF of an accepted attempt: completeResponseBody before release.
AcceptedEOF(c) ==
  /\ reader[c] = "got"
  /\ ReleaseIfComplete(c, [permit[c] EXCEPT !.bodyPending = FALSE, !.ended = TRUE])
  /\ reader' = [reader EXCEPT ![c] = "ended"]
  /\ UNCHANGED <<remaining, queueVars, callVars, closer, envVars>>

\* EOF of an abandoned attempt, or a read error.
AbandonedEnd(c) ==
  /\ reader[c] = "got"
  /\ reader' = [reader EXCEPT ![c] = "ended"]
  /\ UNCHANGED <<entryVars, queueVars, callVars, woken, permit, closer, envVars>>

\* permit.release() of routeAttemptObservedBody.Read.
ReadRelease(c) ==
  /\ reader[c] = "ended"
  /\ ReleaseIfComplete(c, [permit[c] EXCEPT !.requested = TRUE])
  /\ reader' = [reader EXCEPT ![c] = "closed"]
  /\ UNCHANGED <<remaining, queueVars, callVars, closer, envVars>>

\* Close runs once, possibly while another goroutine is inside Read.
CloseBegin(c) ==
  /\ pc[c] = "body" /\ Held(c)
  /\ closer[c] = "none"
  /\ permit' = [permit EXCEPT ![c].closing = TRUE]
  /\ closer' = [closer EXCEPT ![c] = "closing"]
  /\ UNCHANGED <<entryVars, queueVars, callVars, woken, reader, envVars>>

\* inner.Close() returned: completeResponseBody.
CloseEnd(c) ==
  /\ closer[c] = "closing"
  /\ ReleaseIfComplete(c, [permit[c] EXCEPT !.bodyPending = FALSE])
  /\ closer' = [closer EXCEPT ![c] = "returned"]
  /\ UNCHANGED <<remaining, queueVars, callVars, reader, envVars>>

\* permit.release() of routeAttemptObservedBody.Close.
CloseRelease(c) ==
  /\ closer[c] = "returned"
  /\ ReleaseIfComplete(c, [permit[c] EXCEPT !.requested = TRUE])
  /\ closer' = [closer EXCEPT ![c] = "closed"]
  /\ UNCHANGED <<remaining, queueVars, callVars, reader, envVars>>

\* The executor gives the attempt up while its body may still be drained or
\* closed elsewhere (failed stream preparation, rejected response).
Abandon(c) ==
  /\ pc[c] = "body" /\ Held(c)
  /\ ~permit[c].requested
  /\ ReleaseIfComplete(c, [permit[c] EXCEPT !.requested = TRUE])
  /\ UNCHANGED <<remaining, queueVars, callVars, bodyVars, envVars>>

\* Both goroutines are done with the body (or there was no permit).
Finish(c) ==
  /\ \/ pc[c] = "end"
     \/ pc[c] = "body" /\ ~Held(c)
     \/ pc[c] = "body" /\ closer[c] = "closed" /\ reader[c] \in {"none", "closed"}
  /\ pc' = [pc EXCEPT ![c] = "idle"]
  /\ permit' = [permit EXCEPT ![c] = NoPermit]
  /\ reader' = [reader EXCEPT ![c] = "none"]
  /\ closer' = [closer EXCEPT ![c] = "none"]
  /\ UNCHANGED <<entryVars, queueVars, key, canSwitch, weight, ctx, queuedOn, alarm,
                 woken, envVars>>

-----------------------------------------------------------------------------
(* Environment.                                                            *)

\* The client goes away, or the five-minute wait (or deadline) elapses.
Cancel(c) ==
  /\ pc[c] \in {"admit", "wait"}
  /\ ctx[c] = "live"
  /\ \E s \in {"canceled", "expired"} : ctx' = [ctx EXCEPT ![c] = s]
  /\ UNCHANGED <<entryVars, queueVars, pc, key, canSwitch, weight, queuedOn, alarm,
                 woken, permit, bodyVars, envVars>>

Shutdown ==
  /\ ~shutdown
  /\ shutdown' = TRUE
  /\ UNCHANGED <<entryVars, queueVars, callVars, woken, permit, bodyVars, throttles>>

\* delay = max(0, until - now).
DelayAfterTick(e) == IF remaining[e] > 0 THEN remaining[e] - 1 ELSE 0

Tick ==
  /\ remaining' = [e \in Entries |-> DelayAfterTick(e)]
  /\ alarm' = [c \in Callers |-> IF alarm[c] > 0 THEN alarm[c] - 1 ELSE alarm[c]]
  /\ <<remaining, alarm>>' # <<remaining, alarm>>
  /\ UNCHANGED <<cooldowns, probe, queueVars, pc, key, canSwitch, weight, ctx, queuedOn,
                 woken, permit, bodyVars, envVars>>

-----------------------------------------------------------------------------
Admit(c) ==
  \/ Check(c) \/ AdmitAborted(c) \/ AdmitUntracked(c) \/ AdmitRejected(c)
  \/ AdmitGranted(c) \/ AdmitFull(c) \/ AdmitWaits(c) \/ Wake(c) \/ Leave(c)

Read(c) ==
  \/ ReadBegin(c) \/ ReadEnd(c) \/ ReadMore(c) \/ Resolve(c) \/ AcceptedEOF(c)
  \/ AbandonedEnd(c) \/ ReadRelease(c)

Close(c) == CloseBegin(c) \/ CloseEnd(c) \/ CloseRelease(c)

Next ==
  \/ \E c \in Callers :
       \/ Start(c) \/ Admit(c) \/ SendFailed(c) \/ Respond(c) \/ Observe(c)
       \/ Read(c) \/ Close(c) \/ Abandon(c) \/ Finish(c) \/ Cancel(c)
  \/ Shutdown
  \/ Tick

Spec == Init /\ [][Next]_vars

\* Goroutines are scheduled, timers fire, a send returns and a body is
\* eventually closed; clients need not cancel and deadlines need not expire.
Fairness ==
  /\ WF_vars(Tick)
  /\ \A c \in Callers :
       /\ WF_vars(Admit(c))
       /\ WF_vars(SendFailed(c) \/ Respond(c))
       /\ WF_vars(ReadEnd(c))
       /\ WF_vars(AcceptedEOF(c) \/ AbandonedEnd(c) \/ ReadMore(c) \/ Resolve(c))
       /\ WF_vars(ReadRelease(c))
       /\ WF_vars(Close(c))
       /\ WF_vars(Finish(c))

FairSpec == Spec /\ Fairness

-----------------------------------------------------------------------------
(* Properties.                                                             *)

PermitType ==
  [entry : Entries \cup {NoEntry}, bodyPending : BOOLEAN, reads : Int,
   closing : BOOLEAN, requested : BOOLEAN, released : BOOLEAN, ended : BOOLEAN]

\* Types of the controller, of the admissions and of the permits.
TypeOK ==
  /\ cooldowns \in [Keys -> Entries \cup {NoEntry}]
  /\ remaining \in [Entries -> Nat]
  /\ probe \in [Entries -> BOOLEAN]
  /\ queue \in [Entries -> Seq(Callers)]
  /\ entryBytes \in [Entries -> Int]
  /\ waiters \in Int
  /\ waitingBytes \in Int
  /\ pc \in [Callers -> {"idle", "check", "admit", "wait", "leave", "send",
                         "body", "end"}]
  /\ key \in [Callers -> Keys]
  /\ canSwitch \in [Callers -> BOOLEAN]
  /\ weight \in [Callers -> Nat]
  /\ ctx \in [Callers -> {"live", "canceled", "expired"}]
  /\ queuedOn \in [Callers -> Entries \cup {NoEntry}]
  /\ woken \in [Callers -> BOOLEAN]
  /\ alarm \in [Callers -> Nat \cup {Unarmed}]
  /\ permit \in [Callers -> PermitType]
  /\ reader \in [Callers -> {"none", "reading", "got", "ended", "closed"}]
  /\ closer \in [Callers -> {"none", "closing", "returned", "closed"}]
  /\ shutdown \in BOOLEAN
  /\ throttles \in Nat

\* A tracked deployment has at most one probing attempt, and its probe flag is
\* set exactly while somebody owns it: a flag left behind would block recovery
\* for ever, and a late cleanup that clears the flag of the next owner would
\* admit a second probe.
ProbeOwned ==
  /\ \A c, d \in Callers :
       Holding(c) /\ Holding(d) /\ key[c] = key[d] => c = d
  /\ \A e \in LiveEntries :
       probe[e] <=> \E c \in Callers : Holding(c) /\ permit[c].entry = e

QueuedCallers(e) == {c \in Callers : queuedOn[c] = e}

BytesOf(S) == FoldSet(LAMBDA c, sum : sum + weight[c], 0, S)

\* Neither the sweep of a full map nor the deletion at release orphans a
\* waiter (its entry stays the entry of its deployment and lists it), and the
\* four counters of the admission limits always equal what is really queued,
\* whether the grant or the deferred removal took a waiter out.
QueueConsistent ==
  /\ \A c \in Callers :
       queuedOn[c] # NoEntry =>
         EntryOf(c) = queuedOn[c] /\ Contains(queue[queuedOn[c]], c)
  /\ \A e \in Entries :
       /\ Len(queue[e]) = Cardinality(QueuedCallers(e))
       /\ entryBytes[e] = BytesOf(QueuedCallers(e))
       /\ Len(queue[e]) <= MaxDeploymentWaiters
       /\ entryBytes[e] <= MaxDeploymentBytes
  /\ LET all == {c \in Callers : queuedOn[c] # NoEntry}
     IN  waiters = Cardinality(all) /\ waitingBytes = BytesOf(all)
  /\ waiters <= MaxWaiters
  /\ waitingBytes <= MaxBytes

\* An attempt that showed neither output nor an accepted end keeps the probe
\* until its body is quiescent: no read in flight and the close completed.
AbandonedBodyHoldsProbe ==
  \A c \in Callers :
    (Held(c) /\ permit[c].released /\ ~permit[c].ended)
      => permit[c].reads = 0 /\ ~permit[c].bodyPending

\* Nobody overtakes a recovery queue: a caller starts sending to a deployment
\* with other waiters only as the holder of its probe, and then none of them
\* was ahead of it.
QueueNotBypassed ==
  [][\A c, d \in Callers :
       (pc[c] # "send" /\ pc'[c] = "send" /\ c # d /\ queuedOn[d] # NoEntry /\ key[d] = key[c])
         => /\ Holding(c)'
            /\ Head(queue[queuedOn[d]]) = c]_vars

\* Recovery makes progress: with finitely many throttles, every queued caller
\* leaves the queue although nobody cancels it and its wait never expires.
WaitersLeave ==
  \A c \in Callers : queuedOn[c] # NoEntry ~> queuedOn[c] = NoEntry

=============================================================================

--------------------------- MODULE PolicyRouting ---------------------------
(***************************************************************************)
(* The running half of semantic policy routing: proxy/policy_routing.go,   *)
(* chat_policy_runtime.go and policy_controller.go.                        *)
(*                                                                         *)
(* A policy profile has its requests classified by another model.  Every   *)
(* classification holds a slot of its profile and one of the process, and  *)
(* a permit of the breaker that the profiles of one classifier route       *)
(* share.  Classifications of "enforce" profiles run inside the request,   *)
(* those of "observe" profiles in a detached worker, so a result may come  *)
(* long after the breaker has opened, been probed or recovered.  Before    *)
(* any of it, a preflight classifies a fixed text once per route; several  *)
(* callers may ask for it, and it runs for one of them at a time.          *)
(***************************************************************************)
EXTENDS Naturals, FiniteSets

CONSTANTS
  Profiles,
  Routes,              \* classifier routes
  RouteOf,             \* the classifier route of a profile
  Configurations,      \* effective modes that the profiles may start with
  Calls,               \* classifications under way at once
  Attempts,            \* callers of InitializePolicyRouting, each calls once
  ProfileCapacity, GlobalCapacity,
  FailureThreshold,    \* policyBreakerFailureThreshold
  MaxGeneration,       \* bound: no new request for a breaker beyond it
  None                 \* no profile

Modes == {"off", "observe", "enforce"}

VARIABLES
  mode, ready, required,  \* of each profile
  breaker,                \* of each classifier route
  profileSlots, globalSlots, \* slots taken
  call,                   \* the classifications
  stale,                  \* history: calls granted before the breaker last
                          \* opened or closed
  shuttingDown,
  pending,                \* policyPreflightPending: the startup gate
  attempts,               \* policyPreflightAttempts
  permit,                 \* the preflight semaphore holds its token
  attempt,                \* the callers of InitializePolicyRouting
  diagnostic              \* a readiness diagnostic is set

profileVars == <<mode, ready, required>>
slotVars == <<profileSlots, globalSlots>>
gateVars == <<pending, attempts>>
preflightVars == <<gateVars, permit, attempt, diagnostic>>
callVars == <<slotVars, call>>
breakerVars == <<breaker, stale>>
vars == <<profileVars, breakerVars, callVars, shuttingDown, preflightVars>>

\* openUntil is zero, or it is ahead of the clock, or the clock has passed it.
Closed == [failures |-> 0, until |-> "zero", halfOpen |-> FALSE,
           generation |-> 0]

\* A call that is not under way, and how far one has come.
NoCall == [pc |-> "idle", profile |-> None, mode |-> "off",
           probe |-> FALSE, generation |-> 0]
Holding == {"slot", "admitted", "granted", "running", "settled"}
Permitted == {"granted", "running"}

NoAttempt == [pc |-> "idle", todo |-> {}, failures |-> FALSE,
              success |-> FALSE]

TypeOK ==
  /\ mode \in [Profiles -> Modes]
  /\ ready \in [Profiles -> BOOLEAN]
  /\ required \in [Profiles -> BOOLEAN]
  /\ breaker \in [Routes -> [failures : Nat, generation : Nat,
                             until : {"zero", "future", "past"},
                             halfOpen : BOOLEAN]]
  /\ profileSlots \in [Profiles -> Nat]
  /\ globalSlots \in Nat
  /\ call \in [Calls ->
       [pc : {"idle", "gated", "freed"} \cup Holding, mode : Modes,
        profile : Profiles \cup {None}, probe : BOOLEAN, generation : Nat]]
  /\ \A c \in Calls : (call[c].pc = "idle") = (call[c].profile = None)
  /\ stale \subseteq Calls
  /\ shuttingDown \in BOOLEAN
  /\ pending \in BOOLEAN
  /\ attempts \in Nat
  /\ permit \in BOOLEAN
  /\ attempt \in [Attempts ->
       [pc : {"idle", "waiting", "running", "failing", "returning",
              "finishing", "done"},
        todo : SUBSET Routes, failures : BOOLEAN, success : BOOLEAN]]
  /\ diagnostic \in BOOLEAN

Init ==
  /\ mode \in Configurations
  /\ \E p \in Profiles : mode[p] # "off"
  /\ ready = [p \in Profiles |-> FALSE]
  /\ required = [p \in Profiles |-> mode[p] # "off"]
  /\ breaker = [r \in Routes |-> Closed]
  /\ profileSlots = [p \in Profiles |-> 0]
  /\ globalSlots = 0
  /\ call = [c \in Calls |-> NoCall]
  /\ stale = {}
  /\ shuttingDown = FALSE
  /\ pending = TRUE
  /\ attempts = 0
  /\ permit = TRUE
  /\ attempt = [a \in Attempts |-> NoAttempt]
  /\ diagnostic = FALSE

-----------------------------------------------------------------------------
(* The breaker                                                             *)

RouteOfCall(c) == RouteOf[call[c].profile]
BreakerOf(c) == breaker[RouteOfCall(c)]
IsCurrent(c) == call[c].generation = BreakerOf(c).generation

\* The calls of route r that have a permit.
Permits(r) == {c \in Calls : call[c].pc \in Permitted /\ RouteOfCall(c) = r}
Probes(r) == {c \in Permits(r) : call[c].probe}

\* policyBreaker.tryAcquire refuses while openUntil is ahead, and while the
\* half-open probe is out.
Refused(b) == b.until = "future" \/ (b.until = "past" /\ b.halfOpen)

\* Mutant of Opened: the permits that are out keep their generation.
OpenedQuietly(b) == [failures |-> FailureThreshold, until |-> "future",
                     halfOpen |-> FALSE, generation |-> b.generation]

Opened(b) == [failures |-> FailureThreshold, until |-> "future",
              halfOpen |-> FALSE, generation |-> b.generation + 1]

\* recordSuccess
Succeeded(b, probe) ==
  [failures |-> 0, until |-> "zero", halfOpen |-> FALSE,
   generation |-> IF probe \/ b.until # "zero" THEN b.generation + 1
                                               ELSE b.generation]

\* recordFailure, with a Retry-After that it understands or without
Failed(b, probe, retryAfter) ==
  IF retryAfter \/ probe \/ b.failures + 1 >= FailureThreshold
    THEN Opened(b)
    ELSE [b EXCEPT !.halfOpen = FALSE, !.failures = @ + 1]

\* Mutant of Released: a probe that proves nothing is not given back.
ReleasedNever(b, probe) == b

\* releaseNeutral
Released(b, probe) == IF probe THEN [b EXCEPT !.halfOpen = FALSE] ELSE b

Outcomes == {"accepted", "retryAfter", "failed", "neutral"}
Settlement(b, probe, outcome) ==
  CASE outcome = "accepted" -> Succeeded(b, probe)
    [] outcome = "retryAfter" -> Failed(b, probe, TRUE)
    [] outcome = "failed" -> Failed(b, probe, FALSE)
    [] outcome = "neutral" -> Released(b, probe)

\* The permit of c is settled.  A permit of an earlier generation does nothing.
Settles(c, outcome) ==
  LET b == BreakerOf(c)
      next == IF IsCurrent(c) THEN Settlement(b, call[c].probe, outcome) ELSE b
  IN /\ breaker' = [breaker EXCEPT ![RouteOfCall(c)] = next]
     /\ stale' = (stale \ {c}) \cup
                 (IF next.until # b.until THEN Permits(RouteOfCall(c)) \ {c}
                                          ELSE {})

\* The cooldown ends.
CooldownEnds(r) ==
  /\ breaker[r].until = "future"
  /\ breaker' = [breaker EXCEPT ![r].until = "past"]
  /\ UNCHANGED <<profileVars, stale, callVars, shuttingDown, preflightVars>>

-----------------------------------------------------------------------------
(* A request and its classification                                        *)

Goes(c, pc) == call' = [call EXCEPT ![c].pc = pc]
Ends(c) == call' = [call EXCEPT ![c] = NoCall]

\* withProviderValidationGate lets the request in.
Arrive(c, p) ==
  /\ call[c].pc = "idle"
  /\ ~pending
  /\ ~shuttingDown
  /\ breaker[RouteOf[p]].generation < MaxGeneration
  /\ call' = [call EXCEPT ![c].pc = "gated", ![c].profile = p]
  /\ UNCHANGED <<profileVars, breakerVars, slotVars, shuttingDown,
                 preflightVars>>

\* Plan answers without a classification: the mode is off, the preflight of
\* the profile did not pass (503), the client has gone, the body is refused or
\* replayed, the request is not sampled, or the profile has no slot left.
PlanWithout(c) ==
  /\ call[c].pc = "gated"
  /\ Ends(c)
  /\ UNCHANGED <<profileVars, breakerVars, slotVars, shuttingDown,
                 preflightVars>>

\* Plan classifies: the profile's slot comes first.
PlanClassify(c) ==
  LET p == call[c].profile IN
  /\ call[c].pc = "gated"
  /\ mode[p] # "off"
  /\ ready[p]
  /\ profileSlots[p] < ProfileCapacity
  /\ profileSlots' = [profileSlots EXCEPT ![p] = @ + 1]
  /\ call' = [call EXCEPT ![c].pc = "slot", ![c].mode = mode[p]]
  /\ UNCHANGED <<profileVars, breakerVars, globalSlots, shuttingDown,
                 preflightVars>>

\* The process has a slot too.
AcquireGlobal(c) ==
  /\ call[c].pc = "slot"
  /\ globalSlots < GlobalCapacity
  /\ globalSlots' = globalSlots + 1
  /\ Goes(c, "admitted")
  /\ UNCHANGED <<profileVars, breakerVars, profileSlots, shuttingDown,
                 preflightVars>>

ReleaseProfile(c) ==
  profileSlots' = [profileSlots EXCEPT ![call[c].profile] = @ - 1]

\* It has none: the profile's slot goes back.
GlobalFull(c) ==
  /\ call[c].pc = "slot"
  /\ globalSlots >= GlobalCapacity
  /\ ReleaseProfile(c)
  /\ Ends(c)
  /\ UNCHANGED <<profileVars, breakerVars, globalSlots, shuttingDown,
                 preflightVars>>

\* policyBreaker.tryAcquire grants a permit, the half-open one if it is open.
AcquireBreaker(c) ==
  LET b == BreakerOf(c)
      probe == b.until = "past"
  IN /\ call[c].pc = "admitted"
     /\ ~Refused(b)
     /\ breaker' = [breaker EXCEPT ![RouteOfCall(c)].halfOpen = @ \/ probe]
     /\ call' = [call EXCEPT ![c].pc = "granted", ![c].probe = probe,
                             ![c].generation = b.generation]
     /\ UNCHANGED <<profileVars, stale, slotVars, shuttingDown, preflightVars>>

BreakerOpen(c) ==
  /\ call[c].pc = "admitted"
  /\ Refused(BreakerOf(c))
  /\ Goes(c, "settled")
  /\ UNCHANGED <<profileVars, breakerVars, slotVars, shuttingDown,
                 preflightVars>>

\* An enforced classification runs in its request; an observation needs a
\* lifecycle worker, and gives its permit back when shutdown has begun.
Launch(c) ==
  /\ call[c].pc = "granted"
  /\ call[c].mode = "observe" => ~shuttingDown
  /\ Goes(c, "running")
  /\ UNCHANGED <<profileVars, breakerVars, slotVars, shuttingDown,
                 preflightVars>>

WorkerRefused(c) ==
  /\ call[c].pc = "granted"
  /\ call[c].mode = "observe"
  /\ shuttingDown
  /\ Settles(c, "neutral")
  /\ Goes(c, "settled")
  /\ UNCHANGED <<profileVars, slotVars, shuttingDown, preflightVars>>

\* The classifier has answered, or its context has ended; the breaker is told.
Classified(c, outcome) ==
  /\ call[c].pc = "running"
  /\ Settles(c, outcome)
  /\ Goes(c, "settled")
  /\ UNCHANGED <<profileVars, slotVars, shuttingDown, preflightVars>>

\* lease.release: the process's slot, then the profile's.
ReleaseGlobal(c) ==
  /\ call[c].pc = "settled"
  /\ globalSlots' = globalSlots - 1
  /\ Goes(c, "freed")
  /\ UNCHANGED <<profileVars, breakerVars, profileSlots, shuttingDown,
                 preflightVars>>

LeaseReleased(c) ==
  /\ call[c].pc = "freed"
  /\ ReleaseProfile(c)
  /\ Ends(c)
  /\ UNCHANGED <<profileVars, breakerVars, globalSlots, shuttingDown,
                 preflightVars>>

BeginShutdown ==
  /\ ~shuttingDown
  /\ shuttingDown' = TRUE
  /\ UNCHANGED <<profileVars, breakerVars, callVars, preflightVars>>

-----------------------------------------------------------------------------
(* InitializePolicyRouting                                                 *)

AttemptGoes(a, pc) == attempt' = [attempt EXCEPT ![a].pc = pc]
Group(r) == {p \in Profiles : RouteOf[p] = r /\ mode[p] # "off"}
SetReady(r, value) ==
  ready' = [p \in Profiles |-> IF p \in Group(r) THEN value ELSE ready[p]]

\* The outcome of an Initialize that returns
Returns(a, success) ==
  attempt' = [attempt EXCEPT ![a].pc = "returning", ![a].success = success]

BeginAttempt(a) ==
  /\ attempt[a].pc = "idle"
  /\ AttemptGoes(a, "waiting")
  /\ attempts' = attempts + 1
  /\ pending' = TRUE
  /\ UNCHANGED <<profileVars, breakerVars, callVars, shuttingDown, permit,
                 diagnostic>>

\* The caller's context ends before it has the semaphore.
WaitCancelled(a) ==
  /\ attempt[a].pc = "waiting"
  /\ AttemptGoes(a, "finishing")
  /\ UNCHANGED <<profileVars, breakerVars, callVars, shuttingDown, gateVars,
                 permit, diagnostic>>

\* The semaphore is held; the routes of the profiles that are on are grouped.
AcquirePreflight(a) ==
  /\ attempt[a].pc = "waiting"
  /\ permit
  /\ permit' = FALSE
  /\ attempt' = [attempt EXCEPT ![a].pc = "running",
                                ![a].todo = {r \in Routes : Group(r) # {}}]
  /\ UNCHANGED <<profileVars, breakerVars, callVars, shuttingDown, gateVars,
                 diagnostic>>

\* A route answers.
RoutePasses(a, r) ==
  /\ attempt[a].pc = "running"
  /\ r \in attempt[a].todo
  /\ SetReady(r, TRUE)
  /\ attempt' = [attempt EXCEPT ![a].todo = @ \ {r}]
  /\ UNCHANGED <<mode, required, breakerVars, callVars, shuttingDown, gateVars,
                 permit, diagnostic>>

\* A route fails.  With an enforce profile on it the preflight fails; the
\* profiles lose their readiness before the diagnostic is there.
Enforced(r) == \E p \in Group(r) : mode[p] = "enforce"
EnforcedRouteFails(a, r) ==
  /\ attempt[a].pc = "running"
  /\ r \in attempt[a].todo
  /\ Enforced(r)
  /\ SetReady(r, FALSE)
  /\ AttemptGoes(a, "failing")
  /\ UNCHANGED <<mode, required, breakerVars, callVars, shuttingDown, gateVars,
                 permit, diagnostic>>

InitializeFails(a) ==
  /\ attempt[a].pc = "failing"
  /\ diagnostic' = TRUE
  /\ Returns(a, FALSE)
  /\ UNCHANGED <<profileVars, breakerVars, callVars, shuttingDown, gateVars,
                 permit>>

\* With observe profiles only, they are switched off and it goes on.
ObservedRouteFails(a, r) ==
  /\ attempt[a].pc = "running"
  /\ r \in attempt[a].todo
  /\ ~Enforced(r)
  /\ SetReady(r, FALSE)
  /\ mode' = [p \in Profiles |-> IF p \in Group(r) THEN "off" ELSE mode[p]]
  /\ attempt' = [attempt EXCEPT ![a].todo = @ \ {r}, ![a].failures = TRUE]
  /\ UNCHANGED <<required, breakerVars, callVars, shuttingDown, gateVars,
                 permit, diagnostic>>

\* The caller's context or the handler's lifecycle ends during a route.
RunCancelled(a) ==
  /\ attempt[a].pc = "running"
  /\ attempt[a].todo # {}
  /\ Returns(a, FALSE)
  /\ UNCHANGED <<profileVars, breakerVars, callVars, shuttingDown, gateVars,
                 permit, diagnostic>>

\* Every route is done.
Unready == {p \in Profiles : required[p] /\ ~ready[p]}
InitializeEnds(a) ==
  /\ attempt[a].pc = "running"
  /\ attempt[a].todo = {}
  /\ Returns(a, TRUE)
  /\ diagnostic' = (attempt[a].failures \/ (diagnostic /\ Unready # {}))
  /\ UNCHANGED <<profileVars, breakerVars, callVars, shuttingDown, gateVars,
                 permit>>

\* The deferred calls: the semaphore first, then finishPolicyPreflightAttempt.
ReleasePreflight(a) ==
  /\ attempt[a].pc = "returning"
  /\ permit' = TRUE
  /\ AttemptGoes(a, "finishing")
  /\ UNCHANGED <<profileVars, breakerVars, callVars, shuttingDown, gateVars,
                 diagnostic>>

\* Mutant of Opens: the attempts that are still at work are not counted.
OpensEarly(success, left) == success

Opens(success, left) == success /\ left = 0
FinishAttempt(a) ==
  /\ attempt[a].pc = "finishing"
  /\ AttemptGoes(a, "done")
  /\ attempts' = attempts - 1
  /\ pending' = (pending /\ ~Opens(attempt[a].success, attempts - 1))
  /\ UNCHANGED <<profileVars, breakerVars, callVars, shuttingDown, permit,
                 diagnostic>>

-----------------------------------------------------------------------------
Classification(c) ==
  \/ \E p \in Profiles : Arrive(c, p)
  \/ PlanWithout(c) \/ PlanClassify(c)
  \/ AcquireGlobal(c) \/ GlobalFull(c)
  \/ AcquireBreaker(c) \/ BreakerOpen(c)
  \/ Launch(c) \/ WorkerRefused(c)
  \/ \E outcome \in Outcomes : Classified(c, outcome)
  \/ ReleaseGlobal(c) \/ LeaseReleased(c)

Preflight(a) ==
  \/ BeginAttempt(a) \/ WaitCancelled(a) \/ AcquirePreflight(a)
  \/ \E r \in Routes : \/ RoutePasses(a, r)
                       \/ EnforcedRouteFails(a, r)
                       \/ ObservedRouteFails(a, r)
  \/ InitializeFails(a) \/ RunCancelled(a) \/ InitializeEnds(a)
  \/ ReleasePreflight(a) \/ FinishAttempt(a)

Next ==
  \/ \E c \in Calls : Classification(c)
  \/ \E a \in Attempts : Preflight(a)
  \/ \E r \in Routes : CooldownEnds(r)
  \/ BeginShutdown

Spec == Init /\ [][Next]_vars

-----------------------------------------------------------------------------
(* Properties                                                              *)

\* The half-open flag of a breaker is set exactly while one call holds the
\* half-open permit of its current generation: recovery is tried by one call
\* at a time, and no end of a call, late or early, refused or cancelled,
\* leaves the breaker waiting for a probe that is gone (chat_policy_runtime.go
\* releaseNeutral, recordSuccess, recordFailure).
HalfOpenOwned ==
  \A r \in Routes :
    /\ breaker[r].halfOpen <=> Probes(r) # {}
    /\ \A c, d \in Probes(r) : c = d
    /\ \A c \in Probes(r) : IsCurrent(c)

\* The result of a call that was granted its permit before the breaker last
\* opened, was reopened or closed changes nothing: a late failure cannot count
\* against a recovered route, and a late success cannot close an open breaker
\* (chat_policy_runtime.go, the generation of the permits).
LateResultsIgnored ==
  [][\A c \in stale : c \notin stale' => breaker' = breaker]_vars

\* While the gate is open and no diagnostic is shown, no profile that is on
\* lacks its preflight: an attempt that is still at work, was cancelled or has
\* failed never lets /readyz say ready for a model that answers 503
\* (policy_controller.go finishPolicyPreflightAttempt; policy_routing.go
\* Initialize, setDiagnostic).
ReadyProfilesServe ==
  ~pending /\ ~diagnostic => \A p \in Profiles : mode[p] # "off" => ready[p]
=============================================================================

--------------------------- MODULE RouteExecutor ---------------------------
(***************************************************************************)
(* One explicit-route operation of proxy/route_executor.go: which target   *)
(* is tried next, when a failed attempt may be tried again, what a failed  *)
(* operation tells its caller, and the migration of a protected            *)
(* conversation to a backup (proxy/conversation_migration.go).             *)
(*                                                                         *)
(* Attempts of an operation are serialised; what runs beside them is the   *)
(* client that may leave, the operation context and the process that may   *)
(* end, and the upstream, which decides in each send whether it runs the   *)
(* request.  runs counts that and is invisible to the code: the code sees  *)
(* the evidence only (nothing written, a certified rejection, a failure).  *)
(***************************************************************************)
EXTENDS Integers, Sequences, FiniteSets

CONSTANTS
  N,              \* number of targets of the route, in order of priority
  Azure,          \* targets of Azure providers; the others are Copilot's
  Eligible,       \* targets whose provider supports the endpoint
  Replayable,     \* targets that can replay the conversation's hosted tools
  Budgets,        \* pairs of max_target_attempts and max_upstream_sends
  MaxFollowUps    \* bound of the model: executions after the first

Targets == 1..N
None == 0

ASSUME RouteAssumption == N \in Nat \ {0} /\ {Azure, Eligible, Replayable} \subseteq SUBSET Targets
ASSUME BudgetAssumption ==
  Budgets \subseteq {b \in [targets : Targets, sends : Nat] : b.targets <= b.sends}
ASSUME FollowUpAssumption == MaxFollowUps \in Nat

VARIABLES
  \* route and request, fixed when the operation starts
  mode, budget, conversation, native, owner,
  \* routeOperation, protected by mu
  targetsLeft, sendsLeft, attempted, pinned, hardPinned, verified, commitment,
  \* conversationTurn
  dispatched, migrated, blocked,
  \* local variables of executeExplicitRouteRequestPath
  pc, kind, target, retryTarget, sameTarget, failures, permit,
  \* environment
  inbound, stopped, followUps,
  \* result and history
  verdict, runs, sent

requestVars   == <<mode, budget, conversation, native, owner>>
budgetVars    == <<targetsLeft, sendsLeft, attempted>>
ownerVars     == <<pinned, hardPinned, verified, commitment>>
turnVars      == <<dispatched, migrated, blocked>>
attemptVars   == <<target, retryTarget, sameTarget>>
envVars       == <<inbound, stopped, followUps>>
vars == <<requestVars, budgetVars, ownerVars, turnVars, pc, kind, attemptVars,
          failures, permit, envVars, verdict, runs, sent>>

Modes  == {"primary_only", "priority_failover"}
Kinds  == {"normal", "compaction", "recovery"}

-----------------------------------------------------------------------------
Init ==
  /\ mode \in Modes
  /\ budget \in Budgets
  /\ mode = "primary_only" => budget.targets = 1
  /\ owner \in Targets \cup {None}
  /\ native \in BOOLEAN
  /\ conversation \in BOOLEAN
  /\ targetsLeft = budget.targets
  /\ sendsLeft = budget.sends
  /\ attempted = {}
  /\ pinned = owner
  /\ hardPinned = (owner # None)
  /\ verified \in BOOLEAN
  /\ verified => conversation /\ hardPinned
  /\ commitment \in {"none", "protocol_frame"}
  /\ commitment = "protocol_frame" => hardPinned /\ ~conversation
  /\ dispatched = FALSE
  /\ migrated = FALSE
  /\ blocked = FALSE
  /\ pc = "select"
  /\ kind \in {"normal", "compaction"}
  /\ kind = "compaction" => ~conversation /\ ~native
  /\ target = None
  /\ retryTarget = None
  /\ sameTarget = FALSE
  /\ failures = <<>>
  /\ permit = FALSE
  /\ inbound = TRUE
  /\ stopped = "no"
  /\ followUps = 0
  /\ verdict = "none"
  /\ runs = 0
  /\ sent = <<>>

-----------------------------------------------------------------------------
(* The decisions.  "suppressed" stands for the decisions that neither      *)
(* retry nor rank a failure: mode, admission, commitment, budget, no       *)
(* target, delivery and progress.                                          *)

Stopped == stopped # "no"

AllowsSwitch == ~hardPinned /\ kind = "normal"

RetryAdmissionOpen ==
  /\ ~Stopped /\ inbound
  /\ commitment = "none"
  /\ targetsLeft > 0
  /\ sendsLeft > 0

Unattempted == Targets \ attempted

\* Mutant of Candidates: the binding is only a preference.
CandidatesUnbound ==
  {t \in Eligible \cap Unattempted : mode = "primary_only" => t = 1}

\* orderedRouteTargets; the first of them is the one with the least number.
Candidates ==
  IF pinned # None THEN {pinned} \cap Eligible
  ELSE {t \in Eligible \cap Unattempted : mode = "primary_only" => t = 1}

IsFirst(t, S) == t \in S /\ \A u \in S : t <= u

CanSwitch == mode = "priority_failover" /\ AllowsSwitch /\ RetryAdmissionOpen /\ Candidates # {}

\* Mutant of MigrationTargets: every other target may rebuild the conversation.
RevisitedTargets == {t \in Eligible \cap Replayable : t # pinned}

\* Backups that may rebuild the conversation.
MigrationTargets == {t \in Eligible \cap Replayable \cap Unattempted : t # pinned}

\* conversationMigrationTarget finds a backup.
MigrationReady ==
  /\ conversation /\ kind = "normal"
  /\ RetryAdmissionOpen
  /\ pinned # None
  /\ migrated \/ verified
  /\ mode = "priority_failover"
  /\ MigrationTargets # {}

\* A failed attempt; err is what errors.Is and the error code tell apart.
Failure(t, delivery, decision) ==
  [target |-> t, delivery |-> delivery, decision |-> decision,
   outcome |-> "none", err |-> "other", cleanup |-> TRUE, progress |-> "none"]

\* safeConversationMigrationFailure
SafeToMigrate(f) ==
  /\ f.cleanup
  /\ f.progress = "none"
  /\ \/ f.delivery = "not_delivered" /\ f.outcome = "transport"
     \/ f.delivery \in {"rejected", "not_delivered"} /\ f.outcome = "rejected"

AdmissionDecision == IF Stopped THEN "suppressed_lifecycle" ELSE "suppressed"

\* explicitRouteCredentialFailureDecision for a failure to get credentials.
\* Why it does not switch is left out: err ranks the failure.
CredentialDecision ==
  IF /\ mode = "priority_failover" /\ pinned = None /\ AllowsSwitch
     /\ RetryAdmissionOpen /\ Candidates # {}
  THEN "switch_target" ELSE "suppressed"

\* sameTargetRetryDecision
SameTargetDecision ==
  IF Stopped THEN "suppressed_lifecycle"
  ELSE IF /\ inbound /\ kind = "normal" /\ sendsLeft > 0
          /\ commitment # "none" => hardPinned
       THEN "same_target" ELSE "suppressed"

\* explicitRouteRejectionDecision; reset: an Azure 429 with a valid reset,
\* usable: it fits the deadlines and the deployment's cooldown is tracked.
RejectionDecision(reset, usable) ==
  LET stay == IF AllowsSwitch THEN "suppressed" ELSE "suppressed_state"
      recovery == reset /\ target \in Azure
  IN IF /\ mode = "priority_failover" /\ AllowsSwitch /\ RetryAdmissionOpen
        /\ recovery => Candidates # {}
     THEN "switch_target"
     ELSE IF ~recovery THEN stay
     ELSE IF MigrationReady THEN "suppressed_state"
     ELSE IF SameTargetDecision # "same_target" THEN SameTargetDecision
     ELSE IF usable THEN "same_target" ELSE stay

-----------------------------------------------------------------------------
(* Before the dispatch.                                                    *)

\* The decision goes on with another attempt or ends the loop.
Proceed(decision) ==
  pc' = IF decision \in {"switch_target", "same_target"} THEN "select" ELSE "final"

\* The execution returns and its local variables are gone.
Return(v) ==
  /\ verdict' = v
  /\ pc' = "done"
  /\ failures' = <<>>
  /\ target' = None
  /\ sameTarget' = FALSE
  /\ UNCHANGED retryTarget

\* suppressPendingRouteRetry: a retry that is not sent keeps the rejection.
Suppressed(decision) == [failures EXCEPT ![Len(failures)].decision = decision]

\* Mutant of PermitAfterUnsent: a stopped retry forgets its permit.
PermitAfterRetry == permit /\ sameTarget

\* permit.release() of every path that does not dispatch.
PermitAfterUnsent == FALSE

\* The attempt ends before its dispatch with failure f; a pending same-target
\* retry stops with decision d instead.
EndUnsent(f, d) ==
  /\ permit' = PermitAfterUnsent
  /\ IF sameTarget
     THEN failures' = Suppressed(d) /\ pc' = "final"
     ELSE failures' = Append(failures, f) /\ Proceed(f.decision)
  /\ target' = None
  /\ sameTarget' = FALSE
  /\ UNCHANGED <<requestVars, budgetVars, ownerVars, turnVars, kind, retryTarget,
                 envVars, verdict, runs, sent>>

\* orderedRouteTargets, or the target of a pending same-target retry.
NextTargets == IF retryTarget # None THEN {retryTarget} ELSE Candidates

SelectNothing ==
  /\ pc = "select"
  /\ NextTargets = {}
  /\ pc' = "final"
  /\ UNCHANGED <<requestVars, budgetVars, ownerVars, turnVars, kind, attemptVars,
                 failures, permit, envVars, verdict, runs, sent>>

\* reserveTarget: a target that was tried before costs nothing.
TargetCost(t) == IF t \in attempted THEN 0 ELSE 1

SelectTarget ==
  /\ pc = "select"
  /\ \E t \in NextTargets :
     /\ IsFirst(t, NextTargets)
     /\ t \in attempted \/ targetsLeft > 0
     /\ target' = t
     /\ attempted' = attempted \cup {t}
     /\ targetsLeft' = targetsLeft - TargetCost(t)
  /\ sameTarget' = (retryTarget # None)
  /\ retryTarget' = None
  /\ pc' = "build"
  /\ UNCHANGED <<requestVars, sendsLeft, ownerVars, turnVars, kind, failures,
                 permit, envVars, verdict, runs, sent>>

SelectExhausted ==
  /\ pc = "select"
  /\ \E t \in NextTargets : IsFirst(t, NextTargets) /\ t \notin attempted
  /\ targetsLeft = 0
  /\ failures' = Append(failures, [Failure(None, "unknown", "suppressed") EXCEPT !.cleanup = FALSE])
  /\ pc' = "final"
  /\ UNCHANGED <<requestVars, budgetVars, ownerVars, turnVars, kind, attemptVars,
                 permit, envVars, verdict, runs, sent>>

Build ==
  /\ pc = "build"
  /\ pc' = "admit"
  /\ UNCHANGED <<requestVars, budgetVars, ownerVars, turnVars, kind, attemptVars,
                 failures, permit, envVars, verdict, runs, sent>>

\* prepareRouteTargetBody or prepareTargetBody cannot rewrite the request.
PrepareFails ==
  /\ pc = "build"
  /\ EndUnsent([Failure(target, "not_delivered", "suppressed_nonretryable") EXCEPT !.cleanup = FALSE],
               "suppressed_nonretryable")

\* newProviderJSONInferenceRequest fails: no credentials, or a broken request.
RequestFails ==
  /\ pc = "build"
  /\ \E err \in {"auth", "other"} :
       EndUnsent([Failure(target, "not_delivered",
                     IF err = "auth" THEN CredentialDecision ELSE "suppressed_nonretryable")
                    EXCEPT !.err = err], "suppressed_nonretryable")

\* maybeRejectNativeResponsesRequest: the native session cannot be used.
NativeRejects ==
  /\ pc = "build"
  /\ native /\ target \notin Azure
  /\ EndUnsent([Failure(target, "not_delivered", "suppressed_nonretryable")
                  EXCEPT !.outcome = "rejected", !.err = "none"], "suppressed_nonretryable")

\* acquireCopilotInference and acquireAzureRouteInference let the attempt go;
\* permit: it holds a probe, or body accounting, of its provider.
Admit ==
  /\ pc = "admit"
  /\ permit' \in BOOLEAN
  /\ pc' = IF permit' /\ target \in Azure THEN "refresh" ELSE "claim"
  /\ UNCHANGED <<requestVars, budgetVars, ownerVars, turnVars, kind, attemptVars,
                 failures, envVars, verdict, runs, sent>>

\* A local 429 of an admission controller: a cooldown that is not waited for.
Blocked ==
  /\ pc = "admit"
  /\ LET decision ==
           IF ~AllowsSwitch THEN "suppressed_state"
           ELSE IF mode = "priority_failover" /\ RetryAdmissionOpen THEN "switch_target"
           ELSE AdmissionDecision
     IN EndUnsent([Failure(target, "not_delivered", decision)
                     EXCEPT !.outcome = "rejected", !.err = "none"], AdmissionDecision)

\* The admission fails: the caller left, a queue of waiters is full or, if
\* migrationReady, the owner does not validate.  An attempt at an Azure target
\* that could move elsewhere is blocked before it queues.
AdmissionFails ==
  /\ pc = "admit"
  /\ \E err \in {"canceled", "other"} :
       /\ err = "canceled" => Stopped \/ ~inbound
       /\ err = "other" /\ target \in Azure => ~CanSwitch \/ MigrationReady
       /\ EndUnsent([Failure(target, "not_delivered", AdmissionDecision) EXCEPT !.err = err],
                    AdmissionDecision)

\* A recovery queue can outlive the Azure identity token: refresh it.
Refresh ==
  /\ pc = "refresh"
  /\ pc' = "claim"
  /\ UNCHANGED <<requestVars, budgetVars, ownerVars, turnVars, kind, attemptVars,
                 failures, permit, envVars, verdict, runs, sent>>

RefreshFails ==
  /\ pc = "refresh"
  /\ \E err \in {"auth", "canceled"} :
       /\ err = "canceled" => Stopped \/ ~inbound
       /\ EndUnsent([Failure(target, "not_delivered",
                       IF err = "auth" /\ ~Stopped THEN CredentialDecision ELSE AdmissionDecision)
                     EXCEPT !.err = err], AdmissionDecision)

\* validateDurableRequestOwner and persistIntent.  Claiming a conversation on
\* its bootstrap target proves its ownership.
Claim ==
  /\ pc = "claim"
  /\ verified' \in {verified, verified \/ (hardPinned /\ ~migrated)}
  /\ pc' = "reserve"
  /\ UNCHANGED <<requestVars, budgetVars, pinned, hardPinned, commitment, turnVars,
                 kind, attemptVars, failures, permit, envVars, verdict, runs, sent>>

\* The owner of provider state is another identity, or the store failed.
\* This failure is recorded even if the attempt was a same-target retry.
ClaimFails ==
  /\ pc = "claim"
  /\ permit' = FALSE
  /\ failures' = Append(failures, Failure(target, "not_delivered", "suppressed_state"))
  /\ target' = None
  /\ sameTarget' = FALSE
  /\ pc' = "final"
  /\ UNCHANGED <<requestVars, budgetVars, ownerVars, turnVars, kind, retryTarget,
                 envVars, verdict, runs, sent>>

\* The marker of a pending turn cannot be made durable.
IntentFails ==
  /\ pc = "claim"
  /\ conversation
  /\ permit' = FALSE
  /\ Return("not_executed")
  /\ UNCHANGED <<requestVars, budgetVars, ownerVars, turnVars, kind, envVars, runs, sent>>

\* reserveSendAtDispatch, the linearization point of a dispatch.
SendAllowed == ~Stopped /\ inbound /\ sendsLeft > 0

\* A native session binds the operation to its target and its client with the
\* first frame; its answer is always a stream.
Dispatch ==
  /\ pc = "reserve"
  /\ SendAllowed
  /\ sendsLeft' = sendsLeft - 1
  /\ sent' = Append(sent, target)
  /\ dispatched' = conversation
  /\ IF native /\ target \notin Azure
     THEN \/ /\ pinned' = IF pinned = None THEN target ELSE pinned
             /\ commitment' = "protocol_frame"
             /\ pc' = "peek"
          \/ /\ UNCHANGED <<pinned, commitment>>      \* the dial failed
             /\ pc' = "flight"
     ELSE /\ UNCHANGED <<pinned, commitment>>
          /\ pc' = "flight"
  /\ UNCHANGED <<requestVars, targetsLeft, attempted, hardPinned, verified, migrated,
                 blocked, kind, attemptVars, failures, permit, envVars, verdict, runs>>

ReserveFails ==
  /\ pc = "reserve"
  /\ ~SendAllowed
  /\ LET decision == AdmissionDecision
     IN EndUnsent([Failure(target, "not_delivered", decision) EXCEPT !.cleanup = FALSE], decision)

-----------------------------------------------------------------------------
(* After the dispatch: what the upstream did and what the code sees of it. *)

\* The upstream ran the request or not; without evidence both are possible.
Ran(may) == runs' \in IF may THEN {runs, runs + 1} ELSE {runs}

\* The attempt ends with failure f and its permit is given back.
EndSent(f) ==
  /\ permit' = FALSE
  /\ failures' = Append(failures, f)
  /\ Proceed(f.decision)
  /\ retryTarget' = IF f.decision = "same_target" THEN target ELSE None
  /\ target' = None
  /\ sameTarget' = FALSE
  /\ UNCHANGED <<requestVars, budgetVars, ownerVars, turnVars, kind, envVars, verdict, sent>>

\* Mutant of Delivery: a request is called unsent unless it was written whole.
DeliveryOfWhole(headers, whole) == IF whole THEN "ambiguous" ELSE "not_delivered"

\* deliveryForError: headers or the whole request were written.
Delivery(headers, whole) == IF headers \/ whole THEN "ambiguous" ELSE "not_delivered"

\* The send returns an error.
SendFails ==
  /\ pc = "flight"
  /\ \E headers, whole, canceled \in BOOLEAN :
       LET delivery == Delivery(headers, whole) IN
       /\ whole => headers
       /\ canceled => Stopped
       /\ Ran(headers)
       /\ EndSent([Failure(target, delivery,
                     IF /\ delivery = "not_delivered" /\ AllowsSwitch /\ RetryAdmissionOpen
                        /\ mode = "priority_failover"
                     THEN "switch_target" ELSE "suppressed")
                   EXCEPT !.outcome = IF canceled THEN "canceled" ELSE "transport",
                          !.err = IF canceled THEN "canceled" ELSE "other"])

\* A status that may be a rejection: the body is captured in bounded time.
\* Only a captured body of the provider's refusal certifies it.
Rejected ==
  /\ pc = "flight"
  /\ \E reset, usable \in BOOLEAN :
       EndSent([Failure(target, "rejected", RejectionDecision(reset, usable))
                  EXCEPT !.outcome = "rejected", !.err = "none"])
  /\ UNCHANGED runs

CaptureStalls ==
  /\ pc = "flight"
  /\ Ran(TRUE)
  /\ EndSent([Failure(target, "ambiguous", "suppressed_lifecycle")
                EXCEPT !.outcome = "failed", !.cleanup = FALSE, !.progress = "unknown"])

\* An accepted 2xx carries state that cannot be bound to the target.
BindFails ==
  /\ pc \in {"flight", "peek"}
  /\ pc = "peek" => inbound
  /\ Ran(TRUE)
  /\ \E cleanup \in BOOLEAN :
       EndSent([Failure(target, "ambiguous", "suppressed_state")
                  EXCEPT !.outcome = "failed", !.cleanup = cleanup])

\* A 200 stream: its first events are held back until they decide.
StreamStarts ==
  /\ pc = "flight"
  /\ pc' = "peek"
  /\ UNCHANGED <<requestVars, budgetVars, ownerVars, turnVars, kind, attemptVars,
                 failures, permit, envVars, verdict, runs, sent>>

\* The held-back stream ends with the client, the context or a read error.
PeekFails ==
  /\ pc = "peek"
  /\ Ran(TRUE)
  /\ \E cleanup \in BOOLEAN, err \in {"canceled", "other"} :
       /\ err = "canceled" => Stopped \/ ~inbound
       /\ EndSent([Failure(target, "ambiguous",
                     IF ~cleanup \/ (err = "canceled" /\ inbound)
                     THEN "suppressed_lifecycle" ELSE "suppressed")
                   EXCEPT !.outcome = IF err = "canceled" THEN "canceled" ELSE "failed",
                          !.err = err, !.cleanup = cleanup, !.progress = "unknown"])

\* A failure event is a refusal: certified, and the reader is gone.
CertifiedSafe(certified, clean) == certified /\ clean

\* The stream's first decisive event is a failure without output.
StreamRejected ==
  /\ pc = "peek"
  /\ inbound
  /\ \E certified, clean, reset, usable \in BOOLEAN :
       /\ CertifiedSafe(certified, clean)
       /\ Ran(~certified)
       /\ EndSent([Failure(target, "rejected", RejectionDecision(reset, usable))
                     EXCEPT !.outcome = "rejected"])

StreamFails ==
  /\ pc = "peek"
  /\ inbound
  /\ \E certified, clean \in BOOLEAN :
       /\ ~CertifiedSafe(certified, clean)
       /\ Ran(~certified)
       /\ EndSent([Failure(target, "ambiguous",
                     IF clean THEN "suppressed" ELSE "suppressed_lifecycle")
                   EXCEPT !.outcome = "failed", !.cleanup = clean,
                          !.progress = IF certified THEN "unknown" ELSE "terminal_failure"])

\* The response is the caller's: its body now owns the permit.
Accept ==
  /\ \/ pc = "flight"
     \/ pc = "peek" /\ inbound
  /\ Ran(TRUE)
  /\ pinned' = IF pinned = None THEN target ELSE pinned
  /\ Return("accepted")
  /\ UNCHANGED <<requestVars, budgetVars, hardPinned, verified, commitment, turnVars,
                 kind, permit, envVars, sent>>

\* A protected conversation never hands out an answer without a known outcome.
AcceptUncertain ==
  /\ pc = "flight"
  /\ conversation
  /\ Ran(TRUE)
  /\ pinned' = IF pinned = None THEN target ELSE pinned
  /\ blocked' = TRUE
  /\ permit' = FALSE
  /\ Return("uncertain")
  /\ UNCHANGED <<requestVars, budgetVars, hardPinned, verified, commitment, dispatched,
                 migrated, kind, envVars, sent>>

-----------------------------------------------------------------------------
(* The end of an execution.                                                *)

Precedence(f) ==
  CASE f.delivery = "ambiguous" -> 4
    [] f.delivery # "ambiguous" /\
       (f.err \in {"auth", "canceled"} \/
        f.decision \in {"suppressed_nonretryable", "suppressed_state", "suppressed_lifecycle"}) -> 3
    [] OTHER -> IF f.delivery = "rejected" THEN 2 ELSE 1

\* The failures of the highest precedence.
Strongest ==
  {i \in DOMAIN failures : \A j \in DOMAIN failures :
     Precedence(failures[j]) <= Precedence(failures[i])}

\* selectFinalRouteFailure: the first of the strongest failures, or the last
\* one of them with the same target.
IsFinal(i) ==
  \E first \in Strongest :
    LET same == {j \in Strongest : \/ j = first
                                   \/ /\ failures[j].target = failures[first].target
                                      /\ failures[j].target # None}
    IN /\ IsFirst(first, Strongest)
       /\ i \in same /\ \A j \in same : j <= i

NoTargetFailure == [Failure(None, "unknown", "suppressed") EXCEPT !.cleanup = FALSE]

\* The failure that ends the operation; a set of one.
FinalFailures ==
  IF failures = <<>> THEN {NoTargetFailure}
  ELSE {failures[i] : i \in {j \in DOMAIN failures : IsFinal(j)}}

ClientEnded == ~inbound /\ stopped # "shutdown"

\* tryConversationMigration with a safe failure: rebuild on the first backup.
Migrate ==
  /\ pc = "final"
  /\ \E f \in FinalFailures : SafeToMigrate(f)
  /\ MigrationReady
  /\ \E t \in MigrationTargets : IsFirst(t, MigrationTargets) /\ pinned' = t
  /\ hardPinned' = TRUE
  /\ verified' = FALSE
  /\ migrated' = TRUE
  /\ failures' = <<>>
  /\ pc' = "select"
  /\ UNCHANGED <<requestVars, budgetVars, commitment, dispatched, blocked, kind,
                 attemptVars, permit, envVars, verdict, runs, sent>>

\* The saved history cannot be rebuilt.
RebuildFails ==
  /\ pc = "final"
  /\ \E f \in FinalFailures : SafeToMigrate(f)
  /\ MigrationReady
  /\ Return("not_executed")
  /\ UNCHANGED <<requestVars, budgetVars, ownerVars, turnVars, kind, permit, envVars, runs, sent>>

\* The outcome of a dispatched turn is unknown: block its continuation.
Uncertain(f) ==
  /\ conversation /\ dispatched
  /\ ~SafeToMigrate(f)
  /\ ~(f.progress = "terminal_failure" /\ f.cleanup)
  /\ ~(ClientEnded /\ f.err = "canceled")
  /\ f.delivery = "ambiguous"

BlockTurn ==
  /\ pc = "final"
  /\ \E f \in FinalFailures : Uncertain(f)
  /\ blocked' = TRUE
  /\ Return("uncertain")
  /\ UNCHANGED <<requestVars, budgetVars, ownerVars, dispatched, migrated, kind,
                 permit, envVars, runs, sent>>

\* The caller gets the failure.  A storage error is never an uncertain turn.
Reply ==
  /\ pc = "final"
  /\ \E f \in FinalFailures :
       /\ ~(SafeToMigrate(f) /\ MigrationReady)
       /\ Uncertain(f) => f.decision = "suppressed_state"
       /\ Return(IF f.delivery = "ambiguous" THEN "uncertain" ELSE "not_executed")
  /\ UNCHANGED <<requestVars, budgetVars, ownerVars, turnVars, kind, permit, envVars, runs, sent>>

\* The handler executes again with the same operation: protocol recovery after
\* an answer, the next compaction call after an answer, or, for a compaction
\* whose pre-split failed, the unsplit compaction after that failure.
FollowUp ==
  /\ pc = "done"
  /\ followUps < MaxFollowUps
  /\ ~conversation
  /\ kind' \in {"compaction", "recovery"}
  /\ verdict = "accepted" \/ (kind = "compaction" /\ kind' = "compaction")
  /\ followUps' = followUps + 1
  /\ pc' = "select"
  /\ permit' = FALSE                 \* the previous body was closed
  /\ verdict' = "none"
  /\ runs' = 0
  /\ UNCHANGED <<requestVars, budgetVars, ownerVars, turnVars, attemptVars, failures,
                 inbound, stopped, sent>>

-----------------------------------------------------------------------------
(* The environment.                                                        *)

ClientLeaves ==
  /\ inbound /\ pc # "done"
  /\ inbound' = FALSE
  /\ UNCHANGED <<requestVars, budgetVars, ownerVars, turnVars, pc, kind, attemptVars,
                 failures, permit, stopped, followUps, verdict, runs, sent>>

\* The deadline of the operation passes, or the process shuts down.
ContextEnds ==
  /\ pc # "done"
  /\ \/ stopped = "no" /\ stopped' \in {"deadline", "shutdown"}
     \/ stopped = "deadline" /\ stopped' = "shutdown"
  /\ UNCHANGED <<requestVars, budgetVars, ownerVars, turnVars, pc, kind, attemptVars,
                 failures, permit, inbound, followUps, verdict, runs, sent>>

Execute ==
  \/ SelectNothing \/ SelectTarget \/ SelectExhausted
  \/ Build \/ PrepareFails \/ RequestFails \/ NativeRejects
  \/ Admit \/ Blocked \/ AdmissionFails \/ Refresh \/ RefreshFails
  \/ Claim \/ ClaimFails \/ IntentFails \/ Dispatch \/ ReserveFails
  \/ SendFails \/ Rejected \/ CaptureStalls \/ BindFails \/ StreamStarts
  \/ PeekFails \/ StreamRejected \/ StreamFails \/ Accept \/ AcceptUncertain
  \/ Migrate \/ RebuildFails \/ BlockTurn \/ Reply

\* The operation may end here.
Returned == pc = "done" /\ UNCHANGED vars

Next == Execute \/ FollowUp \/ ClientLeaves \/ ContextEnds \/ Returned

Spec == Init /\ [][Next]_vars

\* Weak fairness of Execute, which is enabled until the execution returns and
\* moves pc with every step.  Every wait of an execution ends: admissions and
\* sends carry the operation's deadline, bodies are captured and drained in
\* bounded time.
FairSpec == Spec /\ ([]<>(pc = "done") \/ []<><<pc' # pc>>_pc)
-----------------------------------------------------------------------------
(* Properties.                                                             *)

Deliveries == {"unknown", "not_delivered", "rejected", "ambiguous"}
Decisions  == {"switch_target", "same_target", "suppressed", "suppressed_state",
               "suppressed_lifecycle", "suppressed_nonretryable"}
Outcomes   == {"none", "rejected", "transport", "canceled", "failed"}
Errors     == {"none", "auth", "canceled", "other"}
Progress   == {"none", "unknown", "terminal_failure"}

FailureType ==
  [target : Targets \cup {None}, delivery : Deliveries, decision : Decisions,
   outcome : Outcomes, err : Errors, cleanup : BOOLEAN, progress : Progress]

\* Every variable keeps its type through retries, migrations and follow-ups.
TypeOK ==
  /\ mode \in Modes /\ budget \in Budgets
  /\ conversation \in BOOLEAN /\ native \in BOOLEAN /\ owner \in Targets \cup {None}
  /\ targetsLeft \in Nat /\ sendsLeft \in Nat /\ attempted \subseteq Targets
  /\ pinned \in Targets \cup {None} /\ hardPinned \in BOOLEAN /\ verified \in BOOLEAN
  /\ commitment \in {"none", "protocol_frame"}
  /\ dispatched \in BOOLEAN /\ migrated \in BOOLEAN /\ blocked \in BOOLEAN
  /\ pc \in {"select", "build", "admit", "refresh", "claim", "reserve", "flight",
             "peek", "final", "done"}
  /\ kind \in Kinds /\ target \in Targets \cup {None}
  /\ retryTarget \in Targets \cup {None} /\ sameTarget \in BOOLEAN
  /\ failures \in Seq(FailureType) /\ permit \in BOOLEAN
  /\ inbound \in BOOLEAN /\ stopped \in {"no", "deadline", "shutdown"}
  /\ followUps \in 0..MaxFollowUps
  /\ verdict \in {"none", "accepted", "uncertain", "not_executed"}
  /\ runs \in Nat /\ sent \in Seq(Targets)

\* An operation never makes more sends, and never tries more targets, than its
\* route allows, whatever retries, migrations and follow-ups it goes through:
\* what is left and what was used add up (reserveTarget, reserveSendAtDispatch).
BudgetsHold ==
  /\ sendsLeft + Len(sent) = budget.sends
  /\ targetsLeft + Cardinality(attempted) = budget.targets
  /\ \A i \in DOMAIN sent : sent[i] \in attempted

\* Provider state is sent to the target that owns it: unless its conversation
\* was migrated, an operation bound to an owner reaches no other target, and
\* an unbound primary_only operation none but the first.
OwnerKept ==
  /\ owner # None /\ ~migrated => \A i \in DOMAIN sent : sent[i] = owner
  /\ owner = None /\ mode = "primary_only" => \A i \in DOMAIN sent : sent[i] = 1

\* The binding of an operation to a target is final.  Only a migration moves
\* it: of a conversation, while no upstream ran the request, to a target that
\* never got it (tryConversationMigration after pinTarget, forcePinnedTarget).
BindingMovesSafely ==
  [][pinned # None /\ pinned' # pinned =>
       /\ conversation /\ ~blocked /\ runs = 0
       /\ pinned' # None /\ \A i \in DOMAIN sent : sent[i] # pinned']_vars

\* No path through the executor keeps the admission permit of an attempt it
\* gave up; only an accepted response takes it along (release before every
\* continue, break and return).
PermitsSettled ==
  /\ pc \in {"select", "build", "admit", "final"} => ~permit
  /\ pc = "done" /\ permit => verdict = "accepted"

\* The executor implements the promise of ReplaySafety.
Replay == INSTANCE ReplaySafety WITH open <- (pc # "done")

ImplementsReplaySafety == Replay!Spec

\* Every execution ends: retries, switches and migrations run out.
ExecutionEnds == pc # "done" ~> pc = "done"

\* docs/responses.md:32: compaction child calls stay pinned to the selected
\* target.  (They do not if the first of them fails before it is accepted.)
CompactionStaysOnTarget ==
  [][kind = "compaction" /\ kind' = "compaction" /\ Len(sent') > Len(sent) /\ sent # <<>> =>
       sent'[Len(sent')] = sent[Len(sent)]]_vars
=============================================================================

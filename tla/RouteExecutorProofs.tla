------------------------ MODULE RouteExecutorProofs ------------------------
(***************************************************************************)
(* Theorems of RouteExecutor, for every number of targets, every budget    *)
(* and every number of follow-ups: the budgets add up, no permit is kept,  *)
(* provider state reaches only its owner, a binding moves safely, the      *)
(* executor implements ReplaySafety, and every execution runs out of       *)
(* steps.                                                                  *)
(*                                                                         *)
(* Two lemmas first give the shape of the many ways an attempt ends before *)
(* and after its dispatch; each invariant then has one case per shape.     *)
(***************************************************************************)
EXTENDS RouteExecutor, FiniteSetTheorems, SequenceTheorems, TLAPS

Continuing == {"switch_target", "same_target"}

Unsent == {"build", "admit", "refresh", "claim", "reserve"}
Attempting == Unsent \cup {"flight", "peek"}

\* The conditions under which a failure may switch to another target.
MaySwitch == AllowsSwitch /\ RetryAdmissionOpen

\* What a failure before the dispatch may decide: no retry on the same target.
UnsentDecision(d) == d \in Continuing => d = "switch_target" /\ MaySwitch

\* An attempt ends before its dispatch.
UnsentEnd ==
  /\ pc \in Unsent
  /\ \E f \in FailureType, d \in Decisions : EndUnsent(f, d) /\ UnsentDecision(f.decision)

\* An attempt ends after its dispatch.  If the upstream ran the request, the
\* failure is ambiguous and there is no further attempt.
SentEnd ==
  /\ pc \in {"flight", "peek"}
  /\ \E f \in FailureType :
       /\ EndSent(f)
       /\ f.decision = "switch_target" => MaySwitch
       /\ runs' \in {runs, runs + 1}
       /\ runs' # runs => f.delivery = "ambiguous" /\ f.decision \notin Continuing

\* The decisions of a rejection, by definition: what the proofs need of them.
LEMMA DecisionTypes ==
  /\ AdmissionDecision \in Decisions
  /\ CredentialDecision \in Decisions
  /\ SameTargetDecision \in Decisions
  /\ \A reset, usable \in BOOLEAN : RejectionDecision(reset, usable) \in Decisions
<1>1. AdmissionDecision \in Decisions
  BY DEF AdmissionDecision, Decisions
<1>2. CredentialDecision \in Decisions
  BY DEF CredentialDecision, Decisions
<1>3. SameTargetDecision \in Decisions
  BY DEF SameTargetDecision, Decisions
<1>4. ASSUME NEW reset \in BOOLEAN, NEW usable \in BOOLEAN
      PROVE  RejectionDecision(reset, usable) \in Decisions
  BY <1>3 DEF RejectionDecision, Decisions
<1>5. QED
  BY <1>1, <1>2, <1>3, <1>4

\* Only an open operation that is not bound to its target switches.
LEMMA SwitchDecisions ==
  /\ AdmissionDecision \notin Continuing
  /\ UnsentDecision(CredentialDecision)
  /\ SameTargetDecision # "switch_target"
  /\ \A reset, usable \in BOOLEAN :
       RejectionDecision(reset, usable) = "switch_target" => MaySwitch
<1>1. AdmissionDecision \notin Continuing
  BY DEF AdmissionDecision, Continuing
<1>2. UnsentDecision(CredentialDecision)
  BY DEF CredentialDecision, UnsentDecision, MaySwitch, Continuing
<1>3. SameTargetDecision # "switch_target"
  BY DEF SameTargetDecision
<1>4. ASSUME NEW reset \in BOOLEAN, NEW usable \in BOOLEAN,
             RejectionDecision(reset, usable) = "switch_target"
      PROVE  MaySwitch
  BY <1>3, <1>4 DEF RejectionDecision, MaySwitch
<1>5. QED
  BY <1>1, <1>2, <1>3, <1>4

LEMMA UnsentShape ==
  ASSUME TypeOK,
         PrepareFails \/ RequestFails \/ NativeRejects \/ Blocked \/ AdmissionFails
           \/ RefreshFails \/ ReserveFails
  PROVE  UnsentEnd
<1> USE DecisionTypes
<1>0. target \in Targets \cup {None}
  BY DEF TypeOK
<1>1. CASE PrepareFails
  <2> DEFINE f == [Failure(target, "not_delivered", "suppressed_nonretryable")
                     EXCEPT !.cleanup = FALSE]
  <2>1. f \in FailureType /\ UnsentDecision(f.decision)
    BY <1>0, ZenonT(60)
    DEF Failure, FailureType, Deliveries, Decisions, Outcomes, Errors, Progress,
        UnsentDecision, Continuing
  <2>2. pc = "build" /\ EndUnsent(f, "suppressed_nonretryable")
    BY <1>1 DEF PrepareFails
  <2> HIDE DEF f
  <2>3. QED
    BY <2>1, <2>2 DEF UnsentEnd, Unsent, Decisions
<1>2. CASE RequestFails
  <2> DEFINE decision(err) ==
        IF err = "auth" THEN CredentialDecision ELSE "suppressed_nonretryable"
  <2>1. PICK err \in {"auth", "other"} :
          EndUnsent([Failure(target, "not_delivered", decision(err)) EXCEPT !.err = err],
                    "suppressed_nonretryable")
    BY <1>2 DEF RequestFails
  <2>2. decision(err) \in Decisions /\ UnsentDecision(decision(err))
    BY SwitchDecisions DEF Decisions, UnsentDecision, Continuing
  <2> HIDE DEF decision
  <2> DEFINE f == [Failure(target, "not_delivered", decision(err)) EXCEPT !.err = err]
  <2>3. f \in FailureType /\ f.decision = decision(err)
    BY <1>0, <2>2 DEF Failure, FailureType, Deliveries, Outcomes, Errors, Progress
  <2>4. pc = "build" /\ EndUnsent(f, "suppressed_nonretryable")
    BY <1>2, <2>1 DEF RequestFails
  <2> HIDE DEF f
  <2>5. QED
    BY <2>2, <2>3, <2>4 DEF UnsentEnd, Unsent, Decisions
<1>3. CASE NativeRejects
  <2> DEFINE f == [Failure(target, "not_delivered", "suppressed_nonretryable")
                     EXCEPT !.outcome = "rejected", !.err = "none"]
  <2>1. f \in FailureType /\ UnsentDecision(f.decision)
    BY <1>0, ZenonT(60)
    DEF Failure, FailureType, Deliveries, Decisions, Outcomes, Errors, Progress,
        UnsentDecision, Continuing
  <2>2. pc = "build" /\ EndUnsent(f, "suppressed_nonretryable")
    BY <1>3 DEF NativeRejects
  <2> HIDE DEF f
  <2>3. QED
    BY <2>1, <2>2 DEF UnsentEnd, Unsent, Decisions
<1>4. CASE Blocked
  <2> DEFINE decision ==
        IF ~AllowsSwitch THEN "suppressed_state"
        ELSE IF mode = "priority_failover" /\ RetryAdmissionOpen THEN "switch_target"
        ELSE AdmissionDecision
             f == [Failure(target, "not_delivered", decision)
                     EXCEPT !.outcome = "rejected", !.err = "none"]
  <2>1. decision \in Decisions /\ UnsentDecision(decision)
    BY SwitchDecisions DEF Decisions, UnsentDecision, Continuing, MaySwitch
  <2>2. pc = "admit" /\ EndUnsent(f, AdmissionDecision)
    BY <1>4 DEF Blocked
  <2> HIDE DEF decision
  <2>3. f \in FailureType /\ f.decision = decision
    BY <1>0, <2>1 DEF Failure, FailureType, Deliveries, Outcomes, Errors, Progress
  <2> HIDE DEF f
  <2>4. QED
    BY <2>1, <2>2, <2>3 DEF UnsentEnd, Unsent
<1>5. CASE AdmissionFails
  <2>1. PICK err \in {"canceled", "other"} :
          EndUnsent([Failure(target, "not_delivered", AdmissionDecision) EXCEPT !.err = err],
                    AdmissionDecision)
    BY <1>5 DEF AdmissionFails
  <2> DEFINE f == [Failure(target, "not_delivered", AdmissionDecision) EXCEPT !.err = err]
  <2>2. f \in FailureType /\ f.decision = AdmissionDecision
    BY <1>0 DEF Failure, FailureType, Deliveries, Outcomes, Errors, Progress
  <2>3. pc = "admit" /\ EndUnsent(f, AdmissionDecision)
    BY <1>5, <2>1 DEF AdmissionFails
  <2> HIDE DEF f
  <2>4. QED
    BY <2>2, <2>3, SwitchDecisions DEF UnsentEnd, Unsent, UnsentDecision
<1>6. CASE RefreshFails
  <2> DEFINE decision(err) ==
        IF err = "auth" /\ ~Stopped THEN CredentialDecision ELSE AdmissionDecision
  <2>1. PICK err \in {"auth", "canceled"} :
          EndUnsent([Failure(target, "not_delivered", decision(err)) EXCEPT !.err = err],
                    AdmissionDecision)
    BY <1>6 DEF RefreshFails
  <2>2. decision(err) \in Decisions /\ UnsentDecision(decision(err))
    BY SwitchDecisions DEF UnsentDecision
  <2> HIDE DEF decision
  <2> DEFINE f == [Failure(target, "not_delivered", decision(err)) EXCEPT !.err = err]
  <2>3. f \in FailureType /\ f.decision = decision(err)
    BY <1>0, <2>2 DEF Failure, FailureType, Deliveries, Outcomes, Errors, Progress
  <2>4. pc = "refresh" /\ EndUnsent(f, AdmissionDecision)
    BY <1>6, <2>1 DEF RefreshFails
  <2> HIDE DEF f
  <2>5. QED
    BY <2>2, <2>3, <2>4 DEF UnsentEnd, Unsent
<1>7. CASE ReserveFails
  <2> DEFINE f == [Failure(target, "not_delivered", AdmissionDecision) EXCEPT !.cleanup = FALSE]
  <2>1. f \in FailureType /\ f.decision = AdmissionDecision
    BY <1>0 DEF Failure, FailureType, Deliveries, Outcomes, Errors, Progress
  <2>2. pc = "reserve" /\ EndUnsent(f, AdmissionDecision)
    BY <1>7 DEF ReserveFails
  <2> HIDE DEF f
  <2>3. QED
    BY <2>1, <2>2, SwitchDecisions DEF UnsentEnd, Unsent, UnsentDecision
<1>8. QED
  BY <1>1, <1>2, <1>3, <1>4, <1>5, <1>6, <1>7

LEMMA SentShape ==
  ASSUME TypeOK,
         SendFails \/ Rejected \/ CaptureStalls \/ BindFails \/ PeekFails
           \/ StreamRejected \/ StreamFails
  PROVE  SentEnd
<1>0. target \in Targets \cup {None} /\ runs \in Nat
  BY DEF TypeOK
<1>1. CASE SendFails
  <2> DEFINE decision(headers, whole) ==
        IF /\ Delivery(headers, whole) = "not_delivered" /\ AllowsSwitch /\ RetryAdmissionOpen
           /\ mode = "priority_failover"
        THEN "switch_target" ELSE "suppressed"
  <2>1. PICK headers \in BOOLEAN, whole \in BOOLEAN, canceled \in BOOLEAN :
          LET delivery == Delivery(headers, whole) IN
          /\ whole => headers
          /\ canceled => Stopped
          /\ Ran(headers)
          /\ EndSent([Failure(target, delivery,
                        IF /\ delivery = "not_delivered" /\ AllowsSwitch /\ RetryAdmissionOpen
                           /\ mode = "priority_failover"
                        THEN "switch_target" ELSE "suppressed")
                      EXCEPT !.outcome = IF canceled THEN "canceled" ELSE "transport",
                             !.err = IF canceled THEN "canceled" ELSE "other"])
    BY <1>1, ZenonT(60) DEF SendFails
  <2>2. /\ Delivery(headers, whole) \in Deliveries
        /\ decision(headers, whole) \in Decisions
        /\ headers => Delivery(headers, whole) = "ambiguous"
        /\ headers => decision(headers, whole) = "suppressed"
        /\ decision(headers, whole) = "switch_target" => MaySwitch
    BY DEF Delivery, Deliveries, Decisions, MaySwitch
  <2> DEFINE f == [Failure(target, Delivery(headers, whole), decision(headers, whole))
               EXCEPT !.outcome = IF canceled THEN "canceled" ELSE "transport",
                      !.err = IF canceled THEN "canceled" ELSE "other"]
  <2>3. EndSent(f)
    BY <2>1, ZenonT(60)
  <2> HIDE DEF decision
  <2>4. f \in FailureType /\ f.delivery = Delivery(headers, whole)
                          /\ f.decision = decision(headers, whole)
    BY <1>0, <2>2 DEF Failure, FailureType, Outcomes, Errors, Progress
  <2> HIDE DEF f
  <2>5. runs' \in {runs, runs + 1} /\ (runs' # runs => headers)
    BY <1>0, <2>1 DEF Ran
  <2>6. pc \in {"flight", "peek"}
    BY <1>1 DEF SendFails
  <2>7. runs' # runs => f.delivery = "ambiguous" /\ f.decision \notin Continuing
    BY <2>2, <2>4, <2>5 DEF Continuing
  <2>8. QED
    BY <2>2, <2>3, <2>4, <2>5, <2>6, <2>7 DEF SentEnd
<1>2. CASE Rejected
  <2>1. PICK reset \in BOOLEAN, usable \in BOOLEAN :
          EndSent([Failure(target, "rejected", RejectionDecision(reset, usable))
                     EXCEPT !.outcome = "rejected", !.err = "none"])
    BY <1>2 DEF Rejected
  <2> DEFINE decision == RejectionDecision(reset, usable)
             f == [Failure(target, "rejected", decision)
                     EXCEPT !.outcome = "rejected", !.err = "none"]
  <2>2. decision \in Decisions /\ (decision = "switch_target" => MaySwitch)
    BY DecisionTypes, SwitchDecisions
  <2>3. EndSent(f) /\ runs' = runs /\ pc = "flight"
    BY <1>2, <2>1 DEF Rejected
  <2> HIDE DEF decision
  <2>4. f \in FailureType /\ f.decision = decision
    BY <1>0, <2>2 DEF Failure, FailureType, Deliveries, Outcomes, Errors, Progress
  <2> HIDE DEF f
  <2>5. QED
    BY <2>2, <2>3, <2>4 DEF SentEnd
<1>3. CASE CaptureStalls
  <2> DEFINE f == [Failure(target, "ambiguous", "suppressed_lifecycle")
                     EXCEPT !.outcome = "failed", !.cleanup = FALSE, !.progress = "unknown"]
  <2>1. /\ f \in FailureType
        /\ f.delivery = "ambiguous" /\ f.decision \notin Continuing
    BY <1>0 DEF Failure, FailureType, Deliveries, Decisions, Outcomes, Errors, Progress, Continuing
  <2>2. EndSent(f) /\ runs' \in {runs, runs + 1} /\ pc = "flight"
    BY <1>3 DEF CaptureStalls, Ran
  <2> HIDE DEF f
  <2>3. QED
    BY <2>1, <2>2 DEF SentEnd, Continuing
<1>4. CASE BindFails
  <2> DEFINE f(cleanup) == [Failure(target, "ambiguous", "suppressed_state")
                              EXCEPT !.outcome = "failed", !.cleanup = cleanup]
  <2>1. ASSUME NEW cleanup \in BOOLEAN
        PROVE  /\ f(cleanup) \in FailureType
               /\ f(cleanup).delivery = "ambiguous" /\ f(cleanup).decision \notin Continuing
    BY <1>0 DEF Failure, FailureType, Deliveries, Decisions, Outcomes, Errors, Progress, Continuing
  <2>2. /\ \E cleanup \in BOOLEAN : EndSent(f(cleanup))
        /\ runs' \in {runs, runs + 1} /\ pc \in {"flight", "peek"}
    BY <1>4 DEF BindFails, Ran
  <2> HIDE DEF f
  <2>3. QED
    BY <2>1, <2>2 DEF SentEnd, Continuing
<1>5. CASE PeekFails
  <2> DEFINE f(cleanup, err) ==
        [Failure(target, "ambiguous",
           IF ~cleanup \/ (err = "canceled" /\ inbound) THEN "suppressed_lifecycle" ELSE "suppressed")
         EXCEPT !.outcome = IF err = "canceled" THEN "canceled" ELSE "failed",
                !.err = err, !.cleanup = cleanup, !.progress = "unknown"]
  <2>1. ASSUME NEW cleanup \in BOOLEAN, NEW err \in {"canceled", "other"}
        PROVE  /\ f(cleanup, err) \in FailureType
               /\ f(cleanup, err).delivery = "ambiguous"
               /\ f(cleanup, err).decision \notin Continuing
    BY <1>0, ZenonT(60)
    DEF Failure, FailureType, Deliveries, Decisions, Outcomes, Errors, Progress, Continuing
  <2>2. /\ \E cleanup \in BOOLEAN, err \in {"canceled", "other"} : EndSent(f(cleanup, err))
        /\ runs' \in {runs, runs + 1} /\ pc \in {"flight", "peek"}
    BY <1>5, ZenonT(60) DEF PeekFails, Ran
  <2> HIDE DEF f
  <2>3. QED
    BY <2>1, <2>2 DEF SentEnd, Continuing
<1>6. CASE StreamRejected
  <2>1. PICK certified \in BOOLEAN, clean \in BOOLEAN, reset \in BOOLEAN, usable \in BOOLEAN :
          /\ CertifiedSafe(certified, clean)
          /\ Ran(~certified)
          /\ EndSent([Failure(target, "rejected", RejectionDecision(reset, usable))
                        EXCEPT !.outcome = "rejected"])
    BY <1>6 DEF StreamRejected
  <2> DEFINE decision == RejectionDecision(reset, usable)
             f == [Failure(target, "rejected", decision) EXCEPT !.outcome = "rejected"]
  <2>2. decision \in Decisions /\ (decision = "switch_target" => MaySwitch)
    BY DecisionTypes, SwitchDecisions
  <2>3. runs' = runs
    BY <2>1 DEF CertifiedSafe, Ran
  <2>4. EndSent(f) /\ pc = "peek"
    BY <1>6, <2>1 DEF StreamRejected
  <2> HIDE DEF decision
  <2>5. f \in FailureType /\ f.decision = decision
    BY <1>0, <2>2 DEF Failure, FailureType, Deliveries, Outcomes, Errors, Progress
  <2> HIDE DEF f
  <2>6. QED
    BY <2>2, <2>3, <2>4, <2>5 DEF SentEnd
<1>7. CASE StreamFails
  <2> DEFINE f(certified, clean) ==
        [Failure(target, "ambiguous", IF clean THEN "suppressed" ELSE "suppressed_lifecycle")
         EXCEPT !.outcome = "failed", !.cleanup = clean,
                !.progress = IF certified THEN "unknown" ELSE "terminal_failure"]
  <2>1. ASSUME NEW certified \in BOOLEAN, NEW clean \in BOOLEAN
        PROVE  /\ f(certified, clean) \in FailureType
               /\ f(certified, clean).delivery = "ambiguous"
               /\ f(certified, clean).decision \notin Continuing
    BY <1>0 DEF Failure, FailureType, Deliveries, Decisions, Outcomes, Errors, Progress, Continuing
  <2>2. /\ \E certified \in BOOLEAN, clean \in BOOLEAN :
             EndSent(f(certified, clean)) /\ Ran(~certified)
        /\ pc \in {"flight", "peek"}
    BY <1>7 DEF StreamFails
  <2> HIDE DEF f
  <2>3. QED
    BY <2>1, <2>2 DEF SentEnd, Ran, Continuing
<1>8. QED
  BY <1>1, <1>2, <1>3, <1>4, <1>5, <1>6, <1>7

\* What a step of the operation can be.
LEMMA StepShapes ==
  ASSUME TypeOK, [Next]_vars
  PROVE  \/ UnsentEnd \/ SentEnd \/ SelectNothing \/ SelectTarget \/ SelectExhausted
         \/ Build \/ Admit \/ Refresh \/ Claim \/ ClaimFails \/ IntentFails \/ Dispatch
         \/ StreamStarts \/ Accept \/ AcceptUncertain \/ Migrate \/ RebuildFails
         \/ BlockTurn \/ Reply \/ FollowUp \/ ClientLeaves \/ ContextEnds
         \/ UNCHANGED vars
  BY UnsentShape, SentShape DEF Next, Execute, Returned

-----------------------------------------------------------------------------
(* Types.                                                                  *)

LEMMA Constants ==
  /\ N \in Nat \ {0} /\ Azure \subseteq Targets /\ Eligible \subseteq Targets
  /\ Replayable \subseteq Targets
  /\ \A b \in Budgets : b.targets \in Targets /\ b.targets \in Nat /\ b.sends \in Nat
  /\ MaxFollowUps \in Nat
  BY RouteAssumption, BudgetAssumption, FollowUpAssumption DEF Targets

\* A running attempt has a target, which counts as attempted.
TargetInv == pc \in Attempting => target \in attempted

LEMMA InitType == Init => TypeOK
<1> SUFFICES ASSUME Init PROVE TypeOK
  OBVIOUS
<1>1. targetsLeft \in Nat /\ sendsLeft \in Nat
  BY Constants DEF Init
<1>2. failures \in Seq(FailureType) /\ sent \in Seq(Targets)
  BY DEF Init
<1>3. target \in Targets \cup {None} /\ retryTarget \in Targets \cup {None} /\ pinned \in Targets \cup {None}
  BY DEF Init
<1>4. /\ hardPinned \in BOOLEAN /\ dispatched \in BOOLEAN /\ migrated \in BOOLEAN /\ blocked \in BOOLEAN
      /\ sameTarget \in BOOLEAN /\ permit \in BOOLEAN /\ inbound \in BOOLEAN
  BY DEF Init
<1>5. /\ runs \in Nat /\ attempted \subseteq Targets /\ followUps \in 0..MaxFollowUps
      /\ kind \in Kinds /\ mode \in Modes 
  BY Constants DEF Init, Kinds
<1>6. QED
  BY <1>1, <1>2, <1>3, <1>4, <1>5 DEF Init, TypeOK

\* suppressPendingRouteRetry changes a decision and nothing else.
LEMMA SuppressedTyped ==
  ASSUME failures \in Seq(FailureType), NEW d \in Decisions
  PROVE  /\ Suppressed(d) \in Seq(FailureType)
         /\ Len(Suppressed(d)) = Len(failures)
         /\ \A i \in DOMAIN failures : Suppressed(d)[i].delivery = failures[i].delivery
<1>1. CASE failures = <<>>
  <2>1. DOMAIN failures = {} /\ Len(failures) = 0
    BY <1>1
  <2>2. Suppressed(d) = [i \in {} |-> FALSE]
    BY <2>1 DEF Suppressed
  <2>3. Suppressed(d) = <<>>
    BY <2>2
  <2>4. QED
    BY <2>1, <2>3
<1>2. CASE failures # <<>>
  <2> DEFINE n == Len(failures)
  <2>1. n \in 1..Len(failures)
    BY <1>2
  <2>2. failures[n] \in FailureType
    BY <2>1
  <2>3. [failures[n] EXCEPT !.decision = d] \in FailureType
    BY <2>2 DEF FailureType
  <2>4. [failures EXCEPT ![n] = [failures[n] EXCEPT !.decision = d]] \in Seq(FailureType)
    BY <2>1, <2>3, ExceptSeq
  <2>5. Suppressed(d) = [failures EXCEPT ![n] = [failures[n] EXCEPT !.decision = d]]
    BY DEF Suppressed
  <2>6. [failures[n] EXCEPT !.decision = d].delivery = failures[n].delivery
    BY <2>2 DEF FailureType
  <2>7. QED
    BY <2>1, <2>4, <2>5, <2>6, ExceptSeq
<1>3. QED
  BY <1>1, <1>2

LEMMA NoTargetTyped == NoTargetFailure \in FailureType
  BY DEF NoTargetFailure, Failure, FailureType, Deliveries, Decisions, Outcomes, Errors, Progress

\* An execution that returns leaves nothing behind.
LEMMA ReturnTyped ==
  ASSUME TypeOK, NEW v \in {"accepted", "uncertain", "not_executed"}, Return(v)
  PROVE  /\ verdict' \in {"none", "accepted", "uncertain", "not_executed"} /\ pc' = "done"
         /\ failures' \in Seq(FailureType)
         /\ target' \in Targets \cup {None} /\ sameTarget' \in BOOLEAN
         /\ retryTarget' \in Targets \cup {None}
<1>1. failures' \in Seq(FailureType)
  BY EmptySeq DEF Return
<1>2. target' \in Targets \cup {None} /\ sameTarget' \in BOOLEAN
  BY DEF Return
<1>3. retryTarget' \in Targets \cup {None}
  BY DEF Return, TypeOK
<1>4. QED
  BY <1>1, <1>2, <1>3 DEF Return

LEMMA UnsentEndType ==
  ASSUME TypeOK, UnsentEnd
  PROVE  TypeOK'
<1>1. PICK f \in FailureType, d \in Decisions : EndUnsent(f, d)
  BY DEF UnsentEnd
<1>2. failures' \in Seq(FailureType)
  <2>1. failures' = Suppressed(d) \/ failures' = Append(failures, f)
    BY <1>1 DEF EndUnsent
  <2>2. failures \in Seq(FailureType)
    BY DEF TypeOK
  <2>3. Suppressed(d) \in Seq(FailureType)
    BY <2>2, SuppressedTyped
  <2>4. Append(failures, f) \in Seq(FailureType)
    BY <2>2, AppendProperties
  <2>5. QED
    BY <2>1, <2>3, <2>4
<1>3. pc' \in {"select", "final"}
  BY <1>1 DEF EndUnsent, Proceed
<1>4. permit' \in BOOLEAN /\ target' \in Targets \cup {None} /\ sameTarget' \in BOOLEAN
  BY <1>1 DEF EndUnsent, PermitAfterUnsent
<1>5. UNCHANGED <<requestVars, budgetVars, ownerVars, turnVars, kind, retryTarget,
                  envVars, verdict, runs, sent>>
  BY <1>1 DEF EndUnsent
<1>6. QED
  BY <1>2, <1>3, <1>4, <1>5
     DEF TypeOK, requestVars, budgetVars, ownerVars, turnVars, envVars

LEMMA SentEndType ==
  ASSUME TypeOK, SentEnd
  PROVE  TypeOK'
<1>1. PICK f \in FailureType : EndSent(f) /\ runs' \in {runs, runs + 1}
  BY DEF SentEnd
<1>2. failures' \in Seq(FailureType)
  BY <1>1, AppendProperties DEF TypeOK, EndSent
<1>3. pc' \in {"select", "final"} /\ runs' \in Nat
  BY <1>1 DEF EndSent, Proceed, TypeOK
<1>4. permit' \in BOOLEAN /\ target' \in Targets \cup {None} /\ sameTarget' \in BOOLEAN
  BY <1>1 DEF EndSent
<1>5. retryTarget' \in Targets \cup {None}
  BY <1>1 DEF EndSent, TypeOK
<1>6. UNCHANGED <<requestVars, budgetVars, ownerVars, turnVars, kind, envVars, verdict, sent>>
  BY <1>1 DEF EndSent
<1>7. QED
  BY <1>2, <1>3, <1>4, <1>5, <1>6
     DEF TypeOK, requestVars, budgetVars, ownerVars, turnVars, envVars

\* A selected target is one of the route.
LEMMA NextTargetTyped ==
  ASSUME TypeOK
  PROVE  NextTargets \subseteq Targets
  BY Constants DEF TypeOK, NextTargets, Candidates, None

LEMMA TypeStep ==
  ASSUME TypeOK, TargetInv, [Next]_vars
  PROVE  TypeOK'
<1> USE DEF requestVars, budgetVars, ownerVars, turnVars, attemptVars, envVars
<1>1. CASE UnsentEnd
  BY <1>1, UnsentEndType
<1>2. CASE SentEnd
  BY <1>2, SentEndType
<1>3. CASE SelectNothing
  BY <1>3 DEF SelectNothing, TypeOK
<1>4. CASE SelectTarget
  <2>1. PICK t \in NextTargets :
          /\ t \in attempted \/ targetsLeft > 0
          /\ target' = t
          /\ attempted' = attempted \cup {t}
          /\ targetsLeft' = targetsLeft - TargetCost(t)
    BY <1>4 DEF SelectTarget
  <2>2. t \in Targets
    BY NextTargetTyped
  <2>3. targetsLeft' \in Nat
    BY <2>1 DEF TargetCost, TypeOK
  <2>4. attempted' \subseteq Targets
    BY <2>1, <2>2 DEF TypeOK
  <2>5. /\ sameTarget' \in BOOLEAN /\ retryTarget' = None /\ pc' = "build"
        /\ UNCHANGED <<requestVars, sendsLeft, ownerVars, turnVars, kind, failures,
                       permit, envVars, verdict, runs, sent>>
    BY <1>4 DEF SelectTarget
  <2>6. QED
    BY <2>1, <2>2, <2>3, <2>4, <2>5 DEF TypeOK
<1>5. CASE SelectExhausted
  <2>1. failures' = Append(failures, NoTargetFailure)
    BY <1>5 DEF SelectExhausted, NoTargetFailure
  <2>2. failures' \in Seq(FailureType)
    BY <2>1, NoTargetTyped, AppendProperties DEF TypeOK
  <2>3. QED
    BY <1>5, <2>2 DEF SelectExhausted, TypeOK
<1>6. CASE Build
  BY <1>6 DEF Build, TypeOK
<1>7. CASE Admit
  BY <1>7 DEF Admit, TypeOK
<1>8. CASE Refresh
  BY <1>8 DEF Refresh, TypeOK
<1>9. CASE Claim
  BY <1>9 DEF Claim, TypeOK
<1>10. CASE ClaimFails
  <2>1. Failure(target, "not_delivered", "suppressed_state") \in FailureType
    BY DEF TypeOK, Failure, FailureType, Deliveries, Decisions, Outcomes, Errors, Progress
  <2>2. failures' \in Seq(FailureType)
    BY <1>10, <2>1, AppendProperties DEF TypeOK, ClaimFails
  <2>3. /\ permit' \in BOOLEAN /\ sameTarget' \in BOOLEAN
        /\ target' \in Targets \cup {None} /\ pc' = "final"
    BY <1>10 DEF ClaimFails
  <2>4. UNCHANGED <<requestVars, budgetVars, ownerVars, turnVars, kind, retryTarget,
                    envVars, verdict, runs, sent>>
    BY <1>10 DEF ClaimFails
  <2>5. QED
    BY <2>2, <2>3, <2>4 DEF TypeOK
<1>11. CASE IntentFails
  <2>1. Return("not_executed") /\ permit' \in BOOLEAN
    BY <1>11 DEF IntentFails
  <2>2. QED
    BY <1>11, <2>1, ReturnTyped DEF IntentFails, TypeOK
<1>12. CASE Dispatch
  <2>1. sendsLeft' \in Nat
    BY <1>12 DEF Dispatch, SendAllowed, TypeOK
  <2>2. /\ pinned' \in Targets \cup {None} /\ commitment' \in {"none", "protocol_frame"}
        /\ pc' \in {"peek", "flight"} /\ dispatched' \in BOOLEAN
    BY <1>12 DEF Dispatch, TypeOK
  <2>3. UNCHANGED <<requestVars, targetsLeft, attempted, hardPinned, verified, migrated,
                    blocked, kind, attemptVars, failures, permit, envVars, verdict, runs>>
    BY <1>12 DEF Dispatch
  <2>4. sent' \in Seq(Targets)
    BY <1>12, AppendProperties DEF Dispatch, TypeOK, TargetInv, Attempting, Unsent
  <2>5. QED
    BY <2>1, <2>2, <2>3, <2>4 DEF TypeOK
<1>13. CASE StreamStarts
  BY <1>13 DEF StreamStarts, TypeOK
<1>14. CASE Accept
  <2>1. Return("accepted") /\ permit' \in BOOLEAN /\ blocked' \in BOOLEAN
    BY <1>14 DEF Accept, TypeOK
  <2>2. runs' \in Nat /\ pinned' \in Targets \cup {None}
    BY <1>14 DEF Accept, Ran, TypeOK
  <2>3. QED
    BY <1>14, <2>1, <2>2, ReturnTyped DEF Accept, TypeOK
<1>15. CASE AcceptUncertain
  <2>1. Return("uncertain") /\ permit' \in BOOLEAN /\ blocked' \in BOOLEAN
    BY <1>15 DEF AcceptUncertain, TypeOK
  <2>2. runs' \in Nat /\ pinned' \in Targets \cup {None}
    BY <1>15 DEF AcceptUncertain, Ran, TypeOK
  <2>3. QED
    BY <1>15, <2>1, <2>2, ReturnTyped DEF AcceptUncertain, TypeOK
<1>16. CASE Migrate
  <2>1. pinned' \in Targets \cup {None}
    BY <1>16, Constants DEF Migrate, MigrationTargets
  <2>2. hardPinned' \in BOOLEAN /\ verified' \in BOOLEAN /\ migrated' \in BOOLEAN
    BY <1>16 DEF Migrate
  <2>3. failures' \in Seq(FailureType)
    BY <1>16, EmptySeq DEF Migrate
  <2>4. QED
    BY <1>16, <2>1, <2>2, <2>3 DEF Migrate, TypeOK
<1>17. CASE RebuildFails
  <2>1. Return("not_executed")
    BY <1>17 DEF RebuildFails
  <2>2. QED
    BY <1>17, <2>1, ReturnTyped DEF RebuildFails, TypeOK
<1>18. CASE BlockTurn
  <2>1. Return("uncertain") /\ blocked' \in BOOLEAN
    BY <1>18 DEF BlockTurn
  <2>2. QED
    BY <1>18, <2>1, ReturnTyped DEF BlockTurn, TypeOK
<1>19. CASE Reply
  <2>1. \E v \in {"uncertain", "not_executed"} : Return(v)
    BY <1>19 DEF Reply
  <2>2. QED
    BY <1>19, <2>1, ReturnTyped DEF Reply, TypeOK
<1>20. CASE FollowUp
  <2>1. followUps' \in 0..MaxFollowUps
    BY <1>20, Constants DEF FollowUp, TypeOK
  <2>2. permit' \in BOOLEAN
    BY <1>20 DEF FollowUp
  <2>3. kind' \in Kinds /\ runs' \in Nat /\ pc' = "select" /\ verdict' = "none"
    BY <1>20 DEF FollowUp, Kinds
  <2>4. UNCHANGED <<requestVars, budgetVars, ownerVars, turnVars, attemptVars, failures,
                    inbound, stopped, sent>>
    BY <1>20 DEF FollowUp
  <2>5. QED
    BY <2>1, <2>2, <2>3, <2>4 DEF TypeOK
<1>21. CASE ClientLeaves
  <2>1. inbound' \in BOOLEAN
    BY <1>21 DEF ClientLeaves
  <2>2. QED
    BY <1>21, <2>1 DEF ClientLeaves, TypeOK
<1>22. CASE ContextEnds
  BY <1>22 DEF ContextEnds, TypeOK
<1>23. CASE UNCHANGED vars
  BY <1>23 DEF vars, TypeOK
<1>24. QED
  BY StepShapes, <1>1, <1>2, <1>3, <1>4, <1>5, <1>6, <1>7, <1>8, <1>9, <1>10, <1>11, <1>12,
     <1>13, <1>14, <1>15, <1>16, <1>17, <1>18, <1>19, <1>20, <1>21, <1>22, <1>23

\* Only a selection starts an attempt; the others leave its target alone.
LEMMA TargetStep ==
  ASSUME TypeOK, TargetInv, [Next]_vars
  PROVE  TargetInv'
<1> USE DEF TargetInv, Attempting, Unsent, budgetVars, attemptVars
<1>1. CASE UnsentEnd
  BY <1>1 DEF UnsentEnd, EndUnsent, Proceed
<1>2. CASE SentEnd
  BY <1>2 DEF SentEnd, EndSent, Proceed
<1>3. CASE SelectTarget
  BY <1>3 DEF SelectTarget
<1>4. CASE SelectNothing \/ SelectExhausted \/ ClaimFails
  BY <1>4 DEF SelectNothing, SelectExhausted, ClaimFails
<1>5. CASE Build \/ Admit \/ Refresh \/ Claim \/ StreamStarts
  BY <1>5 DEF Build, Admit, Refresh, Claim, StreamStarts
<1>6. CASE Dispatch
  BY <1>6 DEF Dispatch
<1>7. CASE IntentFails \/ Accept \/ AcceptUncertain \/ RebuildFails \/ BlockTurn \/ Reply
  BY <1>7 DEF IntentFails, Accept, AcceptUncertain, RebuildFails, BlockTurn, Reply, Return
<1>8. CASE Migrate \/ FollowUp
  BY <1>8 DEF Migrate, FollowUp
<1>9. CASE ClientLeaves \/ ContextEnds \/ UNCHANGED vars
  BY <1>9 DEF ClientLeaves, ContextEnds, vars
<1>10. QED
  BY StepShapes, <1>1, <1>2, <1>3, <1>4, <1>5, <1>6, <1>7, <1>8, <1>9

-----------------------------------------------------------------------------
(* Budgets.                                                                *)

LEMMA InitBudgets == Init => BudgetsHold
<1> SUFFICES ASSUME Init PROVE BudgetsHold
  OBVIOUS
<1>1. Cardinality(attempted) = 0 /\ Len(sent) = 0 /\ DOMAIN sent = {}
  BY FS_EmptySet DEF Init
<1>2. targetsLeft \in Nat /\ sendsLeft \in Nat
  BY Constants DEF Init
<1>3. QED
  BY <1>1, <1>2 DEF Init, BudgetsHold

LEMMA FiniteTargets ==
  ASSUME TypeOK
  PROVE  IsFiniteSet(attempted) /\ Cardinality(attempted) \in Nat
<1>1. IsFiniteSet(Targets)
  BY FS_Interval, Constants DEF Targets
<1>2. IsFiniteSet(attempted)
  BY <1>1, FS_Subset DEF TypeOK
<1>3. QED
  BY <1>2, FS_CardinalityType

\* What a step does to the budgets: nothing, a selection or a dispatch.
LEMMA BudgetStep ==
  ASSUME TypeOK, TargetInv, BudgetsHold, [Next]_vars
  PROVE  BudgetsHold'
<1> USE DEF requestVars, budgetVars
<1>1. CASE SelectTarget
  <2>1. PICK t \in NextTargets :
          /\ t \in attempted \/ targetsLeft > 0
          /\ attempted' = attempted \cup {t}
          /\ targetsLeft' = targetsLeft - TargetCost(t)
    BY <1>1 DEF SelectTarget
  <2>2. UNCHANGED <<requestVars, sendsLeft, sent>>
    BY <1>1 DEF SelectTarget
  <2>3. targetsLeft' + Cardinality(attempted') = budget.targets
    <3>1. CASE t \in attempted
      <4>1. attempted' = attempted /\ targetsLeft' = targetsLeft
        BY <2>1, <3>1 DEF TargetCost, TypeOK
      <4>2. QED
        BY <4>1 DEF BudgetsHold
    <3>2. CASE t \notin attempted
      <4>1. Cardinality(attempted') = Cardinality(attempted) + 1
        BY <2>1, <3>2, FiniteTargets, FS_AddElement
      <4>2. targetsLeft' = targetsLeft - 1
        BY <2>1, <3>2 DEF TargetCost
      <4>3. QED
        BY <4>1, <4>2, FiniteTargets, SMTT(60) DEF BudgetsHold, TypeOK
    <3>3. QED
      BY <3>1, <3>2
  <2>4. QED
    BY <2>1, <2>2, <2>3 DEF BudgetsHold
<1>2. CASE Dispatch
  <2>1. /\ sendsLeft' = sendsLeft - 1
        /\ sent' = Append(sent, target)
        /\ target \in attempted
        /\ UNCHANGED <<requestVars, targetsLeft, attempted>>
    BY <1>2 DEF Dispatch, TargetInv, Attempting, Unsent
  <2>2. sent \in Seq(Targets) /\ target \in Targets /\ sendsLeft \in Nat
    BY <2>1 DEF TypeOK
  <2>3. /\ Len(sent') = Len(sent) + 1
        /\ \A i \in 1..Len(sent) : sent'[i] = sent[i]
        /\ sent'[Len(sent) + 1] = target
        /\ DOMAIN sent' = 1..(Len(sent) + 1) /\ DOMAIN sent = 1..Len(sent)
    BY <2>1, <2>2, AppendProperties
  <2>4. \A i \in DOMAIN sent' : sent'[i] \in attempted'
    <3> SUFFICES ASSUME NEW i \in DOMAIN sent' PROVE sent'[i] \in attempted'
      OBVIOUS
    <3>1. CASE i = Len(sent) + 1
      BY <2>1, <2>3, <3>1
    <3>2. CASE i \in DOMAIN sent
      BY <2>1, <2>3, <3>2 DEF BudgetsHold
    <3>3. QED
      BY <2>2, <2>3, <3>1, <3>2
  <2>5. sendsLeft' + Len(sent') = budget'.sends
    BY <2>1, <2>2, <2>3 DEF BudgetsHold
  <2>6. QED
    BY <2>1, <2>4, <2>5 DEF BudgetsHold
<1>3. CASE UNCHANGED <<budget, targetsLeft, sendsLeft, attempted, sent>>
  BY <1>3 DEF BudgetsHold
<1>4. QED
  <2>1. CASE UnsentEnd
    BY <2>1, <1>3 DEF UnsentEnd, EndUnsent
  <2>2. CASE SentEnd
    BY <2>2, <1>3 DEF SentEnd, EndSent
  <2>3. CASE SelectNothing \/ SelectExhausted \/ Build \/ Admit \/ Refresh \/ Claim
    BY <2>3, <1>3 DEF SelectNothing, SelectExhausted, Build, Admit, Refresh, Claim
  <2>4. CASE ClaimFails \/ IntentFails \/ StreamStarts \/ Accept \/ AcceptUncertain
    BY <2>4, <1>3 DEF ClaimFails, IntentFails, StreamStarts, Accept, AcceptUncertain
  <2>5. CASE Migrate \/ RebuildFails \/ BlockTurn \/ Reply \/ FollowUp
    BY <2>5, <1>3 DEF Migrate, RebuildFails, BlockTurn, Reply, FollowUp
  <2>6. CASE ClientLeaves \/ ContextEnds \/ UNCHANGED vars
    BY <2>6, <1>3 DEF ClientLeaves, ContextEnds, vars
  <2>7. QED
    BY StepShapes, <1>1, <1>2, <2>1, <2>2, <2>3, <2>4, <2>5, <2>6

-----------------------------------------------------------------------------
(* Permits.                                                                *)

LEMMA PermitStep ==
  ASSUME TypeOK, PermitsSettled, [Next]_vars
  PROVE  PermitsSettled'
<1> USE DEF PermitsSettled
<1>1. CASE UnsentEnd
  BY <1>1 DEF UnsentEnd, EndUnsent, PermitAfterUnsent, Proceed
<1>2. CASE SentEnd
  BY <1>2 DEF SentEnd, EndSent, Proceed
<1>3. CASE SelectNothing \/ SelectTarget \/ SelectExhausted \/ ClaimFails
  BY <1>3 DEF SelectNothing, SelectTarget, SelectExhausted, ClaimFails
<1>4. CASE Build \/ Admit \/ Refresh \/ Claim \/ Dispatch \/ StreamStarts
  BY <1>4 DEF Build, Admit, Refresh, Claim, Dispatch, StreamStarts
<1>5. CASE IntentFails \/ Accept \/ AcceptUncertain
  BY <1>5 DEF IntentFails, Accept, AcceptUncertain, Return
<1>6. CASE RebuildFails \/ BlockTurn \/ Reply
  BY <1>6 DEF RebuildFails, BlockTurn, Reply, Return
<1>7. CASE Migrate \/ FollowUp
  BY <1>7 DEF Migrate, FollowUp
<1>8. CASE ClientLeaves \/ ContextEnds \/ UNCHANGED vars
  BY <1>8 DEF ClientLeaves, ContextEnds, vars
<1>9. QED
  BY StepShapes, <1>1, <1>2, <1>3, <1>4, <1>5, <1>6, <1>7, <1>8

-----------------------------------------------------------------------------
(* Runs of the upstreams.                                                  *)

\* While an attempt may follow, no upstream ran the request; once one did,
\* there is an ambiguous failure, which outranks every other.
RunInv ==
  /\ runs \in {0, 1}
  /\ pc \in Attempting \cup {"select"} => runs = 0
  /\ pc = "final" /\ runs # 0 => \E i \in DOMAIN failures : failures[i].delivery = "ambiguous"

LEMMA PrecedenceFour ==
  ASSUME NEW f
  PROVE  /\ f.delivery = "ambiguous" => Precedence(f) = 4
         /\ f.delivery # "ambiguous" => Precedence(f) \in {1, 2, 3}
  BY DEF Precedence

\* The final failure of an operation that ran the request is ambiguous.
LEMMA FinalIsAmbiguous ==
  ASSUME RunInv, pc = "final", runs # 0, NEW f \in FinalFailures
  PROVE  f.delivery = "ambiguous"
<1>1. PICK i \in DOMAIN failures : failures[i].delivery = "ambiguous"
  BY DEF RunInv
<1>2. failures # <<>>
  BY <1>1
<1>3. PICK k \in DOMAIN failures : IsFinal(k) /\ f = failures[k]
  BY <1>2 DEF FinalFailures
<1>4. k \in Strongest
  BY <1>3 DEF IsFinal, IsFirst
<1>5. Precedence(failures[i]) <= Precedence(f)
  BY <1>3, <1>4 DEF Strongest
<1>6. Precedence(failures[i]) = 4
  BY <1>1, PrecedenceFour
<1>7. QED
  BY <1>5, <1>6, PrecedenceFour

\* What follows for the three answers to a final failure.
LEMMA FinalAnswers ==
  ASSUME RunInv, pc = "final", NEW f \in FinalFailures
  PROVE  /\ SafeToMigrate(f) => runs = 0
         /\ f.delivery # "ambiguous" => runs = 0
  BY FinalIsAmbiguous DEF SafeToMigrate

LEMMA RunStep ==
  ASSUME TypeOK, RunInv, [Next]_vars
  PROVE  RunInv'
<1>1. CASE UnsentEnd
  BY <1>1 DEF UnsentEnd, EndUnsent, Proceed, RunInv, Attempting
<1>2. CASE SentEnd
  <2>1. PICK f \in FailureType :
          /\ EndSent(f)
          /\ runs' \in {runs, runs + 1}
          /\ runs' # runs => f.delivery = "ambiguous" /\ f.decision \notin Continuing
    BY <1>2 DEF SentEnd
  <2>2. runs = 0
    BY <1>2 DEF SentEnd, RunInv, Attempting
  <2>3. CASE runs' = runs
    BY <2>1, <2>2, <2>3 DEF EndSent, Proceed, RunInv, Attempting, Unsent
  <2>4. CASE runs' # runs
    <3>1. runs' = 1 /\ pc' = "final"
      BY <2>1, <2>2, <2>4 DEF EndSent, Proceed, Continuing
    <3>2. failures' = Append(failures, f) /\ failures \in Seq(FailureType)
      BY <2>1 DEF EndSent, TypeOK
    <3>3. Len(failures) \in Nat /\ Len(failures') = Len(failures) + 1
          /\ failures'[Len(failures) + 1] = f /\ DOMAIN failures' = 1..Len(failures')
      BY <3>2, AppendProperties
    <3>4. Len(failures) + 1 \in DOMAIN failures'
      BY <3>3
    <3>5. f.delivery = "ambiguous"
      BY <2>1, <2>4
    <3>6. QED
      BY <3>1, <3>3, <3>4, <3>5 DEF RunInv, Attempting, Unsent
  <2>5. QED
    BY <2>3, <2>4
<1>3. CASE SelectNothing \/ SelectTarget \/ SelectExhausted \/ ClaimFails
  BY <1>3 DEF SelectNothing, SelectTarget, SelectExhausted, ClaimFails, RunInv, Attempting, Unsent
<1>4. CASE Build \/ Admit \/ Refresh \/ Claim \/ Dispatch \/ StreamStarts
  BY <1>4 DEF Build, Admit, Refresh, Claim, Dispatch, StreamStarts, RunInv, Attempting, Unsent
<1>5. CASE Accept \/ AcceptUncertain
  <2>1. runs = 0
    BY <1>5 DEF Accept, AcceptUncertain, RunInv, Attempting
  <2>2. runs' \in {0, 1} /\ pc' = "done"
    BY <1>5, <2>1 DEF Accept, AcceptUncertain, Ran, Return
  <2>3. QED
    BY <2>2 DEF RunInv, Attempting, Unsent
<1>6. CASE IntentFails \/ RebuildFails \/ BlockTurn \/ Reply
  <2>1. runs' = runs /\ pc' = "done"
    BY <1>6 DEF IntentFails, RebuildFails, BlockTurn, Reply, Return
  <2>2. QED
    BY <2>1 DEF RunInv, Attempting, Unsent
<1>7. CASE Migrate
  <2>1. runs = 0
    BY <1>7, FinalAnswers DEF Migrate
  <2>2. runs' = 0 /\ pc' = "select"
    BY <1>7, <2>1 DEF Migrate
  <2>3. QED
    BY <2>2 DEF RunInv
<1>8. CASE FollowUp
  BY <1>8 DEF FollowUp, RunInv
<1>9. CASE ClientLeaves \/ ContextEnds \/ UNCHANGED vars
  BY <1>9 DEF ClientLeaves, ContextEnds, vars, RunInv
<1>10. QED
  BY StepShapes, <1>1, <1>2, <1>3, <1>4, <1>5, <1>6, <1>7, <1>8, <1>9

-----------------------------------------------------------------------------
(* Owners and bindings.                                                    *)

\* A target that an operation bound to an owner, or to the first target, may use.
Permitted(t) ==
  /\ owner # None /\ ~migrated => t = owner
  /\ owner = None /\ mode = "primary_only" => t = 1

\* Everything the operation holds on to is permitted.
OwnerInv ==
  /\ owner # None => pinned # None
  /\ pinned # None => Permitted(pinned)
  /\ target # None => Permitted(target)
  /\ retryTarget # None => Permitted(retryTarget)
  /\ \A i \in DOMAIN sent : Permitted(sent[i])

\* A blocked turn is over.
BlockInv == blocked => pc = "done" /\ conversation

\* What OwnerInv says of a state in which only some of it changes.
LEMMA OwnerFrame ==
  ASSUME OwnerInv, UNCHANGED <<requestVars, migrated, pinned, sent>>,
         target' \in {target, None}, retryTarget' \in {retryTarget, target, None}
  PROVE  OwnerInv'
  BY DEF OwnerInv, Permitted, requestVars

\* A selected target is the binding, or unbound.
LEMMA SelectedPermitted ==
  ASSUME TypeOK, OwnerInv, NEW t \in NextTargets
  PROVE  Permitted(t)
<1>1. CASE retryTarget # None
  BY <1>1 DEF NextTargets, OwnerInv
<1>2. CASE retryTarget = None /\ pinned # None
  BY <1>2 DEF NextTargets, Candidates, OwnerInv
<1>3. CASE retryTarget = None /\ pinned = None
  BY <1>3 DEF NextTargets, Candidates, OwnerInv, Permitted
<1>4. QED
  BY <1>1, <1>2, <1>3

LEMMA OwnerStep ==
  ASSUME TypeOK, TargetInv, OwnerInv, [Next]_vars
  PROVE  OwnerInv'
<1> USE DEF ownerVars, turnVars, attemptVars
<1>1. CASE UnsentEnd
  BY <1>1, OwnerFrame DEF UnsentEnd, EndUnsent
<1>2. CASE SentEnd
  BY <1>2, OwnerFrame DEF SentEnd, EndSent
<1>3. CASE SelectTarget
  <2>1. PICK t \in NextTargets : target' = t
    BY <1>3 DEF SelectTarget
  <2>2. Permitted(t)
    BY SelectedPermitted
  <2>3. UNCHANGED <<requestVars, migrated, pinned, sent>> /\ retryTarget' = None
    BY <1>3 DEF SelectTarget
  <2>4. QED
    BY <2>1, <2>2, <2>3 DEF OwnerInv, Permitted, requestVars
<1>4. CASE SelectNothing \/ SelectExhausted \/ Build \/ Admit \/ Refresh
  BY <1>4, OwnerFrame DEF SelectNothing, SelectExhausted, Build, Admit, Refresh
<1>5. CASE Claim \/ ClaimFails \/ StreamStarts
  BY <1>5, OwnerFrame DEF Claim, ClaimFails, StreamStarts
<1>6. CASE IntentFails \/ RebuildFails \/ BlockTurn \/ Reply
  BY <1>6, OwnerFrame DEF IntentFails, RebuildFails, BlockTurn, Reply, Return
<1>7. CASE Dispatch
  <2>1. /\ sent' = Append(sent, target)
        /\ pinned' = pinned \/ pinned' = target
        /\ UNCHANGED <<requestVars, migrated, target, retryTarget>>
        /\ pc = "reserve"
    BY <1>7 DEF Dispatch
  <2>2. target \in Targets /\ target # None
    BY <2>1, Constants DEF TargetInv, TypeOK, Attempting, Unsent, Targets, None
  <2>3. Permitted(target)
    BY <2>2 DEF OwnerInv
  <2>4. sent \in Seq(Targets)
    BY DEF TypeOK
  <2>5. \A i \in DOMAIN sent' : sent'[i] = target \/ (i \in DOMAIN sent /\ sent'[i] = sent[i])
    BY <2>1, <2>2, <2>4, AppendProperties
  <2>6. \A i \in DOMAIN sent' : Permitted(sent'[i])
    BY <2>3, <2>5 DEF OwnerInv
  <2>7. /\ owner # None => pinned' # None
        /\ pinned' # None => Permitted(pinned')
    <3>1. CASE pinned' = pinned
      BY <3>1 DEF OwnerInv, Permitted
    <3>2. CASE pinned' = target
      BY <2>2, <2>3, <3>2 DEF Permitted
    <3>3. QED
      BY <2>1, <3>1, <3>2
  <2>8. QED
    BY <2>1, <2>6, <2>7 DEF OwnerInv, Permitted, requestVars
<1>8. CASE Accept \/ AcceptUncertain
  <2>1. /\ pinned' = IF pinned = None THEN target ELSE pinned
        /\ target' = None
        /\ UNCHANGED <<requestVars, migrated, retryTarget, sent>>
        /\ pc \in {"flight", "peek"}
    BY <1>8 DEF Accept, AcceptUncertain, Return
  <2>2. target \in Targets /\ target # None
    BY <2>1, Constants DEF TargetInv, TypeOK, Attempting, Unsent, Targets, None
  <2>3. QED
    BY <2>1, <2>2 DEF OwnerInv, Permitted, requestVars
<1>9. CASE Migrate
  <2>1. /\ mode = "priority_failover" /\ migrated' = TRUE
        /\ pinned' \in Targets
        /\ UNCHANGED <<requestVars, target, retryTarget, sent>>
    BY <1>9, Constants DEF Migrate, MigrationReady, MigrationTargets
  <2>2. pinned' # None
    BY <2>1, Constants DEF Targets, None
  <2>3. QED
    BY <2>1, <2>2 DEF OwnerInv, Permitted, requestVars
<1>10. CASE FollowUp
  BY <1>10, OwnerFrame DEF FollowUp
<1>11. CASE ClientLeaves \/ ContextEnds \/ UNCHANGED vars
  BY <1>11, OwnerFrame DEF ClientLeaves, ContextEnds, vars
<1>12. QED
  BY StepShapes, <1>1, <1>2, <1>3, <1>4, <1>5, <1>6, <1>7, <1>8, <1>9, <1>10, <1>11

LEMMA BlockStep ==
  ASSUME TypeOK, BlockInv, [Next]_vars
  PROVE  BlockInv'
<1> USE DEF BlockInv, turnVars, requestVars, Unsent
<1>1. CASE UnsentEnd
  BY <1>1 DEF UnsentEnd, EndUnsent
<1>2. CASE SentEnd
  BY <1>2 DEF SentEnd, EndSent
<1>3. CASE SelectNothing \/ SelectTarget \/ SelectExhausted \/ Build \/ Admit \/ Refresh
  BY <1>3 DEF SelectNothing, SelectTarget, SelectExhausted, Build, Admit, Refresh
<1>4. CASE Claim \/ ClaimFails \/ Dispatch \/ StreamStarts
  BY <1>4 DEF Claim, ClaimFails, Dispatch, StreamStarts
<1>5. CASE IntentFails \/ Accept \/ RebuildFails \/ Reply
  BY <1>5 DEF IntentFails, Accept, RebuildFails, Reply, Return
<1>6. CASE AcceptUncertain \/ BlockTurn
  <2>1. conversation /\ pc' = "done" /\ UNCHANGED requestVars
    BY <1>6 DEF AcceptUncertain, BlockTurn, Uncertain, Return
  <2>2. QED
    BY <2>1
<1>7. CASE Migrate \/ FollowUp
  BY <1>7 DEF Migrate, FollowUp
<1>8. CASE ClientLeaves \/ ContextEnds \/ UNCHANGED vars
  BY <1>8 DEF ClientLeaves, ContextEnds, vars
<1>9. QED
  BY StepShapes, <1>1, <1>2, <1>3, <1>4, <1>5, <1>6, <1>7, <1>8

-----------------------------------------------------------------------------
(* Retries: what makes an execution go on.                                 *)

\* A same-target retry waits for a selection only, and its target was tried.
RetryInv == retryTarget # None => pc = "select" /\ retryTarget \in attempted

\* A binding is hard, or its execution cannot switch any more.
BoundInv ==
  pinned # None /\ ~hardPinned => pc = "done" \/ kind # "normal" \/ commitment # "none"

\* An execution that goes on after a failure switches, or retries its target.
AgainInv ==
  /\ pc = "select" /\ failures # <<>> => pinned = None \/ retryTarget # None
  /\ pc = "done" => failures = <<>>

RetriesInv == RetryInv /\ BoundInv /\ AgainInv

LEMMA NoTarget == None \notin Targets
  BY Constants DEF Targets, None

\* An open operation that may switch is not bound.
LEMMA SwitchUnbound ==
  ASSUME BoundInv, MaySwitch, pc # "done"
  PROVE  pinned = None
  BY DEF BoundInv, MaySwitch, AllowsSwitch, RetryAdmissionOpen

LEMMA InitRetries == Init => RetriesInv
  BY DEF Init, RetriesInv, RetryInv, BoundInv, AgainInv

\* What RetriesInv says of a step that moves none of its variables but pc.
LEMMA RetriesFrame ==
  ASSUME RetriesInv, pc \notin {"select", "done"}, pc' \notin {"select", "done"},
         UNCHANGED <<kind, pinned, hardPinned, commitment, retryTarget>>
  PROVE  RetriesInv'
  BY DEF RetriesInv, RetryInv, BoundInv, AgainInv

\* What an attempt that ends before its dispatch leaves behind.
LEMMA UnsentEndAgain ==
  ASSUME RetriesInv, UnsentEnd
  PROVE  /\ retryTarget = None /\ retryTarget' = None
         /\ UNCHANGED <<kind, pinned, hardPinned, commitment, attempted, targetsLeft, sendsLeft>>
         /\ pc' = "final" \/ (pc' = "select" /\ pinned' = None)
<1>1. PICK f \in FailureType, d \in Decisions : EndUnsent(f, d) /\ UnsentDecision(f.decision)
  BY DEF UnsentEnd
<1>2. pc \in Unsent
  BY DEF UnsentEnd
<1>3. retryTarget = None
  BY <1>2 DEF RetriesInv, RetryInv, Unsent
<1>4. UNCHANGED <<kind, pinned, hardPinned, commitment, attempted, targetsLeft, sendsLeft,
                  retryTarget>>
  BY <1>1 DEF EndUnsent, ownerVars, budgetVars
<1>5. pc' = "final" \/ (pc' = "select" /\ MaySwitch)
  BY <1>1 DEF EndUnsent, Proceed, UnsentDecision, Continuing
<1>6. MaySwitch => pinned = None
  BY <1>2, SwitchUnbound DEF RetriesInv, Unsent
<1>7. QED
  BY <1>3, <1>4, <1>5, <1>6

\* What an attempt that ends after its dispatch leaves behind.
LEMMA SentEndAgain ==
  ASSUME TypeOK, TargetInv, RetriesInv, SentEnd
  PROVE  /\ UNCHANGED <<kind, pinned, hardPinned, commitment, attempted, targetsLeft, sendsLeft>>
         /\ \/ pc' = "final" /\ retryTarget' = None
            \/ pc' = "select" /\ retryTarget' = None /\ pinned' = None
            \/ pc' = "select" /\ retryTarget' # None /\ retryTarget' \in attempted'
<1>1. PICK f \in FailureType : EndSent(f) /\ (f.decision = "switch_target" => MaySwitch)
  BY DEF SentEnd
<1>2. pc \in {"flight", "peek"}
  BY DEF SentEnd
<1>3. target \in attempted /\ target # None
  BY <1>2, NoTarget DEF TargetInv, Attempting, TypeOK
<1>4. UNCHANGED <<kind, pinned, hardPinned, commitment, attempted, targetsLeft, sendsLeft>>
  BY <1>1 DEF EndSent, ownerVars, budgetVars
<1>5. MaySwitch => pinned = None
  BY <1>2, SwitchUnbound DEF RetriesInv
<1>6. CASE f.decision = "switch_target"
  BY <1>1, <1>4, <1>5, <1>6 DEF EndSent, Proceed
<1>7. CASE f.decision = "same_target"
  BY <1>1, <1>3, <1>4, <1>7 DEF EndSent, Proceed
<1>8. CASE f.decision \notin Continuing
  BY <1>1, <1>4, <1>8 DEF EndSent, Proceed, Continuing
<1>9. QED
  BY <1>4, <1>6, <1>7, <1>8 DEF Continuing

LEMMA RetriesStep ==
  ASSUME TypeOK, TargetInv, RetriesInv, [Next]_vars
  PROVE  RetriesInv'
<1> USE DEF budgetVars, ownerVars, attemptVars
<1>1. CASE UnsentEnd
  <2>1. pc # "done"
    BY <1>1 DEF UnsentEnd, Unsent
  <2>2. QED
    BY <1>1, <2>1, UnsentEndAgain DEF RetriesInv, RetryInv, BoundInv, AgainInv
<1>2. CASE SentEnd
  <2>1. pc # "done"
    BY <1>2 DEF SentEnd
  <2>2. QED
    BY <1>2, <2>1, SentEndAgain DEF RetriesInv, RetryInv, BoundInv, AgainInv
<1>3. CASE SelectNothing
  <2>1. retryTarget = None
    BY <1>3 DEF SelectNothing, NextTargets
  <2>2. QED
    BY <1>3, <2>1 DEF SelectNothing, RetriesInv, RetryInv, BoundInv, AgainInv
<1>4. CASE SelectTarget
  BY <1>4 DEF SelectTarget, RetriesInv, RetryInv, BoundInv, AgainInv
<1>5. CASE SelectExhausted
  <2>1. retryTarget = None
    BY <1>5 DEF SelectExhausted, NextTargets, RetriesInv, RetryInv
  <2>2. QED
    BY <1>5, <2>1 DEF SelectExhausted, RetriesInv, RetryInv, BoundInv, AgainInv
<1>6. CASE Build \/ Admit \/ Refresh \/ Claim
  BY <1>6, RetriesFrame DEF Build, Admit, Refresh, Claim
<1>7. CASE ClaimFails \/ StreamStarts
  BY <1>7, RetriesFrame DEF ClaimFails, StreamStarts
<1>8. CASE Dispatch
  BY <1>8 DEF Dispatch, RetriesInv, RetryInv, BoundInv, AgainInv
<1>9. CASE IntentFails \/ RebuildFails \/ BlockTurn \/ Reply
  <2>1. /\ retryTarget' = retryTarget /\ pc \in {"claim", "final"}
        /\ pc' = "done" /\ failures' = <<>>
    BY <1>9 DEF IntentFails, RebuildFails, BlockTurn, Reply, Return
  <2>2. QED
    BY <2>1 DEF RetriesInv, RetryInv, BoundInv, AgainInv
<1>10. CASE Accept \/ AcceptUncertain
  <2>1. /\ retryTarget' = retryTarget /\ pc \in {"flight", "peek"}
        /\ pc' = "done" /\ failures' = <<>>
    BY <1>10 DEF Accept, AcceptUncertain, Return
  <2>2. QED
    BY <2>1 DEF RetriesInv, RetryInv, BoundInv, AgainInv
<1>11. CASE Migrate
  <2>1. /\ retryTarget' = retryTarget /\ pc = "final"
        /\ pc' = "select" /\ failures' = <<>> /\ hardPinned' = TRUE
    BY <1>11 DEF Migrate
  <2>2. QED
    BY <2>1 DEF RetriesInv, RetryInv, BoundInv, AgainInv
<1>12. CASE FollowUp
  <2>1. /\ retryTarget' = retryTarget /\ pc = "done" /\ failures' = failures
        /\ pc' = "select" /\ kind' # "normal"
    BY <1>12 DEF FollowUp
  <2>2. QED
    BY <2>1 DEF RetriesInv, RetryInv, BoundInv, AgainInv
<1>13. CASE ClientLeaves \/ ContextEnds \/ UNCHANGED vars
  BY <1>13 DEF ClientLeaves, ContextEnds, vars, RetriesInv, RetryInv, BoundInv, AgainInv
<1>14. QED
  BY StepShapes, <1>1, <1>2, <1>3, <1>4, <1>5, <1>6, <1>7, <1>8, <1>9, <1>10, <1>11, <1>12,
     <1>13

-----------------------------------------------------------------------------
(* The theorems.                                                           *)

\* The inductive invariant of the executor.
IInv ==
  /\ TypeOK
  /\ TargetInv
  /\ BudgetsHold
  /\ PermitsSettled
  /\ RunInv
  /\ OwnerInv
  /\ BlockInv
  /\ RetriesInv

LEMMA InitIInv == Init => IInv
<1> SUFFICES ASSUME Init PROVE IInv
  OBVIOUS
<1>1. TypeOK /\ BudgetsHold
  BY InitType, InitBudgets
<1>2. TargetInv /\ PermitsSettled /\ RunInv /\ BlockInv
  BY DEF Init, TargetInv, PermitsSettled, RunInv, BlockInv, Attempting, Unsent
<1>3. OwnerInv
  BY DEF Init, OwnerInv, Permitted
<1>4. QED
  BY <1>1, <1>2, <1>3, InitRetries DEF IInv

LEMMA StepIInv == IInv /\ [Next]_vars => IInv'
  BY TypeStep, TargetStep, BudgetStep, PermitStep, RunStep, OwnerStep, BlockStep, RetriesStep DEF IInv

\* The inductive invariant holds in every state of every operation.
THEOREM ExecutorInvariant == Spec => []IInv
  BY InitIInv, StepIInv, PTL DEF Spec

\* Whatever retries, switches, migrations and follow-ups an operation goes
\* through, its sends and targets and what is left of its budgets add up.
THEOREM BudgetsAlwaysHold == Spec => []BudgetsHold
<1>1. IInv => BudgetsHold
  BY DEF IInv
<1>2. QED
  BY <1>1, ExecutorInvariant, PTL

\* No attempt that was given up keeps its admission permit.
THEOREM PermitsAlwaysSettled == Spec => []PermitsSettled
<1>1. IInv => PermitsSettled
  BY DEF IInv
<1>2. QED
  BY <1>1, ExecutorInvariant, PTL

\* Provider state is only ever sent to its owner, and a primary_only operation
\* only to the first target.
THEOREM OwnerAlwaysKept == Spec => []OwnerKept
<1>1. IInv => OwnerKept
  BY DEF IInv, OwnerInv, Permitted, OwnerKept
<1>2. QED
  BY <1>1, ExecutorInvariant, PTL

\* A binding moves only by a migration, before any upstream ran the request,
\* to a target that never got it.
THEOREM BindingAlwaysMovesSafely == Spec => BindingMovesSafely
<1> DEFINE Safe == pinned # None /\ pinned' # pinned =>
                     /\ conversation /\ ~blocked /\ runs = 0
                     /\ pinned' # None /\ \A i \in DOMAIN sent : sent[i] # pinned'
<1>1. ASSUME IInv, [Next]_vars PROVE Safe
  <2> USE DEF ownerVars
  <2> SUFFICES ASSUME pinned # None, pinned' # pinned
               PROVE  /\ conversation /\ ~blocked /\ runs = 0
                      /\ pinned' # None /\ \A i \in DOMAIN sent : sent[i] # pinned'
    OBVIOUS
  <2>1. Migrate
    <3>1. ~UnsentEnd /\ ~SentEnd
      BY DEF UnsentEnd, EndUnsent, SentEnd, EndSent
    <3>2. ~SelectNothing /\ ~SelectTarget /\ ~SelectExhausted /\ ~Build /\ ~Admit /\ ~Refresh
      BY DEF SelectNothing, SelectTarget, SelectExhausted, Build, Admit, Refresh
    <3>3. ~Claim /\ ~ClaimFails /\ ~IntentFails /\ ~Dispatch /\ ~StreamStarts
      BY DEF Claim, ClaimFails, IntentFails, Dispatch, StreamStarts
    <3>4. ~Accept /\ ~AcceptUncertain /\ ~RebuildFails /\ ~BlockTurn /\ ~Reply
      BY DEF Accept, AcceptUncertain, RebuildFails, BlockTurn, Reply
    <3>5. ~FollowUp /\ ~ClientLeaves /\ ~ContextEnds /\ ~UNCHANGED vars
      BY DEF FollowUp, ClientLeaves, ContextEnds, vars
    <3>6. QED
      BY <1>1, StepShapes, <3>1, <3>2, <3>3, <3>4, <3>5 DEF IInv
  <2>2. conversation /\ pinned' \in MigrationTargets /\ pc = "final"
    BY <2>1 DEF Migrate, MigrationReady
  <2>3. ~blocked
    BY <1>1, <2>2 DEF IInv, BlockInv
  <2>4. runs = 0
    BY <1>1, <2>1, FinalAnswers DEF IInv, Migrate
  <2>5. pinned' \in Targets /\ pinned' \notin attempted
    BY <2>2, Constants DEF MigrationTargets, Unattempted
  <2>6. pinned' # None
    BY <2>5, Constants DEF Targets, None
  <2>7. \A i \in DOMAIN sent : sent[i] # pinned'
    BY <1>1, <2>5 DEF IInv, BudgetsHold
  <2>8. QED
    BY <2>2, <2>3, <2>4, <2>6, <2>7
<1>2. IInv /\ [Next]_vars => [Safe]_vars
  BY <1>1
<1>3. QED
  BY <1>2, ExecutorInvariant, PTL DEF Spec, BindingMovesSafely

\* A step of the executor is a step of ReplaySafety, or none.
LEMMA StepReplay ==
  ASSUME IInv, [Next]_vars
  PROVE  [Replay!Next]_(Replay!vars)
<1> USE DEF Replay!Next, Replay!vars, Replay!Run, Replay!Answer, Replay!Request, Replay!Verdicts
<1>1. CASE UNCHANGED <<pc, runs, verdict>>
  BY <1>1
<1>2. CASE pc # "done" /\ pc' # "done" /\ UNCHANGED <<runs, verdict>>
  BY <1>2
<1>3. CASE /\ pc # "done" /\ pc' = "done"
           /\ runs' \in {runs, 1}
           /\ verdict' \in {"accepted", "uncertain", "not_executed"}
           /\ verdict' = "not_executed" => runs' = 0
  BY <1>3
<1>4. CASE UnsentEnd
  BY <1>4, <1>2 DEF UnsentEnd, EndUnsent, Proceed, Unsent
<1>5. CASE SentEnd
  <2>1. runs = 0 /\ pc # "done"
    BY <1>5 DEF SentEnd, IInv, RunInv, Attempting
  <2>2. runs' \in {0, 1} /\ pc' # "done" /\ verdict' = verdict
    BY <1>5, <2>1 DEF SentEnd, EndSent, Proceed
  <2>3. QED
    BY <2>1, <2>2
<1>6. CASE SelectNothing \/ SelectTarget \/ SelectExhausted \/ Build \/ Admit \/ Refresh
  BY <1>6, <1>2 DEF SelectNothing, SelectTarget, SelectExhausted, Build, Admit, Refresh
<1>7. CASE Claim \/ ClaimFails \/ Dispatch \/ StreamStarts \/ Migrate
  BY <1>7, <1>2 DEF Claim, ClaimFails, Dispatch, StreamStarts, Migrate
<1>8. CASE IntentFails
  <2>1. runs = 0 /\ runs' = runs /\ pc = "claim" /\ pc' = "done" /\ verdict' = "not_executed"
    BY <1>8 DEF IntentFails, Return, IInv, RunInv, Attempting, Unsent
  <2>2. QED
    BY <2>1, <1>3
<1>9. CASE Accept \/ AcceptUncertain
  <2>1. runs = 0 /\ pc # "done"
    BY <1>9 DEF Accept, AcceptUncertain, IInv, RunInv, Attempting
  <2>2. runs' \in {0, 1} /\ pc' = "done" /\ verdict' \in {"accepted", "uncertain"}
    BY <1>9, <2>1 DEF Accept, AcceptUncertain, Ran, Return
  <2>3. QED
    BY <2>1, <2>2, <1>3
<1>10. CASE RebuildFails
  <2>1. runs = 0
    BY <1>10, FinalAnswers DEF RebuildFails, IInv
  <2>2. runs' = runs /\ pc = "final" /\ pc' = "done" /\ verdict' = "not_executed"
    BY <1>10 DEF RebuildFails, Return
  <2>3. QED
    BY <2>1, <2>2, <1>3
<1>11. CASE BlockTurn
  <2>1. runs' = runs /\ pc = "final" /\ pc' = "done" /\ verdict' = "uncertain"
    BY <1>11 DEF BlockTurn, Return
  <2>2. QED
    BY <2>1, <1>3
<1>12. CASE Reply
  <2>1. PICK f \in FinalFailures :
          Return(IF f.delivery = "ambiguous" THEN "uncertain" ELSE "not_executed")
    BY <1>12 DEF Reply
  <2>2. pc = "final" /\ runs' = runs
    BY <1>12 DEF Reply
  <2>3. f.delivery # "ambiguous" => runs = 0
    BY <2>2, FinalAnswers DEF IInv
  <2>4. pc' = "done" /\ verdict' \in {"uncertain", "not_executed"}
        /\ (verdict' = "not_executed" => runs = 0)
    BY <2>1, <2>3 DEF Return
  <2>5. QED
    BY <2>2, <2>4, <1>3
<1>13. CASE FollowUp
  BY <1>13 DEF FollowUp
<1>14. CASE ClientLeaves \/ ContextEnds \/ UNCHANGED vars
  BY <1>14, <1>1 DEF ClientLeaves, ContextEnds, vars
<1>15. QED
  BY StepShapes, <1>4, <1>5, <1>6, <1>7, <1>8, <1>9, <1>10, <1>11, <1>12, <1>13, <1>14 DEF IInv

\* The executor keeps the promise of ReplaySafety: no request runs twice, and
\* none is called unexecuted after it ran.
THEOREM ExecutorIsReplaySafe == Spec => ImplementsReplaySafety
<1>1. Init => Replay!Init
  BY DEF Init, Replay!Init
<1>2. IInv /\ [Next]_vars => [Replay!Next]_(Replay!vars)
  BY StepReplay
<1>3. QED
  BY <1>1, <1>2, ExecutorInvariant, PTL DEF Spec, ImplementsReplaySafety, Replay!Spec

-----------------------------------------------------------------------------
(* Executions run out: a rank that every step of an execution lowers.      *)

\* The next selection costs no target of the budget: a pending same-target
\* retry, or a binding that was tried before.
Free == retryTarget # None \/ pinned \in attempted

\* The failure at hand will be answered by a migration, if nothing intervenes.
CanMigrate == MigrationReady /\ \E f \in FinalFailures : SafeToMigrate(f)

\* How much may happen until the next target or send is taken from a budget.
Stage ==
  CASE pc = "flight"  -> 12
    [] pc = "peek"    -> 11
    [] pc = "select"  -> IF Free THEN 10 ELSE 3
    [] pc = "build"   -> 9
    [] pc = "admit"   -> 8
    [] pc = "refresh" -> 7
    [] pc = "claim"   -> 6
    [] pc = "reserve" -> 5
    [] pc = "final"   -> IF CanMigrate THEN 4 ELSE 2
    [] pc = "done"    -> 0

\* What is left of the budgets.
Left == targetsLeft + sendsLeft

Rank == 10 * Left + Stage

\* Numbers the rank is made of.
RankTyped ==
  Rank \in Nat /\ Stage \in 0..12 /\ Left \in Nat /\ targetsLeft \in Nat /\ sendsLeft \in Nat

\* In a state of the right type the rank is a number.
LEMMA RankType == TypeOK => RankTyped
<1> SUFFICES ASSUME TypeOK PROVE RankTyped
  OBVIOUS
<1>1. Stage \in 0..12
  BY DEF Stage, TypeOK
<1>2. targetsLeft \in Nat /\ sendsLeft \in Nat
  BY DEF TypeOK
<1>3. Left \in Nat
  BY <1>2 DEF Left
<1>4. Rank \in Nat
  BY <1>1, <1>3 DEF Rank
<1>5. QED
  BY <1>1, <1>2, <1>3, <1>4 DEF RankTyped

\* The same of the next state.
LEMMA RankTypeNext == TypeOK' => RankTyped'
  BY RankType, PTL

\* Without a binding, a failure, a target left or a caller there is no migration.
Unmovable == pinned = None \/ failures = <<>> \/ targetsLeft = 0 \/ Stopped \/ ~inbound

LEMMA CannotMigrate == Unmovable => ~CanMigrate
<1>1. pinned = None \/ targetsLeft = 0 \/ Stopped \/ ~inbound => ~MigrationReady
  BY DEF MigrationReady, RetryAdmissionOpen
<1>2. ~SafeToMigrate(NoTargetFailure)
  BY DEF SafeToMigrate, NoTargetFailure, Failure
<1>3. failures = <<>> => FinalFailures = {NoTargetFailure}
  BY DEF FinalFailures
<1>4. QED
  BY <1>1, <1>2, <1>3 DEF CanMigrate, Unmovable

\* The same of the next state.
LEMMA CannotMigrateNext == Unmovable' => ~CanMigrate'
  BY CannotMigrate, PTL

\* Selecting for an unbound operation, or for a binding that was not tried.
LEMMA HungryStage ==
  ASSUME pc = "select", ~Free
  PROVE  Stage = 3 /\ retryTarget = None /\ pinned \notin attempted
  BY DEF Stage, Free

\* The rank falls when its budgets stay and its stage falls, or when a target
\* or a send is used up and the stage rises by less.
LEMMA RankLess ==
  ASSUME TypeOK, TypeOK',
         \/ Left' = Left /\ Stage' < Stage
         \/ Left' = Left - 1 /\ Stage' < Stage + 10
  PROVE  Rank' < Rank
<1> DEFINE l == Left
           k == Left'
           s == Stage
           t == Stage'
<1>1. l \in Int /\ s \in Int
  BY RankType DEF RankTyped
<1>2. k \in Int /\ t \in Int
  BY RankTypeNext DEF RankTyped
<1>3. Rank = 10 * l + s /\ Rank' = 10 * k + t
  BY DEF Rank
<1>4. (k = l /\ t < s) \/ (k = l - 1 /\ t < s + 10)
  OBVIOUS
<1> HIDE DEF l, k, s, t
<1>5. QED
  BY <1>1, <1>2, <1>3, <1>4

\* A selection takes a target from the budget, uses up a same-target retry or
\* gives up.
LEMMA SelectFalls ==
  ASSUME IInv, IInv', SelectNothing \/ SelectTarget \/ SelectExhausted
  PROVE  Rank' < Rank
<1>1. TypeOK /\ TypeOK' /\ pc = "select"
  BY DEF IInv, SelectNothing, SelectTarget, SelectExhausted
<1>2. Free => Stage = 10
  BY <1>1 DEF Stage
<1>3. targetsLeft \in Nat /\ sendsLeft \in Nat
  BY <1>1, RankType DEF RankTyped
<1>4. CASE SelectTarget
  <2>1. PICK t \in NextTargets :
          /\ t \in attempted \/ targetsLeft > 0
          /\ targetsLeft' = targetsLeft - TargetCost(t)
    BY <1>4 DEF SelectTarget
  <2>2. sendsLeft' = sendsLeft /\ Stage' = 9
    BY <1>4 DEF SelectTarget, Stage
  <2>3. CASE Free
    <3>1. Left' \in {Left, Left - 1}
      BY <1>3, <2>1, <2>2 DEF TargetCost, Left
    <3>2. QED
      BY <1>1, <1>2, <2>2, <2>3, <3>1, RankLess
  <2>4. CASE ~Free
    <3>1. Stage = 3 /\ retryTarget = None /\ pinned \notin attempted
      BY <1>1, <2>4, HungryStage
    <3>2. t \notin attempted
      BY <3>1 DEF NextTargets, Candidates, Unattempted
    <3>3. Left' = Left - 1
      BY <1>3, <2>1, <2>2, <3>2 DEF TargetCost, Left
    <3>4. QED
      BY <1>1, <1>3, <2>2, <3>1, <3>3, RankLess
  <2>5. QED
    BY <2>3, <2>4
<1>5. CASE SelectNothing \/ SelectExhausted
  <2>1. pc' = "final" /\ UNCHANGED <<pinned, targetsLeft>> /\ Left' = Left
    BY <1>5 DEF SelectNothing, SelectExhausted, ownerVars, budgetVars, Left
  <2>2. Stage' \in {2, 4} /\ (~CanMigrate' => Stage' = 2)
    BY <2>1 DEF Stage
  <2>3. CASE Free
    BY <1>1, <1>2, <1>3, <2>1, <2>2, <2>3, RankLess
  <2>4. CASE ~Free
    <3>1. Stage = 3 /\ retryTarget = None
      BY <1>1, <2>4, HungryStage
    <3>2. SelectNothing => pinned' = None \/ failures' = <<>>
      BY <1>1, <2>1, <3>1 DEF SelectNothing, IInv, RetriesInv, AgainInv
    <3>3. SelectExhausted => targetsLeft' = 0
      BY <2>1 DEF SelectExhausted
    <3>4. ~CanMigrate'
      BY <1>5, <3>2, <3>3, CannotMigrateNext DEF Unmovable
    <3>5. QED
      BY <1>1, <1>3, <2>1, <2>2, <3>1, <3>4, RankLess
  <2>5. QED
    BY <2>3, <2>4
<1>6. QED
  BY <1>4, <1>5

\* An attempt that ends goes back to the selection or to the final answer, both
\* of which are lower than any attempt with the same budgets.
LEMMA EndFalls ==
  ASSUME IInv, IInv', UnsentEnd \/ SentEnd
  PROVE  Rank' < Rank
<1>1. TypeOK /\ TypeOK' /\ attempted' \subseteq Targets
  BY DEF IInv, TypeOK
<1>2. pc' = "final" => Stage' \in {2, 4}
  BY DEF Stage
<1>3. targetsLeft \in Nat /\ sendsLeft \in Nat
  BY <1>1, RankType DEF RankTyped
<1>4. CASE UnsentEnd
  <2>1. Stage \in 5..9
    BY <1>4 DEF UnsentEnd, Unsent, Stage
  <2>2. /\ Left' = Left /\ retryTarget' = None
        /\ pc' = "final" \/ (pc' = "select" /\ pinned' = None)
    BY <1>4, UnsentEndAgain DEF IInv, Left
  <2>3. pc' = "select" => Stage' = 3
    BY <1>1, <2>2, NoTarget DEF Stage, Free
  <2>4. Stage' < Stage
    BY <1>2, <2>1, <2>2, <2>3
  <2>5. QED
    BY <1>1, <1>3, <2>2, <2>4, RankLess
<1>5. CASE SentEnd
  <2>1. Stage \in 11..12
    BY <1>5 DEF SentEnd, Stage
  <2>2. Left' = Left /\ pc' \in {"final", "select"}
    BY <1>1, <1>5, SentEndAgain DEF IInv, Left
  <2>3. pc' = "select" => Stage' \in {3, 10}
    BY DEF Stage
  <2>4. Stage' < Stage
    BY <1>2, <2>1, <2>2, <2>3
  <2>5. QED
    BY <1>1, <1>3, <2>2, <2>4, RankLess
<1>6. QED
  BY <1>4, <1>5

\* The steps of an attempt follow each other, and its dispatch takes a send.
LEMMA AttemptFalls ==
  ASSUME IInv, IInv',
         Build \/ Admit \/ Refresh \/ Claim \/ ClaimFails \/ Dispatch \/ StreamStarts
  PROVE  Rank' < Rank
<1> USE DEF budgetVars
<1>1. TypeOK /\ TypeOK'
  BY DEF IInv
<1>2. targetsLeft \in Nat /\ sendsLeft \in Nat
  BY <1>1, RankType DEF RankTyped
<1>3. CASE Build \/ Admit \/ Refresh \/ Claim \/ StreamStarts
  <2>1. Left' = Left
    BY <1>3 DEF Build, Admit, Refresh, Claim, StreamStarts, Left
  <2>2. Stage' < Stage
    BY <1>3 DEF Build, Admit, Refresh, Claim, StreamStarts, Stage
  <2>3. QED
    BY <1>1, <1>2, <2>1, <2>2, RankLess
<1>4. CASE ClaimFails
  <2>1. Left' = Left
    BY <1>4 DEF ClaimFails, Left
  <2>2. Stage = 6 /\ Stage' \in {2, 4}
    BY <1>4 DEF ClaimFails, Stage
  <2>3. QED
    BY <1>1, <1>2, <2>1, <2>2, RankLess
<1>5. CASE Dispatch
  <2>1. Left' = Left - 1
    BY <1>2, <1>5 DEF Dispatch, Left
  <2>2. Stage = 5 /\ Stage' \in {11, 12}
    BY <1>5 DEF Dispatch, Stage
  <2>3. QED
    BY <1>1, <1>2, <2>1, <2>2, RankLess
<1>6. QED
  BY <1>3, <1>4, <1>5

\* What comes after a final failure, and the returns.
LEMMA ReturnFalls ==
  ASSUME IInv, IInv',
         Migrate \/ IntentFails \/ Accept \/ AcceptUncertain \/ RebuildFails \/ BlockTurn \/ Reply
  PROVE  Rank' < Rank
<1> USE DEF budgetVars
<1>1. TypeOK /\ TypeOK'
  BY DEF IInv
<1>2. targetsLeft \in Nat /\ sendsLeft \in Nat
  BY <1>1, RankType DEF RankTyped
<1>3. CASE Migrate
  <2>1. /\ pc = "final" /\ pc' = "select" /\ CanMigrate
        /\ UNCHANGED <<attempted, retryTarget>> /\ Left' = Left
        /\ pinned' \in Unattempted
    BY <1>3 DEF Migrate, CanMigrate, MigrationTargets, IsFirst, attemptVars, Left
  <2>2. retryTarget' = None /\ pinned' \notin attempted'
    BY <2>1 DEF IInv, RetriesInv, RetryInv, Unattempted
  <2>3. Stage = 4
    BY <2>1 DEF Stage
  <2>4. Stage' = 3
    BY <2>1, <2>2 DEF Stage, Free
  <2>5. QED
    BY <1>1, <1>2, <2>1, <2>3, <2>4, RankLess
<1>4. CASE IntentFails \/ Accept \/ AcceptUncertain
  <2>1. /\ pc \in {"claim", "flight", "peek"} /\ pc' = "done"
        /\ Left' = Left
    BY <1>4 DEF IntentFails, Accept, AcceptUncertain, Return, Left
  <2>2. Stage \in {6, 11, 12} /\ Stage' = 0
    BY <2>1 DEF Stage
  <2>3. QED
    BY <1>1, <1>2, <2>1, <2>2, RankLess
<1>5. CASE RebuildFails \/ BlockTurn \/ Reply
  <2>1. /\ pc = "final" /\ pc' = "done"
        /\ Left' = Left
    BY <1>5 DEF RebuildFails, BlockTurn, Reply, Return, Left
  <2>2. Stage \in {2, 4} /\ Stage' = 0
    BY <2>1 DEF Stage
  <2>3. QED
    BY <1>1, <1>2, <2>1, <2>2, RankLess
<1>6. QED
  BY <1>3, <1>4, <1>5

\* The end of the client or of the context can only take a migration away.
LEMMA EnvironmentKeeps ==
  ASSUME IInv, IInv', ClientLeaves \/ ContextEnds
  PROVE  Rank' <= Rank /\ pc' = pc
<1> USE DEF budgetVars, ownerVars, attemptVars
<1>1. TypeOK /\ TypeOK'
  BY DEF IInv
<1>2. UNCHANGED <<pc, attempted, pinned, retryTarget>> /\ Left' = Left
  BY DEF ClientLeaves, ContextEnds, Left
<1>3. Stopped' \/ ~inbound'
  BY DEF ClientLeaves, ContextEnds, Stopped
<1>4. ~CanMigrate'
  BY <1>3, CannotMigrateNext DEF Unmovable
<1>5. pc # "final" => Stage' = Stage
  BY <1>1, <1>2 DEF Stage, Free, TypeOK
<1>6. pc = "final" => Stage' = 2 /\ Stage \in {2, 4}
  BY <1>2, <1>4 DEF Stage
<1>7. Stage' <= Stage /\ Stage \in Int /\ Stage' \in Int
  <2>1. Stage \in Int
    BY <1>1, RankType DEF RankTyped
  <2>2. QED
    BY <1>5, <1>6, <2>1
<1>8. Left \in Int
  BY <1>1, RankType DEF RankTyped
<1> DEFINE l == Left
           s == Stage
           t == Stage'
<1>9. Rank = 10 * l + s /\ Rank' = 10 * l + t
  BY <1>2 DEF Rank
<1>10. t <= s /\ s \in Int /\ t \in Int /\ l \in Int
  BY <1>7, <1>8
<1> HIDE DEF l, s, t
<1>11. QED
  BY <1>2, <1>9, <1>10

\* A rank changes with the variables only.
LEMMA StutterKeeps ==
  ASSUME UNCHANGED vars
  PROVE  Rank' = Rank /\ pc' = pc
  BY DEF vars, requestVars, budgetVars, ownerVars, turnVars, attemptVars, envVars, Rank, Left, Stage,
         Free, CanMigrate, MigrationReady, RetryAdmissionOpen, Stopped, MigrationTargets,
         Unattempted, FinalFailures, NoTargetFailure, Failure, IsFinal, Strongest, IsFirst,
         Precedence, SafeToMigrate

\* A step of a running execution never raises its rank, and one that moves it
\* lowers it.
LEMMA RankFalls ==
  ASSUME IInv, IInv', [Next]_vars, pc # "done"
  PROVE  Rank' <= Rank /\ (pc' # pc => Rank' < Rank)
<1>1. Rank \in Nat
  BY RankType DEF IInv, RankTyped
<1>2. Rank' \in Nat
  BY RankTypeNext DEF IInv, RankTyped
<1>3. CASE Rank' < Rank
  BY <1>1, <1>2, <1>3
<1>4. CASE Rank' <= Rank /\ pc' = pc
  BY <1>4
<1>5. ~FollowUp
  BY DEF FollowUp
<1>6. CASE UnsentEnd \/ SentEnd
  BY <1>3, <1>6, EndFalls
<1>7. CASE SelectNothing \/ SelectTarget \/ SelectExhausted
  BY <1>3, <1>7, SelectFalls
<1>8. CASE Build \/ Admit \/ Refresh \/ Claim \/ ClaimFails \/ Dispatch \/ StreamStarts
  BY <1>3, <1>8, AttemptFalls
<1>9. CASE Migrate \/ IntentFails \/ Accept \/ AcceptUncertain \/ RebuildFails \/ BlockTurn \/ Reply
  BY <1>3, <1>9, ReturnFalls
<1>10. CASE ClientLeaves \/ ContextEnds
  BY <1>4, <1>10, EnvironmentKeeps
<1>11. CASE UNCHANGED vars
  BY <1>1, <1>4, <1>11, StutterKeeps
<1>12. QED
  BY StepShapes, <1>5, <1>6, <1>7, <1>8, <1>9, <1>10, <1>11 DEF IInv

\* No execution goes on for ever: whatever retries, switches and migrations it
\* goes through, each of its steps uses up some of its rank, and neither the
\* client nor the end of the context gives it more (executeExplicitRouteRequestPath).
ExecutionRunsOut ==
  [][pc # "done" => Rank' <= Rank /\ (pc' # pc => Rank' < Rank)]_vars

THEOREM ExecutionAlwaysRunsOut == Spec => ExecutionRunsOut
<1> DEFINE Falls == pc # "done" => Rank' <= Rank /\ (pc' # pc => Rank' < Rank)
<1>1. IInv /\ IInv' /\ [Next]_vars => [Falls]_vars
  BY RankFalls
<1>2. QED
  BY <1>1, ExecutorInvariant, PTL DEF Spec, ExecutionRunsOut

\* The rank is a number bounded by the operation's budgets, so an execution has
\* only so many steps of its own.
RankBounded == Rank \in 0..(10 * (budget.targets + budget.sends) + 12)

THEOREM RankAlwaysBounded == Spec => []RankBounded
<1>1. ASSUME IInv PROVE RankBounded
  <2>1. RankTyped
    BY <1>1, RankType DEF IInv
  <2>2. Cardinality(attempted) \in Nat /\ Len(sent) \in Nat
    BY <1>1, FiniteTargets DEF IInv, TypeOK
  <2>3. /\ sendsLeft + Len(sent) = budget.sends
        /\ targetsLeft + Cardinality(attempted) = budget.targets
    BY <1>1 DEF IInv, BudgetsHold
  <2> DEFINE all == budget.targets + budget.sends
             l == Left
             s == Stage
  <2>4. all \in Nat /\ l <= all
    BY <2>1, <2>2, <2>3 DEF RankTyped, Left
  <2>5. l \in Nat /\ s \in 0..12 /\ Rank \in Nat /\ Rank = 10 * l + s
    BY <2>1 DEF RankTyped, Rank
  <2> HIDE DEF all, l, s
  <2>6. Rank \in 0..(10 * all + 12)
    BY <2>4, <2>5
  <2>7. QED
    BY <2>6 DEF RankBounded, all
<1>2. QED
  BY <1>1, ExecutorInvariant, PTL

\* With the fairness of the executor, an execution of any rank ends or falls to
\* a lower one: each round of the argument that every execution ends.
THEOREM ExecutionProgresses ==
  ASSUME NEW n \in Nat
  PROVE  FairSpec => ((pc # "done" /\ Rank = n) ~> (pc = "done" \/ Rank < n))
<1> DEFINE Here == pc # "done" /\ Rank = n
           Lower == pc = "done" \/ Rank < n
<1>1. IInv /\ IInv' /\ Here /\ [Next]_vars => Here' \/ Lower'
  <2>1. ASSUME IInv, IInv', Here, [Next]_vars PROVE Rank' <= n /\ Rank' \in Nat
    BY <2>1, RankTypeNext, RankFalls DEF IInv, RankTyped
  <2>2. QED
    BY <2>1
<1>2. IInv /\ IInv' /\ Here /\ [Next]_vars /\ <<pc' # pc>>_pc => Lower'
  BY RankFalls
<1>3. pc = "done" => Lower
  OBVIOUS
<1> HIDE DEF Here, Lower
<1>4. FairSpec => (Here ~> Lower)
  BY <1>1, <1>2, <1>3, ExecutorInvariant, PTL DEF FairSpec, Spec
<1>5. QED
  BY <1>4 DEF Here, Lower
=============================================================================

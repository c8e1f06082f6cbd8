------------------------- MODULE AzureTrafficProofs -------------------------
(***************************************************************************)
(* Proofs about AzureTraffic, for every set of callers, entries and keys,  *)
(* every delay and limit: who owns a probe, what an abandoned body does to *)
(* it, and that nobody passes a recovery queue.                            *)
(***************************************************************************)
EXTENDS AzureTraffic, SequenceTheorems, TLAPS

\* The part of the types the probe invariant needs.
ProbeTypes ==
  /\ cooldowns \in [Keys -> Entries \cup {NoEntry}]
  /\ probe \in [Entries -> BOOLEAN]
  /\ pc \in [Callers -> {"idle", "check", "admit", "wait", "leave", "send",
                         "body", "end"}]
  /\ key \in [Callers -> Keys]
  /\ permit \in [Callers -> PermitType]

\* A caller between attempts owns nothing.
IdleHoldsNothing ==
  \A c \in Callers : pc[c] \notin {"send", "body", "end"} => ~Holding(c)

\* An unresolved permit belongs to the live entry of its deployment.
PermitLive ==
  \A c \in Callers :
    Holding(c) => cooldowns[key[c]] = permit[c].entry /\ probe[permit[c].entry]

\* Two deployments never share an entry.
EntriesDistinct ==
  \A k, l \in Keys : cooldowns[k] = cooldowns[l] /\ cooldowns[k] # NoEntry => k = l

\* Two callers never own the probe of one entry.
OwnerUnique ==
  \A c, d \in Callers :
    Holding(c) /\ Holding(d) /\ permit[c].entry = permit[d].entry => c = d

ProbeInv ==
  ProbeTypes /\ IdleHoldsNothing /\ PermitLive /\ EntriesDistinct /\ OwnerUnique

\* Initially no entry is tracked and no permit exists.
LEMMA InitProbeInv == Init => ProbeInv
  BY NoEntryAssumption
  DEF Init, ProbeInv, ProbeTypes, IdleHoldsNothing, PermitLive, EntriesDistinct,
      OwnerUnique, Holding, NoPermit, NewPermit, PermitType

PCs == {"idle", "check", "admit", "wait", "leave", "send", "body", "end"}
InAttempt == {"send", "body", "end"}

\* A step that touches neither the entries nor the ownership of any permit.
LEMMA QuietStep ==
  ASSUME ProbeInv, UNCHANGED <<cooldowns, probe>>,
         permit' \in [Callers -> PermitType], key' \in [Callers -> Keys],
         pc' \in [Callers -> PCs],
         \A d \in Callers :
           Holding(d)' => /\ Holding(d)
                          /\ permit'[d].entry = permit[d].entry
                          /\ key'[d] = key[d]
                          /\ pc'[d] \in InAttempt
  PROVE  ProbeInv'
  BY DEF ProbeInv, ProbeTypes, IdleHoldsNothing, PermitLive, EntriesDistinct,
         OwnerUnique, PCs, InAttempt

\* releaseProbeLocked frees the probe of its owner and of nobody else, and
\* drops no entry another caller still probes.
LEMMA ReleaseProbeStep ==
  ASSUME ProbeInv, NEW c \in Callers, NEW p \in PermitType,
         p.entry = permit[c].entry, p.released = permit[c].released,
         ReleaseProbe(c, p), key' = key, pc' \in [Callers -> PCs],
         \A d \in Callers : Holding(d) => pc'[d] \in InAttempt
  PROVE  ProbeInv'
<1> DEFINE q == [p EXCEPT !.released = TRUE]
<1>1. q \in PermitType /\ q.entry = p.entry /\ q.released
  BY DEF PermitType
<1>2. permit' = [permit EXCEPT ![c] = q]
  BY DEF ReleaseProbe
<1>3. permit' \in [Callers -> PermitType]
  BY <1>1, <1>2 DEF ProbeInv, ProbeTypes
<1>4. ~Holding(c)'
  BY <1>1, <1>2 DEF ProbeInv, ProbeTypes, Holding
<1>5. \A d \in Callers : d # c => permit'[d] = permit[d]
  BY <1>2 DEF ProbeInv, ProbeTypes
<1> HIDE DEF q
<1>6. CASE p.released
  <2>1. UNCHANGED <<cooldowns, probe>>
    BY <1>6 DEF ReleaseProbe
  <2> QED
    BY <2>1, <1>3, <1>4, <1>5, QuietStep DEF Holding, ProbeInv, ProbeTypes
<1>7. CASE ~p.released
  <2>1. probe' = [probe EXCEPT ![p.entry] = FALSE]
    BY <1>7 DEF ReleaseProbe
  <2>2. \A k \in Keys : cooldowns'[k] = cooldowns[k]
                        \/ (k = key[c] /\ cooldowns[k] = p.entry /\ cooldowns'[k] = NoEntry)
    BY <1>7 DEF ReleaseProbe, EntryKept, EntryOf, ProbeInv, ProbeTypes
  <2>3. ProbeTypes'
    BY <1>3, <1>7, <2>1 DEF ReleaseProbe, ProbeInv, ProbeTypes, PCs
  <2>4. IdleHoldsNothing'
    BY <1>4, <1>5 DEF IdleHoldsNothing, Holding, ProbeInv, InAttempt
  <2>5. ASSUME NEW d \in Callers, Holding(d)'
        PROVE  cooldowns'[key[d]] = permit'[d].entry /\ probe'[permit'[d].entry]
    <3>1. d # c /\ Holding(d) /\ permit'[d] = permit[d]
      BY <1>4, <1>5, <2>5 DEF Holding
    <3>2. cooldowns[key[d]] = permit[d].entry /\ probe[permit[d].entry]
      BY <3>1 DEF ProbeInv, PermitLive
    <3>3. permit[d].entry # p.entry
      <4>1. SUFFICES ASSUME permit[d].entry = p.entry PROVE FALSE
        OBVIOUS
      <4>2. Holding(c)
        BY <1>7, <3>1, <4>1 DEF Holding
      <4> QED
        BY <3>1, <4>1, <4>2 DEF ProbeInv, OwnerUnique
    <3> QED
      BY <2>1, <2>2, <3>1, <3>2, <3>3 DEF ProbeInv, ProbeTypes
  <2>6. PermitLive'
    BY <2>5 DEF PermitLive
  <2>7. EntriesDistinct'
    BY <2>2 DEF EntriesDistinct, ProbeInv
  <2>8. OwnerUnique'
    BY <1>4, <1>5 DEF OwnerUnique, Holding, ProbeInv
  <2> QED
    BY <2>3, <2>4, <2>6, <2>7, <2>8 DEF ProbeInv
<1> QED
  BY <1>6, <1>7

\* releaseIfCompleteLocked: the same, when the attempt is not complete yet.
LEMMA ReleaseIfCompleteStep ==
  ASSUME ProbeInv, NEW c \in Callers, NEW p \in PermitType,
         p.entry = permit[c].entry, p.released = permit[c].released,
         ReleaseIfComplete(c, p), key' = key, pc' \in [Callers -> PCs],
         \A d \in Callers : Holding(d) => pc'[d] \in InAttempt
  PROVE  ProbeInv'
<1>1. CASE Complete(p)
  BY <1>1, ReleaseProbeStep DEF ReleaseIfComplete
<1>2. CASE ~Complete(p)
  <2>1. permit' = [permit EXCEPT ![c] = p] /\ UNCHANGED <<cooldowns, probe>>
    BY <1>2 DEF ReleaseIfComplete
  <2>2. permit' \in [Callers -> PermitType]
    BY <2>1 DEF ProbeInv, ProbeTypes
  <2>3. \A d \in Callers : Holding(d)' <=> Holding(d)
    BY <2>1 DEF ProbeInv, ProbeTypes, Holding
  <2>4. \A d \in Callers : permit'[d].entry = permit[d].entry
    BY <2>1 DEF ProbeInv, ProbeTypes
  <2> QED
    BY <2>1, <2>2, <2>3, <2>4, QuietStep DEF ProbeInv, ProbeTypes
<1> QED
  BY <1>1, <1>2

\* A recorded throttle may add the entry of its own deployment or drop idle
\* ones; a probed entry is neither dropped nor shared.
LEMMA ThrottleStep ==
  ASSUME ProbeInv, NEW k \in Keys, NEW d \in Delays, Throttle(k, d),
         key' = key, pc' = pc
  PROVE  ProbeInv'
<1>1. permit' = permit /\ probe' = probe
  BY DEF Throttle
<1>2. CASE cooldowns' = cooldowns
  BY <1>1, <1>2, QuietStep DEF ProbeInv, ProbeTypes, Holding, PCs, IdleHoldsNothing, InAttempt
<1>3. CASE cooldowns[k] = NoEntry
  <2>1. \A l \in Keys : AfterSweep[l] \in {cooldowns[l], NoEntry}
    BY DEF AfterSweep
  <2>2. \A l \in Keys : cooldowns[l] # NoEntry /\ probe[cooldowns[l]]
                          => AfterSweep[l] = cooldowns[l]
    BY DEF AfterSweep, Swept
  <2>3. AfterSweep \in [Keys -> Entries \cup {NoEntry}]
    BY <2>1 DEF AfterSweep, ProbeInv, ProbeTypes
  <2>4. PICK x \in Entries \cup {NoEntry} :
          /\ cooldowns' = [AfterSweep EXCEPT ![k] = x]
          /\ x # NoEntry => x \in Unreferenced
    <3>1. CASE cooldowns' = AfterSweep
      <4>1. AfterSweep = [AfterSweep EXCEPT ![k] = NoEntry]
        BY <1>3, <2>1, <2>3
      <4> QED
        BY <3>1, <4>1
    <3>2. CASE \E e \in Unreferenced : cooldowns' = [AfterSweep EXCEPT ![k] = e]
      BY <3>2, NoEntryAssumption DEF Unreferenced
    <3> QED
      BY <1>3, <3>1, <3>2 DEF Throttle
  <2>5. ProbeTypes'
    BY <1>1, <2>3, <2>4 DEF ProbeInv, ProbeTypes
  <2>6. IdleHoldsNothing' /\ OwnerUnique'
    BY <1>1 DEF ProbeInv, IdleHoldsNothing, OwnerUnique, Holding
  <2>7. PermitLive'
    <3>1. SUFFICES ASSUME NEW c \in Callers, Holding(c)
                   PROVE  cooldowns'[key[c]] = permit[c].entry /\ probe[permit[c].entry]
      BY <1>1 DEF PermitLive, Holding
    <3>2. cooldowns[key[c]] = permit[c].entry /\ probe[permit[c].entry]
      BY <3>1 DEF ProbeInv, PermitLive
    <3>3. key[c] # k /\ key[c] \in Keys
      BY <1>3, <3>1, <3>2 DEF Holding, ProbeInv, ProbeTypes
    <3> QED
      BY <2>2, <2>3, <2>4, <3>1, <3>2, <3>3 DEF Holding
  <2>8. EntriesDistinct'
    <3>1. SUFFICES ASSUME NEW l \in Keys, NEW m \in Keys, l # m,
                          cooldowns'[l] = cooldowns'[m], cooldowns'[l] # NoEntry
                   PROVE  FALSE
      BY DEF EntriesDistinct
    <3>2. \A n \in Keys : n # k => cooldowns'[n] = AfterSweep[n]
      BY <2>3, <2>4
    <3>3. cooldowns'[k] = x
      BY <2>3, <2>4
    <3>4. \A n \in Keys : cooldowns'[n] # NoEntry /\ n # k => cooldowns'[n] = cooldowns[n]
      BY <2>1, <3>2
    <3>5. \A n \in Keys : n # k /\ cooldowns'[n] # NoEntry => cooldowns'[n] # x
      BY <2>4, <3>4 DEF Unreferenced, LiveEntries, ProbeInv, ProbeTypes
    <3> QED
      BY <3>1, <3>3, <3>4, <3>5 DEF EntriesDistinct, ProbeInv
  <2> QED
    BY <2>5, <2>6, <2>7, <2>8 DEF ProbeInv
<1> QED
  BY <1>2, <1>3 DEF Throttle

\* The grant: an entry without a probe has no owner yet.
LEMMA GrantStep ==
  ASSUME ProbeInv, NEW c \in Callers, AdmitGranted(c)
  PROVE  ProbeInv'
<1> DEFINE e == EntryOf(c)
<1>1. e \in Entries /\ ~probe[e] /\ cooldowns[key[c]] = e
  BY DEF AdmitGranted, MayAdmit, Admissible, EntryOf, ProbeInv, ProbeTypes
<1>2. /\ probe' = [probe EXCEPT ![e] = TRUE]
      /\ permit' = [permit EXCEPT ![c] = NewPermit(e)]
      /\ UNCHANGED <<cooldowns, key>>
      /\ pc' = [pc EXCEPT ![c] = "send"]
  BY DEF AdmitGranted, Returned
<1>3. NewPermit(e) \in PermitType
  <2>1. \A x \in Entries : NewPermit(x) \in PermitType
    BY DEF NewPermit, PermitType
  <2> QED
    BY <1>1, <2>1
<1> HIDE DEF e
<1>4. ProbeTypes'
  BY <1>2, <1>3 DEF ProbeInv, ProbeTypes
<1>5. permit'[c].entry = e
  BY <1>2 DEF ProbeInv, ProbeTypes, NewPermit
<1>6. \A d \in Callers : d # c => permit'[d] = permit[d] /\ pc'[d] = pc[d]
  BY <1>2 DEF ProbeInv, ProbeTypes
<1>7. pc'[c] = "send"
  BY <1>2 DEF ProbeInv, ProbeTypes
<1>8. \A d \in Callers : Holding(d) => permit[d].entry # e
  BY <1>1 DEF ProbeInv, PermitLive
<1>9. IdleHoldsNothing'
  BY <1>6, <1>7 DEF ProbeInv, IdleHoldsNothing, Holding
<1>10. PermitLive'
  BY <1>1, <1>2, <1>5, <1>6, <1>8 DEF ProbeInv, ProbeTypes, PermitLive, Holding
<1>11. EntriesDistinct'
  BY <1>2 DEF ProbeInv, EntriesDistinct
<1>12. OwnerUnique'
  BY <1>5, <1>6, <1>8 DEF ProbeInv, OwnerUnique, Holding
<1> QED
  BY <1>4, <1>9, <1>10, <1>11, <1>12 DEF ProbeInv

\* The body steps release, at most, the permit of their own attempt.
LEMMA ReleasesItsOwnPermit ==
  ASSUME NEW c \in Callers, permit[c] \in PermitType,
         ReadEnd(c) \/ Resolve(c) \/ AcceptedEOF(c) \/ ReadRelease(c)
           \/ CloseEnd(c) \/ CloseRelease(c) \/ Abandon(c) \/ (SendFailed(c) /\ Held(c))
  PROVE  \E p : /\ p \in PermitType
                /\ p.entry = permit[c].entry /\ p.released = permit[c].released
                /\ ReleaseIfComplete(c, p) \/ ReleaseProbe(c, p)
<1>1. CASE ReadEnd(c)
  <2> WITNESS [permit[c] EXCEPT !.reads = @ - 1]
  <2> QED
    BY <1>1 DEF ReadEnd, PermitType
<1>2. CASE Resolve(c)
  <2> WITNESS [permit[c] EXCEPT !.ended = TRUE]
  <2> QED
    BY <1>2 DEF Resolve, PermitType
<1>3. CASE AcceptedEOF(c)
  <2> WITNESS [permit[c] EXCEPT !.bodyPending = FALSE, !.ended = TRUE]
  <2> QED
    BY <1>3 DEF AcceptedEOF, PermitType
<1>4. CASE CloseEnd(c)
  <2> WITNESS [permit[c] EXCEPT !.bodyPending = FALSE]
  <2> QED
    BY <1>4 DEF CloseEnd, PermitType
<1>5. CASE ReadRelease(c) \/ CloseRelease(c) \/ Abandon(c) \/ (SendFailed(c) /\ Held(c))
  <2> WITNESS [permit[c] EXCEPT !.requested = TRUE]
  <2> QED
    BY <1>5 DEF ReadRelease, CloseRelease, Abandon, SendFailed, PermitType
<1> QED
  BY <1>1, <1>2, <1>3, <1>4, <1>5

\* Every step keeps the probe invariant.
LEMMA NextProbeInv == ProbeInv /\ [Next]_vars => ProbeInv'
<1> SUFFICES ASSUME ProbeInv, [Next]_vars PROVE ProbeInv'
  OBVIOUS
<1> USE DEF entryVars, queueVars, callVars, bodyVars, envVars
<1>0. /\ permit \in [Callers -> PermitType] /\ key \in [Callers -> Keys]
      /\ pc \in [Callers -> PCs]
      /\ \A d \in Callers : Holding(d) => pc[d] \in InAttempt
  BY DEF ProbeInv, ProbeTypes, IdleHoldsNothing, PCs, InAttempt
<1>1. ASSUME NEW c \in Callers, Start(c) PROVE ProbeInv'
  <2>1. /\ UNCHANGED <<cooldowns, probe, permit>>
        /\ key' \in [Callers -> Keys] /\ pc' \in [Callers -> PCs]
        /\ \A d \in Callers : d # c => key'[d] = key[d] /\ pc'[d] = pc[d]
        /\ ~Holding(c)
    BY <1>0, <1>1 DEF Start, PCs, InAttempt
  <2> QED
    BY <1>0, <2>1, QuietStep DEF Holding
<1>2. ASSUME NEW c \in Callers, Admit(c) PROVE ProbeInv'
  <2>1. CASE AdmitGranted(c)
    BY <2>1, GrantStep
  <2>2. CASE ~AdmitGranted(c)
    <3>1. /\ UNCHANGED <<cooldowns, probe, permit, key>>
          /\ pc' \in [Callers -> PCs]
          /\ \A d \in Callers : d # c => pc'[d] = pc[d]
          /\ ~Holding(c)
      BY <1>0, <1>2, <2>2
      DEF Admit, Check, AdmitAborted, AdmitUntracked, AdmitRejected, AdmitFull, AdmitWaits,
          Wake, Leave, Return, Returned, InLoop, MayAdmit, PCs, InAttempt
    <3> QED
      BY <1>0, <3>1, QuietStep DEF Holding
  <2> QED
    BY <2>1, <2>2
<1>3. ASSUME NEW c \in Callers, SendFailed(c) PROVE ProbeInv'
  <2>1. key' = key /\ pc' \in [Callers -> PCs]
        /\ \A d \in Callers : Holding(d) => pc'[d] \in InAttempt
    BY <1>0, <1>3 DEF SendFailed, PCs, InAttempt
  <2> DEFINE p == [permit[c] EXCEPT !.requested = TRUE]
  <2>2. p \in PermitType /\ p.entry = permit[c].entry /\ p.released = permit[c].released
    BY <1>0 DEF PermitType
  <2>3. CASE ReleaseIfComplete(c, p)
    <3> HIDE DEF p
    <3> QED
      BY <2>1, <2>2, <2>3, ReleaseIfCompleteStep
  <2>4. CASE UNCHANGED <<permit, probe, cooldowns, woken>>
    BY <1>0, <2>1, <2>4, QuietStep DEF Holding
  <2> QED
    BY <1>3, <2>3, <2>4 DEF SendFailed
<1>4. ASSUME NEW c \in Callers, Respond(c) \/ ReadBegin(c) \/ CloseBegin(c) PROVE ProbeInv'
  <2>1. /\ UNCHANGED <<cooldowns, probe, key>>
        /\ permit' \in [Callers -> PermitType]
        /\ \A d \in Callers : permit'[d].entry = permit[d].entry
                              /\ permit'[d].released = permit[d].released
    <3>1. ASSUME NEW p \in PermitType, p.entry = permit[c].entry,
                 p.released = permit[c].released, permit' = [permit EXCEPT ![c] = p]
          PROVE  /\ permit' \in [Callers -> PermitType]
                 /\ \A d \in Callers : permit'[d].entry = permit[d].entry
                                       /\ permit'[d].released = permit[d].released
      BY <1>0, <3>1
    <3>2. CASE Respond(c)
      <4> DEFINE p == [permit[c] EXCEPT !.bodyPending = Held(c)]
      <4>1. p \in PermitType /\ p.entry = permit[c].entry /\ p.released = permit[c].released
        BY <1>0 DEF PermitType, Held
      <4>2. permit' = [permit EXCEPT ![c] = p] /\ UNCHANGED <<cooldowns, probe, key>>
        BY <3>2 DEF Respond
      <4> QED
        BY <3>1, <4>1, <4>2
    <3>3. CASE ReadBegin(c)
      <4> DEFINE p == [permit[c] EXCEPT !.reads = @ + 1]
      <4>1. p \in PermitType /\ p.entry = permit[c].entry /\ p.released = permit[c].released
        BY <1>0 DEF PermitType
      <4>2. permit' = [permit EXCEPT ![c] = p] /\ UNCHANGED <<cooldowns, probe, key>>
        BY <3>3 DEF ReadBegin
      <4> QED
        BY <3>1, <4>1, <4>2
    <3>4. CASE CloseBegin(c)
      <4> DEFINE p == [permit[c] EXCEPT !.closing = TRUE]
      <4>1. p \in PermitType /\ p.entry = permit[c].entry /\ p.released = permit[c].released
        BY <1>0 DEF PermitType
      <4>2. permit' = [permit EXCEPT ![c] = p] /\ UNCHANGED <<cooldowns, probe, key>>
        BY <3>4 DEF CloseBegin
      <4> QED
        BY <3>1, <4>1, <4>2
    <3> QED
      BY <1>4, <3>2, <3>3, <3>4
  <2>2. pc' \in [Callers -> PCs] /\ \A d \in Callers : Holding(d) => pc'[d] \in InAttempt
    BY <1>0, <1>4 DEF Respond, ReadBegin, CloseBegin, PCs, InAttempt
  <2> QED
    BY <1>0, <2>1, <2>2, QuietStep DEF Holding
<1>5. ASSUME NEW c \in Callers, Observe(c) PROVE ProbeInv'
  BY <1>0, <1>5, ThrottleStep DEF Observe
<1>6. ASSUME NEW c \in Callers, NEW p \in PermitType,
             p.entry = permit[c].entry, p.released = permit[c].released,
             ReleaseIfComplete(c, p) \/ ReleaseProbe(c, p), UNCHANGED <<key, pc>>
      PROVE  ProbeInv'
  BY <1>0, <1>6, ReleaseIfCompleteStep, ReleaseProbeStep
<1>7. ASSUME NEW c \in Callers,
             ReadEnd(c) \/ Resolve(c) \/ AcceptedEOF(c) \/ ReadRelease(c)
               \/ CloseEnd(c) \/ CloseRelease(c) \/ Abandon(c)
      PROVE  ProbeInv'
  <2>1. UNCHANGED <<key, pc>>
    BY <1>7 DEF ReadEnd, Resolve, AcceptedEOF, ReadRelease, CloseEnd, CloseRelease, Abandon
  <2>2. PICK p : /\ p \in PermitType
                 /\ p.entry = permit[c].entry /\ p.released = permit[c].released
                 /\ ReleaseIfComplete(c, p) \/ ReleaseProbe(c, p)
    BY <1>0, <1>7, ReleasesItsOwnPermit
  <2> QED
    BY <1>6, <2>1, <2>2
<1>8. ASSUME NEW c \in Callers, ReadMore(c) \/ AbandonedEnd(c) \/ Cancel(c) PROVE ProbeInv'
  <2>1. UNCHANGED <<cooldowns, probe, permit, key, pc>>
    BY <1>8 DEF ReadMore, AbandonedEnd, Cancel
  <2> QED
    BY <1>0, <2>1, QuietStep DEF Holding
<1>9. ASSUME NEW c \in Callers, Finish(c) PROVE ProbeInv'
  <2>1. /\ UNCHANGED <<cooldowns, probe, key>>
        /\ permit' = [permit EXCEPT ![c] = NoPermit]
        /\ pc' = [pc EXCEPT ![c] = "idle"]
    BY <1>9 DEF Finish
  <2>2. NoPermit \in PermitType
    BY DEF NoPermit, NewPermit, PermitType
  <2>3. permit' \in [Callers -> PermitType] /\ pc' \in [Callers -> PCs]
    BY <1>0, <2>1, <2>2 DEF PCs
  <2>4. ~Holding(c)'
    BY <1>0, <2>1 DEF Holding, NoPermit, NewPermit
  <2> QED
    BY <1>0, <2>1, <2>3, <2>4, QuietStep DEF Holding
<1>10. CASE Shutdown \/ Tick \/ UNCHANGED vars
  <2>1. UNCHANGED <<cooldowns, probe, permit, key, pc>>
    BY <1>10 DEF Shutdown, Tick, vars
  <2> QED
    BY <1>0, <2>1, QuietStep DEF Holding
<1> QED
  BY <1>1, <1>2, <1>3, <1>4, <1>5, <1>7, <1>8, <1>9, <1>10 DEF Next, Read, Close

\* The probe invariant holds of the specification.
THEOREM ProbeInvariant == Spec => []ProbeInv
<1>1. Init => ProbeInv
  BY InitProbeInv
<1>2. ProbeInv /\ [Next]_vars => ProbeInv'
  BY NextProbeInv
<1> QED
  BY <1>1, <1>2, PTL DEF Spec

-----------------------------------------------------------------------------
(* The permit of an attempt and the two goroutines on its body.            *)

BodyTypes ==
  /\ reader \in [Callers -> {"none", "reading", "got", "ended", "closed"}]
  /\ closer \in [Callers -> {"none", "closing", "returned", "closed"}]

\* Before the response and after a failed send nobody touches a body, and a new
\* permit is fresh.
NoBodyYet(c) ==
  pc[c] # "body" =>
    /\ reader[c] = "none" /\ closer[c] = "none"
    /\ permit[c].reads = 0 /\ ~permit[c].bodyPending
    /\ ~permit[c].closing /\ ~permit[c].ended
    /\ pc[c] \notin {"send", "end"} => permit[c] = NoPermit
    /\ pc[c] = "send" => ~permit[c].requested /\ ~permit[c].released
    /\ pc[c] = "end" /\ Held(c) => permit[c].requested

\* The fields of the permit follow the two goroutines.
BodyPhases(c) ==
  /\ permit[c].reads = IF reader[c] = "reading" THEN 1 ELSE 0
  /\ permit[c].closing <=> closer[c] # "none"
  /\ closer[c] \in {"returned", "closed"} => ~permit[c].bodyPending
  /\ closer[c] = "closed" => permit[c].requested

\* A body that is no longer pending was closed or seen to its accepted end.
BodyAccounted(c) ==
  pc[c] = "body" /\ Held(c) /\ ~permit[c].bodyPending
    => permit[c].closing \/ permit[c].ended

\* The probe is resolved when, and without output only when, the attempt is
\* complete.
ReleasedIffComplete(c) ==
  /\ Held(c) /\ Complete(permit[c]) => permit[c].released
  /\ Held(c) /\ permit[c].released /\ ~permit[c].ended => Complete(permit[c])

AttemptInv(c) ==
  NoBodyYet(c) /\ BodyPhases(c) /\ BodyAccounted(c) /\ ReleasedIffComplete(c)

\* A set probe flag has an owner.
FlagOwned ==
  \A e \in Entries : probe[e] => \E c \in Callers : Holding(c) /\ permit[c].entry = e

BodyInv == BodyTypes /\ \A c \in Callers : AttemptInv(c)

OwnedInv == ProbeInv /\ BodyInv /\ FlagOwned

USE DEF PCs

\* A step of caller c leaves the attempts of the others alone.
LEMMA OtherAttempts ==
  ASSUME BodyInv, BodyTypes', NEW c \in Callers, AttemptInv(c)',
         \A d \in Callers \ {c} : /\ pc'[d] = pc[d] /\ permit'[d] = permit[d]
                                  /\ reader'[d] = reader[d] /\ closer'[d] = closer[d]
  PROVE  BodyInv'
  BY DEF BodyInv, AttemptInv, NoBodyYet, BodyPhases, BodyAccounted,
         ReleasedIffComplete, Held

\* What releaseIfCompleteLocked does to the permit.
LEMMA SettledPermit ==
  ASSUME ProbeInv, NEW c \in Callers, NEW p \in PermitType, ReleaseIfComplete(c, p)
  PROVE  /\ permit' \in [Callers -> PermitType]
         /\ \A d \in Callers \ {c} : permit'[d] = permit[d]
         /\ permit'[c].entry = p.entry /\ permit'[c].reads = p.reads
         /\ permit'[c].bodyPending = p.bodyPending /\ permit'[c].closing = p.closing
         /\ permit'[c].requested = p.requested /\ permit'[c].ended = p.ended
         /\ permit'[c].released = (p.released \/ Complete(p))
<1>1. permit \in [Callers -> PermitType]
  BY DEF ProbeInv, ProbeTypes
<1>2. CASE Complete(p)
  <2> DEFINE q == [p EXCEPT !.released = TRUE]
  <2>1. permit' = [permit EXCEPT ![c] = q]
    BY <1>2 DEF ReleaseIfComplete, ReleaseProbe
  <2>2. /\ q \in PermitType /\ q.entry = p.entry /\ q.reads = p.reads
        /\ q.bodyPending = p.bodyPending /\ q.closing = p.closing
        /\ q.requested = p.requested /\ q.ended = p.ended /\ q.released = TRUE
    BY DEF PermitType
  <2> HIDE DEF q
  <2> QED
    BY <1>1, <1>2, <2>1, <2>2
<1>3. CASE ~Complete(p)
  <2>1. permit' = [permit EXCEPT ![c] = p]
    BY <1>3 DEF ReleaseIfComplete
  <2>2. p.released \in BOOLEAN
    BY DEF PermitType
  <2> QED
    BY <1>1, <1>3, <2>1, <2>2
<1> QED
  BY <1>2, <1>3

\* Every step keeps the attempts consistent.
LEMMA NextBodyInv == ProbeInv /\ BodyInv /\ [Next]_vars => BodyInv'
<1> SUFFICES ASSUME ProbeInv, BodyInv, [Next]_vars PROVE BodyInv'
  OBVIOUS
<1> USE DEF entryVars, queueVars, callVars, bodyVars, envVars
<1>0. /\ permit \in [Callers -> PermitType] /\ pc \in [Callers -> PCs]
      /\ reader \in [Callers -> {"none", "reading", "got", "ended", "closed"}]
      /\ closer \in [Callers -> {"none", "closing", "returned", "closed"}]
  BY DEF ProbeInv, ProbeTypes, BodyInv, BodyTypes
<1>1. ASSUME NEW c \in Callers PROVE AttemptInv(c)
  BY DEF BodyInv
<1>2. ASSUME NEW c \in Callers,
             Start(c) \/ (Admit(c) /\ ~AdmitGranted(c)) PROVE BodyInv'
  <2>1. UNCHANGED <<permit, reader, closer>>
    BY <1>2 DEF Start, Admit, Check, AdmitAborted, AdmitUntracked, AdmitRejected,
                AdmitFull, AdmitWaits, Wake, Leave, Return
  <2>2. /\ \A d \in Callers \ {c} : pc'[d] = pc[d]
        /\ pc[c] \notin {"send", "body", "end"}
        /\ pc'[c] \notin {"body", "end"}
    BY <1>0, <1>2
    DEF Start, Admit, Check, AdmitAborted, AdmitUntracked, AdmitRejected, AdmitFull,
        AdmitWaits, Wake, Leave, Return, Returned, InLoop, MayAdmit
  <2>3. permit[c] = NoPermit
    BY <1>1, <2>2 DEF AttemptInv, NoBodyYet
  <2>4. AttemptInv(c)'
    BY <1>1, <2>1, <2>2, <2>3
    DEF AttemptInv, NoBodyYet, BodyPhases, BodyAccounted, ReleasedIffComplete, Held,
        NoPermit, NewPermit
  <2> QED
    BY <2>1, <2>2, <2>4, OtherAttempts DEF BodyInv, BodyTypes
<1>3. ASSUME NEW c \in Callers, AdmitGranted(c) PROVE BodyInv'
  <2>1. /\ permit' = [permit EXCEPT ![c] = NewPermit(EntryOf(c))]
        /\ pc' = [pc EXCEPT ![c] = "send"]
        /\ UNCHANGED <<reader, closer>>
        /\ pc[c] = "admit"
    BY <1>3 DEF AdmitGranted, Returned, MayAdmit, InLoop
  <2>2. permit'[c] = NewPermit(EntryOf(c)) /\ pc'[c] = "send"
    BY <1>0, <2>1
  <2>3. \A d \in Callers \ {c} : pc'[d] = pc[d] /\ permit'[d] = permit[d]
    BY <1>0, <2>1
  <2>4. AttemptInv(c)'
    BY <1>1, <2>1, <2>2
    DEF AttemptInv, NoBodyYet, BodyPhases, BodyAccounted, ReleasedIffComplete, NewPermit, Complete
  <2> QED
    BY <2>1, <2>3, <2>4, OtherAttempts DEF BodyInv, BodyTypes
<1>4. ASSUME NEW c \in Callers, NEW p \in PermitType, ReleaseIfComplete(c, p),
             NEW r \in {"none", "reading", "got", "ended", "closed"},
             NEW l \in {"none", "closing", "returned", "closed"},
             reader' = [reader EXCEPT ![c] = r], closer' = [closer EXCEPT ![c] = l],
             pc[c] = "body", pc' = pc,
             p.entry = permit[c].entry, p.released = permit[c].released,
             p.closing = permit[c].closing, p.closing <=> l # "none",
             p.reads = IF r = "reading" THEN 1 ELSE 0,
             l \in {"returned", "closed"} => ~p.bodyPending,
             l = "closed" => p.requested,
             Held(c) /\ ~p.bodyPending => p.closing \/ p.ended,
             Held(c) /\ p.released /\ ~p.ended => Complete(p)
      PROVE  BodyInv'
  <2>1. /\ permit' \in [Callers -> PermitType]
        /\ \A d \in Callers \ {c} : permit'[d] = permit[d]
        /\ permit'[c].entry = p.entry /\ permit'[c].reads = p.reads
        /\ permit'[c].bodyPending = p.bodyPending /\ permit'[c].closing = p.closing
        /\ permit'[c].requested = p.requested /\ permit'[c].ended = p.ended
        /\ permit'[c].released = (p.released \/ Complete(p))
    BY <1>4, SettledPermit
  <2>2. reader'[c] = r /\ closer'[c] = l
    BY <1>0, <1>4
  <2>3. \A d \in Callers \ {c} : reader'[d] = reader[d] /\ closer'[d] = closer[d]
    BY <1>0, <1>4
  <2>4. AttemptInv(c)'
    <3>1. NoBodyYet(c)' /\ BodyPhases(c)'
      BY <1>4, <2>1, <2>2 DEF NoBodyYet, BodyPhases
    <3>2. BodyAccounted(c)'
      BY <1>4, <2>1 DEF BodyAccounted, Held
    <3>3. ReleasedIffComplete(c)'
      BY <1>4, <2>1 DEF ReleasedIffComplete, Held, Complete
    <3> QED
      BY <3>1, <3>2, <3>3 DEF AttemptInv
  <2>5. BodyTypes'
    BY <1>0, <1>4 DEF BodyTypes
  <2> QED
    BY <1>4, <2>1, <2>3, <2>4, <2>5, OtherAttempts
<1>5. ASSUME NEW c \in Callers PROVE
        /\ permit[c] \in PermitType
        /\ reader[c] # "none" \/ closer[c] # "none" => pc[c] = "body"
        /\ reader = [reader EXCEPT ![c] = reader[c]] /\ closer = [closer EXCEPT ![c] = closer[c]]
        /\ reader[c] \in {"none", "reading", "got", "ended", "closed"}
        /\ closer[c] \in {"none", "closing", "returned", "closed"}
  BY <1>0, <1>1 DEF AttemptInv, NoBodyYet
<1>6. ASSUME NEW c \in Callers, ReadEnd(c) PROVE BodyInv'
  <2> DEFINE p == [permit[c] EXCEPT !.reads = @ - 1]
  <2>1. /\ p \in PermitType /\ p.entry = permit[c].entry /\ p.released = permit[c].released
        /\ p.closing = permit[c].closing /\ p.bodyPending = permit[c].bodyPending
        /\ p.requested = permit[c].requested /\ p.ended = permit[c].ended
        /\ p.reads = permit[c].reads - 1
    BY <1>5 DEF PermitType
  <2>2. /\ reader[c] = "reading" /\ ReleaseIfComplete(c, p) /\ pc' = pc
        /\ reader' = [reader EXCEPT ![c] = "got"] /\ closer' = [closer EXCEPT ![c] = closer[c]]
    BY <1>5, <1>6 DEF ReadEnd
  <2> HIDE DEF p
  <2>3. AttemptInv(c) /\ pc[c] = "body"
    BY <1>1, <1>5, <2>2
  <2>4. permit[c].reads = 1 /\ p.reads = 0
    BY <2>1, <2>2, <2>3 DEF AttemptInv, BodyPhases
  <2>5. Held(c) /\ p.released => p.ended
    BY <2>1, <2>3, <2>4 DEF AttemptInv, ReleasedIffComplete, Complete
  <2> QED
    BY <1>4, <1>5, <2>1, <2>2, <2>3, <2>4, <2>5, ZenonT(60)
    DEF AttemptInv, BodyPhases, BodyAccounted
<1>7. ASSUME NEW c \in Callers, AcceptedEOF(c) PROVE BodyInv'
  <2> DEFINE p == [permit[c] EXCEPT !.bodyPending = FALSE, !.ended = TRUE]
  <2>1. /\ p \in PermitType /\ p.entry = permit[c].entry /\ p.released = permit[c].released
        /\ p.closing = permit[c].closing /\ p.bodyPending = FALSE
        /\ p.requested = permit[c].requested /\ p.ended = TRUE
        /\ p.reads = permit[c].reads
    BY <1>5, ZenonT(60) DEF PermitType
  <2>2. /\ reader[c] = "got" /\ ReleaseIfComplete(c, p) /\ pc' = pc
        /\ reader' = [reader EXCEPT ![c] = "ended"] /\ closer' = [closer EXCEPT ![c] = closer[c]]
    BY <1>5, <1>7 DEF AcceptedEOF
  <2> HIDE DEF p
  <2>3. AttemptInv(c) /\ pc[c] = "body"
    BY <1>1, <1>5, <2>2, SMTT(60)
  <2> QED
    BY <1>4, <1>5, <2>1, <2>2, <2>3, ZenonT(60)
    DEF AttemptInv, BodyPhases, BodyAccounted, ReleasedIffComplete, Complete
<1>8. ASSUME NEW c \in Callers, CloseEnd(c) PROVE BodyInv'
  <2> DEFINE p == [permit[c] EXCEPT !.bodyPending = FALSE]
  <2>1. /\ p \in PermitType /\ p.entry = permit[c].entry /\ p.released = permit[c].released
        /\ p.closing = permit[c].closing /\ p.bodyPending = FALSE
        /\ p.requested = permit[c].requested /\ p.ended = permit[c].ended
        /\ p.reads = permit[c].reads
    BY <1>5, ZenonT(60) DEF PermitType
  <2>2. /\ closer[c] = "closing" /\ ReleaseIfComplete(c, p) /\ pc' = pc
        /\ reader' = [reader EXCEPT ![c] = reader[c]] /\ closer' = [closer EXCEPT ![c] = "returned"]
    BY <1>5, <1>8 DEF CloseEnd
  <2> HIDE DEF p
  <2>3. AttemptInv(c) /\ pc[c] = "body"
    BY <1>1, <1>5, <2>2, SMTT(60)
  <2> QED
    BY <1>4, <1>5, <2>1, <2>2, <2>3, ZenonT(60)
    DEF AttemptInv, BodyPhases, BodyAccounted, ReleasedIffComplete, Complete
<1>9. ASSUME NEW c \in Callers, ReadRelease(c) \/ CloseRelease(c) \/ Abandon(c) PROVE BodyInv'
  <2> DEFINE p == [permit[c] EXCEPT !.requested = TRUE]
  <2>1. /\ p \in PermitType /\ p.entry = permit[c].entry /\ p.released = permit[c].released
        /\ p.closing = permit[c].closing /\ p.bodyPending = permit[c].bodyPending
        /\ p.requested = TRUE /\ p.ended = permit[c].ended /\ p.reads = permit[c].reads
    BY <1>5, ZenonT(60) DEF PermitType
  <2>2. PICK r \in {"none", "reading", "got", "ended", "closed"},
             l \in {"none", "closing", "returned", "closed"} :
          /\ reader' = [reader EXCEPT ![c] = r] /\ closer' = [closer EXCEPT ![c] = l]
          /\ r = reader[c] \/ (reader[c] = "ended" /\ r = "closed")
          /\ l = closer[c] \/ (closer[c] = "returned" /\ l = "closed")
    BY <1>5, <1>9 DEF ReadRelease, CloseRelease, Abandon
  <2>3. ReleaseIfComplete(c, p) /\ pc' = pc /\ pc[c] = "body"
    BY <1>5, <1>9 DEF ReadRelease, CloseRelease, Abandon
  <2> HIDE DEF p
  <2>4. AttemptInv(c)
    BY <1>1
  <2> QED
    BY <1>4, <2>1, <2>2, <2>3, <2>4, ZenonT(60)
    DEF AttemptInv, BodyPhases, BodyAccounted, ReleasedIffComplete, Complete
<1>10. ASSUME NEW c \in Callers, SendFailed(c) PROVE BodyInv'
  <2> DEFINE p == [permit[c] EXCEPT !.requested = TRUE]
  <2>1. /\ p \in PermitType /\ p.entry = permit[c].entry /\ p.released = permit[c].released
        /\ p.closing = permit[c].closing /\ p.bodyPending = permit[c].bodyPending
        /\ p.requested = TRUE /\ p.ended = permit[c].ended /\ p.reads = permit[c].reads
    BY <1>5, ZenonT(60) DEF PermitType
  <2>2. /\ pc[c] = "send" /\ pc' = [pc EXCEPT ![c] = "end"]
        /\ UNCHANGED <<reader, closer>>
    BY <1>10 DEF SendFailed
  <2>3. CASE Held(c)
    <3>1. ReleaseIfComplete(c, p)
      BY <1>10, <2>3 DEF SendFailed
    <3> HIDE DEF p
    <3>2. /\ \A d \in Callers \ {c} : permit'[d] = permit[d]
          /\ permit'[c].entry = p.entry /\ permit'[c].reads = p.reads
          /\ permit'[c].bodyPending = p.bodyPending /\ permit'[c].closing = p.closing
          /\ permit'[c].requested = p.requested /\ permit'[c].ended = p.ended
          /\ permit'[c].released = (p.released \/ Complete(p))
      BY <2>1, <3>1, SettledPermit
    <3>3. pc'[c] = "end" /\ \A d \in Callers \ {c} : pc'[d] = pc[d]
      BY <1>0, <2>2
    <3>4. AttemptInv(c)'
      BY <1>1, <2>1, <2>2, <3>2, <3>3, ZenonT(60)
      DEF AttemptInv, NoBodyYet, BodyPhases, BodyAccounted, ReleasedIffComplete, Held, Complete
    <3> QED
      BY <2>2, <3>2, <3>3, <3>4, OtherAttempts DEF BodyInv, BodyTypes
  <2>4. CASE ~Held(c)
    <3>1. permit' = permit
      BY <1>10, <2>4 DEF SendFailed
    <3>2. pc'[c] = "end" /\ \A d \in Callers \ {c} : pc'[d] = pc[d]
      BY <1>0, <2>2
    <3>3. AttemptInv(c)'
      BY <1>1, <2>2, <2>4, <3>1, <3>2
      DEF AttemptInv, NoBodyYet, BodyPhases, BodyAccounted, ReleasedIffComplete, Held, Complete
    <3> QED
      BY <2>2, <3>1, <3>2, <3>3, OtherAttempts DEF BodyInv, BodyTypes
  <2> QED
    BY <2>3, <2>4
<1>11. ASSUME NEW c \in Callers, Respond(c) PROVE BodyInv'
  <2> DEFINE p == [permit[c] EXCEPT !.bodyPending = Held(c)]
  <2>1. /\ p.entry = permit[c].entry /\ p.released = permit[c].released
        /\ p.closing = permit[c].closing /\ (p.bodyPending <=> Held(c))
        /\ p.requested = permit[c].requested /\ p.ended = permit[c].ended
        /\ p.reads = permit[c].reads
    BY <1>5, ZenonT(60) DEF PermitType, Held
  <2>2. /\ pc[c] = "send" /\ pc' = [pc EXCEPT ![c] = "body"]
        /\ permit' = [permit EXCEPT ![c] = p] /\ UNCHANGED <<reader, closer>>
    BY <1>11 DEF Respond
  <2> HIDE DEF p
  <2>3. /\ pc'[c] = "body" /\ permit'[c] = p
        /\ \A d \in Callers \ {c} : pc'[d] = pc[d] /\ permit'[d] = permit[d]
    BY <1>0, <2>2
  <2>4. AttemptInv(c)'
    BY <1>1, <2>1, <2>2, <2>3
    DEF AttemptInv, NoBodyYet, BodyPhases, BodyAccounted, ReleasedIffComplete, Held, Complete
  <2> QED
    BY <2>2, <2>3, <2>4, OtherAttempts DEF BodyInv, BodyTypes
<1>12. ASSUME NEW c \in Callers, ReadBegin(c) PROVE BodyInv'
  <2> DEFINE p == [permit[c] EXCEPT !.reads = @ + 1]
  <2>1. /\ p.entry = permit[c].entry /\ p.released = permit[c].released
        /\ p.closing = permit[c].closing /\ p.bodyPending = permit[c].bodyPending
        /\ p.requested = permit[c].requested /\ p.ended = permit[c].ended
        /\ p.reads = permit[c].reads + 1
    BY <1>5 DEF PermitType
  <2>2. /\ pc[c] = "body" /\ Held(c) /\ reader[c] = "none" /\ ~permit[c].closing
        /\ UNCHANGED <<pc, closer>> /\ reader' = [reader EXCEPT ![c] = "reading"]
        /\ permit' = [permit EXCEPT ![c] = p]
    BY <1>12 DEF ReadBegin
  <2> HIDE DEF p
  <2>3. /\ reader'[c] = "reading" /\ permit'[c] = p
        /\ \A d \in Callers \ {c} : reader'[d] = reader[d] /\ permit'[d] = permit[d]
    BY <1>0, <2>2
  <2>4. AttemptInv(c)'
    BY <1>1, <2>1, <2>2, <2>3
    DEF AttemptInv, NoBodyYet, BodyPhases, BodyAccounted, ReleasedIffComplete, Held, Complete
  <2>5. BodyTypes'
    BY <1>0, <2>2 DEF BodyTypes
  <2> QED
    BY <2>2, <2>3, <2>4, <2>5, OtherAttempts
<1>13. ASSUME NEW c \in Callers, CloseBegin(c) PROVE BodyInv'
  <2> DEFINE p == [permit[c] EXCEPT !.closing = TRUE]
  <2>1. /\ p.entry = permit[c].entry /\ p.released = permit[c].released
        /\ p.closing = TRUE /\ p.bodyPending = permit[c].bodyPending
        /\ p.requested = permit[c].requested /\ p.ended = permit[c].ended
        /\ p.reads = permit[c].reads
    BY <1>5 DEF PermitType
  <2>2. /\ pc[c] = "body" /\ UNCHANGED <<pc, reader>>
        /\ closer' = [closer EXCEPT ![c] = "closing"]
        /\ permit' = [permit EXCEPT ![c] = p]
    BY <1>13 DEF CloseBegin
  <2> HIDE DEF p
  <2>3. /\ closer'[c] = "closing" /\ permit'[c] = p
        /\ \A d \in Callers \ {c} : closer'[d] = closer[d] /\ permit'[d] = permit[d]
    BY <1>0, <2>2
  <2>4. AttemptInv(c)'
    BY <1>1, <2>1, <2>2, <2>3
    DEF AttemptInv, NoBodyYet, BodyPhases, BodyAccounted, ReleasedIffComplete, Held, Complete
  <2>5. BodyTypes'
    BY <1>0, <2>2 DEF BodyTypes
  <2> QED
    BY <2>2, <2>3, <2>4, <2>5, OtherAttempts
<1>14. ASSUME NEW c \in Callers, Resolve(c) PROVE BodyInv'
  <2> DEFINE p == [[permit[c] EXCEPT !.ended = TRUE] EXCEPT !.released = TRUE]
  <2>1. /\ p.entry = permit[c].entry /\ p.released = TRUE
        /\ p.closing = permit[c].closing /\ p.bodyPending = permit[c].bodyPending
        /\ p.requested = permit[c].requested /\ p.ended = TRUE
        /\ p.reads = permit[c].reads
    BY <1>5 DEF PermitType
  <2>2. /\ reader[c] = "got" /\ UNCHANGED <<pc, closer>>
        /\ reader' = [reader EXCEPT ![c] = "none"]
        /\ permit' = [permit EXCEPT ![c] = p]
    BY <1>14 DEF Resolve, ReleaseProbe
  <2> HIDE DEF p
  <2>3. /\ reader'[c] = "none" /\ permit'[c] = p
        /\ \A d \in Callers \ {c} : reader'[d] = reader[d] /\ permit'[d] = permit[d]
    BY <1>0, <2>2
  <2>4. AttemptInv(c)'
    BY <1>1, <1>5, <2>1, <2>2, <2>3
    DEF AttemptInv, NoBodyYet, BodyPhases, BodyAccounted, ReleasedIffComplete, Held, Complete
  <2>5. BodyTypes'
    BY <1>0, <2>2 DEF BodyTypes
  <2> QED
    BY <2>2, <2>3, <2>4, <2>5, OtherAttempts
<1>15. ASSUME NEW c \in Callers, ReadMore(c) \/ AbandonedEnd(c) PROVE BodyInv'
  <2>1. /\ reader[c] = "got" /\ UNCHANGED <<permit, pc, closer>>
        /\ reader' = [reader EXCEPT ![c] = "none"] \/ reader' = [reader EXCEPT ![c] = "ended"]
    BY <1>15 DEF ReadMore, AbandonedEnd
  <2>2. /\ reader'[c] \in {"none", "ended"}
        /\ \A d \in Callers \ {c} : reader'[d] = reader[d]
    BY <1>0, <2>1
  <2>3. AttemptInv(c)'
    BY <1>1, <1>5, <2>1, <2>2
    DEF AttemptInv, NoBodyYet, BodyPhases, BodyAccounted, ReleasedIffComplete, Held, Complete
  <2>4. BodyTypes'
    BY <1>0, <2>1 DEF BodyTypes
  <2> QED
    BY <2>1, <2>2, <2>3, <2>4, OtherAttempts
<1>16. ASSUME NEW c \in Callers, Finish(c) PROVE BodyInv'
  <2>1. /\ permit' = [permit EXCEPT ![c] = NoPermit] /\ pc' = [pc EXCEPT ![c] = "idle"]
        /\ reader' = [reader EXCEPT ![c] = "none"] /\ closer' = [closer EXCEPT ![c] = "none"]
    BY <1>16 DEF Finish
  <2>2. /\ permit'[c] = NoPermit /\ pc'[c] = "idle" /\ reader'[c] = "none" /\ closer'[c] = "none"
        /\ \A d \in Callers \ {c} : /\ pc'[d] = pc[d] /\ permit'[d] = permit[d]
                                    /\ reader'[d] = reader[d] /\ closer'[d] = closer[d]
    BY <1>0, <2>1
  <2>3. AttemptInv(c)'
    BY <2>2
    DEF AttemptInv, NoBodyYet, BodyPhases, BodyAccounted, ReleasedIffComplete, Held,
        Complete, NoPermit, NewPermit
  <2>4. BodyTypes'
    BY <1>0, <2>1 DEF BodyTypes
  <2> QED
    BY <2>2, <2>3, <2>4, OtherAttempts
<1>17. CASE Shutdown \/ Tick \/ UNCHANGED vars \/ (\E c \in Callers : Observe(c) \/ Cancel(c))
  <2>1. UNCHANGED <<permit, reader, closer, pc>>
    BY <1>17 DEF Shutdown, Tick, vars, Observe, Cancel, Throttle
  <2> QED
    BY <2>1 DEF BodyInv, BodyTypes, AttemptInv, NoBodyYet, BodyPhases, BodyAccounted,
                ReleasedIffComplete, Held
<1> QED
  BY <1>2, <1>3, <1>6, <1>7, <1>8, <1>9, <1>10, <1>11, <1>12, <1>13, <1>14, <1>15,
     <1>16, <1>17
  DEF Next, Read, Close

\* A caller ends its attempt only after its permit was resolved.
LEMMA FinishedIsReleased ==
  ASSUME BodyInv, NEW c \in Callers, Finish(c)
  PROVE  ~Holding(c)
<1>1. AttemptInv(c)
  BY DEF BodyInv
<1>2. Held(c) => Complete(permit[c])
  BY <1>1 DEF Finish, AttemptInv, NoBodyYet, BodyPhases, Complete
<1> QED
  BY <1>1, <1>2 DEF AttemptInv, ReleasedIffComplete, Holding, Held

\* A release clears the flag of the entry whose owner it is.
LEMMA ReleaseKeepsFlags ==
  ASSUME ProbeInv, FlagOwned, NEW c \in Callers, NEW p \in PermitType,
         p.entry = permit[c].entry, p.released = permit[c].released,
         ReleaseIfComplete(c, p) \/ ReleaseProbe(c, p)
  PROVE  FlagOwned'
<1>1. permit \in [Callers -> PermitType] /\ probe \in [Entries -> BOOLEAN]
  BY DEF ProbeInv, ProbeTypes
<1>2. CASE ReleaseProbe(c, p)
  <2> DEFINE q == [p EXCEPT !.released = TRUE]
  <2>1. permit' = [permit EXCEPT ![c] = q] /\ q.entry = p.entry
    BY <1>2 DEF ReleaseProbe, PermitType
  <2> HIDE DEF q
  <2>2. \A d \in Callers \ {c} : permit'[d] = permit[d]
    BY <1>1, <2>1
  <2>3. SUFFICES ASSUME NEW e \in Entries, probe'[e]
                 PROVE  \E d \in Callers : Holding(d)' /\ permit'[d].entry = e
    BY DEF FlagOwned
  <2>4. probe[e] /\ (e = p.entry => p.released)
    BY <1>1, <1>2, <2>3 DEF ReleaseProbe
  <2>5. PICK d \in Callers : Holding(d) /\ permit[d].entry = e
    BY <2>4 DEF FlagOwned
  <2>6. d # c
    BY <2>4, <2>5 DEF Holding
  <2> QED
    BY <2>2, <2>5, <2>6 DEF Holding
<1>3. CASE ReleaseIfComplete(c, p) /\ ~Complete(p)
  <2>1. permit' = [permit EXCEPT ![c] = p] /\ probe' = probe
    BY <1>3 DEF ReleaseIfComplete
  <2>2. \A d \in Callers : /\ permit'[d].entry = permit[d].entry
                           /\ permit'[d].released = permit[d].released
    BY <1>1, <2>1
  <2> QED
    BY <2>1, <2>2 DEF FlagOwned, Holding
<1> QED
  BY <1>2, <1>3 DEF ReleaseIfComplete

\* Every step keeps the flags owned.
LEMMA NextFlagOwned == OwnedInv /\ [Next]_vars => FlagOwned'
<1> SUFFICES ASSUME OwnedInv, [Next]_vars PROVE FlagOwned'
  OBVIOUS
<1> USE DEF entryVars, queueVars, callVars, bodyVars, envVars
<1>0. /\ permit \in [Callers -> PermitType] /\ probe \in [Entries -> BOOLEAN]
      /\ ProbeInv /\ BodyInv /\ FlagOwned
  BY DEF OwnedInv, ProbeInv, ProbeTypes
<1>1. ASSUME probe' = probe,
             \A d \in Callers : Holding(d) => Holding(d)' /\ permit'[d].entry = permit[d].entry
      PROVE  FlagOwned'
  BY <1>0, <1>1 DEF FlagOwned
<1>2. ASSUME NEW c \in Callers, NEW p, permit' = [permit EXCEPT ![c] = p], probe' = probe,
             p.entry = permit[c].entry, p.released = permit[c].released
      PROVE  FlagOwned'
  BY <1>0, <1>1, <1>2 DEF Holding
<1>3. ASSUME NEW c \in Callers, AdmitGranted(c) PROVE FlagOwned'
  <2> DEFINE e == EntryOf(c)
  <2>1. /\ permit' = [permit EXCEPT ![c] = NewPermit(e)] /\ probe' = [probe EXCEPT ![e] = TRUE]
        /\ pc[c] = "admit"
    BY <1>3 DEF AdmitGranted, MayAdmit, InLoop
  <2>2. ~Holding(c)
    BY <1>0, <2>1 DEF ProbeInv, IdleHoldsNothing
  <2>3. /\ e \in Entries /\ NewPermit(e).entry = e /\ NewPermit(e).released = FALSE
    BY <1>0, <1>3 DEF AdmitGranted, MayAdmit, EntryOf, ProbeInv, ProbeTypes, NewPermit
  <2> HIDE DEF e
  <2>4. permit'[c] = NewPermit(e) /\ \A d \in Callers \ {c} : permit'[d] = permit[d]
    BY <1>0, <2>1
  <2>5. Holding(c)' /\ permit'[c].entry = e
    BY <2>3, <2>4, NoEntryAssumption DEF Holding
  <2> QED
    BY <1>0, <2>1, <2>2, <2>3, <2>4, <2>5 DEF FlagOwned, Holding
<1>4. ASSUME NEW c \in Callers, Finish(c) PROVE FlagOwned'
  <2>1. probe' = probe /\ \A d \in Callers \ {c} : permit'[d] = permit[d]
    BY <1>0, <1>4 DEF Finish
  <2>2. ~Holding(c)
    BY <1>0, <1>4, FinishedIsReleased
  <2> QED
    BY <1>1, <2>1, <2>2 DEF Holding
<1>5. ASSUME NEW c \in Callers,
             ReadEnd(c) \/ Resolve(c) \/ AcceptedEOF(c) \/ ReadRelease(c)
               \/ CloseEnd(c) \/ CloseRelease(c) \/ Abandon(c) \/ (SendFailed(c) /\ Held(c))
      PROVE  FlagOwned'
  <2>1. PICK p : /\ p \in PermitType
                 /\ p.entry = permit[c].entry /\ p.released = permit[c].released
                 /\ ReleaseIfComplete(c, p) \/ ReleaseProbe(c, p)
    BY <1>0, <1>5, ReleasesItsOwnPermit
  <2> QED
    BY <1>0, <2>1, ReleaseKeepsFlags
<1>6. ASSUME NEW c \in Callers, Respond(c) PROVE FlagOwned'
  <2> DEFINE p == [permit[c] EXCEPT !.bodyPending = Held(c)]
  <2>1. p.entry = permit[c].entry /\ p.released = permit[c].released
    BY <1>0 DEF PermitType
  <2>2. permit' = [permit EXCEPT ![c] = p] /\ probe' = probe
    BY <1>6 DEF Respond
  <2> QED
    BY <1>2, <2>1, <2>2
<1>7. ASSUME NEW c \in Callers, ReadBegin(c) PROVE FlagOwned'
  <2> DEFINE p == [permit[c] EXCEPT !.reads = @ + 1]
  <2>1. p.entry = permit[c].entry /\ p.released = permit[c].released
    BY <1>0 DEF PermitType
  <2>2. permit' = [permit EXCEPT ![c] = p] /\ probe' = probe
    BY <1>7 DEF ReadBegin
  <2> QED
    BY <1>2, <2>1, <2>2
<1>8. ASSUME NEW c \in Callers, CloseBegin(c) PROVE FlagOwned'
  <2> DEFINE p == [permit[c] EXCEPT !.closing = TRUE]
  <2>1. p.entry = permit[c].entry /\ p.released = permit[c].released
    BY <1>0 DEF PermitType
  <2>2. permit' = [permit EXCEPT ![c] = p] /\ probe' = probe
    BY <1>8 DEF CloseBegin
  <2> QED
    BY <1>2, <2>1, <2>2
<1>9. CASE \/ Shutdown \/ Tick \/ UNCHANGED vars
           \/ \E c \in Callers :
                \/ Start(c) \/ (Admit(c) /\ ~AdmitGranted(c)) \/ Observe(c) \/ ReadMore(c)
                \/ AbandonedEnd(c) \/ Cancel(c) \/ (SendFailed(c) /\ ~Held(c))
  <2>1. UNCHANGED <<permit, probe>>
    BY <1>9, ZenonT(60) DEF Shutdown, Tick, vars, Start, Admit, Check, AdmitAborted, AdmitUntracked,
                AdmitRejected, AdmitFull, AdmitWaits, Wake, Leave, Return, Observe,
                Throttle, ReadMore, AbandonedEnd, Cancel, SendFailed
  <2> QED
    BY <1>0, <2>1 DEF FlagOwned, Holding
<1> QED
  BY <1>3, <1>4, <1>5, <1>6, <1>7, <1>8, <1>9 DEF Next, Read, Close

\* The whole inductive invariant holds of the specification.
THEOREM OwnedInvariant == Spec => []OwnedInv
<1>1. Init => BodyInv /\ FlagOwned
  BY DEF Init, BodyInv, BodyTypes, AttemptInv, NoBodyYet, BodyPhases, BodyAccounted,
         ReleasedIffComplete, FlagOwned, Held, Complete, NoPermit, NewPermit
<1>2. Init => OwnedInv
  BY <1>1, InitProbeInv DEF OwnedInv
<1>3. OwnedInv /\ [Next]_vars => OwnedInv'
  BY NextProbeInv, NextBodyInv, NextFlagOwned DEF OwnedInv
<1> QED
  BY <1>2, <1>3, PTL DEF Spec

\* A tracked deployment has at most one probing attempt and its probe flag is
\* set exactly while that attempt owns it (ProbeOwned), for any number of
\* callers, deployments and entries and whatever the interleaving of
\* admissions, throttles, body reads and closes.
THEOREM ProbeOwnedHolds == Spec => []ProbeOwned
<1>1. OwnedInv => ProbeOwned
  BY DEF OwnedInv, ProbeInv, ProbeTypes, PermitLive, OwnerUnique, FlagOwned, ProbeOwned,
         LiveEntries
<1> QED
  BY <1>1, OwnedInvariant, PTL

\* An attempt without output or accepted end keeps the probe until no read of
\* its body is in flight and the close completed.
THEOREM AbandonedBodyHoldsProbeHolds == Spec => []AbandonedBodyHoldsProbe
<1>1. OwnedInv => AbandonedBodyHoldsProbe
  BY DEF OwnedInv, BodyInv, AttemptInv, ReleasedIffComplete, AbandonedBodyHoldsProbe, Complete
<1> QED
  BY <1>1, OwnedInvariant, PTL
-----------------------------------------------------------------------------
(* The recovery queue.                                                     *)

\* A queue without its i-th member.
LEMMA RemovedAt ==
  ASSUME NEW q \in Seq(Callers), NEW i \in 1..Len(q)
  PROVE  /\ RemoveAt(q, i) \in Seq(Callers)
         /\ Len(RemoveAt(q, i)) = Len(q) - 1
         /\ \A j \in 1..(Len(q) - 1) :
              RemoveAt(q, i)[j] = IF j < i THEN q[j] ELSE q[j + 1]
<1> DEFINE front == SubSeq(q, 1, i - 1)
           back == SubSeq(q, i + 1, Len(q))
<1>1. /\ front \in Seq(Callers) /\ Len(front) = i - 1
      /\ \A j \in 1..(i - 1) : front[j] = q[j]
  OBVIOUS
<1>2. /\ back \in Seq(Callers) /\ Len(back) = Len(q) - i
      /\ \A j \in 1..(Len(q) - i) : back[j] = q[i + j]
  OBVIOUS
<1> HIDE DEF front, back
<1>3. /\ front \o back \in Seq(Callers) /\ Len(front \o back) = Len(q) - 1
      /\ \A j \in 1..(Len(q) - 1) :
           (front \o back)[j] = IF j < i THEN front[j] ELSE back[j - (i - 1)]
  <2>1. front \o back \in Seq(Callers) /\ Len(front \o back) = Len(front) + Len(back)
    BY <1>1, <1>2, ConcatProperties
  <2>2. Len(front) = i - 1 /\ Len(front) + Len(back) = Len(q) - 1
    BY <1>1, <1>2
  <2>3. ASSUME NEW j \in 1..(Len(front) + Len(back))
        PROVE  (front \o back)[j] =
                 IF j <= Len(front) THEN front[j] ELSE back[j - Len(front)]
    BY <1>1, <1>2, ConcatProperties
  <2>4. \A j \in 1..(Len(q) - 1) : j < i <=> j <= i - 1
    OBVIOUS
  <2> QED
    BY <2>1, <2>2, <2>3, <2>4
<1>4. ASSUME NEW j \in 1..(Len(q) - 1)
      PROVE  (front \o back)[j] = IF j < i THEN q[j] ELSE q[j + 1]
  <2>1. CASE j < i
    BY <1>1, <1>3, <2>1
  <2>2. CASE ~(j < i)
    <3>1. j - (i - 1) \in 1..(Len(q) - i) /\ i + (j - (i - 1)) = j + 1
      BY <2>2
    <3>2. back[j - (i - 1)] = q[j + 1]
      BY <1>2, <3>1
    <3> QED
      BY <1>3, <2>2, <3>2
  <2> QED
    BY <2>1, <2>2
<1> QED
  BY <1>3, <1>4 DEF RemoveAt, front, back

QueueTypes ==
  /\ queue \in [Entries -> Seq(Callers)]
  /\ queuedOn \in [Callers -> Entries \cup {NoEntry}]

\* A member of a queue is in no other one, and in this one once.
MembersQueued ==
  \A e \in Entries : \A i \in 1..Len(queue[e]) :
    /\ queuedOn[queue[e][i]] = e
    /\ \A j \in 1..Len(queue[e]) : queue[e][i] = queue[e][j] => i = j

\* A waiter is in the queue of the live entry of its deployment, and still in
\* its admission.
WaiterOK(c) ==
  queuedOn[c] # NoEntry =>
    /\ EntryOf(c) = queuedOn[c]
    /\ pc[c] \in {"admit", "wait", "leave"}
    /\ \E i \in 1..Len(queue[queuedOn[c]]) : queue[queuedOn[c]][i] = c
WaitersOK == \A c \in Callers : WaiterOK(c)

\* Only a waiter runs the deferred removal.
LeaversQueued == \A c \in Callers : pc[c] = "leave" => queuedOn[c] # NoEntry

QueueInv == QueueTypes /\ MembersQueued /\ WaitersOK /\ LeaversQueued

\* A step that leaves the queues alone, and the entries that have waiters.
LEMMA QueuesStay ==
  ASSUME QueueInv, UNCHANGED <<queue, queuedOn>>,
         \A d \in Callers : queuedOn[d] # NoEntry =>
           /\ EntryOf(d)' = EntryOf(d)
           /\ pc'[d] \in {"admit", "wait", "leave"},
         \A d \in Callers : pc'[d] = "leave" => queuedOn[d] # NoEntry
  PROVE  QueueInv'
<1>1. QueueTypes' /\ MembersQueued' /\ LeaversQueued'
  BY DEF QueueInv, QueueTypes, MembersQueued, LeaversQueued
<1>2. WaitersOK'
  BY DEF QueueInv, WaitersOK, WaiterOK
<1> QED
  BY <1>1, <1>2 DEF QueueInv

\* An entry with waiters stays the entry of its deployment, whether a permit
\* is released or a full map is swept.
Waited(e) == e \in Entries /\ queue[e] # <<>>

LEMMA WaitedFor ==
  ASSUME QueueInv, NEW d \in Callers, queuedOn[d] # NoEntry
  PROVE  Waited(EntryOf(d)) /\ EntryOf(d) = queuedOn[d]
  BY DEF QueueInv, QueueTypes, WaitersOK, WaiterOK, Waited

LEMMA ReleaseKeepsQueues ==
  ASSUME ProbeTypes, QueueInv, NEW c \in Callers, NEW p, ReleaseProbe(c, p), key' = key
  PROVE  \A d \in Callers : queuedOn[d] # NoEntry => EntryOf(d)' = EntryOf(d)
<1> SUFFICES ASSUME NEW d \in Callers, queuedOn[d] # NoEntry PROVE EntryOf(d)' = EntryOf(d)
  OBVIOUS
<1>1. Waited(EntryOf(d))
  BY WaitedFor
<1>2. CASE key[d] # key[c]
  BY <1>2 DEF ReleaseProbe, EntryOf, ProbeTypes
<1>3. CASE key[d] = key[c]
  <2>1. EntryKept(c, p.entry)
    BY <1>1, <1>3 DEF EntryKept, EntryOf, Waited
  <2> QED
    BY <2>1 DEF ReleaseProbe, EntryOf
<1> QED
  BY <1>2, <1>3

LEMMA ThrottleKeepsQueues ==
  ASSUME ProbeTypes, QueueInv, NEW k \in Keys, NEW delay \in Delays, Throttle(k, delay),
         key' = key
  PROVE  \A d \in Callers : queuedOn[d] # NoEntry => EntryOf(d)' = EntryOf(d)
<1> SUFFICES ASSUME NEW d \in Callers, queuedOn[d] # NoEntry PROVE EntryOf(d)' = EntryOf(d)
  OBVIOUS
<1>1. Waited(EntryOf(d)) /\ EntryOf(d) # NoEntry
  BY WaitedFor
<1>2. key[d] \in Keys
  BY DEF ProbeTypes
<1>3. AfterSweep[key[d]] = cooldowns[key[d]] /\ AfterSweep \in [Keys -> Entries \cup {NoEntry}]
  BY <1>1, <1>2 DEF AfterSweep, Swept, Waited, EntryOf, ProbeTypes
<1>4. cooldowns'[key[d]] = cooldowns[key[d]]
  <2>1. CASE cooldowns[k] # NoEntry
    BY <2>1 DEF Throttle
  <2>2. CASE cooldowns[k] = NoEntry
    <3>1. key[d] # k
      BY <1>1, <2>2 DEF EntryOf
    <3>2. CASE cooldowns' = AfterSweep
      BY <1>3, <3>2
    <3>3. CASE \E e : cooldowns' = [AfterSweep EXCEPT ![k] = e]
      BY <1>2, <1>3, <3>1, <3>3
    <3> QED
      BY <2>2, <3>2, <3>3 DEF Throttle
  <2> QED
    BY <2>1, <2>2
<1> QED
  BY <1>4 DEF EntryOf

\* The waiter at the head of a queue takes the probe and goes.
LEMMA GrantQueueStep ==
  ASSUME ProbeTypes, QueueInv, NEW c \in Callers, AdmitGranted(c)
  PROVE  QueueInv'
<1> USE DEF entryVars, queueVars, callVars, bodyVars, envVars
<1> DEFINE e == EntryOf(c)
<1>1. e \in Entries /\ e # NoEntry /\ First(c)
  BY DEF AdmitGranted, MayAdmit, Admissible, EntryOf, ProbeTypes
<1>2. cooldowns' = cooldowns /\ key' = key /\ pc' = [pc EXCEPT ![c] = "send"]
  BY DEF AdmitGranted, Returned
<1>3. \A d \in Callers : EntryOf(d)' = EntryOf(d)
  BY <1>2 DEF EntryOf
<1>4. queuedOn' = [queuedOn EXCEPT ![c] = NoEntry]
  BY DEF AdmitGranted
<1>5. CASE queuedOn[c] = NoEntry
  <2>1. queue' = queue /\ queuedOn' = queuedOn
    BY <1>4, <1>5 DEF AdmitGranted, QueueInv, QueueTypes
  <2>2. \A d \in Callers : queuedOn[d] # NoEntry => pc'[d] \in {"admit", "wait", "leave"}
    BY <1>2, <1>5 DEF QueueInv, WaitersOK, WaiterOK, ProbeTypes
  <2>3. \A d \in Callers : pc'[d] = "leave" => queuedOn[d] # NoEntry
    BY <1>2 DEF QueueInv, LeaversQueued, ProbeTypes
  <2> QED
    BY <1>3, <2>1, <2>2, <2>3, QueuesStay
<1>6. CASE queuedOn[c] # NoEntry
  <2>1. queuedOn[c] = e /\ queue[e] # <<>>
    BY <1>6, WaitedFor DEF Waited
  <2>2. queue' = [queue EXCEPT ![e] = Tail(queue[e])]
    BY <1>6 DEF AdmitGranted
  <2> DEFINE q == queue[e]
  <2>3. q \in Seq(Callers) /\ Len(q) \in Nat \ {0} /\ q[1] = c
    BY <1>1, <2>1 DEF First, QueueInv, QueueTypes
  <2>4. /\ queue'[e] \in Seq(Callers) /\ Len(queue'[e]) = Len(q) - 1
        /\ \A i \in 1..(Len(q) - 1) : queue'[e][i] = q[i + 1]
    BY <1>1, <2>2, <2>3 DEF QueueInv, QueueTypes
  <2>5. \A f \in Entries : f # e => queue'[f] = queue[f]
    BY <2>2 DEF QueueInv, QueueTypes
  <2>6. QueueTypes'
    BY <1>4, <2>2, <2>4 DEF QueueInv, QueueTypes
  <2>7. \A i, j \in 1..Len(q) : q[i] = q[j] => i = j
    BY <1>1 DEF QueueInv, MembersQueued
  <2>8. \A f \in Entries : \A i \in 1..Len(queue[f]) : queuedOn[queue[f][i]] = f
    BY DEF QueueInv, MembersQueued
  <2>9. ASSUME NEW f \in Entries, NEW i \in 1..Len(queue'[f]), NEW j \in 1..Len(queue'[f])
        PROVE  queuedOn'[queue'[f][i]] = f /\ (queue'[f][i] = queue'[f][j] => i = j)
    <3>1. CASE f = e
      <4>1. i \in 1..(Len(q) - 1) /\ j \in 1..(Len(q) - 1)
        BY <2>4, <2>9, <3>1
      <4>2. queue'[f][i] = q[i + 1] /\ queue'[f][j] = q[j + 1]
        BY <2>4, <3>1, <4>1
      <4>3. i + 1 \in 1..Len(q) /\ j + 1 \in 1..Len(q) /\ i + 1 # 1 /\ 1 \in 1..Len(q)
        BY <2>3, <4>1
      <4>4. q[i + 1] # c /\ q[i + 1] \in Callers
        BY <2>3, <2>7, <4>3
      <4>5. queuedOn'[queue'[f][i]] = f
        BY <1>1, <1>4, <2>8, <3>1, <4>2, <4>3, <4>4 DEF QueueInv, QueueTypes
      <4>6. queue'[f][i] = queue'[f][j] => i + 1 = j + 1
        BY <2>7, <4>2, <4>3
      <4> QED
        BY <4>1, <4>5, <4>6
    <3>2. CASE f # e
      <4>1. queue'[f] = queue[f]
        BY <2>5, <3>2
      <4>2. queuedOn[queue[f][i]] = f /\ (queue[f][i] = queue[f][j] => i = j)
        BY <2>9, <4>1 DEF QueueInv, MembersQueued
      <4>3. queue[f][i] # c /\ queue[f][i] \in Callers
        BY <2>1, <2>9, <3>2, <4>1, <4>2 DEF QueueInv, QueueTypes
      <4> QED
        BY <1>4, <4>1, <4>2, <4>3 DEF QueueInv, QueueTypes
    <3> QED
      BY <3>1, <3>2
  <2>10. MembersQueued'
    BY <2>9 DEF MembersQueued
  <2>11. ASSUME NEW d \in Callers, queuedOn'[d] # NoEntry PROVE WaiterOK(d)'
    <3>1. d # c /\ queuedOn'[d] = queuedOn[d]
      BY <1>4, <2>11 DEF QueueInv, QueueTypes
    <3>2. /\ EntryOf(d) = queuedOn[d] /\ pc[d] \in {"admit", "wait", "leave"}
          /\ \E i \in 1..Len(queue[queuedOn[d]]) : queue[queuedOn[d]][i] = d
      BY <2>11, <3>1 DEF QueueInv, WaitersOK, WaiterOK
    <3>3. pc'[d] = pc[d]
      BY <1>2, <3>1 DEF ProbeTypes
    <3>4. \E i \in 1..Len(queue'[queuedOn[d]]) : queue'[queuedOn[d]][i] = d
      <4>1. CASE queuedOn[d] # e
        BY <2>5, <2>11, <3>1, <3>2, <4>1 DEF QueueInv, QueueTypes
      <4>2. CASE queuedOn[d] = e
        <5>1. PICK i \in 1..Len(q) : q[i] = d
          BY <3>2, <4>2
        <5>2. i # 1
          BY <2>3, <3>1, <5>1
        <5>3. i - 1 \in 1..Len(queue'[e]) /\ i - 1 \in 1..(Len(q) - 1) /\ (i - 1) + 1 = i
          BY <2>3, <2>4, <5>1, <5>2
        <5>4. queue'[e][i - 1] = d
          BY <2>4, <5>1, <5>3
        <5> QED
          BY <4>2, <5>3, <5>4
      <4> QED
        BY <4>1, <4>2
    <3> QED
      BY <1>3, <3>1, <3>2, <3>3, <3>4 DEF WaiterOK
  <2>12. WaitersOK'
    BY <2>11 DEF WaitersOK, WaiterOK
  <2>13. LeaversQueued'
    BY <1>2, <1>4 DEF QueueInv, QueueTypes, LeaversQueued, ProbeTypes
  <2> QED
    BY <2>6, <2>10, <2>12, <2>13 DEF QueueInv
<1> QED
  BY <1>5, <1>6

\* A caller joins the queue at its end.
LEMMA WaitQueueStep ==
  ASSUME ProbeTypes, QueueInv, NEW c \in Callers, AdmitWaits(c)
  PROVE  QueueInv'
<1> USE DEF entryVars, queueVars, callVars, bodyVars, envVars
<1> DEFINE e == EntryOf(c)
<1>1. e \in Entries /\ e # NoEntry
  BY DEF AdmitWaits, MayAdmit, EntryOf, ProbeTypes
<1>2. cooldowns' = cooldowns /\ key' = key /\ pc' = [pc EXCEPT ![c] = "wait"]
  BY DEF AdmitWaits
<1>3. \A d \in Callers : EntryOf(d)' = EntryOf(d)
  BY <1>2 DEF EntryOf
<1>4. CASE queuedOn[c] # NoEntry
  <2>1. queue' = queue /\ queuedOn' = queuedOn
    BY <1>4 DEF AdmitWaits
  <2>2. \A d \in Callers : queuedOn[d] # NoEntry => pc'[d] \in {"admit", "wait", "leave"}
    BY <1>2 DEF QueueInv, WaitersOK, WaiterOK, ProbeTypes
  <2>3. \A d \in Callers : pc'[d] = "leave" => queuedOn[d] # NoEntry
    BY <1>2 DEF QueueInv, LeaversQueued, ProbeTypes
  <2> QED
    BY <1>3, <2>1, <2>2, <2>3, QueuesStay
<1>5. CASE queuedOn[c] = NoEntry
  <2>1. queue' = [queue EXCEPT ![e] = Append(queue[e], c)]
        /\ queuedOn' = [queuedOn EXCEPT ![c] = e]
    BY <1>5 DEF AdmitWaits
  <2> DEFINE q == queue[e]
  <2>2. q \in Seq(Callers) /\ Len(q) \in Nat
    BY <1>1 DEF QueueInv, QueueTypes
  <2>3. /\ queue'[e] \in Seq(Callers) /\ Len(queue'[e]) = Len(q) + 1
        /\ \A i \in 1..Len(q) : queue'[e][i] = q[i]
        /\ queue'[e][Len(q) + 1] = c
    BY <1>1, <2>1, <2>2 DEF QueueInv, QueueTypes
  <2>4. \A f \in Entries : f # e => queue'[f] = queue[f]
    BY <2>1 DEF QueueInv, QueueTypes
  <2>5. QueueTypes'
    BY <1>1, <2>1, <2>3 DEF QueueInv, QueueTypes
  <2>6. \A f \in Entries : \A i \in 1..Len(queue[f]) :
          /\ queue[f][i] \in Callers /\ queue[f][i] # c
          /\ queuedOn[queue[f][i]] = f
    BY <1>5, NoEntryAssumption DEF QueueInv, QueueTypes, MembersQueued
  <2>7. \A d \in Callers : d # c => queuedOn'[d] = queuedOn[d]
    BY <2>1 DEF QueueInv, QueueTypes
  <2>8. queuedOn'[c] = e
    BY <2>1 DEF QueueInv, QueueTypes
  <2>9. ASSUME NEW f \in Entries, NEW i \in 1..Len(queue'[f]), NEW j \in 1..Len(queue'[f])
        PROVE  queuedOn'[queue'[f][i]] = f /\ (queue'[f][i] = queue'[f][j] => i = j)
    <3>1. CASE f # e
      <4>1. queue'[f] = queue[f]
        BY <2>4, <3>1
      <4> QED
        BY <2>6, <2>7, <2>9, <4>1 DEF QueueInv, MembersQueued
    <3>2. CASE f = e
      <4>1. i \in 1..(Len(q) + 1) /\ j \in 1..(Len(q) + 1)
        BY <2>3, <2>9, <3>2
      <4>2. \A m \in 1..Len(q) : queue'[e][m] # c /\ queuedOn'[queue'[e][m]] = e
        BY <1>1, <2>3, <2>6, <2>7, SMTT(60)
      <4>3. \A m, n \in 1..Len(q) : queue'[e][m] = queue'[e][n] => m = n
        BY <1>1, <2>3 DEF QueueInv, MembersQueued
      <4>4. \A m \in 1..(Len(q) + 1) : m \in 1..Len(q) \/ m = Len(q) + 1
        BY <2>2
      <4> QED
        BY <2>3, <2>8, <3>2, <4>1, <4>2, <4>3, <4>4
    <3> QED
      BY <3>1, <3>2
  <2>10. MembersQueued'
    BY <2>9 DEF MembersQueued
  <2>11. WaiterOK(c)'
    <3>1. Len(q) + 1 \in 1..Len(queue'[e])
      BY <2>2, <2>3
    <3>2. pc'[c] = "wait"
      BY <1>2 DEF ProbeTypes
    <3> QED
      BY <1>3, <2>3, <2>8, <3>1, <3>2 DEF WaiterOK
  <2>12. ASSUME NEW d \in Callers, d # c, queuedOn'[d] # NoEntry PROVE WaiterOK(d)'
    <3>1. queuedOn'[d] = queuedOn[d] /\ pc'[d] = pc[d]
      BY <1>2, <2>7, <2>12 DEF ProbeTypes
    <3>2. EntryOf(d) = queuedOn[d] /\ pc[d] \in {"admit", "wait", "leave"}
      BY <2>12, <3>1 DEF QueueInv, WaitersOK, WaiterOK
    <3>3. PICK i \in 1..Len(queue[queuedOn[d]]) : queue[queuedOn[d]][i] = d
      BY <2>12, <3>1 DEF QueueInv, WaitersOK, WaiterOK
    <3>4. i \in 1..Len(queue'[queuedOn[d]]) /\ queue'[queuedOn[d]][i] = d
      <4>1. CASE queuedOn[d] # e
        BY <2>4, <2>12, <3>1, <3>3, <4>1 DEF QueueInv, QueueTypes
      <4>2. CASE queuedOn[d] = e
        BY <2>2, <2>3, <3>3, <4>2
      <4> QED
        BY <4>1, <4>2
    <3> QED
      BY <1>3, <3>1, <3>2, <3>4 DEF WaiterOK
  <2>13. WaitersOK'
    BY <2>11, <2>12 DEF WaitersOK, WaiterOK
  <2>14. LeaversQueued'
    BY <1>2, <2>7 DEF QueueInv, LeaversQueued, ProbeTypes
  <2> QED
    BY <2>5, <2>10, <2>13, <2>14 DEF QueueInv
<1> QED
  BY <1>4, <1>5

\* A waiter that was not served leaves its place.
LEMMA LeaveQueueStep ==
  ASSUME ProbeTypes, QueueInv, NEW c \in Callers, Leave(c)
  PROVE  QueueInv'
<1> USE DEF entryVars, queueVars, callVars, bodyVars, envVars
<1> DEFINE e == queuedOn[c]
           q == queue[e]
<1>1. e \in Entries /\ e # NoEntry /\ q \in Seq(Callers) /\ Len(q) \in Nat
  BY DEF Leave, QueueInv, QueueTypes, LeaversQueued
<1>2. cooldowns' = cooldowns /\ key' = key /\ pc' = [pc EXCEPT ![c] = "idle"]
  BY DEF Leave
<1>3. \A d \in Callers : EntryOf(d)' = EntryOf(d)
  BY <1>2 DEF EntryOf
<1>4. queuedOn' = [queuedOn EXCEPT ![c] = NoEntry]
  BY DEF Leave
<1>5. PICK x \in 1..Len(q) : q[x] = c /\ queue' = [queue EXCEPT ![e] = RemoveAt(q, x)]
  BY DEF Leave, DropWaiter
<1>6. /\ queue'[e] \in Seq(Callers) /\ Len(queue'[e]) = Len(q) - 1
      /\ \A j \in 1..(Len(q) - 1) : queue'[e][j] = IF j < x THEN q[j] ELSE q[j + 1]
  <2>1. queue'[e] = RemoveAt(q, x)
    BY <1>1, <1>5 DEF QueueInv, QueueTypes
  <2> HIDE DEF e, q
  <2> QED
    BY <1>1, <1>5, <2>1, RemovedAt
<1>7. \A f \in Entries : f # e => queue'[f] = queue[f]
  BY <1>5 DEF QueueInv, QueueTypes
<1>8. QueueTypes'
  <2>1. RemoveAt(q, x) \in Seq(Callers)
    BY <1>1, <1>5, <1>6 DEF QueueInv, QueueTypes
  <2> QED
    BY <1>4, <1>5, <2>1 DEF QueueInv, QueueTypes
<1>9. \A i, j \in 1..Len(q) : q[i] = q[j] => i = j
  BY <1>1 DEF QueueInv, MembersQueued
<1>10. \A f \in Entries : \A i \in 1..Len(queue[f]) :
         queue[f][i] \in Callers /\ queuedOn[queue[f][i]] = f
  BY DEF QueueInv, QueueTypes, MembersQueued
<1>11. \A d \in Callers : d # c => queuedOn'[d] = queuedOn[d] /\ pc'[d] = pc[d]
  BY <1>2, <1>4 DEF QueueInv, QueueTypes, ProbeTypes
<1>12. ASSUME NEW f \in Entries, NEW i \in 1..Len(queue'[f]), NEW j \in 1..Len(queue'[f])
       PROVE  queuedOn'[queue'[f][i]] = f /\ (queue'[f][i] = queue'[f][j] => i = j)
  <2>1. CASE f # e
    <3>1. queue'[f] = queue[f]
      BY <1>7, <2>1
    <3>2. queue[f][i] # c
      BY <1>10, <1>12, <2>1, <3>1
    <3> QED
      BY <1>10, <1>11, <1>12, <3>1, <3>2 DEF QueueInv, MembersQueued
  <2>2. CASE f = e
    <3> DEFINE old(m) == IF m < x THEN m ELSE m + 1
    <3>1. i \in 1..(Len(q) - 1) /\ j \in 1..(Len(q) - 1)
      BY <1>6, <1>12, <2>2
    <3>2. /\ old(i) \in 1..Len(q) /\ old(j) \in 1..Len(q) /\ old(i) # x
          /\ old(i) = old(j) => i = j
      BY <1>1, <3>1, SMTT(60)
    <3>3. queue'[f][i] = q[old(i)] /\ queue'[f][j] = q[old(j)]
      BY <1>6, <2>2, <3>1
    <3> HIDE DEF old
    <3>4. q[old(i)] # c
      BY <1>5, <1>9, <3>2
    <3>5. queuedOn'[queue'[f][i]] = f
      BY <1>1, <1>10, <1>11, <2>2, <3>2, <3>3, <3>4, SMTT(60)
    <3> QED
      BY <1>9, <3>2, <3>3, <3>5
  <2> QED
    BY <2>1, <2>2
<1>13. MembersQueued'
  BY <1>12 DEF MembersQueued
<1>14. ASSUME NEW d \in Callers, queuedOn'[d] # NoEntry PROVE WaiterOK(d)'
  <2>1. d # c /\ queuedOn'[d] = queuedOn[d] /\ pc'[d] = pc[d]
    BY <1>4, <1>11, <1>14 DEF QueueInv, QueueTypes
  <2>2. EntryOf(d) = queuedOn[d] /\ pc[d] \in {"admit", "wait", "leave"}
    BY <1>14, <2>1 DEF QueueInv, WaitersOK, WaiterOK
  <2>3. PICK i \in 1..Len(queue[queuedOn[d]]) : queue[queuedOn[d]][i] = d
    BY <1>14, <2>1 DEF QueueInv, WaitersOK, WaiterOK
  <2>4. \E j \in 1..Len(queue'[queuedOn[d]]) : queue'[queuedOn[d]][j] = d
    <3>1. CASE queuedOn[d] # e
      BY <1>7, <1>14, <2>1, <2>3, <3>1 DEF QueueInv, QueueTypes
    <3>2. CASE queuedOn[d] = e
      <4>1. i \in 1..Len(q) /\ q[i] = d
        BY <2>3, <3>2
      <4>2. i # x
        BY <1>5, <2>1, <4>1
      <4>3. CASE i < x
        <5>1. i \in 1..(Len(q) - 1)
          BY <1>1, <4>1, <4>3
        <5> QED
          BY <1>6, <3>2, <4>1, <4>3, <5>1
      <4>4. CASE i > x
        <5>1. i - 1 \in 1..(Len(q) - 1) /\ ~(i - 1 < x) /\ (i - 1) + 1 = i
          BY <1>1, <4>1, <4>4
        <5>2. queue'[e][i - 1] = d
          BY <1>6, <4>1, <5>1
        <5> QED
          BY <1>6, <3>2, <5>1, <5>2
      <4> QED
        BY <4>1, <4>2, <4>3, <4>4
    <3> QED
      BY <3>1, <3>2
  <2> QED
    BY <1>3, <2>1, <2>2, <2>4 DEF WaiterOK
<1>15. WaitersOK'
  BY <1>14 DEF WaitersOK, WaiterOK
<1>16. LeaversQueued'
  BY <1>2, <1>11 DEF QueueInv, LeaversQueued, ProbeTypes
<1> QED
  BY <1>8, <1>13, <1>15, <1>16 DEF QueueInv

\* A return without a grant leaves the queue to the deferred removal.
LEMMA ReturnQueueStep ==
  ASSUME ProbeTypes, QueueInv, NEW c \in Callers, NEW next \in {"idle", "send"},
         Return(c, next)
  PROVE  QueueInv'
<1> USE DEF entryVars, queueVars, callVars, bodyVars, envVars
<1>1. /\ UNCHANGED <<queue, queuedOn, cooldowns, key>>
      /\ pc' = [pc EXCEPT ![c] = IF queuedOn[c] = NoEntry THEN next ELSE "leave"]
  BY DEF Return, Returned
<1>2. \A d \in Callers : EntryOf(d)' = EntryOf(d)
  BY <1>1 DEF EntryOf
<1>3. \A d \in Callers : queuedOn[d] # NoEntry => pc'[d] \in {"admit", "wait", "leave"}
  BY <1>1 DEF QueueInv, WaitersOK, WaiterOK, ProbeTypes
<1>4. \A d \in Callers : pc'[d] = "leave" => queuedOn[d] # NoEntry
  BY <1>1 DEF QueueInv, LeaversQueued, ProbeTypes
<1> QED
  BY <1>1, <1>2, <1>3, <1>4, QueuesStay

\* Every step keeps the queues.
LEMMA NextQueueInv ==
  ASSUME ProbeInv, QueueInv, [Next]_vars PROVE QueueInv'
<1> USE DEF entryVars, queueVars, callVars, bodyVars, envVars
<1>0. ProbeTypes
  BY DEF ProbeInv
<1>1. ASSUME NEW c \in Callers, Admit(c) PROVE QueueInv'
  <2>1. CASE AdmitGranted(c)
    BY <1>0, <2>1, GrantQueueStep
  <2>2. CASE AdmitWaits(c)
    BY <1>0, <2>2, WaitQueueStep
  <2>3. CASE Leave(c)
    BY <1>0, <2>3, LeaveQueueStep
  <2>4. CASE AdmitAborted(c) \/ AdmitUntracked(c) \/ AdmitRejected(c) \/ AdmitFull(c)
    <3>1. Return(c, "idle") \/ Return(c, "send")
      BY <2>4 DEF AdmitAborted, AdmitUntracked, AdmitRejected, AdmitFull
    <3> QED
      BY <1>0, <3>1, ReturnQueueStep
  <2>5. CASE Check(c) \/ Wake(c)
    <3>1. /\ UNCHANGED <<queue, queuedOn, cooldowns, key>>
          /\ pc[c] \in {"check", "wait"}
          /\ pc[c] = "wait" => pc'[c] = "admit"
          /\ pc'[c] \in {"send", "admit"}
          /\ \A d \in Callers : d # c => pc'[d] = pc[d]
      BY <1>0, <2>5 DEF Check, Wake, Returned, ProbeTypes
    <3>2. \A d \in Callers : EntryOf(d)' = EntryOf(d)
      BY <3>1 DEF EntryOf
    <3>3. \A d \in Callers : queuedOn[d] # NoEntry => pc'[d] \in {"admit", "wait", "leave"}
      BY <3>1 DEF QueueInv, WaitersOK, WaiterOK
    <3>4. \A d \in Callers : pc'[d] = "leave" => queuedOn[d] # NoEntry
      BY <3>1 DEF QueueInv, LeaversQueued
    <3> QED
      BY <3>1, <3>2, <3>3, <3>4, QueuesStay
  <2> QED
    BY <1>1, <2>1, <2>2, <2>3, <2>4, <2>5 DEF Admit
<1>2. ASSUME NEW c \in Callers, Start(c) PROVE QueueInv'
  <2>1. /\ UNCHANGED <<queue, queuedOn, cooldowns>> /\ pc[c] = "idle"
        /\ \A d \in Callers : d # c => key'[d] = key[d]
        /\ pc' = [pc EXCEPT ![c] = "check"]
    BY <1>0, <1>2 DEF Start, ProbeTypes
  <2>2. queuedOn[c] = NoEntry
    BY <2>1 DEF QueueInv, WaitersOK, WaiterOK
  <2>3. \A d \in Callers : queuedOn[d] # NoEntry =>
          EntryOf(d)' = EntryOf(d) /\ pc'[d] \in {"admit", "wait", "leave"}
    BY <1>0, <2>1, <2>2 DEF EntryOf, QueueInv, WaitersOK, WaiterOK, ProbeTypes
  <2>4. \A d \in Callers : pc'[d] = "leave" => queuedOn[d] # NoEntry
    BY <1>0, <2>1 DEF QueueInv, LeaversQueued, ProbeTypes
  <2> QED
    BY <2>1, <2>3, <2>4, QueuesStay
\* Whatever happens outside the admission.
<1>3. ASSUME UNCHANGED <<queue, queuedOn>>,
             \A d \in Callers : queuedOn[d] # NoEntry => EntryOf(d)' = EntryOf(d),
             \A d \in Callers : pc[d] \in {"admit", "wait", "leave"} => pc'[d] = pc[d],
             \A d \in Callers : pc'[d] = "leave" => pc[d] = "leave"
      PROVE  QueueInv'
  <2>1. \A d \in Callers : queuedOn[d] # NoEntry => pc'[d] \in {"admit", "wait", "leave"}
    BY <1>3 DEF QueueInv, WaitersOK, WaiterOK
  <2>2. \A d \in Callers : pc'[d] = "leave" => queuedOn[d] # NoEntry
    BY <1>3 DEF QueueInv, LeaversQueued
  <2> QED
    BY <1>3, <2>1, <2>2, QueuesStay
<1>4. ASSUME NEW c \in Callers, NEW p, ReleaseIfComplete(c, p) \/ ReleaseProbe(c, p), key' = key
      PROVE  \A d \in Callers : queuedOn[d] # NoEntry => EntryOf(d)' = EntryOf(d)
  <2>1. CASE ReleaseProbe(c, p)
    BY <1>0, <1>4, <2>1, ReleaseKeepsQueues
  <2>2. CASE cooldowns' = cooldowns
    BY <1>4, <2>2 DEF EntryOf
  <2> QED
    BY <1>4, <2>1, <2>2 DEF ReleaseIfComplete
<1>5. ASSUME NEW c \in Callers,
             ReadEnd(c) \/ Resolve(c) \/ AcceptedEOF(c) \/ ReadRelease(c)
               \/ CloseEnd(c) \/ CloseRelease(c) \/ Abandon(c)
      PROVE  QueueInv'
  <2>1. UNCHANGED <<key, pc, queue, queuedOn>>
    BY <1>5 DEF ReadEnd, Resolve, AcceptedEOF, ReadRelease, CloseEnd, CloseRelease, Abandon
  <2>2. \E p : ReleaseIfComplete(c, p) \/ ReleaseProbe(c, p)
    BY <1>5 DEF ReadEnd, Resolve, AcceptedEOF, ReadRelease, CloseEnd, CloseRelease, Abandon
  <2> QED
    BY <1>3, <1>4, <2>1, <2>2
<1>6. ASSUME NEW c \in Callers, SendFailed(c) PROVE QueueInv'
  <2>1. /\ UNCHANGED <<key, queue, queuedOn>> /\ pc[c] = "send"
        /\ pc' = [pc EXCEPT ![c] = "end"]
        /\ cooldowns' = cooldowns
             \/ ReleaseIfComplete(c, [permit[c] EXCEPT !.requested = TRUE])
    BY <1>6 DEF SendFailed
  <2>2. \A d \in Callers : queuedOn[d] # NoEntry => EntryOf(d)' = EntryOf(d)
    BY <1>4, <2>1 DEF EntryOf
  <2>3. \A d \in Callers : d # c => pc'[d] = pc[d]
    BY <1>0, <2>1 DEF ProbeTypes
  <2>4. pc'[c] = "end"
    BY <1>0, <2>1 DEF ProbeTypes
  <2> QED
    BY <1>3, <2>1, <2>2, <2>3, <2>4
<1>7. ASSUME NEW c \in Callers, Observe(c) PROVE QueueInv'
  <2>1. UNCHANGED <<key, pc, queue, queuedOn>>
    BY <1>7 DEF Observe, Throttle
  <2>2. \A d \in Callers : queuedOn[d] # NoEntry => EntryOf(d)' = EntryOf(d)
    BY <1>0, <1>7, <2>1, ThrottleKeepsQueues DEF Observe, ProbeTypes
  <2> QED
    BY <1>3, <2>1, <2>2
<1>8. ASSUME NEW c \in Callers,
             Respond(c) \/ ReadBegin(c) \/ CloseBegin(c) \/ ReadMore(c) \/ AbandonedEnd(c)
               \/ Cancel(c) \/ Finish(c)
      PROVE  QueueInv'
  <2>1. /\ UNCHANGED <<key, cooldowns, queue, queuedOn>>
        /\ UNCHANGED pc \/ (pc[c] \in {"send", "body", "end"} /\
                            \E next \in {"body", "idle"} : pc' = [pc EXCEPT ![c] = next])
    BY <1>8 DEF Respond, ReadBegin, CloseBegin, ReadMore, AbandonedEnd, Cancel, Finish
  <2>2. \A d \in Callers : EntryOf(d)' = EntryOf(d)
    BY <2>1 DEF EntryOf
  <2>3. /\ \A d \in Callers : pc[d] \in {"admit", "wait", "leave"} => pc'[d] = pc[d]
        /\ \A d \in Callers : pc'[d] = "leave" => pc[d] = "leave"
    BY <1>0, <2>1 DEF ProbeTypes
  <2> QED
    BY <1>3, <2>1, <2>2, <2>3
<1>9. CASE Shutdown \/ Tick \/ UNCHANGED vars
  <2>1. UNCHANGED <<key, pc, cooldowns, queue, queuedOn>>
    BY <1>9 DEF Shutdown, Tick, vars
  <2> QED
    BY <1>3, <2>1 DEF EntryOf
<1> QED
  BY <1>1, <1>2, <1>5, <1>6, <1>7, <1>8, <1>9 DEF Next, Read, Close

\* The queues hold the waiters and nobody else, each waiter once and on the
\* live entry of its deployment.
THEOREM QueueInvariant == Spec => [](ProbeInv /\ QueueInv)
<1>1. Init => QueueInv
  <2> SUFFICES ASSUME Init PROVE QueueInv
    OBVIOUS
  <2>1. \A e \in Entries : queue[e] = << >>
    BY DEF Init
  <2>2. \A c \in Callers : queuedOn[c] = NoEntry /\ pc[c] = "idle"
    BY DEF Init
  <2>3. QueueTypes
    BY DEF Init, QueueTypes
  <2> QED
    BY <2>1, <2>2, <2>3 DEF QueueInv, MembersQueued, WaitersOK, WaiterOK, LeaversQueued
<1>2. ProbeInv /\ QueueInv /\ [Next]_vars => QueueInv'
  BY NextQueueInv
<1> QED
  BY <1>1, <1>2, ProbeInvariant, PTL DEF Spec

\* Nobody overtakes a recovery queue (QueueNotBypassed): a caller goes on to an
\* entry with waiters only with its probe, and from the head of the queue
\* (acquireAzureRouteInference), whatever was swept, released or given up.
THEOREM QueueNeverBypassed == Spec => QueueNotBypassed
<1>1. ASSUME ProbeInv, QueueInv, Next, NEW c \in Callers, NEW d \in Callers,
             pc[c] # "send", pc'[c] = "send", c # d, queuedOn[d] # NoEntry, key[d] = key[c]
      PROVE  Holding(c)' /\ Head(queue[queuedOn[d]]) = c
  <2>1. EntryOf(c) = queuedOn[d] /\ EntryOf(c) # NoEntry /\ queue[EntryOf(c)] # <<>>
    BY <1>1, WaitedFor, SMTT(60) DEF Waited, EntryOf
  <2>2. AdmitGranted(c)
    <3>1. pc \in [Callers -> PCs]
      BY <1>1, SMTT(60) DEF ProbeInv, ProbeTypes, PCs
    <3>2. ASSUME NEW x \in Callers, x # c \/ ~Admit(c),
                 \/ Start(x) \/ Admit(x) \/ SendFailed(x) \/ Respond(x) \/ Observe(x)
                 \/ Read(x) \/ Close(x) \/ Abandon(x) \/ Finish(x) \/ Cancel(x)
          PROVE  FALSE
      <4>1. CASE Start(x) \/ SendFailed(x) \/ Respond(x) \/ Observe(x)
        BY <1>1, <3>1, <4>1, SMTT(60) DEF Start, SendFailed, Respond, Observe, callVars
      <4>2. CASE Admit(x)
        <5>1. x # c
          BY <3>2, <4>2
        <5>2. \E next : pc' = [pc EXCEPT ![x] = next]
          <6>1. CASE Check(x) \/ Wake(x) \/ Leave(x)
            BY <6>1 DEF Check, Wake, Leave, Returned
          <6>2. CASE AdmitGranted(x) \/ AdmitWaits(x)
            BY <6>2 DEF AdmitGranted, AdmitWaits, Returned
          <6>3. CASE AdmitAborted(x) \/ AdmitUntracked(x) \/ AdmitRejected(x) \/ AdmitFull(x)
            BY <6>3 DEF AdmitAborted, AdmitUntracked, AdmitRejected, AdmitFull, Return, Returned
          <6> QED
            BY <4>2, <6>1, <6>2, <6>3 DEF Admit
        <5> QED
          BY <1>1, <3>1, <5>1, <5>2
      <4>3. CASE Read(x)
        BY <1>1, <3>1, <4>3, SMTT(60)
        DEF Read, ReadBegin, ReadEnd, ReadMore, Resolve, AcceptedEOF, AbandonedEnd, ReadRelease,
            callVars
      <4>4. CASE Close(x) \/ Abandon(x) \/ Finish(x) \/ Cancel(x)
        BY <1>1, <3>1, <4>4, SMTT(60)
        DEF Close, CloseBegin, CloseEnd, CloseRelease, Abandon, Finish, Cancel, callVars
      <4> QED
        BY <3>2, <4>1, <4>2, <4>3, <4>4
    <3>3. ~Shutdown /\ ~Tick
      BY <1>1 DEF Shutdown, Tick, callVars
    <3>4. Admit(c)
      BY <1>1, <3>2, <3>3 DEF Next
    <3> QED
      BY <1>1, <2>1, <3>1, <3>4, SMTT(60)
      DEF Admit, Check, AdmitAborted, AdmitUntracked, AdmitRejected, AdmitFull, AdmitWaits,
          Wake, Leave, Return, Returned
  <2>3. Holding(c)'
    BY <1>1, <2>1, <2>2 DEF AdmitGranted, Holding, NewPermit, ProbeInv, ProbeTypes
  <2>4. Head(queue[EntryOf(c)]) = c
    BY <2>1, <2>2 DEF AdmitGranted, Admissible, First
  <2> QED
    BY <2>1, <2>3, <2>4
<1> DEFINE NotBypassed ==
      \A c, d \in Callers :
        (pc[c] # "send" /\ pc'[c] = "send" /\ c # d /\ queuedOn[d] # NoEntry /\ key[d] = key[c])
          => /\ Holding(c)'
             /\ Head(queue[queuedOn[d]]) = c
<1>2. ProbeInv /\ QueueInv /\ [Next]_vars => [NotBypassed]_vars
  BY <1>1
<1> QED
  BY <1>2, QueueInvariant, PTL DEF Spec, QueueNotBypassed
=============================================================================

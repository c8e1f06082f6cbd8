------------------------ MODULE CopilotTrafficProofs ------------------------
(***************************************************************************)
(* Proofs about CopilotTraffic: a probe has one owner, a delay that it     *)
(* brings back holds up everybody else, no waiter is forgotten, and every  *)
(* wait ends, for every set of callers and keys, every delay and limit.    *)
(***************************************************************************)
EXTENDS CopilotTraffic, FiniteSetTheorems, TLAPS

Types ==
  /\ present \in [Keys -> BOOLEAN]
  /\ remaining \in [Keys -> Nat]
  /\ probe \in [Keys -> Callers \cup {Nobody}]
  /\ pc \in [Callers -> {"idle", "check", "wait", "send", "body"}]
  /\ keys \in [Callers -> Requests]
  /\ held \in [Callers -> SUBSET Keys]
  /\ answer \in [Callers -> [kind : Kinds, evidence : SUBSET (Keys \X Delays)]]
  /\ complete \in [Callers -> BOOLEAN]
  /\ reader \in [Callers -> {"none", "observe", "event"}]
  /\ closer \in [Callers -> {"none", "observe"}]
  /\ once \in [Callers -> {"no", "release", "done"}]
  /\ owed \in [Keys -> Nat]

\* What is observed is the body of a request in progress, and once only.
BodyOK(c) ==
  /\ reader[c] # "none" \/ closer[c] # "none" \/ once[c] # "no" \/ complete[c] => pc[c] = "body"
  /\ once[c] # "no" => reader[c] # "event"
  /\ once[c] = "done" => reader[c] = "none" /\ ~complete[c]
  /\ \A e, f \in answer[c].evidence : e = f
Bodies == \A c \in Callers : BodyOK(c)

\* The probes are those of the permits.
ProbesHeld == \A k \in Keys, c \in Callers : k \in held[c] <=> present[k] /\ probe[k] = c
HolderOK(c) == held[c] # {} => pc[c] \in {"send", "body"} /\ once[c] # "done"
HoldersBusy == \A c \in Callers : HolderOK(c)

\* An entry that is gone has no probe.
NoProbeLeft == \A k \in Keys : ~present[k] => probe[k] = Nobody

\* The holder of k has read a delay that it has yet to install.
Reading(c) == reader[c] = "event" \/ (complete[c] /\ once[c] = "no")
Renewing(c, k) ==
  /\ k \in held[c] /\ Reading(c)
  /\ \E d \in Delays : owed[k] <= d /\ <<k, d>> \in answer[c].evidence

\* A delay that is owed is part of the cooldown, or will be before the probe
\* is given back.
OwedInv ==
  \A k \in Keys : owed[k] # 0 =>
    /\ present[k]
    /\ owed[k] <= remaining[k] \/ \E c \in Callers : Renewing(c, k)

IInv ==
  Types /\ Bodies /\ ProbesHeld /\ HoldersBusy /\ NoProbeLeft /\ OwedInv

\* A step of one caller leaves the bodies of the others alone.
Elsewhere(c) ==
  \A x \in Callers \ {c} :
    /\ pc'[x] = pc[x] /\ reader'[x] = reader[x] /\ closer'[x] = closer[x]
    /\ once'[x] = once[x] /\ complete'[x] = complete[x] /\ answer'[x] = answer[x]

\* The step of one caller, put together.
LEMMA StepIInv ==
  ASSUME IInv, NEW c \in Callers, Elsewhere(c),
         Types', BodyOK(c)', HolderOK(c)', ProbesHeld', NoProbeLeft', OwedInv',
         \A x \in Callers \ {c} : held'[x] = held[x]
  PROVE  IInv'
<1>1. Bodies'
  BY DEF IInv, Bodies, BodyOK, Elsewhere
<1>2. HoldersBusy'
  BY DEF IInv, HoldersBusy, HolderOK, Elsewhere
<1> QED
  BY <1>1, <1>2 DEF IInv

\* A step that leaves the entries alone, while c goes on renewing what it did.
LEMMA TableStays ==
  ASSUME IInv, NEW c \in Callers, Elsewhere(c),
         UNCHANGED <<present, remaining, probe, held, owed>>,
         Reading(c) => Reading(c)' /\ answer'[c].evidence = answer[c].evidence
  PROVE  ProbesHeld' /\ NoProbeLeft' /\ OwedInv'
<1>1. ProbesHeld' /\ NoProbeLeft'
  BY DEF IInv, ProbesHeld, NoProbeLeft
<1>2. ASSUME NEW k \in Keys, NEW x \in Callers, Renewing(x, k) PROVE Renewing(x, k)'
  <2>1. CASE x = c
    BY <1>2, <2>1 DEF Renewing
  <2>2. CASE x # c
    BY <1>2, <2>2 DEF Renewing, Reading, Elsewhere
  <2> QED
    BY <2>1, <2>2
<1>3. OwedInv'
  BY <1>2 DEF IInv, OwedInv
<1> QED
  BY <1>1, <1>3

\* A caller on its way to a probe, to a place in the queue or to a rejection.
LEMMA CallGoesOn ==
  ASSUME IInv, NEW c \in Callers,
         NEW p \in {"idle", "check", "wait"}, pc[c] \in {"idle", "check", "wait"},
         pc' = [pc EXCEPT ![c] = p], keys' \in [Callers -> Requests],
         UNCHANGED <<present, remaining, probe, held, owed, answer, complete, reader, closer, once>>
  PROVE  IInv'
<1>1. Elsewhere(c)
  BY DEF Elsewhere, IInv, Types
<1>2. Types'
  BY DEF IInv, Types
<1>3. BodyOK(c)' /\ HolderOK(c)'
  BY DEF IInv, Types, Bodies, BodyOK, HoldersBusy, HolderOK
<1>4. ProbesHeld' /\ NoProbeLeft' /\ OwedInv'
  BY <1>1, TableStays DEF Reading
<1> QED
  BY <1>1, <1>2, <1>3, <1>4, StepIInv

\* The probe of every cooldown of the caller's keys, which nobody had.
LEMMA AdmitStep ==
  ASSUME IInv, NEW c \in Callers, Admit(c)
  PROVE  IInv'
<1> DEFINE mine == {k \in KeysOf(c) : present[k]}
<1>1. /\ pc[c] = "check" /\ pc' = [pc EXCEPT ![c] = "send"]
      /\ held' = [held EXCEPT ![c] = mine]
      /\ probe' = [k \in Keys |-> IF k \in mine THEN c ELSE probe[k]]
      /\ UNCHANGED <<present, remaining, keys, owed, answer, complete, reader, closer, once>>
  BY DEF Admit, waitVars, bodyVars
<1>2. \A k \in mine : k \in Keys /\ present[k] /\ probe[k] = Nobody
  <2>1. \A i \in DOMAIN keys[c] : keys[c][i] \in Keys
    BY RequestAssumption DEF IInv, Types
  <2>2. \A i \in DOMAIN keys[c] : present[keys[c][i]] => probe[keys[c][i]] = Nobody
    BY DEF Admit, Probed
  <2> QED
    BY <2>1, <2>2 DEF KeysOf
<1> HIDE DEF mine
<1>3. held[c] = {}
  BY <1>1 DEF IInv, HoldersBusy, HolderOK
<1>4. Elsewhere(c) /\ \A x \in Callers \ {c} : held'[x] = held[x]
  BY <1>1 DEF Elsewhere, IInv, Types
<1>5. Types'
  BY <1>1, <1>2 DEF IInv, Types
<1>6. BodyOK(c)' /\ HolderOK(c)'
  BY <1>1 DEF IInv, Types, Bodies, BodyOK, HolderOK
<1>7. ProbesHeld'
  <2>1. ASSUME NEW k \in Keys, NEW x \in Callers PROVE (k \in held'[x]) <=> present[k] /\ probe'[k] = x
    <3>1. (k \in held[x]) <=> present[k] /\ probe[k] = x
      BY DEF IInv, ProbesHeld
    <3>2. x # Nobody
      BY NobodyAssumption
    <3>3. CASE k \in mine
      BY <1>1, <1>2, <1>3, <1>4, <3>1, <3>2, <3>3 DEF IInv, Types
    <3>4. CASE k \notin mine
      BY <1>1, <1>3, <1>4, <3>1, <3>4 DEF IInv, Types
    <3> QED
      BY <3>3, <3>4
  <2> QED
    BY <1>1, <2>1 DEF ProbesHeld
<1>8. NoProbeLeft'
  BY <1>1, <1>2 DEF IInv, NoProbeLeft
<1>9. OwedInv'
  <2>1. ASSUME NEW k \in Keys, NEW x \in Callers, Renewing(x, k) PROVE Renewing(x, k)'
    BY <1>1, <1>3, <1>4, <2>1 DEF Renewing, Reading
  <2> QED
    BY <1>1, <2>1 DEF IInv, OwedInv
<1> QED
  BY <1>4, <1>5, <1>6, <1>7, <1>8, <1>9, StepIInv

\* permit.release: what c gives back is what it holds, and nothing is owed for
\* it any more.
LEMMA ReleaseTable ==
  ASSUME IInv, NEW c \in Callers, Release(c), UNCHANGED owed,
         Elsewhere(c), ~Reading(c)
  PROVE  /\ present' \in [Keys -> BOOLEAN] /\ remaining' \in [Keys -> Nat]
         /\ probe' \in [Keys -> Callers \cup {Nobody}] /\ held' \in [Callers -> SUBSET Keys]
         /\ held'[c] = {} /\ \A x \in Callers \ {c} : held'[x] = held[x]
         /\ ProbesHeld' /\ NoProbeLeft' /\ OwedInv'
<1> DEFINE mine == {k \in held[c] : probe[k] = c}
<1>1. /\ held' = [held EXCEPT ![c] = {}]
      /\ probe' = [k \in Keys |-> IF k \in mine THEN Nobody ELSE probe[k]]
      /\ present' = [k \in Keys |-> present[k] /\ ~(k \in mine /\ remaining[k] = 0)]
      /\ UNCHANGED remaining
  BY DEF Release
<1>2. \A k \in Keys : k \in mine <=> k \in held[c]
  BY DEF IInv, ProbesHeld
<1> HIDE DEF mine
<1>3. /\ present' \in [Keys -> BOOLEAN] /\ remaining' \in [Keys -> Nat]
      /\ probe' \in [Keys -> Callers \cup {Nobody}] /\ held' \in [Callers -> SUBSET Keys]
      /\ held'[c] = {} /\ \A x \in Callers \ {c} : held'[x] = held[x]
  BY <1>1 DEF IInv, Types
<1>4. ProbesHeld'
  <2>1. ASSUME NEW k \in Keys, NEW x \in Callers
        PROVE (k \in held'[x]) <=> present'[k] /\ probe'[k] = x
    <3>1. /\ (k \in held[x]) <=> present[k] /\ probe[k] = x
          /\ (k \in held[c]) <=> present[k] /\ probe[k] = c
      BY DEF IInv, ProbesHeld
    <3>2. x # Nobody
      BY NobodyAssumption
    <3>3. CASE k \in held[c]
      BY <1>1, <1>2, <1>3, <3>1, <3>2, <3>3
    <3>4. CASE k \notin held[c]
      BY <1>1, <1>2, <1>3, <3>1, <3>4
    <3> QED
      BY <3>3, <3>4
  <2> QED
    BY <2>1 DEF ProbesHeld
<1>5. NoProbeLeft'
  BY <1>1 DEF IInv, NoProbeLeft
<1>6. OwedInv'
  <2>1. SUFFICES ASSUME NEW k \in Keys, owed[k] # 0
                 PROVE /\ present'[k]
                       /\ owed[k] <= remaining[k] \/ \E x \in Callers : Renewing(x, k)'
    BY <1>1 DEF OwedInv
  <2>2. present[k] /\ owed[k] \in Nat /\ remaining[k] \in Nat
    BY <2>1 DEF IInv, Types, OwedInv
  <2>3. CASE owed[k] <= remaining[k]
    <3>1. remaining[k] # 0
      BY <2>1, <2>2, <2>3
    <3>2. present'[k]
      BY <1>1, <2>2, <3>1
    <3> QED
      BY <2>3, <3>2
  <2>4. CASE ~(owed[k] <= remaining[k])
    <3>1. PICK x \in Callers : Renewing(x, k)
      BY <2>1, <2>4 DEF IInv, OwedInv
    <3>2. x # c
      BY <3>1 DEF Renewing
    <3>3. k \notin held[c]
      BY <3>1, <3>2 DEF Renewing, IInv, ProbesHeld
    <3>4. Renewing(x, k)'
      BY <1>3, <3>1, <3>2 DEF Renewing, Reading, Elsewhere
    <3> QED
      BY <1>1, <1>2, <2>2, <3>3, <3>4
  <2> QED
    BY <2>3, <2>4
<1> QED
  BY <1>3, <1>4, <1>5, <1>6

LEMMA SendFailsStep ==
  ASSUME IInv, NEW c \in Callers, SendFails(c)
  PROVE  IInv'
<1>1. /\ pc[c] = "send" /\ pc' = [pc EXCEPT ![c] = "idle"] /\ Release(c)
      /\ UNCHANGED <<keys, owed, answer, complete, reader, closer, once>>
  BY DEF SendFails, waitVars, bodyVars
<1>2. Elsewhere(c)
  BY <1>1 DEF Elsewhere, IInv, Types
<1>3. ~Reading(c)
  BY <1>1 DEF Reading, IInv, Types, Bodies, BodyOK
<1>4. /\ present' \in [Keys -> BOOLEAN] /\ remaining' \in [Keys -> Nat]
      /\ probe' \in [Keys -> Callers \cup {Nobody}] /\ held' \in [Callers -> SUBSET Keys]
      /\ held'[c] = {} /\ \A x \in Callers \ {c} : held'[x] = held[x]
      /\ ProbesHeld' /\ NoProbeLeft' /\ OwedInv'
  BY <1>1, <1>2, <1>3, ReleaseTable
<1>5. Types'
  BY <1>1, <1>4 DEF IInv, Types
<1>6. BodyOK(c)' /\ HolderOK(c)'
  BY <1>1, <1>4 DEF IInv, Types, Bodies, BodyOK, HolderOK
<1> QED
  BY <1>2, <1>4, <1>5, <1>6, StepIInv

LEMMA ObserveReleaseStep ==
  ASSUME IInv, NEW c \in Callers, ObserveRelease(c)
  PROVE  IInv'
<1>1. /\ once[c] = "release" /\ Release(c) /\ UNCHANGED <<keys, owed>>
      /\ answer' = [answer EXCEPT ![c] = NoAnswer]
      /\ complete' = [complete EXCEPT ![c] = FALSE]
      /\ reader' = [reader EXCEPT ![c] = "none"]
  BY DEF ObserveRelease, Forget, waitVars
<1>2. \/ /\ closer' = [closer EXCEPT ![c] = "none"] /\ once' = [once EXCEPT ![c] = "no"]
         /\ pc' = [pc EXCEPT ![c] = "idle"]
      \/ /\ closer[c] # "observe" /\ once' = [once EXCEPT ![c] = "done"]
         /\ UNCHANGED <<pc, closer>>
  BY DEF ObserveRelease, Finish
<1>3. Elsewhere(c)
  BY <1>1, <1>2 DEF Elsewhere, IInv, Types
<1>4. ~Reading(c) /\ pc[c] = "body"
  BY <1>1 DEF Reading, IInv, Types, Bodies, BodyOK
<1>5. /\ present' \in [Keys -> BOOLEAN] /\ remaining' \in [Keys -> Nat]
      /\ probe' \in [Keys -> Callers \cup {Nobody}] /\ held' \in [Callers -> SUBSET Keys]
      /\ held'[c] = {} /\ \A x \in Callers \ {c} : held'[x] = held[x]
      /\ ProbesHeld' /\ NoProbeLeft' /\ OwedInv'
  BY <1>1, <1>3, <1>4, ReleaseTable
<1>6. Types'
  <2>1. NoAnswer \in [kind : Kinds, evidence : SUBSET (Keys \X Delays)]
    BY DEF NoAnswer, Kinds
  <2>2. /\ pc' \in [Callers -> {"idle", "check", "wait", "send", "body"}]
        /\ closer' \in [Callers -> {"none", "observe"}]
        /\ once' \in [Callers -> {"no", "release", "done"}]
    BY <1>2, ZenonT(60) DEF IInv, Types
  <2>3. /\ answer' \in [Callers -> [kind : Kinds, evidence : SUBSET (Keys \X Delays)]]
        /\ complete' \in [Callers -> BOOLEAN] /\ reader' \in [Callers -> {"none", "observe", "event"}]
    BY <1>1, <2>1 DEF IInv, Types
  <2> QED
    BY <1>1, <1>5, <2>2, <2>3 DEF IInv, Types
<1>7. BodyOK(c)' /\ HolderOK(c)'
  <2>1. /\ answer'[c].evidence = {} /\ ~complete'[c] /\ reader'[c] = "none"
    BY <1>1 DEF IInv, Types, NoAnswer
  <2>2. \/ closer'[c] = "none" /\ once'[c] = "no"
        \/ once'[c] = "done" /\ pc'[c] = "body"
    BY <1>2, <1>4 DEF IInv, Types
  <2> QED
    BY <1>5, <2>1, <2>2 DEF BodyOK, HolderOK
<1> QED
  BY <1>3, <1>5, <1>6, <1>7, StepIInv

\* observeThrottle: the cooldown of k lasts for the delay at least, and the
\* others what they lasted, except one that a full table forgets.
LEMMA ThrottleTable ==
  ASSUME IInv, NEW k \in Keys, NEW d \in Delays, Throttle(k, d),
         UNCHANGED held
  PROVE  /\ present' \in [Keys -> BOOLEAN] /\ remaining' \in [Keys -> Nat]
         /\ probe' \in [Keys -> Callers \cup {Nobody}] /\ owed' \in [Keys -> Nat]
         /\ ProbesHeld' /\ NoProbeLeft'
         /\ \A j \in Keys : owed'[j] # 0 =>
              /\ owed'[j] = owed[j] /\ present'[j]
              /\ owed[j] <= remaining[j] => owed[j] <= remaining'[j]
              /\ j = k /\ owed[j] <= d => owed[j] <= remaining'[j]
<1>1. d \in Nat /\ d # 0 /\ remaining[k] \in Nat /\ Until(k, d) \in Nat
      /\ d <= Until(k, d) /\ remaining[k] <= Until(k, d)
  BY LimitAssumption DEF IInv, Types, Until
<1>2. CASE present[k] /\ remaining' = [remaining EXCEPT ![k] = Until(k, d)]
           /\ UNCHANGED <<present, probe, owed>>
  <2>1. \A j \in Keys : /\ owed[j] \in Nat /\ remaining[j] \in Nat
                        /\ owed[j] # 0 => present[j]
                        /\ j # k => remaining'[j] = remaining[j]
    BY <1>2 DEF IInv, Types, OwedInv
  <2>2. remaining'[k] = Until(k, d)
    BY <1>2 DEF IInv, Types
  <2>3. \A j \in Keys : owed'[j] # 0 =>
              /\ owed'[j] = owed[j] /\ present'[j]
              /\ owed[j] <= remaining[j] => owed[j] <= remaining'[j]
              /\ j = k /\ owed[j] <= d => owed[j] <= remaining'[j]
    BY <1>1, <1>2, <2>1, <2>2
  <2> QED
    BY <1>1, <1>2, <2>3 DEF IInv, Types, ProbesHeld, NoProbeLeft
<1>3. CASE ~present[k] /\ present' = [present EXCEPT ![k] = TRUE]
           /\ remaining' = [remaining EXCEPT ![k] = d] /\ UNCHANGED <<probe, owed>>
  <2>1. \A j \in Keys : /\ owed[j] # 0 => present[j] /\ j # k
                        /\ j # k => remaining'[j] = remaining[j] /\ present'[j] = present[j]
    BY <1>3 DEF IInv, Types, OwedInv
  <2>2. ProbesHeld'
    <3>1. ASSUME NEW j \in Keys, NEW x \in Callers PROVE (j \in held[x]) <=> present'[j] /\ probe[j] = x
      <4>1. (j \in held[x]) <=> present[j] /\ probe[j] = x
        BY DEF IInv, ProbesHeld
      <4>2. j = k => probe[j] = Nobody /\ x # Nobody
        BY NobodyAssumption, <1>3 DEF IInv, NoProbeLeft
      <4> QED
        BY <2>1, <4>1, <4>2
    <3> QED
      BY <1>3, <3>1 DEF ProbesHeld
  <2>3. NoProbeLeft'
    BY <1>3 DEF IInv, Types, NoProbeLeft
  <2>4. /\ present' \in [Keys -> BOOLEAN] /\ remaining' \in [Keys -> Nat]
        /\ probe' \in [Keys -> Callers \cup {Nobody}] /\ owed' \in [Keys -> Nat]
    BY <1>1, <1>3 DEF IInv, Types
  <2> QED
    BY <1>3, <2>1, <2>2, <2>3, <2>4
<1>4. ASSUME NEW old \in Evictable, ~present[k],
             present' = [present EXCEPT ![old] = FALSE, ![k] = TRUE],
             remaining' = [remaining EXCEPT ![old] = 0, ![k] = d],
             probe' = [probe EXCEPT ![old] = Nobody],
             owed' = [owed EXCEPT ![old] = 0]
      PROVE  /\ present' \in [Keys -> BOOLEAN] /\ remaining' \in [Keys -> Nat]
             /\ probe' \in [Keys -> Callers \cup {Nobody}] /\ owed' \in [Keys -> Nat]
             /\ ProbesHeld' /\ NoProbeLeft'
             /\ \A j \in Keys : owed'[j] # 0 =>
                  /\ owed'[j] = owed[j] /\ present'[j]
                  /\ owed[j] <= remaining[j] => owed[j] <= remaining'[j]
                  /\ j = k /\ owed[j] <= d => owed[j] <= remaining'[j]
  <2>1. old \in Keys /\ present[old] /\ probe[old] = Nobody /\ old # k
    BY <1>4 DEF Evictable
  <2>2. probe' = probe
    BY <1>4, <2>1 DEF IInv, Types
  <2>3. /\ present' \in [Keys -> BOOLEAN] /\ remaining' \in [Keys -> Nat] /\ owed' \in [Keys -> Nat]
    BY <1>1, <1>4, <2>1 DEF IInv, Types
  <2>4. \A j \in Keys : /\ owed'[j] # 0 => owed'[j] = owed[j] /\ present[j] /\ j # k /\ j # old
                        /\ j \notin {k, old} => remaining'[j] = remaining[j] /\ present'[j] = present[j]
    BY <1>4, <2>1, ZenonT(60) DEF IInv, Types, OwedInv
  <2>5. ~present'[old] /\ present'[k]
    BY <1>4, <2>1 DEF IInv, Types
  <2>6. ProbesHeld'
    <3>1. ASSUME NEW j \in Keys, NEW x \in Callers PROVE (j \in held[x]) <=> present'[j] /\ probe[j] = x
      <4>1. (j \in held[x]) <=> present[j] /\ probe[j] = x
        BY DEF IInv, ProbesHeld
      <4>2. j \in {k, old} => probe[j] = Nobody
        BY <1>4, <2>1 DEF IInv, NoProbeLeft
      <4>3. x # Nobody
        BY NobodyAssumption
      <4> QED
        BY <2>4, <4>1, <4>2, <4>3
    <3> QED
      BY <2>2, <3>1 DEF ProbesHeld
  <2>7. NoProbeLeft'
    <3>1. ASSUME NEW j \in Keys, ~present'[j] PROVE probe[j] = Nobody
      BY <2>1, <2>4, <2>5, <3>1 DEF IInv, NoProbeLeft
    <3> QED
      BY <2>2, <3>1 DEF NoProbeLeft
  <2> QED
    BY <2>2, <2>3, <2>4, <2>6, <2>7 DEF IInv, Types
<1>5. CASE UNCHANGED <<present, remaining, probe, owed>> /\ ~present[k]
  BY <1>5 DEF IInv, Types, ProbesHeld, NoProbeLeft, OwedInv
<1> QED
  BY <1>2, <1>3, <1>4, <1>5 DEF Throttle, tableVars

\* What the probe of c has read is installed.
LEMMA ThrottlePays ==
  ASSUME IInv, NEW c \in Callers, NEW e \in answer[c].evidence,
         Throttle(e[1], e[2]), UNCHANGED held, Elsewhere(c)
  PROVE  /\ present' \in [Keys -> BOOLEAN] /\ remaining' \in [Keys -> Nat]
         /\ probe' \in [Keys -> Callers \cup {Nobody}] /\ owed' \in [Keys -> Nat]
         /\ ProbesHeld' /\ NoProbeLeft' /\ OwedInv'
<1> DEFINE k == e[1]
           d == e[2]
<1>1. k \in Keys /\ d \in Delays /\ e = <<k, d>>
  BY DEF IInv, Types
<1>2. \A f \in answer[c].evidence : f = e
  BY DEF IInv, Bodies, BodyOK
<1> HIDE DEF k, d
<1>3. /\ present' \in [Keys -> BOOLEAN] /\ remaining' \in [Keys -> Nat]
      /\ probe' \in [Keys -> Callers \cup {Nobody}] /\ owed' \in [Keys -> Nat]
      /\ ProbesHeld' /\ NoProbeLeft'
      /\ \A j \in Keys : owed'[j] # 0 =>
           /\ owed'[j] = owed[j] /\ present'[j]
           /\ owed[j] <= remaining[j] => owed[j] <= remaining'[j]
           /\ j = k /\ owed[j] <= d => owed[j] <= remaining'[j]
  BY <1>1, ThrottleTable DEF k, d
<1>4. OwedInv'
  <2>1. SUFFICES ASSUME NEW j \in Keys, owed'[j] # 0
                 PROVE present'[j] /\ (owed'[j] <= remaining'[j] \/ \E x \in Callers : Renewing(x, j)')
    BY DEF OwedInv
  <2>2. CASE owed[j] <= remaining[j]
    BY <1>3, <2>1, <2>2
  <2>3. CASE ~(owed[j] <= remaining[j])
    <3>1. PICK x \in Callers : Renewing(x, j)
      BY <1>3, <2>1, <2>3 DEF IInv, OwedInv
    <3>2. CASE x = c
      <4>1. PICK b \in Delays : owed[j] <= b /\ <<j, b>> \in answer[c].evidence
        BY <3>1, <3>2 DEF Renewing
      <4>2. j = k /\ b = d
        BY <1>1, <1>2, <4>1
      <4> QED
        BY <1>3, <2>1, <4>1, <4>2
    <3>3. CASE x # c
      <4>1. owed'[j] = owed[j]
        BY <1>3, <2>1
      <4>2. Renewing(x, j)'
        BY <3>1, <3>3, <4>1 DEF Renewing, Reading, Elsewhere
      <4> QED
        BY <1>3, <2>1, <4>2
    <3> QED
      BY <3>2, <3>3
  <2> QED
    BY <2>2, <2>3
<1> QED
  BY <1>3, <1>4

\* The answer goes to its reader, which takes the permit along.
LEMMA RespondStep ==
  ASSUME IInv, NEW c \in Callers, Respond(c)
  PROVE  IInv'
<1>1. PICK kind \in Kinds, evidence \in Evidence(c) :
        /\ kind = "plain" <=> evidence = {}
        /\ answer' = [answer EXCEPT ![c] = [kind |-> kind, evidence |-> evidence]]
        /\ pc' = [pc EXCEPT ![c] = IF kind = "plain" /\ held[c] = {} THEN "idle" ELSE "body"]
  BY DEF Respond
<1>2. /\ pc[c] = "send"
      /\ UNCHANGED <<present, remaining, probe, keys, held, owed, complete, reader, closer, once>>
  BY DEF Respond, tableVars, waitVars
<1>3. evidence \in SUBSET (Keys \X Delays) /\ \A e, f \in evidence : e = f
  <2>1. KeysOf(c) \subseteq Keys
    BY RequestAssumption DEF IInv, Types, KeysOf
  <2> QED
    BY <2>1 DEF Evidence
<1>4. Elsewhere(c)
  BY <1>1, <1>2 DEF Elsewhere, IInv, Types
<1>5. Types'
  BY <1>1, <1>2, <1>3 DEF IInv, Types
<1>6. /\ reader[c] = "none" /\ closer[c] = "none" /\ once[c] = "no" /\ ~complete[c]
  BY <1>2 DEF IInv, Types, Bodies, BodyOK
<1>7. BodyOK(c)' /\ HolderOK(c)'
  <2>1. answer'[c].evidence = evidence
    BY <1>1 DEF IInv, Types
  <2>2. held[c] # {} => pc'[c] = "body"
    BY <1>1 DEF IInv, Types
  <2> QED
    BY <1>2, <1>3, <1>6, <2>1, <2>2 DEF BodyOK, HolderOK
<1>8. ProbesHeld' /\ NoProbeLeft' /\ OwedInv'
  BY <1>2, <1>4, <1>6, TableStays DEF Reading
<1> QED
  BY <1>2, <1>4, <1>5, <1>7, <1>8, StepIInv

\* A probe that brings back a delay owes it until it is installed.
LEMMA OweStep ==
  ASSUME IInv, NEW c \in Callers, Owe(c), Elsewhere(c),
         UNCHANGED <<present, remaining, probe, held, answer>>, Reading(c)'
  PROVE  owed' \in [Keys -> Nat] /\ ProbesHeld' /\ NoProbeLeft' /\ OwedInv'
<1>1. ProbesHeld' /\ NoProbeLeft'
  BY DEF IInv, ProbesHeld, NoProbeLeft
<1>2. CASE UNCHANGED owed
  <2>1. ASSUME NEW k \in Keys, NEW x \in Callers, Renewing(x, k) PROVE Renewing(x, k)'
    <3>1. CASE x = c
      BY <1>2, <2>1, <3>1 DEF Renewing
    <3>2. CASE x # c
      BY <1>2, <2>1, <3>2 DEF Renewing, Reading, Elsewhere
    <3> QED
      BY <3>1, <3>2
  <2> QED
    BY <1>1, <1>2, <2>1 DEF IInv, Types, OwedInv
<1>3. ASSUME NEW e \in answer[c].evidence, e[1] \in held[c], owed' = [owed EXCEPT ![e[1]] = e[2]]
      PROVE  owed' \in [Keys -> Nat] /\ OwedInv'
  <2> DEFINE k == e[1]
             d == e[2]
  <2>1. k \in Keys /\ d \in Delays /\ <<k, d>> \in answer[c].evidence /\ d \in Nat
    <3>1. e[1] \in Keys /\ e[2] \in Delays /\ e = <<e[1], e[2]>>
      BY DEF IInv, Types
    <3> QED
      BY <1>3, <3>1, LimitAssumption
  <2> HIDE DEF k, d
  <2>2. owed' = [owed EXCEPT ![k] = d] /\ k \in held[c]
    BY <1>3 DEF k, d
  <2>3. present[k]
    BY <2>1, <2>2 DEF IInv, ProbesHeld
  <2>4. owed' \in [Keys -> Nat] /\ owed'[k] = d /\ \A j \in Keys \ {k} : owed'[j] = owed[j]
    BY <2>1, <2>2 DEF IInv, Types
  <2>5. Renewing(c, k)'
    <3>1. d <= d
      BY <2>1
    <3> QED
      BY <2>1, <2>2, <2>4, <3>1 DEF Renewing
  <2>6. ASSUME NEW j \in Keys \ {k}, NEW x \in Callers, Renewing(x, j) PROVE Renewing(x, j)'
    <3>1. CASE x = c
      BY <2>4, <2>6, <3>1 DEF Renewing
    <3>2. CASE x # c
      BY <2>4, <2>6, <3>2 DEF Renewing, Reading, Elsewhere
    <3> QED
      BY <3>1, <3>2
  <2>7. OwedInv'
    <3>1. SUFFICES ASSUME NEW j \in Keys, owed'[j] # 0
                   PROVE present[j] /\ (owed'[j] <= remaining[j] \/ \E x \in Callers : Renewing(x, j)')
      BY DEF OwedInv
    <3>2. CASE j = k
      BY <2>3, <2>5, <3>2
    <3>3. CASE j # k
      BY <2>4, <2>6, <3>1, <3>3 DEF IInv, OwedInv
    <3> QED
      BY <3>2, <3>3
  <2> QED
    BY <2>4, <2>7
<1> QED
  BY <1>1, <1>2, <1>3 DEF Owe

LEMMA ReadThrottledStep ==
  ASSUME IInv, NEW c \in Callers, ReadThrottled(c)
  PROVE  IInv'
<1>1. PICK end \in BOOLEAN :
        /\ complete' = [complete EXCEPT ![c] = complete[c] \/ end]
        /\ IF end /\ once[c] = "no" THEN Owe(c) ELSE UNCHANGED owed
  BY DEF ReadThrottled
<1>2. /\ pc[c] = "body" /\ reader[c] = "none" /\ once[c] # "done"
      /\ reader' = [reader EXCEPT ![c] = "observe"]
      /\ UNCHANGED <<present, remaining, probe, pc, keys, held, answer, closer, once>>
  BY DEF ReadThrottled, tableVars, waitVars
<1>3. Elsewhere(c)
  BY <1>1, <1>2 DEF Elsewhere, IInv, Types
<1>4. complete' \in [Callers -> BOOLEAN] /\ complete'[c] = (complete[c] \/ end)
  BY <1>1 DEF IInv, Types
<1>5. reader' \in [Callers -> {"none", "observe", "event"}] /\ reader'[c] = "observe"
  BY <1>2 DEF IInv, Types
<1>6. owed' \in [Keys -> Nat] /\ ProbesHeld' /\ NoProbeLeft' /\ OwedInv'
  <2>1. CASE end /\ once[c] = "no"
    <3>1. Reading(c)'
      BY <1>2, <1>4, <2>1 DEF Reading
    <3> QED
      BY <1>1, <1>2, <1>3, <2>1, <3>1, OweStep
  <2>2. CASE ~(end /\ once[c] = "no")
    <3>1. UNCHANGED owed
      BY <1>1, <2>2
    <3>2. Reading(c) => Reading(c)'
      BY <1>2, <1>4, <2>2 DEF Reading
    <3> QED
      BY <1>2, <1>3, <3>1, <3>2, TableStays DEF IInv, Types
  <2> QED
    BY <2>1, <2>2
<1>7. Types'
  BY <1>2, <1>4, <1>5, <1>6 DEF IInv, Types
<1>8. BodyOK(c)' /\ HolderOK(c)'
  BY <1>2, <1>5 DEF IInv, Bodies, BodyOK, HoldersBusy, HolderOK
<1> QED
  BY <1>2, <1>3, <1>6, <1>7, <1>8, StepIInv

LEMMA ReadFailureStep ==
  ASSUME IInv, NEW c \in Callers, ReadFailure(c)
  PROVE  IInv'
<1>1. /\ pc[c] = "body" /\ reader[c] = "none" /\ once[c] = "no" /\ Owe(c)
      /\ reader' = [reader EXCEPT ![c] = "event"]
      /\ UNCHANGED <<present, remaining, probe, pc, keys, held, answer, complete, closer, once>>
  BY DEF ReadFailure, tableVars, waitVars
<1>2. Elsewhere(c)
  BY <1>1 DEF Elsewhere, IInv, Types
<1>3. reader' \in [Callers -> {"none", "observe", "event"}] /\ reader'[c] = "event"
  BY <1>1 DEF IInv, Types
<1>4. Reading(c)'
  BY <1>3 DEF Reading
<1>5. owed' \in [Keys -> Nat] /\ ProbesHeld' /\ NoProbeLeft' /\ OwedInv'
  BY <1>1, <1>2, <1>4, OweStep
<1>6. Types'
  BY <1>1, <1>3, <1>5 DEF IInv, Types
<1>7. BodyOK(c)' /\ HolderOK(c)'
  BY <1>1, <1>3 DEF IInv, Bodies, BodyOK, HoldersBusy, HolderOK
<1> QED
  BY <1>1, <1>2, <1>5, <1>6, <1>7, StepIInv

LEMMA ObserveEventStep ==
  ASSUME IInv, NEW c \in Callers, ObserveEvent(c)
  PROVE  IInv'
<1>1. /\ reader[c] = "event"
      /\ answer' = [answer EXCEPT ![c].evidence = {}]
      /\ reader' = [reader EXCEPT ![c] = "none"]
      /\ UNCHANGED <<pc, keys, held, complete, closer, once>>
  BY DEF ObserveEvent, waitVars
<1>2. PICK e \in answer[c].evidence : Throttle(e[1], e[2])
  BY DEF ObserveEvent
<1>3. /\ answer' \in [Callers -> [kind : Kinds, evidence : SUBSET (Keys \X Delays)]]
      /\ answer'[c].evidence = {} /\ \A x \in Callers \ {c} : answer'[x] = answer[x]
  BY <1>1, SMTT(60) DEF IInv, Types
<1>4. Elsewhere(c)
  BY <1>1, <1>3 DEF Elsewhere, IInv, Types
<1>5. /\ present' \in [Keys -> BOOLEAN] /\ remaining' \in [Keys -> Nat]
      /\ probe' \in [Keys -> Callers \cup {Nobody}] /\ owed' \in [Keys -> Nat]
      /\ ProbesHeld' /\ NoProbeLeft' /\ OwedInv'
  BY <1>1, <1>2, <1>4, ThrottlePays
<1>6. reader' \in [Callers -> {"none", "observe", "event"}] /\ reader'[c] = "none"
  BY <1>1 DEF IInv, Types
<1>7. Types'
  BY <1>1, <1>3, <1>5, <1>6 DEF IInv, Types
<1>8. BodyOK(c)' /\ HolderOK(c)'
  BY <1>1, <1>3, <1>6 DEF IInv, Bodies, BodyOK, HoldersBusy, HolderOK
<1> QED
  BY <1>1, <1>4, <1>5, <1>7, <1>8, StepIInv

LEMMA CloseStep ==
  ASSUME IInv, NEW c \in Callers, Close(c)
  PROVE  IInv'
<1>1. /\ pc[c] = "body" /\ closer[c] = "none"
      /\ UNCHANGED <<present, remaining, probe, keys, held, owed, answer, complete, reader>>
  BY DEF Close, tableVars, waitVars
<1>2. CASE once[c] = "done"
  <2>1. /\ closer' = [closer EXCEPT ![c] = "none"] /\ once' = [once EXCEPT ![c] = "no"]
        /\ pc' = [pc EXCEPT ![c] = "idle"]
    BY <1>2 DEF Close, Finish
  <2>2. Elsewhere(c)
    BY <1>1, <2>1 DEF Elsewhere, IInv, Types
  <2>3. Types'
    BY <1>1, <2>1 DEF IInv, Types
  <2>4. ~Reading(c) /\ held[c] = {}
    BY <1>2 DEF Reading, IInv, Bodies, BodyOK, HoldersBusy, HolderOK
  <2>5. BodyOK(c)' /\ HolderOK(c)'
    BY <1>1, <1>2, <2>1, <2>4 DEF IInv, Types, Bodies, BodyOK, HolderOK
  <2>6. ProbesHeld' /\ NoProbeLeft' /\ OwedInv'
    BY <1>1, <2>2, <2>4, TableStays
  <2> QED
    BY <1>1, <2>2, <2>3, <2>5, <2>6, StepIInv
<1>3. CASE once[c] # "done"
  <2>1. closer' = [closer EXCEPT ![c] = "observe"] /\ UNCHANGED <<pc, once>>
    BY <1>3 DEF Close
  <2>2. Elsewhere(c)
    BY <1>1, <2>1 DEF Elsewhere, IInv, Types
  <2>3. Types'
    BY <1>1, <2>1 DEF IInv, Types
  <2>4. BodyOK(c)' /\ HolderOK(c)'
    BY <1>1, <2>1 DEF IInv, Types, Bodies, BodyOK, HoldersBusy, HolderOK
  <2>5. ProbesHeld' /\ NoProbeLeft' /\ OwedInv'
    BY <1>1, <2>1, <2>2, TableStays DEF Reading
  <2> QED
    BY <1>1, <2>2, <2>3, <2>4, <2>5, StepIInv
<1> QED
  BY <1>2, <1>3

\* The observation renews before it gives back: the probe still excludes others.
LEMMA ObserveStep ==
  ASSUME IInv, NEW c \in Callers, Observe(c)
  PROVE  IInv'
<1>1. /\ once[c] = "no" /\ reader[c] # "event"
      /\ reader[c] = "observe" \/ closer[c] = "observe"
      /\ once' = [once EXCEPT ![c] = "release"]
      /\ UNCHANGED <<pc, keys, held, answer, complete, reader, closer>>
  BY DEF Observe, Quiet, waitVars
<1>2. once' \in [Callers -> {"no", "release", "done"}] /\ once'[c] = "release"
  BY <1>1 DEF IInv, Types
<1>3. Elsewhere(c) /\ pc[c] = "body"
  BY <1>1 DEF Elsewhere, IInv, Types, Bodies, BodyOK
<1>4. /\ present' \in [Keys -> BOOLEAN] /\ remaining' \in [Keys -> Nat]
      /\ probe' \in [Keys -> Callers \cup {Nobody}] /\ owed' \in [Keys -> Nat]
      /\ ProbesHeld' /\ NoProbeLeft' /\ OwedInv'
  <2>1. CASE complete[c]
    <3>1. PICK e \in answer[c].evidence : Throttle(e[1], e[2])
      BY <2>1 DEF Observe
    <3> QED
      BY <1>1, <1>3, <3>1, ThrottlePays
  <2>2. CASE ~complete[c]
    <3>1. UNCHANGED <<present, remaining, probe, owed>>
      BY <2>2 DEF Observe, tableVars
    <3>2. ~Reading(c)
      BY <1>1, <2>2 DEF Reading
    <3> QED
      BY <1>1, <1>3, <3>1, <3>2, TableStays DEF IInv, Types
  <2> QED
    BY <2>1, <2>2
<1>5. Types'
  BY <1>1, <1>2, <1>4 DEF IInv, Types
<1>6. BodyOK(c)' /\ HolderOK(c)'
  BY <1>1, <1>2, <1>3 DEF IInv, Types, Bodies, BodyOK, HolderOK
<1> QED
  BY <1>1, <1>3, <1>4, <1>5, <1>6, StepIInv

LEMMA ObserveResponsesFailureStep ==
  ASSUME IInv, ObserveResponsesFailure
  PROVE  IInv'
<1>1. UNCHANGED <<pc, keys, held, answer, complete, reader, closer, once>>
  BY DEF ObserveResponsesFailure, bodyVars
<1>2. PICK k \in Keys, d \in Delays : Throttle(k, d)
  BY RelayAssumption DEF ObserveResponsesFailure
<1>3. /\ present' \in [Keys -> BOOLEAN] /\ remaining' \in [Keys -> Nat]
      /\ probe' \in [Keys -> Callers \cup {Nobody}] /\ owed' \in [Keys -> Nat]
      /\ ProbesHeld' /\ NoProbeLeft'
      /\ \A j \in Keys : owed'[j] # 0 =>
           /\ owed'[j] = owed[j] /\ present'[j]
           /\ owed[j] <= remaining[j] => owed[j] <= remaining'[j]
  BY <1>1, <1>2, ThrottleTable
<1>4. OwedInv'
  <2>1. SUFFICES ASSUME NEW j \in Keys, owed'[j] # 0
                 PROVE present'[j] /\ (owed'[j] <= remaining'[j] \/ \E x \in Callers : Renewing(x, j)')
    BY DEF OwedInv
  <2>2. owed'[j] = owed[j] /\ present'[j]
    BY <1>3, <2>1
  <2>3. ASSUME NEW x \in Callers, Renewing(x, j) PROVE Renewing(x, j)'
    BY <1>1, <2>2, <2>3 DEF Renewing, Reading
  <2>4. owed[j] <= remaining[j] \/ \E x \in Callers : Renewing(x, j)
    BY <2>1, <2>2 DEF IInv, OwedInv
  <2> QED
    BY <1>3, <2>1, <2>2, <2>3, <2>4
<1>5. Types'
  BY <1>1, <1>3 DEF IInv, Types
<1>6. Bodies' /\ HoldersBusy'
  BY <1>1 DEF IInv, Bodies, BodyOK, HoldersBusy, HolderOK
<1> QED
  BY <1>3, <1>4, <1>5, <1>6 DEF IInv

LEMMA TickStep ==
  ASSUME IInv, Tick
  PROVE  IInv'
<1>1. /\ remaining' = [k \in Keys |-> Less(remaining[k])]
      /\ owed' = [k \in Keys |-> Less(owed[k])]
      /\ UNCHANGED <<present, probe, pc, keys, held, answer, complete, reader, closer, once>>
  BY DEF Tick, waitVars, bodyVars
<1>2. \A k \in Keys : /\ remaining'[k] \in Nat /\ owed'[k] \in Nat /\ owed'[k] <= owed[k]
                      /\ owed'[k] # 0 => owed[k] # 0
                      /\ owed[k] <= remaining[k] => owed'[k] <= remaining'[k]
  <2>1. SUFFICES ASSUME NEW k \in Keys
                 PROVE  /\ remaining'[k] \in Nat /\ owed'[k] \in Nat /\ owed'[k] <= owed[k]
                        /\ owed'[k] # 0 => owed[k] # 0
                        /\ owed[k] <= remaining[k] => owed'[k] <= remaining'[k]
    OBVIOUS
  <2>2. remaining[k] \in Nat /\ owed[k] \in Nat
    BY DEF IInv, Types
  <2>3. remaining'[k] = Less(remaining[k]) /\ owed'[k] = Less(owed[k])
    BY <1>1
  <2> QED
    BY <2>2, <2>3 DEF Less
<1>3. Types'
  <2>1. remaining' \in [Keys -> Nat] /\ owed' \in [Keys -> Nat]
    BY <1>1, <1>2
  <2> QED
    BY <1>1, <2>1 DEF IInv, Types
<1>4. ASSUME NEW k \in Keys, NEW x \in Callers, Renewing(x, k) PROVE Renewing(x, k)'
  <2>1. PICK d \in Delays : owed[k] <= d /\ <<k, d>> \in answer[x].evidence
    BY <1>4 DEF Renewing
  <2>2. d \in Nat /\ owed[k] \in Nat
    BY LimitAssumption DEF IInv, Types
  <2>3. owed'[k] <= d
    BY <1>2, <2>1, <2>2
  <2> QED
    BY <1>1, <1>4, <2>1, <2>3 DEF Renewing, Reading
<1>5. OwedInv'
  <2>1. SUFFICES ASSUME NEW k \in Keys, owed'[k] # 0
                 PROVE present'[k] /\ (owed'[k] <= remaining'[k] \/ \E x \in Callers : Renewing(x, k)')
    BY DEF OwedInv
  <2>2. present[k] /\ (owed[k] <= remaining[k] \/ \E x \in Callers : Renewing(x, k))
    BY <1>2, <2>1 DEF IInv, OwedInv
  <2> QED
    BY <1>1, <1>2, <1>4, <2>2
<1>6. Bodies' /\ ProbesHeld' /\ HoldersBusy' /\ NoProbeLeft'
  BY <1>1 DEF IInv, Bodies, BodyOK, ProbesHeld, HoldersBusy, HolderOK, NoProbeLeft
<1> QED
  BY <1>3, <1>5, <1>6 DEF IInv

LEMMA InitIInv ==
  ASSUME Init
  PROVE  IInv
<1>1. NoAnswer \in [kind : Kinds, evidence : SUBSET (Keys \X Delays)]
  BY DEF NoAnswer, Kinds
<1>2. Types
  BY <1>1 DEF Init, Types
<1>3. Bodies /\ HoldersBusy
  BY DEF Init, NoAnswer, Bodies, BodyOK, HoldersBusy, HolderOK
<1>4. ProbesHeld /\ NoProbeLeft /\ OwedInv
  BY DEF Init, ProbesHeld, NoProbeLeft, OwedInv
<1> QED
  BY <1>2, <1>3, <1>4 DEF IInv

LEMMA NextIInv ==
  ASSUME IInv, [Next]_vars
  PROVE  IInv'
<1>1. ASSUME NEW c \in Callers,
             \/ Start(c) \/ Leave(c) \/ Reject(c) \/ RejectFull(c)
             \/ Wait(c) \/ Wake(c) \/ Abandon(c)
      PROVE  IInv'
  <2>1. /\ pc[c] \in {"idle", "check", "wait"}
        /\ \E p \in {"idle", "check", "wait"} : pc' = [pc EXCEPT ![c] = p]
        /\ UNCHANGED <<present, remaining, probe, held, owed, answer, complete, reader, closer, once>>
    BY <1>1 DEF Start, Leave, Reject, RejectFull, Wait,
                Wake, Abandon, tableVars, bodyVars
  <2>2. keys' = keys \/ \E r \in Requests : keys' = [keys EXCEPT ![c] = r]
    BY <1>1 DEF Start, Leave, Reject, RejectFull, Wait,
                Wake, Abandon
  <2>3. keys' \in [Callers -> Requests]
    BY <2>2 DEF IInv, Types
  <2> QED
    BY <2>1, <2>3, CallGoesOn
<1>2. ASSUME NEW c \in Callers, Caller(c) PROVE IInv'
  BY <1>1, <1>2, AdmitStep, SendFailsStep, RespondStep, ReadThrottledStep, ReadFailureStep,
     ObserveEventStep, CloseStep, ObserveStep, ObserveReleaseStep DEF Caller
<1>3. CASE UNCHANGED vars
  <2>1. UNCHANGED <<present, remaining, probe, pc, keys, held, answer, complete, reader, closer,
                    once, owed>>
    BY <1>3 DEF vars, tableVars, bodyVars
  <2>2. Types'
    BY <2>1 DEF IInv, Types
  <2>3. Bodies' /\ ProbesHeld' /\ HoldersBusy' /\ NoProbeLeft'
    BY <2>1 DEF IInv, Bodies, BodyOK, ProbesHeld, HoldersBusy, HolderOK, NoProbeLeft
  <2>4. OwedInv'
    BY <2>1 DEF IInv, OwedInv, Renewing, Reading
  <2> QED
    BY <2>2, <2>3, <2>4 DEF IInv
<1> QED
  BY <1>2, <1>3, ObserveResponsesFailureStep, TickStep DEF Next

\* The inductive invariant of the Copilot controller.
THEOREM Invariant == Spec => []IInv
<1>1. Init => IInv
  BY InitIInv
<1>2. IInv /\ [Next]_vars => IInv'
  BY NextIInv
<1> QED
  BY <1>1, <1>2, PTL DEF Spec

\* A Copilot cooldown has a probe exactly while one unfinished request holds
\* it, through evictions, renewals and releases (copilotInferencePermit.release,
\* observeThrottle), for any number of callers, keys and delays.
THEOREM ProbesAlwaysPermitted == Spec => []ProbesPermitted
<1>1. IInv => ProbesPermitted
  BY DEF IInv, ProbesHeld, HoldersBusy, HolderOK, ProbesPermitted
<1> QED
  BY <1>1, Invariant, PTL

\* A delay that a probe has read is installed before anybody can pass: the
\* observation comes before the release, and a cooldown that lasts, or that
\* somebody probes, admits nobody (acquireCopilotInference).
THEOREM RenewalAlwaysBeatsWaiters ==
  Spec => RenewalBeatsWaiters
<1> DEFINE Paid == \A c \in Callers : pc[c] = "check" /\ pc'[c] = "send" =>
                     \A k \in KeysOf(c) : owed[k] = 0
<1>1. ASSUME IInv, NEW c \in Callers, pc[c] = "check", pc'[c] = "send",
             Next
      PROVE  Admit(c)
  <2>1. CASE Tick \/ ObserveResponsesFailure
    BY <1>1, <2>1 DEF Tick, ObserveResponsesFailure
  <2>2. ASSUME NEW d \in Callers, Caller(d) PROVE d = c /\ Admit(c)
    <3>1. CASE Admit(d)
      BY <1>1, <3>1 DEF Admit, IInv, Types
    <3>2. CASE Start(d) \/ Leave(d) \/ Reject(d) \/ RejectFull(d)
                 \/ Wait(d) \/ Wake(d) \/ Abandon(d)
      BY <1>1, <3>2, ZenonT(60) DEF Start, Leave, Reject, RejectFull,
           Wait, Wake, Abandon, IInv, Types
    <3>3. CASE SendFails(d) \/ Respond(d)
      BY <1>1, <3>3 DEF SendFails, Respond, IInv, Types
    <3>4. CASE ReadThrottled(d) \/ ReadFailure(d) \/ ObserveEvent(d)
                 \/ Observe(d)
      BY <1>1, <3>4 DEF ReadThrottled, ReadFailure, ObserveEvent,
           Observe, IInv, Types
    <3>5. CASE Close(d) \/ ObserveRelease(d)
      BY <1>1, <3>5 DEF Close, ObserveRelease, Finish, IInv, Types
    <3> QED
      BY <2>2, <3>1, <3>2, <3>3, <3>4, <3>5 DEF Caller
  <2> QED
    BY <1>1, <2>1, <2>2 DEF Next
<1>2. ASSUME IInv, NEW c \in Callers, Admit(c), NEW k \in KeysOf(c)
      PROVE  owed[k] = 0
  <2>1. PICK i \in DOMAIN keys[c] : k = keys[c][i]
    BY DEF KeysOf
  <2>2. k \in Keys
    BY RequestAssumption, <1>2, <2>1 DEF IInv, Types
  <2>3. SUFFICES ASSUME owed[k] # 0 PROVE FALSE
    OBVIOUS
  <2>4. present[k] /\ (owed[k] <= remaining[k] \/ \E x \in Callers : Renewing(x, k))
    BY <1>2, <2>2, <2>3 DEF IInv, OwedInv
  <2>5. ~(remaining[k] > 0)
    BY <1>2, <2>4 DEF Admit, Active
  <2>6. probe[k] = Nobody
    BY <1>2, <2>1, <2>4 DEF Admit, Probed
  <2>7. ~(owed[k] <= remaining[k])
    BY <1>2, <2>2, <2>3, <2>5 DEF IInv, Types
  <2>8. PICK x \in Callers : k \in held[x]
    BY <2>4, <2>7 DEF Renewing
  <2>9. probe[k] = x
    BY <1>2, <2>2, <2>8 DEF IInv, ProbesHeld
  <2> QED
    BY <2>6, <2>9, NobodyAssumption
<1>3. IInv /\ [Next]_vars => [Paid]_vars
  BY <1>1, <1>2
<1> QED
  BY <1>3, Invariant, PTL DEF Spec, RenewalBeatsWaiters
-----------------------------------------------------------------------------
(* No waiter is forgotten.                                                 *)

WaitTypes ==
  /\ waitOn \in [Callers -> Callers \cup {Nobody}]
  /\ woken \in [Callers -> BOOLEAN]

\* c sleeps behind a probe.
Asleep(c) == pc[c] = "wait" /\ ~woken[c]

\* Whoever sleeps does so behind a request that holds a probe.
Covered == \A c \in Callers : Asleep(c) => waitOn[c] \in Callers /\ held[waitOn[c]] # {}

\* What is still to be observed is there.
AnswerOK(c) ==
  /\ complete[c] => answer[c].kind = "throttled"
  /\ reader[c] = "event" => answer[c].kind = "stream"
  /\ answer[c].kind = "throttled" \/ reader[c] = "event" => answer[c].evidence # {}
Answers == \A c \in Callers : AnswerOK(c)

WaitInv == WaitTypes /\ Covered /\ Answers

\* A step that leaves the sleepers and the permits alone.
LEMMA SleepGoesOn ==
  ASSUME WaitInv, NEW c \in Callers, pc'[c] # "wait" \/ pc'[c] = pc[c],
         \A x \in Callers \ {c} : pc'[x] = pc[x],
         UNCHANGED <<waitOn, woken, held>>
  PROVE  WaitTypes' /\ Covered'
  BY DEF WaitInv, WaitTypes, Covered, Asleep

\* close(reservation.probe) wakes everybody who sleeps behind c.
LEMMA ReleaseCovers ==
  ASSUME IInv, WaitInv, NEW c \in Callers, Release(c), pc'[c] # "wait",
         \A x \in Callers \ {c} : pc'[x] = pc[x],
         UNCHANGED waitOn
  PROVE  WaitTypes' /\ Covered'
<1>1. held' = [held EXCEPT ![c] = {}] /\ woken' = IF held[c] = {} THEN woken ELSE Closed(c)
  BY DEF Release
<1>2. WaitTypes'
  BY <1>1 DEF WaitInv, WaitTypes, Closed
<1>3. ASSUME NEW x \in Callers, Asleep(x)' PROVE waitOn'[x] \in Callers /\ held'[waitOn'[x]] # {}
  <2>1. x # c /\ pc[x] = "wait"
    BY <1>3 DEF Asleep
  <2>2. ~woken[x] /\ (held[c] # {} => waitOn[x] # c)
    BY <1>1, <1>3, <2>1 DEF Asleep, Closed
  <2>3. waitOn[x] \in Callers /\ held[waitOn[x]] # {}
    BY <2>1, <2>2 DEF WaitInv, Covered, Asleep
  <2>4. QED
    BY <1>1, <2>2, <2>3 DEF IInv, Types
<1>4. QED
  BY <1>2, <1>3 DEF Covered

\* Whoever starts to wait does so behind a probe that somebody holds.
LEMMA WaitCovers ==
  ASSUME IInv, WaitInv, NEW c \in Callers, Wait(c)
  PROVE  WaitTypes' /\ Covered'
<1>1. PICK i \in Probed(c) : waitOn' = [waitOn EXCEPT ![c] = probe[keys[c][i]]]
  BY DEF Wait
<1> DEFINE k == keys[c][i]
<1>2. k \in Keys /\ present[k] /\ probe[k] # Nobody
  BY RequestAssumption DEF Probed, IInv, Types
<1>3. probe[k] \in Callers
  BY <1>2 DEF IInv, Types
<1>4. k \in held[probe[k]]
  BY <1>2, <1>3 DEF IInv, ProbesHeld
<1> HIDE DEF k
<1>5. /\ waitOn' = [waitOn EXCEPT ![c] = probe[k]]
      /\ woken' = [woken EXCEPT ![c] = FALSE]
      /\ pc' = [pc EXCEPT ![c] = "wait"]
      /\ held' = held
  BY <1>1 DEF Wait, k
<1>6. WaitTypes'
  BY <1>3, <1>5 DEF WaitInv, WaitTypes
<1>7. Covered'
  BY <1>3, <1>4, <1>5 DEF IInv, Types, WaitInv, WaitTypes, Covered, Asleep
<1>8. QED
  BY <1>6, <1>7

\* A waiter that goes on or leaves wakes nobody.
LEMMA WakeCovers ==
  ASSUME IInv, WaitInv, NEW c \in Callers, Wake(c) \/ Abandon(c)
  PROVE  WaitTypes' /\ Covered'
<1>1. /\ waitOn' = [waitOn EXCEPT ![c] = Nobody]
      /\ woken' = [woken EXCEPT ![c] = FALSE]
      /\ pc'[c] # "wait" /\ \A x \in Callers \ {c} : pc'[x] = pc[x]
      /\ held' = held
  BY DEF Wake, Abandon, IInv, Types
<1>2. WaitTypes'
  BY <1>1 DEF WaitInv, WaitTypes
<1>3. Covered'
  BY <1>1 DEF WaitInv, WaitTypes, Covered, Asleep
<1>4. QED
  BY <1>2, <1>3

\* A caller that is admitted held nothing, so nobody sleeps behind it.
LEMMA AdmitCovers ==
  ASSUME IInv, WaitInv, NEW c \in Callers, Admit(c)
  PROVE  WaitTypes' /\ Covered'
<1> DEFINE mine == {k \in KeysOf(c) : present[k]}
<1>1. pc[c] = "check" /\ pc' = [pc EXCEPT ![c] = "send"] /\ UNCHANGED <<waitOn, woken>>
  BY DEF Admit, waitVars
<1>2. held' = [held EXCEPT ![c] = mine]
  BY DEF Admit
<1> HIDE DEF mine
<1>3. held[c] = {}
  BY <1>1 DEF IInv, HoldersBusy, HolderOK
<1>4. Covered'
  BY <1>1, <1>2, <1>3 DEF IInv, Types, WaitInv, Covered, Asleep
<1>5. QED
  BY <1>1, <1>4 DEF WaitInv, WaitTypes

\* A step that leaves the bodies alone.
LEMMA AnswersStay ==
  ASSUME Answers, UNCHANGED <<answer, complete, reader>>
  PROVE  Answers'
  BY DEF Answers, AnswerOK

\* A step of c leaves the bodies of the others alone.
LEMMA AnswersElsewhere ==
  ASSUME Answers, NEW c \in Callers, AnswerOK(c)',
         \A x \in Callers \ {c} : answer'[x] = answer[x] /\ complete'[x] = complete[x]
                                  /\ reader'[x] = reader[x]
  PROVE  Answers'
  BY DEF Answers, AnswerOK

\* What is read, dealt with and forgotten of a body keeps it so.
LEMMA AnswersStep ==
  ASSUME IInv, Answers, NEW c \in Callers,
         \/ Respond(c) \/ ReadThrottled(c) \/ ReadFailure(c) \/ ObserveEvent(c)
         \/ ObserveRelease(c)
  PROVE  Answers'
<1>1. CASE Respond(c)
  <2>1. PICK kind \in Kinds, evidence \in Evidence(c) :
          /\ kind = "plain" <=> evidence = {}
          /\ answer' = [answer EXCEPT ![c] = [kind |-> kind, evidence |-> evidence]]
    BY <1>1 DEF Respond
  <2>2. pc[c] = "send" /\ UNCHANGED <<complete, reader>>
    BY <1>1 DEF Respond
  <2>3. ~complete[c] /\ reader[c] = "none"
    BY <2>2 DEF IInv, Bodies, BodyOK, Types
  <2>4. AnswerOK(c)'
    BY <2>1, <2>2, <2>3 DEF AnswerOK, IInv, Types
  <2>5. QED
    BY <2>1, <2>2, <2>4, AnswersElsewhere DEF IInv, Types
<1>2. CASE ReadThrottled(c)
  <2>1. PICK end \in BOOLEAN : complete' = [complete EXCEPT ![c] = @ \/ end]
    BY <1>2 DEF ReadThrottled
  <2>2. /\ answer[c].kind = "throttled" /\ UNCHANGED answer
        /\ reader' = [reader EXCEPT ![c] = "observe"]
    BY <1>2 DEF ReadThrottled
  <2>3. AnswerOK(c)'
    BY <2>2 DEF Answers, AnswerOK, IInv, Types
  <2>4. QED
    BY <2>1, <2>2, <2>3, AnswersElsewhere DEF IInv, Types
<1>3. CASE ReadFailure(c)
  <2>1. /\ answer[c].kind = "stream" /\ answer[c].evidence # {} /\ UNCHANGED <<answer, complete>>
        /\ reader' = [reader EXCEPT ![c] = "event"]
    BY <1>3 DEF ReadFailure
  <2>2. AnswerOK(c)'
    BY <2>1 DEF Answers, AnswerOK, IInv, Types
  <2>3. QED
    BY <2>1, <2>2, AnswersElsewhere DEF IInv, Types
<1>4. CASE ObserveEvent(c)
  <2>1. /\ answer' = [answer EXCEPT ![c].evidence = {}]
        /\ reader[c] = "event" /\ reader' = [reader EXCEPT ![c] = "none"]
        /\ UNCHANGED complete
    BY <1>4 DEF ObserveEvent
  <2>2. answer[c].kind = "stream"
    BY <2>1 DEF Answers, AnswerOK
  <2>3. AnswerOK(c)'
    BY <2>1, <2>2 DEF Answers, AnswerOK, IInv, Types
  <2>4. QED
    BY <2>1, <2>3, AnswersElsewhere DEF IInv, Types
<1>5. CASE ObserveRelease(c)
  <2>1. /\ answer' = [answer EXCEPT ![c] = NoAnswer]
        /\ complete' = [complete EXCEPT ![c] = FALSE]
        /\ reader' = [reader EXCEPT ![c] = "none"]
    BY <1>5 DEF ObserveRelease, Forget
  <2>2. AnswerOK(c)'
    BY <2>1 DEF AnswerOK, NoAnswer, IInv, Types
  <2>3. QED
    BY <2>1, <2>2, AnswersElsewhere DEF IInv, Types
<1>6. QED
  BY <1>1, <1>2, <1>3, <1>4, <1>5

LEMMA NextWaitInv ==
  ASSUME IInv, WaitInv, [Next]_vars
  PROVE  WaitInv'
<1> USE DEF tableVars, waitVars, bodyVars
<1>1. ASSUME NEW c \in Callers,
             Start(c) \/ Leave(c) \/ Reject(c) \/ RejectFull(c)
      PROVE  WaitInv'
  <2>1. /\ pc'[c] # "wait" /\ \A x \in Callers \ {c} : pc'[x] = pc[x]
        /\ UNCHANGED <<waitOn, woken, held, answer, complete, reader>>
    BY <1>1 DEF Start, Leave, Reject, RejectFull, IInv, Types
  <2>2. QED
    BY <2>1, SleepGoesOn, AnswersStay DEF WaitInv
<1>2. ASSUME NEW c \in Callers,
             Wait(c) \/ Wake(c) \/ Abandon(c) \/ Admit(c)
      PROVE  WaitInv'
  <2>1. UNCHANGED <<answer, complete, reader>>
    BY <1>2 DEF Wait, Wake, Abandon, Admit
  <2>2. WaitTypes' /\ Covered'
    BY <1>2, WaitCovers, WakeCovers, AdmitCovers
  <2>3. QED
    BY <2>1, <2>2, AnswersStay DEF WaitInv
<1>3. ASSUME NEW c \in Callers, Respond(c) PROVE WaitInv'
  <2>1. /\ pc'[c] # "wait" /\ \A x \in Callers \ {c} : pc'[x] = pc[x]
        /\ UNCHANGED <<waitOn, woken, held>>
    BY <1>3 DEF Respond, IInv, Types
  <2>2. QED
    BY <1>3, <2>1, SleepGoesOn, AnswersStep DEF WaitInv
<1>4. ASSUME NEW c \in Callers, ReadThrottled(c) \/ ReadFailure(c) \/ ObserveEvent(c)
      PROVE  WaitInv'
  <2>1. UNCHANGED <<pc, waitOn, woken, held>>
    BY <1>4 DEF ReadThrottled, ReadFailure, ObserveEvent
  <2>2. QED
    BY <1>4, <2>1, SleepGoesOn, AnswersStep DEF WaitInv
<1>5. ASSUME NEW c \in Callers, Close(c) \/ Observe(c) PROVE WaitInv'
  <2>1. UNCHANGED <<waitOn, woken, held, answer, complete, reader>>
    BY <1>5 DEF Close, Observe
  <2>2. /\ pc'[c] # "wait" \/ pc'[c] = pc[c]
        /\ \A x \in Callers \ {c} : pc'[x] = pc[x]
    BY <1>5 DEF Close, Finish, Observe, IInv, Types
  <2>3. QED
    BY <2>1, <2>2, SleepGoesOn, AnswersStay DEF WaitInv
<1>6. ASSUME NEW c \in Callers, SendFails(c) PROVE WaitInv'
  <2>1. /\ Release(c) /\ pc'[c] # "wait" /\ \A x \in Callers \ {c} : pc'[x] = pc[x]
        /\ UNCHANGED <<waitOn, answer, complete, reader>>
    BY <1>6 DEF SendFails, IInv, Types
  <2>2. QED
    BY <2>1, ReleaseCovers, AnswersStay DEF WaitInv
<1>7. ASSUME NEW c \in Callers, ObserveRelease(c) PROVE WaitInv'
  <2>1. pc[c] = "body"
    BY <1>7 DEF ObserveRelease, IInv, Bodies, BodyOK
  <2>2. /\ Release(c) /\ pc'[c] # "wait" /\ \A x \in Callers \ {c} : pc'[x] = pc[x]
        /\ UNCHANGED waitOn
    BY <1>7, <2>1 DEF ObserveRelease, Finish, IInv, Types
  <2>3. QED
    BY <1>7, <2>2, ReleaseCovers, AnswersStep DEF WaitInv
<1>8. CASE Tick \/ ObserveResponsesFailure \/ UNCHANGED vars
  <2>1. UNCHANGED <<pc, waitOn, woken, held, answer, complete, reader>>
    BY <1>8 DEF Tick, ObserveResponsesFailure, vars
  <2>2. QED
    BY <2>1, AnswersStay DEF WaitInv, WaitTypes, Covered, Asleep
<1>9. QED
  BY <1>1, <1>2, <1>3, <1>4, <1>5, <1>6, <1>7, <1>8 DEF Next, Caller

\* A release wakes everybody who waits for it, and nobody starts to wait for a
\* request that has none (copilotInferencePermit.release, acquireCopilotInference).
THEOREM WaitInvariant == Spec => []WaitInv
<1>1. Init => WaitInv
  BY DEF Init, WaitInv, WaitTypes, Covered, Asleep, Answers, AnswerOK, NoAnswer
<1>2. IInv /\ WaitInv /\ [Next]_vars => WaitInv'
  BY NextWaitInv
<1>3. QED
  BY <1>1, <1>2, Invariant, PTL DEF Spec

\* The callers that wait, and their counter.
Queue == {c \in Callers : pc[c] = "wait"}

CountInv ==
  /\ maxWaiters \in Nat /\ waiters \in 0..maxWaiters
  /\ waiters = Cardinality(Queue)

LEMMA NextCountInv ==
  ASSUME IsFiniteSet(Callers), IInv, CountInv, [Next]_vars
  PROVE  CountInv'
<1> USE DEF tableVars, waitVars, bodyVars
<1>1. IsFiniteSet(Queue)
  BY FS_Subset DEF Queue
<1>2. ASSUME UNCHANGED <<waiters, maxWaiters>>,
             \A x \in Callers : pc'[x] = "wait" <=> pc[x] = "wait"
      PROVE  CountInv'
  <2>1. Queue' = Queue
    BY <1>2 DEF Queue
  <2>2. QED
    BY <1>2, <2>1 DEF CountInv
<1>3. ASSUME NEW c \in Callers, Wait(c) PROVE CountInv'
  <2>1. /\ pc[c] = "check" /\ pc' = [pc EXCEPT ![c] = "wait"] /\ ~(waiters >= maxWaiters)
        /\ waiters' = waiters + 1 /\ maxWaiters' = maxWaiters
    BY <1>3 DEF Wait, QueueFull
  <2>2. Queue' = Queue \cup {c} /\ c \notin Queue
    BY <2>1 DEF Queue, IInv, Types
  <2>3. Cardinality(Queue') = Cardinality(Queue) + 1
    BY <1>1, <2>2, FS_AddElement
  <2>4. QED
    BY <2>1, <2>3 DEF CountInv
<1>4. ASSUME NEW c \in Callers, Wake(c) \/ Abandon(c) PROVE CountInv'
  <2>1. /\ pc[c] = "wait" /\ pc'[c] # "wait" /\ \A x \in Callers \ {c} : pc'[x] = pc[x]
        /\ waiters' = waiters - 1 /\ maxWaiters' = maxWaiters
    BY <1>4 DEF Wake, Abandon, IInv, Types
  <2>2. Queue' = Queue \ {c} /\ c \in Queue
    BY <2>1 DEF Queue
  <2>3. Cardinality(Queue') = Cardinality(Queue) - 1
    BY <1>1, <2>2, FS_RemoveElement
  <2>4. Cardinality(Queue') \in Nat
    BY <1>1, <2>2, FS_CardinalityType, FS_RemoveElement
  <2>5. QED
    BY <2>1, <2>3, <2>4 DEF CountInv
<1>5. ASSUME NEW c \in Callers,
             \/ Start(c) \/ Leave(c) \/ Reject(c) \/ RejectFull(c) \/ Admit(c)
             \/ SendFails(c) \/ Respond(c)
      PROVE  CountInv'
  <2>1. /\ pc[c] # "wait" /\ pc'[c] # "wait" /\ \A x \in Callers \ {c} : pc'[x] = pc[x]
        /\ UNCHANGED <<waiters, maxWaiters>>
    BY <1>5 DEF Start, Leave, Reject, RejectFull, Admit, SendFails, Respond, IInv, Types
  <2>2. QED
    BY <1>2, <2>1
<1>6. ASSUME NEW c \in Callers, ReadThrottled(c) \/ ReadFailure(c) \/ ObserveEvent(c) \/ Observe(c)
      PROVE  CountInv'
  BY <1>2, <1>6 DEF ReadThrottled, ReadFailure, ObserveEvent, Observe
<1>7. ASSUME NEW c \in Callers, Close(c) \/ ObserveRelease(c) PROVE CountInv'
  <2>1. pc[c] = "body" /\ UNCHANGED <<waiters, maxWaiters>>
    BY <1>7 DEF Close, ObserveRelease, IInv, Bodies, BodyOK
  <2>2. pc' = pc \/ pc' = [pc EXCEPT ![c] = "idle"]
    BY <1>7 DEF Close, ObserveRelease, Finish
  <2>3. QED
    BY <1>2, <2>1, <2>2 DEF IInv, Types
<1>8. CASE Tick \/ ObserveResponsesFailure \/ UNCHANGED vars
  BY <1>2, <1>8 DEF Tick, ObserveResponsesFailure, vars
<1>9. QED
  BY <1>3, <1>4, <1>5, <1>6, <1>7, <1>8 DEF Next, Caller

\* The counter of the waiters is exact and within its limit, and none of them
\* sleeps behind a probe that is over, for any finite set of callers
\* (acquireCopilotInference adds and subtracts in sections of their own).
THEOREM WaitersAlwaysCovered ==
  ASSUME IsFiniteSet(Callers)
  PROVE  Spec => [](TypeOK /\ WaitersCovered)
<1>1. Init => CountInv
  <2>1. SUFFICES ASSUME Init PROVE CountInv
    OBVIOUS
  <2>2. Queue = {}
    BY <2>1 DEF Init, Queue
  <2>3. QED
    BY <2>1, <2>2, FS_EmptySet, LimitAssumption DEF Init, CountInv
<1>2. IInv /\ CountInv /\ [Next]_vars => CountInv'
  BY NextCountInv
<1>3. IInv /\ WaitInv /\ CountInv => TypeOK /\ WaitersCovered
  <2>1. SUFFICES ASSUME IInv, WaitInv, CountInv PROVE TypeOK /\ WaitersCovered
    OBVIOUS
  <2>2. TypeOK
    BY <2>1 DEF IInv, Types, WaitInv, WaitTypes, CountInv, TypeOK
  <2>3. WaitersCovered
    BY <2>1 DEF WaitInv, Covered, Asleep, CountInv, Queue, WaitersCovered
  <2>4. QED
    BY <2>2, <2>3
<1>4. QED
  BY <1>1, <1>2, <1>3, Invariant, WaitInvariant, PTL DEF Spec

-----------------------------------------------------------------------------
(* Every wait ends.                                                        *)

\* When Progress(c) can take a step, written out: it can send or give up, deal
\* with an event, close, observe, or release.
Busy(c) ==
  \/ pc[c] = "send"
  \/ reader[c] = "event" /\ answer[c].evidence # {}
  \/ pc[c] = "body" /\ closer[c] = "none"
  \/ /\ once[c] = "no" /\ (reader[c] = "observe" \/ closer[c] = "observe") /\ Quiet(c)
     /\ complete[c] => answer[c].evidence # {}
  \/ once[c] = "release"

\* And when Wake(c) can.
Roused(c) == pc[c] = "wait" /\ woken[c]

\* Fairness(c), with its guards written out: whoever can go on does at last.
Goes(c) ==
  /\ []Busy(c) => <><<Progress(c)>>_vars
  /\ []Roused(c) => <><<Wake(c)>>_vars

AllGo == \A c \in Callers : Goes(c)

\* FairSpec assumes this of a behaviour of Spec.
Runs == []AllGo

\* Whoever holds a probe has something to do.
LEMMA HolderBusy ==
  ASSUME IInv, WaitInv, NEW c \in Callers, held[c] # {}
  PROVE  Busy(c)
<1>1. pc[c] \in {"send", "body"} /\ once[c] \in {"no", "release"}
  BY DEF IInv, Types, HoldersBusy, HolderOK
<1>2. closer[c] \in {"none", "observe"} /\ AnswerOK(c)
  BY DEF IInv, Types, WaitInv, Answers
<1>3. QED
  BY <1>1, <1>2 DEF AnswerOK, Busy, Quiet

\* How many steps of Progress(c) are left until the probes are given back.
Duty(c) ==
  IF pc[c] = "send" THEN 5
  ELSE (IF answer[c].evidence # {} THEN 1 ELSE 0) + (IF closer[c] = "none" THEN 1 ELSE 0)
       + (IF once[c] = "no" THEN 2 ELSE 1)

LEMMA DutyRange ==
  ASSUME NEW c \in Callers
  PROVE  Duty(c) \in 1..5 /\ Duty(c)' \in 1..5
  BY DEF Duty

\* Nothing gives c more to do, and nobody else takes its probes.
LEMMA OthersLeaveDuty ==
  ASSUME IInv, NEW c \in Callers, NEW d \in Callers \ {c}, Caller(d)
  PROVE  held'[c] = held[c] /\ Duty(c)' = Duty(c)
<1> USE DEF tableVars, waitVars, bodyVars, IInv, Types
<1>1. UNCHANGED <<held[c], pc[c], answer[c], closer[c], once[c]>>
  <2>1. CASE Start(d) \/ Leave(d) \/ Reject(d) \/ RejectFull(d) \/ Wait(d) \/ Wake(d) \/ Abandon(d)
    BY <2>1 DEF Start, Leave, Reject, RejectFull, Wait, Wake, Abandon
  <2>2. CASE Admit(d) \/ SendFails(d) \/ Respond(d)
    BY <2>2 DEF Admit, SendFails, Release, Respond
  <2>3. CASE ReadThrottled(d) \/ ReadFailure(d) \/ ObserveEvent(d)
    BY <2>3 DEF ReadThrottled, ReadFailure, ObserveEvent
  <2>4. CASE Close(d) \/ Observe(d)
    BY <2>4 DEF Close, Finish, Observe
  <2>5. CASE ObserveRelease(d)
    BY <2>5 DEF ObserveRelease, Release, Forget, Finish
  <2>6. QED
    BY <2>1, <2>2, <2>3, <2>4, <2>5 DEF Caller
<1>2. QED
  BY <1>1 DEF Duty

LEMMA ReadKeepsDuty ==
  ASSUME IInv, NEW c \in Callers, ReadThrottled(c) \/ ReadFailure(c)
  PROVE  held'[c] = held[c] /\ Duty(c)' = Duty(c)
  BY DEF ReadThrottled, ReadFailure, Duty

\* A step of Progress gives the probes back, or leaves less to do.
LEMMA ProgressFalls ==
  ASSUME IInv, NEW c \in Callers, held[c] # {}, Progress(c)
  PROVE  held'[c] = {} \/ (held'[c] = held[c] /\ Duty(c)' < Duty(c))
<1>1. once[c] \in {"no", "release"} /\ (pc[c] = "send" => closer[c] = "none" /\ once[c] = "no")
  BY DEF IInv, Types, HoldersBusy, HolderOK, Bodies, BodyOK
<1>2. CASE SendFails(c) \/ ObserveRelease(c)
  BY <1>2 DEF SendFails, ObserveRelease, Release, IInv, Types
<1>3. CASE Respond(c)
  <2>1. Duty(c) = 5 /\ held' = held /\ pc'[c] = "body"
    BY <1>3 DEF Respond, Duty, IInv, Types
  <2>2. closer'[c] = "none" /\ once'[c] = "no"
    BY <1>1, <1>3 DEF Respond
  <2>3. Duty(c)' < 5
    BY <2>1, <2>2 DEF Duty
  <2>4. QED
    BY <2>1, <2>3
<1>4. CASE ObserveEvent(c)
  <2>1. answer[c].evidence # {} /\ answer'[c].evidence = {}
    BY <1>4 DEF ObserveEvent, IInv, Types
  <2>2. pc[c] # "send" /\ UNCHANGED <<pc, held, closer, once>>
    BY <1>4 DEF ObserveEvent, IInv, Bodies, BodyOK
  <2>3. QED
    BY <2>1, <2>2 DEF Duty
<1>5. CASE Close(c)
  <2>1. closer[c] = "none" /\ closer'[c] = "observe" /\ pc[c] = "body"
    BY <1>1, <1>5 DEF Close, IInv, Types
  <2>2. UNCHANGED <<pc, once, held, answer>>
    BY <1>1, <1>5 DEF Close
  <2>3. QED
    BY <2>1, <2>2 DEF Duty
<1>6. CASE Observe(c)
  <2>1. once[c] = "no" /\ once'[c] = "release" /\ pc[c] # "send"
    BY <1>1, <1>6 DEF Observe, IInv, Types, Bodies, BodyOK
  <2>2. UNCHANGED <<pc, closer, held, answer>>
    BY <1>6 DEF Observe
  <2>3. QED
    BY <2>1, <2>2 DEF Duty
<1>7. QED
  BY <1>2, <1>3, <1>4, <1>5, <1>6 DEF Progress

\* What a step leaves of the probes of c and of what it has to do.
LEMMA DutyFalls ==
  ASSUME IInv, NEW c \in Callers, held[c] # {}, [Next]_vars
  PROVE  /\ held'[c] = {} \/ (held'[c] # {} /\ Duty(c)' <= Duty(c))
         /\ <<Progress(c)>>_vars => held'[c] = {} \/ (held'[c] # {} /\ Duty(c)' < Duty(c))
<1>1. ASSUME Progress(c)
      PROVE  held'[c] = {} \/ (held'[c] # {} /\ Duty(c)' < Duty(c))
  BY <1>1, ProgressFalls
<1>2. ASSUME UNCHANGED vars \/ Tick \/ ObserveResponsesFailure
      PROVE  held'[c] = {} \/ (held'[c] # {} /\ Duty(c)' <= Duty(c))
  <2>1. UNCHANGED <<held, pc, answer, closer, once>>
    BY <1>2 DEF vars, Tick, ObserveResponsesFailure, bodyVars
  <2>2. Duty(c)' = Duty(c)
    BY <2>1 DEF Duty
  <2>3. QED
    BY <2>1, <2>2, DutyRange
<1>3. ASSUME NEW d \in Callers, Caller(d)
      PROVE  held'[c] = {} \/ (held'[c] # {} /\ Duty(c)' <= Duty(c))
  <2>1. pc[c] \in {"send", "body"}
    BY DEF IInv, HoldersBusy, HolderOK
  <2>2. d # c \/ Progress(c) \/ ReadThrottled(c) \/ ReadFailure(c)
    BY <1>3, <2>1 DEF Caller, Progress, Start, Leave, Reject, RejectFull, Wait, Wake, Abandon, Admit
  <2>3. QED
    BY <1>1, <1>3, <2>2, OthersLeaveDuty, ReadKeepsDuty, DutyRange
<1>4. QED
  BY <1>1, <1>2, <1>3 DEF Next

\* What holds from any moment of a behaviour on.
Always == [][Next]_vars /\ []IInv /\ []WaitInv /\ Runs

\* Fairness of one caller.
LEMMA CallerGoes ==
  ASSUME NEW c \in Callers
  PROVE  Always => []Goes(c)
<1>1. AllGo => Goes(c)
  BY DEF AllGo
<1>2. QED
  BY <1>1, PTL DEF Always, Runs

\* c holds probes with n steps to go, or holds none or has less to do.
At(c, n) == held[c] # {} /\ Duty(c) = n
Below(c, n) == held[c] = {} \/ (held[c] # {} /\ Duty(c) < n)

\* Whoever holds a probe with n steps to go gets further.
DutyShrinks(c, n) == At(c, n) ~> Below(c, n)

LEMMA DutyEnds ==
  ASSUME NEW c \in Callers, NEW n \in 1..5
  PROVE  Always => DutyShrinks(c, n)
<1>1. IInv /\ At(c, n) /\ [Next]_vars => At(c, n)' \/ Below(c, n)'
  BY DutyFalls, DutyRange DEF At, Below
<1>2. IInv /\ At(c, n) /\ [Next]_vars /\ <<Progress(c)>>_vars => Below(c, n)'
  BY DutyFalls DEF At, Below
<1>3. IInv /\ WaitInv /\ At(c, n) => Busy(c)
  BY HolderBusy DEF At
<1>4. QED
  BY <1>1, <1>2, <1>3, CallerGoes, PTL DEF Always, Goes, DutyShrinks

\* c holds no probe.
LetGo(c) == held[c] = {}
LetsGo(c) == ~LetGo(c) ~> LetGo(c)

\* A probe is given back.
LEMMA ProbesEnd ==
  ASSUME NEW c \in Callers
  PROVE  Always => LetsGo(c)
<1>1. 1 \in 1..5 /\ 2 \in 1..5 /\ 3 \in 1..5 /\ 4 \in 1..5 /\ 5 \in 1..5
  OBVIOUS
<1>2. Always => DutyShrinks(c, 1)
  BY <1>1, DutyEnds
<1>3. Always => DutyShrinks(c, 2)
  BY <1>1, DutyEnds
<1>4. Always => DutyShrinks(c, 3)
  BY <1>1, DutyEnds
<1>5. Always => DutyShrinks(c, 4)
  BY <1>1, DutyEnds
<1>6. Always => DutyShrinks(c, 5)
  BY <1>1, DutyEnds
<1>7. /\ Below(c, 1) => LetGo(c)
      /\ Below(c, 2) => LetGo(c) \/ At(c, 1)
      /\ Below(c, 3) => LetGo(c) \/ At(c, 1) \/ At(c, 2)
      /\ Below(c, 4) => LetGo(c) \/ At(c, 1) \/ At(c, 2) \/ At(c, 3)
      /\ Below(c, 5) => LetGo(c) \/ At(c, 1) \/ At(c, 2) \/ At(c, 3) \/ At(c, 4)
      /\ ~LetGo(c) => At(c, 1) \/ At(c, 2) \/ At(c, 3) \/ At(c, 4) \/ At(c, 5)
  BY DutyRange DEF Below, At, LetGo
<1>8. QED
  BY <1>2, <1>3, <1>4, <1>5, <1>6, <1>7, PTL DEF Always, Runs, DutyShrinks, LetsGo

\* c sleeps behind a probe of d.
Behind(c, d) == Asleep(c) /\ waitOn[c] = d

\* A sleeper stays where it is until it is woken or gives up.
LEMMA SleepStays ==
  ASSUME IInv, WaitInv, NEW c \in Callers, NEW d \in Callers, Behind(c, d), [Next]_vars
  PROVE  Behind(c, d)' \/ ~Asleep(c)'
<1> USE DEF tableVars, waitVars, bodyVars, IInv, Types
<1>1. pc[c] = "wait" /\ ~woken[c] /\ waitOn[c] = d
  BY DEF Behind, Asleep
<1>2. ASSUME pc'[c] = pc[c], waitOn'[c] = waitOn[c]
      PROVE  Behind(c, d)' \/ ~Asleep(c)'
  BY <1>1, <1>2 DEF Behind, Asleep
<1>3. ASSUME pc'[c] # "wait" PROVE ~Asleep(c)'
  BY <1>3 DEF Asleep
<1>4. CASE Tick \/ ObserveResponsesFailure \/ UNCHANGED vars
  BY <1>2, <1>4 DEF Tick, ObserveResponsesFailure, vars
<1>5. ASSUME NEW x \in Callers, Caller(x) PROVE pc'[c] # "wait" \/ (pc'[c] = pc[c] /\ waitOn'[c] = waitOn[c])
  <2>1. CASE Start(x) \/ Leave(x) \/ Reject(x) \/ RejectFull(x)
    BY <1>1, <2>1 DEF Start, Leave, Reject, RejectFull
  <2>2. CASE Wait(x) \/ Wake(x) \/ Abandon(x)
    BY <1>1, <2>2 DEF Wait, Wake, Abandon, WaitInv, WaitTypes
  <2>3. CASE Admit(x) \/ SendFails(x) \/ Respond(x)
    BY <1>1, <2>3 DEF Admit, SendFails, Respond
  <2>4. CASE ReadThrottled(x) \/ ReadFailure(x) \/ ObserveEvent(x) \/ Observe(x)
    BY <1>1, <2>4 DEF ReadThrottled, ReadFailure, ObserveEvent, Observe
  <2>5. CASE Close(x) \/ ObserveRelease(x)
    BY <1>1, <2>5 DEF Close, ObserveRelease, Finish
  <2>6. QED
    BY <1>5, <2>1, <2>2, <2>3, <2>4, <2>5 DEF Caller
<1>6. QED
  BY <1>2, <1>3, <1>4, <1>5 DEF Next

LEMMA SleepEnds ==
  ASSUME NEW c \in Callers, NEW d \in Callers
  PROVE  Always => (Behind(c, d) ~> ~Asleep(c))
<1>1. IInv /\ WaitInv /\ Behind(c, d) /\ [Next]_vars => Behind(c, d)' \/ ~Asleep(c)'
  BY SleepStays
<1>2. WaitInv /\ Behind(c, d) => ~LetGo(d)
  BY DEF WaitInv, Covered, Behind, LetGo
<1>3. Always => LetsGo(d)
  BY ProbesEnd
<1>4. Behind(c, d) => Asleep(c)
  BY DEF Behind
<1>5. QED
  BY <1>1, <1>2, <1>3, <1>4, PTL DEF Always, Runs, LetsGo

\* A sleep behind d ends, and one behind anybody.
SleepOver(c, d) == Behind(c, d) => <>(~Asleep(c))
AllOver(c) == \A d \in Callers : SleepOver(c, d)

LEMMA SleepsEnd ==
  ASSUME NEW c \in Callers
  PROVE  Always => (Asleep(c) ~> ~Asleep(c))
<1>1. ASSUME NEW d \in Callers PROVE Always => SleepOver(c, d)
  BY SleepEnds, PTL DEF SleepOver
<1>2. Always => AllOver(c)
  BY <1>1 DEF AllOver
<1> DEFINE Somewhere == \E d \in Callers : Behind(c, d)
<1>3. AllOver(c) => (Somewhere => <>(~Asleep(c)))
  BY DEF AllOver, SleepOver
<1>4. WaitInv /\ Asleep(c) => Somewhere
  BY DEF WaitInv, Covered, Behind
<1> HIDE DEF Somewhere
<1>5. QED
  BY <1>2, <1>3, <1>4, PTL DEF Always, Runs

\* A channel that was closed stays closed.
LEMMA RousedStays ==
  ASSUME IInv, WaitInv, NEW c \in Callers, Roused(c), [Next]_vars
  PROVE  pc'[c] # "wait" \/ (pc'[c] = pc[c] /\ woken'[c])
<1> USE DEF tableVars, waitVars, bodyVars, IInv, Types, WaitInv, WaitTypes
<1>1. pc[c] = "wait" /\ woken[c]
  BY DEF Roused
<1>2. CASE Tick \/ ObserveResponsesFailure \/ UNCHANGED vars
  BY <1>1, <1>2 DEF Tick, ObserveResponsesFailure, vars
<1>3. ASSUME NEW x \in Callers, Caller(x)
      PROVE  pc'[c] # "wait" \/ (pc'[c] = pc[c] /\ woken'[c])
  <2>1. CASE Start(x) \/ Leave(x) \/ Reject(x) \/ RejectFull(x)
    BY <1>1, <2>1 DEF Start, Leave, Reject, RejectFull
  <2>2. CASE Wait(x) \/ Wake(x) \/ Abandon(x)
    BY <1>1, <2>2 DEF Wait, Wake, Abandon
  <2>3. CASE Admit(x) \/ Respond(x)
    BY <1>1, <2>3 DEF Admit, Respond
  <2>4. CASE ReadThrottled(x) \/ ReadFailure(x) \/ ObserveEvent(x) \/ Observe(x)
    BY <1>1, <2>4 DEF ReadThrottled, ReadFailure, ObserveEvent, Observe
  <2>5. CASE Close(x)
    BY <1>1, <2>5 DEF Close, Finish
  <2>6. CASE SendFails(x) \/ ObserveRelease(x)
    <3>1. pc' = pc \/ pc' = [pc EXCEPT ![x] = "idle"]
      BY <2>6 DEF SendFails, ObserveRelease, Finish
    <3>2. woken'[c]
      BY <1>1, <2>6 DEF SendFails, ObserveRelease, Release, Closed
    <3>3. QED
      BY <3>1, <3>2
  <2>7. QED
    BY <1>3, <2>1, <2>2, <2>3, <2>4, <2>5, <2>6 DEF Caller
<1>4. QED
  BY <1>2, <1>3 DEF Next

\* Whoever is woken goes on.
WaitOver(c) == pc[c] = "wait" ~> pc[c] # "wait"

LEMMA RousedLeaves ==
  ASSUME NEW c \in Callers
  PROVE  Always => WaitOver(c)
<1> DEFINE In == pc[c] = "wait"
           Out == pc[c] # "wait"
<1>1. IInv /\ WaitInv /\ Roused(c) /\ [Next]_vars => Roused(c)' \/ Out'
  BY RousedStays DEF Roused
<1>2. IInv /\ Roused(c) /\ <<Wake(c)>>_vars => Out'
  BY DEF Wake, IInv, Types
<1>3. In => Roused(c) \/ Asleep(c)
  BY DEF Roused, Asleep
<1>4. ~Asleep(c) => Out \/ Roused(c)
  BY DEF Roused, Asleep
<1> HIDE DEF In, Out
<1>5. Always => (Roused(c) ~> Out)
  BY <1>1, <1>2, CallerGoes, PTL DEF Always, Runs, Goes
<1>6. Always => (Asleep(c) ~> ~Asleep(c))
  BY SleepsEnd
<1>7. Always => (In ~> Out)
  BY <1>3, <1>4, <1>5, <1>6, PTL DEF Always, Runs
<1>8. QED
  BY <1>7 DEF In, Out, WaitOver

\* Nobody waits for ever, for any number of callers and keys: whoever holds a
\* probe gives it back in five steps of its own at most, and a release wakes
\* everybody who waits for it (acquireCopilotInference, copilotTrafficBody.observe).
THEOREM WaitsAlwaysEnd == Spec /\ Runs => WaitsEnd
<1>1. Always => WaitsEnd
  BY RousedLeaves DEF WaitOver, WaitsEnd
<1>2. Spec /\ Runs => Always
  BY Invariant, WaitInvariant, PTL DEF Spec, Always
<1>3. QED
  BY <1>1, <1>2
=============================================================================

---------------------------- MODULE OnDiskProofs ----------------------------
(***************************************************************************)
(* Proofs about the two stores on disk, which OnDisk has side by side.     *)
(*                                                                         *)
(* DurableBindings, for every set of requests, tokens and owners, every    *)
(* capacity and every number of restarts: a token is shared with one       *)
(* owner, its proof is on disk, the record count is exact, and the store   *)
(* implements StateOwnership.  The argument follows the stakes in a token: *)
(* who issued it or was sent it, and who the requests in flight will send  *)
(* it to or are about to expose it for.  A step creates a stake only       *)
(* together with a record of the same owner, and records never pass from   *)
(* one owner to another.                                                   *)
(*                                                                         *)
(* ConversationTurn, for any number of turns, clients, events and faults:  *)
(* no turn is sent while earlier work of its conversation is unaccounted   *)
(* for, what is saved was received, and an inert turn leaves no marker.    *)
(* The argument follows the marker of each turn: while the turn is open,   *)
(* it stands until the store was told of the outcome; once it is closed,   *)
(* it answers for what a later turn could repeat.                          *)
(***************************************************************************)
EXTENDS OnDisk, Integers, Sequences, FiniteSetTheorems, TLAPS


\* The owner that request i has established for its tokens.
Sought(i) == [route |-> route[i], target |-> pin[i], identity |-> need[i]]

Stakes(t) ==
  trusted[t]
    \cup {Sought(i) : i \in {j \in Ops : need[j] # None /\ t \in asks[j]}}
    \cup {owner[i] : i \in {j \in Ops : t \in answer[j]}}

StakesHeld ==
  \A t \in Tokens : \A o \in Stakes(t) :
    /\ o \in Owners
    /\ proof[t] \in {o, Conflict}
    /\ \A p \in Stakes(t) : p = o

Acting == {"cleared", "sent", "bound"}

\* What a request knows in each of its phases.
OpHolds(i) ==
  /\ phase[i] = "idle" => need[i] = None /\ ~claims[i]
  /\ phase[i] # "bound" => answer[i] = {}
  /\ phase[i] \in Acting => owner[i] \in Owners
  /\ phase[i] \in Acting /\ asks[i] # {} => need[i] # None /\ owner[i] = Sought(i)
  /\ phase[i] = "ready" /\ asks[i] # {} /\ ~claims[i] => need[i] # None
  /\ claims[i] => pin[i] # None /\ \A t, u \in asks[i] : t = u
  /\ store = "down" => phase[i] = "idle"

OpInv == \A i \in Ops : OpHolds(i)

IInv == TypeOK /\ CountExact /\ OpInv /\ StakesHeld

-----------------------------------------------------------------------------
(* What a batch does to the disk.                                          *)

Stamped(changed) == issued' = [t \in Tokens |-> IF t \in changed THEN now ELSE issued[t]]

\* All of the new tokens in S become o's.
Grants(S, o) ==
  /\ store = "open"
  /\ \A t \in S : proof[t] \in {Unknown, o}
  /\ Fits(S)
  /\ proof' = Granted(S, o)
  /\ Stamped(Fresh(S))
  /\ sequence' = Counted(S)

\* Other owners' tokens in S become tombstones.
Buries(S, o) ==
  /\ store = "open"
  /\ proof' = Collided(S, o)
  /\ Stamped(Foreign(S, o))
  /\ sequence' = sequence

DiskStep(S, o) == Grants(S, o) \/ Buries(S, o) \/ UNCHANGED diskVars

StoreStep == \/ store' = store
             \/ store = "open" /\ store' = "failed"

\* A record stays, becomes a tombstone, or is new.
Steady == \A t \in Tokens : proof[t] = Unknown \/ proof'[t] \in {proof[t], Conflict}

LEMMA BindShape ==
  ASSUME TypeOK, NEW S \in SUBSET Tokens, NEW o \in Owners, NEW result, BindAll(S, o, result)
  PROVE  /\ DiskStep(S, o)
         /\ StoreStep
         /\ result = o => \A t \in S : proof'[t] = o
<1> USE DistinctAssumption DEF TypeOK
<1>1. CASE /\ store # "open" /\ result = Refused /\ UNCHANGED <<diskVars, store>>
  BY <1>1 DEF DiskStep, StoreStep, diskVars
<1>2. CASE /\ store = "open" /\ \A t \in S : proof[t] = o
           /\ result = o /\ UNCHANGED <<diskVars, store>>
  BY <1>2 DEF DiskStep, StoreStep, diskVars
<1>3. CASE /\ store = "open"
           /\ Commit(Collided(S, o), Foreign(S, o), sequence, result, Conflict)
  <2>1. result # o
    BY <1>3 DEF Commit
  <2>2. QED
    BY <1>3, <2>1 DEF Commit, DiskStep, StoreStep, Buries, Stamped
<1>4. CASE /\ store = "open" /\ result = Refused /\ UNCHANGED <<diskVars, store>>
  BY <1>4 DEF DiskStep, StoreStep, diskVars
<1>5. CASE /\ store = "open"
           /\ Foreign(S, o) \cup Buried(S) = {}
           /\ Fits(S)
           /\ Commit(Granted(S, o), Fresh(S), Counted(S), result, o)
  <2>1. \A t \in S : proof[t] \in {Unknown, o}
    <3>1. \A t \in S : t \notin Foreign(S, o) /\ t \notin Buried(S)
      BY <1>5
    <3>2. QED
      BY <3>1 DEF Foreign, Buried
  <2>2. Grants(S, o) \/ UNCHANGED diskVars
    BY <1>5, <2>1 DEF Commit, Grants, Stamped
  <2>3. StoreStep
    BY <1>5 DEF Commit, StoreStep
  <2>4. ASSUME result = o
        PROVE  \A t \in S : proof'[t] = o
    <3>1. proof' = Granted(S, o)
      BY <1>5, <2>4 DEF Commit
    <3>2. QED
      BY <2>1, <3>1 DEF Granted, Fresh
  <2>5. QED
    BY <2>2, <2>3, <2>4 DEF DiskStep
<1>6. QED
  BY <1>1, <1>2, <1>3, <1>4, <1>5 DEF BindAll

LEMMA ClaimShape ==
  ASSUME TypeOK, NEW t \in Tokens, NEW o \in Owners, NEW result, Claim(t, o, result)
  PROVE  /\ DiskStep({t}, o)
         /\ StoreStep
         /\ result = o => proof'[t] = o
<1>1. CASE /\ store = "open" /\ proof[t] # Unknown
           /\ result = proof[t] /\ UNCHANGED <<diskVars, store>>
  BY <1>1 DEF DiskStep, StoreStep, diskVars
<1>2. CASE BindAll({t}, o, result)
  <2>1. {t} \in SUBSET Tokens
    OBVIOUS
  <2>2. QED
    BY <1>2, <2>1, BindShape
<1>3. QED
  BY <1>1, <1>2 DEF Claim

\* Every batch keeps the type of the disk, is steady, keeps the count, and is
\* a step of StateOwnership.
LEMMA DiskTyped ==
  ASSUME TypeOK, NEW S \in SUBSET Tokens, NEW o \in Owners, DiskStep(S, o), now' = now
  PROVE  /\ proof' \in [Tokens -> Owners \cup {Unknown, Conflict}]
         /\ issued' \in [Tokens -> 0 .. now']
         /\ Steady
<1> USE DEF TypeOK
<1>1. CASE Grants(S, o)
  <2>1. proof' \in [Tokens -> Owners \cup {Unknown, Conflict}]
    BY <1>1 DEF Grants, Granted
  <2>2. issued' \in [Tokens -> 0 .. now']
    BY <1>1 DEF Grants, Stamped
  <2>3. Steady
    BY <1>1 DEF Grants, Granted, Fresh, Steady
  <2>4. QED
    BY <2>1, <2>2, <2>3
<1>2. CASE Buries(S, o)
  <2>1. proof' \in [Tokens -> Owners \cup {Unknown, Conflict}]
    BY <1>2 DEF Buries, Collided
  <2>2. issued' \in [Tokens -> 0 .. now']
    BY <1>2 DEF Buries, Stamped
  <2>3. Steady
    BY <1>2 DEF Buries, Collided, Foreign, Steady
  <2>4. QED
    BY <2>1, <2>2, <2>3
<1>3. CASE UNCHANGED diskVars
  BY <1>3 DEF diskVars, Steady
<1>4. QED
  BY <1>1, <1>2, <1>3 DEF DiskStep

LEMMA DiskCounted ==
  ASSUME TypeOK, CountExact, NEW S \in SUBSET Tokens, NEW o \in Owners, DiskStep(S, o),
         StoreStep, limit' = limit
  PROVE  CountExact' /\ sequence' \in Nat
<1> USE DEF TypeOK
<1>0. /\ IsFiniteSet(Recorded)
      /\ Cardinality(Recorded) \in Nat
  BY TokenAssumption, FS_Subset, FS_CardinalityType DEF Recorded
<1>1. CASE Grants(S, o)
  <2>1. Fresh(S) \subseteq Tokens /\ Fresh(S) \cap Recorded = {}
    BY DEF Fresh, Recorded
  <2>2. IsFiniteSet(Fresh(S)) /\ Cardinality(Fresh(S)) \in Nat
    BY <2>1, TokenAssumption, FS_Subset, FS_CardinalityType
  <2>3. Recorded' = Recorded \cup Fresh(S)
    BY <1>1, DistinctAssumption DEF Grants, Granted, Fresh, Recorded
  <2>4. Cardinality(Recorded') = Cardinality(Recorded) + Cardinality(Fresh(S))
    <3>1. Cardinality(Recorded \cup Fresh(S)) =
            Cardinality(Recorded) + Cardinality(Fresh(S)) - Cardinality(Recorded \cap Fresh(S))
      BY <1>0, <2>2, FS_Union
    <3>2. Recorded \cap Fresh(S) = {}
      BY <2>1
    <3>3. Cardinality(Recorded \cap Fresh(S)) = 0
      BY <3>2, FS_EmptySet
    <3>4. QED
      BY <1>0, <2>2, <2>3, <3>1, <3>3
  <2>5. sequence' = sequence + Cardinality(Fresh(S))
    BY <1>1 DEF Grants, Counted
  <2>6. sequence + Cardinality(Fresh(S)) <= limit
    <3>1. sequence <= limit
      BY <1>1 DEF Grants, CountExact
    <3>2. limit \in Nat
      BY LimitAssumption
    <3>3. Cardinality(Fresh(S)) <= limit - sequence
      BY <1>1 DEF Grants, Fits
    <3>4. QED
      BY <2>2, <3>1, <3>2, <3>3
  <2>7. QED
    BY <2>2, <2>4, <2>5, <2>6 DEF CountExact
<1>2. CASE Buries(S, o)
  <2>1. Recorded' = Recorded
    BY <1>2, DistinctAssumption DEF Buries, Collided, Foreign, Recorded
  <2>2. sequence' = sequence /\ store = "open"
    BY <1>2 DEF Buries
  <2>3. QED
    BY <2>1, <2>2 DEF CountExact
<1>3. CASE UNCHANGED diskVars
  <2>1. Recorded' = Recorded /\ sequence' = sequence
    BY <1>3 DEF diskVars, Recorded
  <2>2. store' # "down" => store # "down"
    BY DEF StoreStep
  <2>3. QED
    BY <2>1, <2>2 DEF CountExact
<1>4. QED
  BY <1>1, <1>2, <1>3 DEF DiskStep

LEMMA DiskOwned ==
  ASSUME TypeOK, NEW S \in SUBSET Tokens, NEW o \in Owners, DiskStep(S, o)
  PROVE  Ownership!Next \/ UNCHANGED proof
<1> USE DEF TypeOK
<1>1. CASE Grants(S, o)
  <2>1. proof' \in [Tokens -> Owners \cup {Unknown, Conflict}]
    BY <1>1 DEF Grants, Granted
  <2>2. Ownership!Grant(o)
    BY <1>1 DEF Grants, Granted, Fresh, Ownership!Grant, Ownership!Gains, Ownership!Same
  <2>3. QED
    BY <2>1, <2>2 DEF Ownership!Next, Ownership!Authorities
<1>2. CASE Buries(S, o)
  <2>1. proof' \in [Tokens -> Owners \cup {Unknown, Conflict}]
    BY <1>2 DEF Buries, Collided
  <2>2. Ownership!Collision
    BY <1>2 DEF Buries, Collided, Foreign, Ownership!Collision, Ownership!Collides, Ownership!Same
  <2>3. QED
    BY <2>1, <2>2 DEF Ownership!Next, Ownership!Authorities
<1>3. CASE UNCHANGED diskVars
  BY <1>3 DEF diskVars
<1>4. QED
  BY <1>1, <1>2, <1>3 DEF DiskStep

-----------------------------------------------------------------------------
(* Stakes are created together with a record of the same owner.            *)

LEMMA StakeStep ==
  ASSUME TypeOK, StakesHeld, Steady,
         \A t \in Tokens : \A o \in Stakes(t)' :
            o \in Stakes(t) \/ (o \in Owners /\ proof'[t] = o)
  PROVE  StakesHeld'
<1> SUFFICES ASSUME NEW t \in Tokens, NEW o \in Stakes(t)'
             PROVE  /\ o \in Owners
                    /\ proof'[t] \in {o, Conflict}
                    /\ \A p \in Stakes(t)' : p = o
  BY DEF StakesHeld
<1>1. ASSUME NEW q \in Stakes(t)'
      PROVE  q \in Owners /\ proof'[t] \in {q, Conflict}
  <2>1. CASE q \in Stakes(t)
    <3>1. q \in Owners /\ proof[t] \in {q, Conflict}
      BY <2>1 DEF StakesHeld
    <3>2. proof[t] # Unknown
      BY <3>1, DistinctAssumption
    <3>3. proof'[t] \in {proof[t], Conflict}
      BY <3>2 DEF Steady
    <3>4. QED
      BY <3>1, <3>3
  <2>2. CASE q \in Owners /\ proof'[t] = q
    BY <2>2
  <2>3. QED
    BY <2>1, <2>2
<1>2. ASSUME NEW p \in Stakes(t)'
      PROVE  p = o
  <2>1. CASE p \in Stakes(t) /\ o \in Stakes(t)
    BY <2>1 DEF StakesHeld
  <2>2. CASE p \in Owners /\ proof'[t] = p
    BY <2>2, <1>1, DistinctAssumption
  <2>3. CASE o \in Owners /\ proof'[t] = o
    BY <2>3, <1>1, DistinctAssumption
  <2>4. QED
    BY <2>1, <2>2, <2>3
<1>3. QED
  BY <1>1, <1>2

\* The stakes of one request.
OwnStakes(i, t) ==
  {o \in {Sought(i)} : need[i] # None /\ t \in asks[i]}
    \cup {o \in {owner[i]} : t \in answer[i]}

LEMMA StakesOf ==
  \A t \in Tokens : Stakes(t) = trusted[t] \cup UNION {OwnStakes(i, t) : i \in Ops}
  BY DEF Stakes, OwnStakes

\* A step of request i: nothing changes for the others.
OthersKept(i) ==
  \A j \in Ops \ {i} :
    /\ phase'[j] = phase[j] /\ route'[j] = route[j] /\ pin'[j] = pin[j]
    /\ asks'[j] = asks[j] /\ claims'[j] = claims[j] /\ need'[j] = need[j]
    /\ owner'[j] = owner[j] /\ answer'[j] = answer[j]

LEMMA RequestStakes ==
  ASSUME TypeOK, StakesHeld, Steady, NEW i \in Ops, OthersKept(i),
         \A t \in Tokens : \A o \in trusted'[t] : o \in Stakes(t),
         \A t \in Tokens : \A o \in OwnStakes(i, t)' :
            o \in Stakes(t) \/ (o \in Owners /\ proof'[t] = o)
  PROVE  StakesHeld'
<1> SUFFICES ASSUME NEW t \in Tokens, NEW o \in Stakes(t)'
             PROVE  o \in Stakes(t) \/ (o \in Owners /\ proof'[t] = o)
  BY StakeStep
<1>1. CASE o \in trusted'[t]
  BY <1>1
<1>2. ASSUME NEW j \in Ops, o \in OwnStakes(j, t)'
      PROVE  o \in Stakes(t) \/ (o \in Owners /\ proof'[t] = o)
  <2>1. CASE j = i
    BY <1>2, <2>1
  <2>2. CASE j # i
    <3>1. o \in OwnStakes(j, t)
      BY <1>2, <2>2 DEF OthersKept, OwnStakes, Sought
    <3>2. QED
      BY <3>1, StakesOf
  <2>3. QED
    BY <2>1, <2>2
<1>3. o \in trusted'[t] \/ \E j \in Ops : o \in OwnStakes(j, t)'
  BY DEF Stakes, OwnStakes
<1>4. QED
  BY <1>1, <1>2, <1>3

-----------------------------------------------------------------------------
(* The invariant, one action at a time.                                    *)

DiskTypes ==
  /\ proof' \in [Tokens -> Owners \cup {Unknown, Conflict}]
  /\ issued' \in [Tokens -> 0 .. now']
  /\ sequence' \in Nat
  /\ store' \in {"down", "open", "failed"}

\* What the actions of a request may do to the store.
Stored == /\ DiskTypes /\ StoreStep /\ Steady /\ CountExact'
          /\ limit' = limit /\ now' = now

LEMMA StoredByDisk ==
  ASSUME IInv, NEW S \in SUBSET Tokens, NEW o \in Owners, DiskStep(S, o), StoreStep,
         limit' = limit, now' = now
  PROVE  Stored
<1>1. TypeOK /\ CountExact
  BY DEF IInv
<1>2. CountExact' /\ sequence' \in Nat
  BY <1>1, DiskCounted
<1>3. /\ proof' \in [Tokens -> Owners \cup {Unknown, Conflict}]
      /\ issued' \in [Tokens -> 0 .. now']
      /\ Steady
  BY <1>1, DiskTyped
<1>4. store' \in {"down", "open", "failed"}
  BY <1>1 DEF TypeOK, StoreStep
<1>5. QED
  BY <1>2, <1>3, <1>4 DEF Stored, DiskTypes

LEMMA StoredQuietly ==
  ASSUME IInv, UNCHANGED <<diskVars, storeVars>>
  PROVE  Stored
<1>1. /\ proof' = proof /\ issued' = issued /\ sequence' = sequence
      /\ store' = store /\ limit' = limit /\ now' = now
  BY DEF diskVars, storeVars
<1>2. TypeOK /\ CountExact
  BY DEF IInv
<1>3. DiskTypes
  BY <1>1, <1>2 DEF TypeOK, DiskTypes
<1>4. CountExact'
  BY <1>1, <1>2 DEF CountExact, Recorded
<1>5. StoreStep /\ Steady
  BY <1>1 DEF StoreStep, Steady
<1>6. QED
  BY <1>1, <1>3, <1>4, <1>5 DEF Stored

LEMMA OpStep ==
  ASSUME OpInv, NEW i \in Ops, OthersKept(i), StoreStep, OpHolds(i)'
  PROVE  OpInv'
<1>1. ASSUME NEW j \in Ops
      PROVE  OpHolds(j)'
  <2>1. CASE j = i
    BY <2>1
  <2>2. CASE j # i
    BY <2>2 DEF OpInv, OpHolds, OthersKept, Sought, StoreStep
  <2>3. QED
    BY <2>1, <2>2
<1>2. QED
  BY <1>1 DEF OpInv

\* A request goes on; the stakes it adds come with their records.
LEMMA RequestKept ==
  ASSUME IInv, TypeOK', NEW i \in Ops, OthersKept(i), Stored, OpHolds(i)',
         \A t \in Tokens : \A o \in trusted'[t] : o \in Stakes(t),
         \A t \in Tokens : \A o \in OwnStakes(i, t)' :
            o \in Stakes(t) \/ (o \in Owners /\ proof'[t] = o)
  PROVE  IInv'
<1>1. OpInv'
  BY OpStep DEF IInv, Stored
<1>2. StakesHeld'
  BY RequestStakes DEF IInv, Stored
<1>3. QED
  BY <1>1, <1>2 DEF IInv, Stored

\* A request gives up.
LEMMA IdleKept ==
  ASSUME IInv, NEW i \in Ops, Idle(i), Stored, trusted' = trusted
  PROVE  IInv'
<1>0. TypeOK
  BY DEF IInv
<1>1. TypeOK'
  BY <1>0 DEF TypeOK, Idle, Stored, DiskTypes
<1>2. OthersKept(i)
  BY <1>0 DEF TypeOK, Idle, OthersKept
<1>3. /\ phase'[i] = "idle" /\ need'[i] = None /\ claims'[i] = FALSE /\ answer'[i] = {}
      /\ asks'[i] = {}
  BY <1>0 DEF TypeOK, Idle
<1>4. OpHolds(i)'
  BY <1>3 DEF OpHolds, Acting
<1>5. \A t \in Tokens : \A o \in trusted'[t] : o \in Stakes(t)
  BY DEF Stakes
<1>6. \A t \in Tokens : OwnStakes(i, t)' = {}
  BY <1>3 DEF OwnStakes
<1>7. QED
  BY <1>1, <1>2, <1>4, <1>5, <1>6, RequestKept

LEMMA AskKept ==
  ASSUME IInv, NEW i \in Ops, Ask(i)
  PROVE  IInv'
<1>0. TypeOK /\ OpInv /\ phase[i] = "idle" /\ store # "down"
  BY DEF IInv, Ask
<1>1. Stored
  BY StoredQuietly DEF Ask
<1>2. PICK r \in Routes, p \in Targets \cup {None}, S \in SUBSET Tokens :
        /\ phase' = [phase EXCEPT ![i] = "ready"]
        /\ route' = [route EXCEPT ![i] = r]
        /\ asks' = [asks EXCEPT ![i] = S]
        /\ \/ S = {} /\ Unbound(i, p)
           \/ S # {} /\ Continues(i, S, r, p)
           \/ Begins(i, S, r, p)
  BY DEF Ask
<1>3. UNCHANGED <<diskVars, storeVars, owner, answer, trusted>>
  BY DEF Ask
<1>4. /\ phase'[i] = "ready" /\ route'[i] = r /\ asks'[i] = S
      /\ owner'[i] = owner[i] /\ answer'[i] = {}
  BY <1>0, <1>2, <1>3 DEF TypeOK, OpInv, OpHolds
<1>5. need[i] = None /\ claims[i] = FALSE
  BY <1>0 DEF TypeOK, OpInv, OpHolds
<1>6. OthersKept(i) /\ trusted' = trusted
  BY <1>0, <1>2, <1>3 DEF TypeOK, OthersKept, Unbound, Continues, Begins
<1>7. \A t \in Tokens : \A o \in trusted'[t] : o \in Stakes(t)
  BY <1>6 DEF Stakes
<1>8. TypeOK'
  <2>1. need' \in [Ops -> {o.identity : o \in Owners} \cup {None}]
    BY <1>0, <1>2, SMTT(60) DEF TypeOK, Unbound, Continues, Begins
  <2>2. pin' \in [Ops -> Targets \cup {None}]
    BY <1>0, <1>2, OwnerAssumption, BootstrapAssumption DEF TypeOK, Unbound, Continues, Begins
  <2>3. claims' \in [Ops -> BOOLEAN]
    BY <1>0, <1>2 DEF TypeOK, Unbound, Continues, Begins
  <2>4. /\ phase' \in [Ops -> {"idle", "ready", "cleared", "sent", "bound"}]
        /\ route' \in [Ops -> Routes \cup {None}]
        /\ asks' \in [Ops -> SUBSET Tokens]
    BY <1>0, <1>2 DEF TypeOK
  <2>5. QED
    BY <1>0, <1>1, <1>3, <2>1, <2>2, <2>3, <2>4 DEF TypeOK, Stored, DiskTypes
<1>9. CASE S = {} /\ Unbound(i, p)
  <2>1. OpHolds(i)'
    BY <1>4, <1>5, <1>9, <1>0, <1>3 DEF OpHolds, Acting, storeVars, Unbound
  <2>2. \A t \in Tokens : OwnStakes(i, t)' = {}
    BY <1>4, <1>9 DEF OwnStakes
  <2>3. QED
    BY <1>1, <1>6, <1>7, <1>8, <2>1, <2>2, RequestKept
<1>10. CASE S # {} /\ Continues(i, S, r, p)
  <2>1. PICK o \in Owners : /\ Owned(S, r, p, o)
                            /\ pin' = [pin EXCEPT ![i] = o.target]
                            /\ need' = [need EXCEPT ![i] = o.identity]
    BY <1>10 DEF Continues
  <2>2. need'[i] = o.identity /\ pin'[i] = o.target /\ claims'[i] = FALSE
    BY <1>0, <1>5, <1>10, <2>1 DEF TypeOK, Continues
  <2>3. Sought(i)' = o
    BY <1>4, <2>1, <2>2, OwnerAssumption DEF Sought, Owned
  <2>4. OpHolds(i)'
    BY <1>0, <1>3, <1>4, <2>1, <2>2, OwnerAssumption DEF OpHolds, Acting, storeVars
  <2>5. \A t \in Tokens : \A q \in OwnStakes(i, t)' : q \in Owners /\ proof'[t] = q
    BY <1>3, <1>4, <2>1, <2>3 DEF OwnStakes, Owned, diskVars
  <2>6. QED
    BY <1>1, <1>6, <1>7, <1>8, <2>4, <2>5, RequestKept
<1>11. CASE Begins(i, S, r, p)
  <2>1. /\ pin'[i] # None /\ claims'[i] = TRUE /\ need'[i] = None
        /\ \A t, u \in S : t = u
    BY <1>0, <1>5, <1>11 DEF TypeOK, Begins
  <2>2. OpHolds(i)'
    BY <1>0, <1>3, <1>4, <2>1 DEF OpHolds, Acting, storeVars
  <2>3. \A t \in Tokens : OwnStakes(i, t)' = {}
    BY <1>4, <2>1 DEF OwnStakes
  <2>4. QED
    BY <1>1, <1>6, <1>7, <1>8, <2>2, <2>3, RequestKept
<1>12. QED
  BY <1>2, <1>9, <1>10, <1>11

\* The owner of an attempt is the one that the tokens of its request need.
LEMMA ClearOwner ==
  ASSUME IInv, NEW i \in Ops, NEW o \in Owners, Eligible(i, o),
         need[i] \in {None, o.identity}, pin[i] # None
  PROVE  [route |-> route[i], target |-> pin[i], identity |-> o.identity] = o
  BY OwnerAssumption DEF Eligible

LEMMA Pinned ==
  ASSUME IInv, NEW i \in Ops, need[i] # None, asks[i] # {}
  PROVE  pin[i] # None
<1>1. PICK t \in Tokens : t \in asks[i]
  BY DEF IInv, TypeOK
<1>2. Sought(i) \in Stakes(t)
  BY <1>1 DEF Stakes
<1>3. Sought(i) \in Owners
  BY <1>2 DEF IInv, StakesHeld
<1>4. Sought(i).target # None
  BY <1>3, OwnerAssumption, DistinctAssumption
<1>5. QED
  BY <1>4 DEF Sought

LEMMA ValidateKept ==
  ASSUME IInv, NEW i \in Ops, Validate(i)
  PROVE  IInv'
<1>0. TypeOK /\ OpInv /\ StakesHeld
  BY DEF IInv
<1>1. PICK o \in Owners : Eligible(i, o) /\ (Fails(i, o) \/ Proceeds(i, o))
  BY DEF Validate
<1>2. phase[i] = "ready" /\ UNCHANGED <<limit, now, trusted>>
  BY DEF Validate
<1>3. \A t \in Tokens : \A q \in trusted'[t] : q \in Stakes(t)
  BY <1>2 DEF Stakes
<1>4. CASE Fails(i, o)
  <2>1. Stored
    BY <1>2, <1>4, StoredQuietly DEF Fails, storeVars
  <2>2. QED
    BY <1>2, <1>4, <2>1, IdleKept DEF Fails
<1>5. CASE /\ store = "open" /\ need[i] \in {None, o.identity}
           /\ ~claims[i] /\ Clear(i, o) /\ UNCHANGED <<need, diskVars, store>>
  <2>1. Stored
    BY <1>2, <1>5, StoredQuietly DEF storeVars
  <2>2. TypeOK'
    BY <1>0, <1>2, <1>5, <2>1 DEF TypeOK, Stored, DiskTypes, Clear
  <2>3. OthersKept(i)
    BY <1>0, <1>5 DEF TypeOK, OthersKept, Clear
  <2>4. /\ phase'[i] = "cleared" /\ owner'[i] = o
        /\ asks'[i] = asks[i] /\ need'[i] = need[i] /\ claims'[i] = claims[i]
        /\ route'[i] = route[i] /\ pin'[i] = pin[i] /\ answer'[i] = {}
    BY <1>0, <1>2, <1>5 DEF TypeOK, Clear, OpInv, OpHolds
  <2>5. asks[i] # {} => need[i] # None /\ Sought(i) = o
    <3>1. asks[i] # {} => need[i] # None
      BY <1>0, <1>2, <1>5 DEF OpInv, OpHolds
    <3>2. QED
      BY <3>1, <1>1, <1>5, Pinned, ClearOwner DEF Sought
  <2>6. Sought(i)' = Sought(i)
    BY <2>4 DEF Sought
  <2>7. OpHolds(i)'
    BY <1>5, <2>4, <2>5, <2>6 DEF OpHolds, Acting
  <2>8. \A t \in Tokens : \A q \in OwnStakes(i, t)' : q \in Stakes(t)
    BY <2>4, <2>6 DEF OwnStakes, Stakes
  <2>9. QED
    BY <1>3, <2>1, <2>2, <2>3, <2>7, <2>8, RequestKept
<1>6. ASSUME store = "open", need[i] \in {None, o.identity}, claims[i],
             NEW t \in asks[i], NEW result \in Owners \cup {Conflict, Refused},
             Claim(t, o, result)
      PROVE  /\ Idle(i) => IInv'
             /\ result = o /\ Clear(i, o) /\ need' = [need EXCEPT ![i] = o.identity] => IInv'
  <2>1. t \in Tokens
    BY <1>0 DEF TypeOK
  <2>2. /\ DiskStep({t}, o)
        /\ StoreStep
        /\ result = o => proof'[t] = o
    BY <1>0, <1>6, <2>1, ClaimShape
  <2>3. Stored
    <3>1. {t} \in SUBSET Tokens
      BY <2>1
    <3>2. QED
      BY <1>2, <2>2, <3>1, StoredByDisk
  <2>4. ASSUME Idle(i)
        PROVE  IInv'
    BY <1>2, <2>3, <2>4, IdleKept
  <2>5. ASSUME result = o, Clear(i, o), need' = [need EXCEPT ![i] = o.identity]
        PROVE  IInv'
    <3>1. TypeOK'
      <4>1. need' \in [Ops -> {q.identity : q \in Owners} \cup {None}]
        BY <1>0, <2>5 DEF TypeOK
      <4>2. QED
        BY <1>0, <1>2, <2>3, <2>5, <4>1 DEF TypeOK, Stored, DiskTypes, Clear
    <3>2. OthersKept(i)
      BY <1>0, <2>5 DEF TypeOK, OthersKept, Clear
    <3>3. /\ phase'[i] = "cleared" /\ owner'[i] = o
          /\ asks'[i] = asks[i] /\ need'[i] = o.identity /\ claims'[i] = claims[i]
          /\ route'[i] = route[i] /\ pin'[i] = pin[i] /\ answer'[i] = {}
      BY <1>0, <1>2, <2>5 DEF TypeOK, Clear, OpInv, OpHolds
    <3>4. asks[i] = {t} /\ pin[i] # None
      BY <1>0, <1>6 DEF OpInv, OpHolds
    <3>5. Sought(i)' = o
      BY <1>1, <1>6, <3>3, <3>4, ClearOwner DEF Sought
    <3>6. OpHolds(i)'
      <4>1. store' # "down"
        BY <1>6, <2>2 DEF StoreStep
      <4>2. QED
        BY <3>3, <3>4, <3>5, <4>1, OwnerAssumption DEF OpHolds, Acting
    <3>7. \A u \in Tokens : \A q \in OwnStakes(i, u)' : q \in Owners /\ proof'[u] = q
      BY <2>2, <2>5, <3>3, <3>4, <3>5 DEF OwnStakes
    <3>8. QED
      BY <1>3, <2>3, <3>1, <3>2, <3>6, <3>7, RequestKept
  <2>6. QED
    BY <2>4, <2>5
<1>7. QED
  BY <1>1, <1>4, <1>5, <1>6 DEF Proceeds

LEMMA AnswerKept ==
  ASSUME IInv, NEW i \in Ops, Answer(i)
  PROVE  IInv'
<1>0. TypeOK /\ OpInv /\ StakesHeld
  BY DEF IInv
<1>1. PICK S \in SUBSET Tokens \ {{}}, result \in Owners \cup {Conflict, Refused} :
        /\ BindAll(S, owner[i], result)
        /\ \/ result # owner[i] /\ Idle(i)
           \/ /\ result = owner[i]
              /\ phase' = [phase EXCEPT ![i] = "bound"]
              /\ answer' = [answer EXCEPT ![i] = S]
              /\ UNCHANGED <<route, pin, asks, claims, need, owner>>
  BY DEF Answer
<1>2. phase[i] = "sent" /\ UNCHANGED <<limit, now, trusted>>
  BY DEF Answer
<1>3. owner[i] \in Owners /\ S \in SUBSET Tokens
  BY <1>0, <1>2 DEF OpInv, OpHolds, Acting
<1>4. /\ DiskStep(S, owner[i])
      /\ StoreStep
      /\ result = owner[i] => \A t \in S : proof'[t] = owner[i]
  BY <1>0, <1>1, <1>3, BindShape
<1>5. Stored
  BY <1>2, <1>3, <1>4, StoredByDisk
<1>6. CASE Idle(i)
  BY <1>2, <1>5, <1>6, IdleKept
<1>7. CASE /\ result = owner[i]
           /\ phase' = [phase EXCEPT ![i] = "bound"]
           /\ answer' = [answer EXCEPT ![i] = S]
           /\ UNCHANGED <<route, pin, asks, claims, need, owner>>
  <2>1. TypeOK'
    BY <1>0, <1>2, <1>3, <1>5, <1>7 DEF TypeOK, Stored, DiskTypes
  <2>2. OthersKept(i)
    BY <1>0, <1>7 DEF TypeOK, OthersKept
  <2>3. phase'[i] = "bound" /\ answer'[i] = S
    BY <1>0, <1>7 DEF TypeOK
  <2>4. Sought(i)' = Sought(i)
    BY <1>7 DEF Sought
  <2>5. OpHolds(i)'
    BY <1>0, <1>2, <1>4, <1>7, <2>3, <2>4 DEF OpInv, OpHolds, Acting, StoreStep
  <2>6. \A t \in Tokens : \A o \in trusted'[t] : o \in Stakes(t)
    BY <1>2 DEF Stakes
  <2>7. \A t \in Tokens : \A o \in OwnStakes(i, t)' :
            o \in Stakes(t) \/ (o \in Owners /\ proof'[t] = o)
    BY <1>3, <1>4, <1>7, <2>3, <2>4 DEF OwnStakes, Stakes
  <2>8. QED
    BY <1>5, <2>1, <2>2, <2>5, <2>6, <2>7, RequestKept
<1>8. QED
  BY <1>1, <1>6, <1>7

\* Sends, retries and exposures hand a stake on; the disk is left alone.
LEMMA HandOver ==
  ASSUME IInv, NEW i \in Ops, Dispatch(i) \/ Retry(i) \/ Expose(i)
  PROVE  IInv'
<1>0. TypeOK /\ OpInv
  BY DEF IInv
<1>1. UNCHANGED <<diskVars, storeVars, route, pin, asks, claims, need>>
  BY DEF Dispatch, Retry, Expose
<1>2. Stored
  BY <1>1, StoredQuietly
<1>3. Sought(i)' = Sought(i)
  BY <1>1 DEF Sought
<1>4. CASE Dispatch(i)
  <2>1. owner[i] \in Owners
    BY <1>0, <1>4 DEF Dispatch, OpInv, OpHolds, Acting
  <2>2. TypeOK'
    <3>1. trusted' \in [Tokens -> SUBSET Owners]
      BY <1>0, <1>4, <2>1 DEF TypeOK, Dispatch, Trust
    <3>2. QED
      BY <1>0, <1>1, <1>2, <1>4, <3>1 DEF TypeOK, Stored, DiskTypes, Dispatch
  <2>3. OthersKept(i)
    BY <1>0, <1>1, <1>4 DEF TypeOK, OthersKept, Dispatch
  <2>4. phase'[i] = "sent" /\ owner'[i] = owner[i] /\ answer'[i] = answer[i]
    BY <1>0, <1>4 DEF TypeOK, Dispatch
  <2>5. OpHolds(i)'
    BY <1>0, <1>1, <1>3, <1>4, <2>4 DEF OpInv, OpHolds, Acting, Dispatch, storeVars
  <2>6. ASSUME NEW t \in Tokens, NEW o \in trusted'[t]
        PROVE  o \in Stakes(t)
    <3>1. o \in trusted[t] \/ (t \in asks[i] /\ o = owner[i])
      BY <1>4 DEF Dispatch, Trust
    <3>2. t \in asks[i] => need[i] # None /\ owner[i] = Sought(i)
      BY <1>0, <1>4 DEF OpInv, OpHolds, Acting, Dispatch
    <3>3. QED
      BY <3>1, <3>2 DEF Stakes
  <2>7. \A t \in Tokens : \A o \in OwnStakes(i, t)' : o \in Stakes(t)
    BY <1>1, <1>3, <2>4 DEF OwnStakes, Stakes
  <2>8. QED
    BY <1>2, <2>2, <2>3, <2>5, <2>6, <2>7, RequestKept
<1>5. CASE Retry(i)
  <2>1. TypeOK'
    BY <1>0, <1>1, <1>2, <1>5 DEF TypeOK, Stored, DiskTypes, Retry
  <2>2. OthersKept(i)
    BY <1>0, <1>1, <1>5 DEF TypeOK, OthersKept, Retry
  <2>3. phase'[i] = "ready" /\ answer'[i] = {}
    BY <1>0, <1>5 DEF TypeOK, Retry, OpInv, OpHolds
  <2>4. OpHolds(i)'
    BY <1>0, <1>1, <1>5, <2>3 DEF OpInv, OpHolds, Acting, Retry, storeVars
  <2>5. \A t \in Tokens : \A o \in trusted'[t] : o \in Stakes(t)
    BY <1>5 DEF Retry, Stakes
  <2>6. \A t \in Tokens : \A o \in OwnStakes(i, t)' : o \in Stakes(t)
    BY <1>1, <1>3, <2>3 DEF OwnStakes, Stakes
  <2>7. QED
    BY <1>2, <2>1, <2>2, <2>4, <2>5, <2>6, RequestKept
<1>6. CASE Expose(i)
  <2>1. owner[i] \in Owners
    BY <1>0, <1>6 DEF Expose, OpInv, OpHolds, Acting
  <2>2. TypeOK'
    <3>1. trusted' \in [Tokens -> SUBSET Owners]
      BY <1>0, <1>6, <2>1 DEF TypeOK, Expose, Trust
    <3>2. QED
      BY <1>0, <1>1, <1>2, <1>6, <3>1 DEF TypeOK, Stored, DiskTypes, Expose
  <2>3. OthersKept(i)
    BY <1>0, <1>1, <1>6 DEF TypeOK, OthersKept, Expose
  <2>4. phase'[i] = "sent" /\ owner'[i] = owner[i] /\ answer'[i] = {}
    BY <1>0, <1>6 DEF TypeOK, Expose
  <2>5. OpHolds(i)'
    BY <1>0, <1>1, <1>3, <1>6, <2>4 DEF OpInv, OpHolds, Acting, Expose, storeVars
  <2>6. ASSUME NEW t \in Tokens, NEW o \in trusted'[t]
        PROVE  o \in Stakes(t)
    BY <1>6 DEF Expose, Trust, Stakes
  <2>7. \A t \in Tokens : \A o \in OwnStakes(i, t)' : o \in Stakes(t)
    BY <1>1, <1>3, <2>4 DEF OwnStakes, Stakes
  <2>8. QED
    BY <1>2, <2>2, <2>3, <2>5, <2>6, <2>7, RequestKept
<1>7. QED
  BY <1>4, <1>5, <1>6

LEMMA ServeKept ==
  ASSUME IInv, NEW i \in Ops, Serve(i)
  PROVE  IInv'
<1>1. CASE Finish(i)
  <2>1. Stored
    BY <1>1, StoredQuietly DEF Finish
  <2>2. QED
    BY <1>1, <2>1, IdleKept DEF Finish
<1>2. QED
  BY <1>1, AskKept, ValidateKept, AnswerKept, HandOver DEF Serve

-----------------------------------------------------------------------------
(* Restarts, crashes, time and the operator.                               *)

LEMMA OpenKept ==
  ASSUME IInv, Open
  PROVE  IInv'
<1>0. TypeOK /\ OpInv /\ StakesHeld
  BY DEF IInv
<1>1. UNCHANGED <<diskVars, now, opVars, trusted>> /\ store' = "open"
  BY DEF Open
<1>2. TypeOK'
  BY <1>0, <1>1 DEF Open, TypeOK, diskVars, opVars
<1>3. CountExact'
  <2>1. Recorded' = Recorded /\ sequence' = sequence
    BY <1>1 DEF Recorded, diskVars
  <2>2. sequence = Cardinality(Recorded) /\ Cardinality(Recorded) <= limit'
    BY DEF Open
  <2>3. QED
    BY <2>1, <2>2 DEF CountExact
<1>4. OpInv'
  BY <1>0, <1>1 DEF OpInv, OpHolds, Sought, opVars
<1>5. StakesHeld'
  BY <1>0, <1>1 DEF StakesHeld, Stakes, Sought, opVars, diskVars
<1>6. QED
  BY <1>2, <1>3, <1>4, <1>5 DEF IInv

LEMMA CrashKept ==
  ASSUME IInv, Crash
  PROVE  IInv'
<1>0. TypeOK /\ CountExact /\ StakesHeld
  BY DEF IInv
<1>1. /\ UNCHANGED <<diskVars, limit, now, trusted>> /\ store' = "down"
      /\ \A i \in Ops : /\ phase'[i] = "idle" /\ need'[i] = None /\ claims'[i] = FALSE
                        /\ answer'[i] = {} /\ asks'[i] = {}
  BY DEF Crash
<1>2. TypeOK'
  BY <1>0 DEF Crash, TypeOK, diskVars
<1>3. CountExact'
  BY <1>0, <1>1 DEF CountExact, Recorded, diskVars
<1>4. OpInv'
  BY <1>1 DEF OpInv, OpHolds, Acting
<1>5. StakesHeld'
  <2>1. \A t \in Tokens : Stakes(t)' = trusted[t]
    BY <1>1 DEF Stakes
  <2>2. \A t \in Tokens : trusted[t] \subseteq Stakes(t)
    BY DEF Stakes
  <2>3. proof' = proof
    BY <1>1 DEF diskVars
  <2>4. QED
    BY <1>0, <2>1, <2>2, <2>3 DEF StakesHeld
<1>6. QED
  BY <1>2, <1>3, <1>4, <1>5 DEF IInv

LEMMA TickKept ==
  ASSUME IInv, Tick
  PROVE  IInv'
<1>0. TypeOK /\ CountExact /\ OpInv /\ StakesHeld
  BY DEF IInv
<1>1. UNCHANGED <<diskVars, store, limit, opVars, trusted>> /\ now' = now + 1 /\ now < MaxTime
  BY DEF Tick
<1>2. TypeOK'
  <2>1. now' \in 0 .. MaxTime /\ 0 .. now \subseteq 0 .. now'
    BY <1>0, <1>1, LimitAssumption DEF TypeOK
  <2>2. QED
    BY <1>0, <1>1, <2>1 DEF TypeOK, diskVars, opVars
<1>3. CountExact'
  BY <1>0, <1>1 DEF CountExact, Recorded, diskVars
<1>4. OpInv'
  BY <1>0, <1>1 DEF OpInv, OpHolds, Sought, opVars
<1>5. StakesHeld'
  BY <1>0, <1>1, SMTT(60) DEF StakesHeld, Stakes, Sought, opVars, diskVars
<1>6. QED
  BY <1>2, <1>3, <1>4, <1>5 DEF IInv

LEMMA PruneKept ==
  ASSUME IInv, Prune
  PROVE  IInv'
<1>0. TypeOK /\ CountExact /\ OpInv /\ StakesHeld
  BY DEF IInv
<1>1. PICK cutoff \in 1 .. now :
        /\ proof' = [t \in Tokens |-> IF t \in Retired(cutoff) THEN Unknown ELSE proof[t]]
        /\ issued' = [t \in Tokens |-> IF t \in Retired(cutoff) THEN 0 ELSE issued[t]]
        /\ sequence' = sequence - Cardinality(Retired(cutoff))
        /\ trusted' = [t \in Tokens |-> IF t \in Retired(cutoff) THEN {} ELSE trusted[t]]
  BY DEF Prune
<1>2. store = "down" /\ UNCHANGED <<storeVars, opVars>>
  BY DEF Prune
<1>3. /\ Recorded' = Recorded \ Retired(cutoff)
      /\ Retired(cutoff) \subseteq Recorded
  BY <1>0, <1>1 DEF Recorded, Retired, TypeOK
<1>4. /\ IsFiniteSet(Recorded) /\ IsFiniteSet(Retired(cutoff)) /\ IsFiniteSet(Recorded')
      /\ Cardinality(Recorded) \in Nat
      /\ Cardinality(Retired(cutoff)) \in Nat /\ Cardinality(Recorded') \in Nat
  <2>1. IsFiniteSet(Recorded)
    BY TokenAssumption, FS_Subset DEF Recorded
  <2>2. IsFiniteSet(Retired(cutoff)) /\ IsFiniteSet(Recorded')
    BY <1>3, <2>1, FS_Subset
  <2>3. QED
    BY <2>1, <2>2, FS_CardinalityType
<1>5. Cardinality(Recorded') = Cardinality(Recorded) - Cardinality(Retired(cutoff))
  <2>1. Cardinality(Recorded' \cup Retired(cutoff)) =
          Cardinality(Recorded') + Cardinality(Retired(cutoff))
            - Cardinality(Recorded' \cap Retired(cutoff))
    BY <1>4, FS_Union
  <2>2. Recorded' \cup Retired(cutoff) = Recorded /\ Recorded' \cap Retired(cutoff) = {}
    BY <1>3
  <2>3. Cardinality(Recorded' \cap Retired(cutoff)) = 0
    BY <2>2, FS_EmptySet
  <2>4. Cardinality(Recorded' \cup Retired(cutoff)) = Cardinality(Recorded)
    BY <2>2, Zenon
  <2>5. QED
    BY <1>4, <2>1, <2>3, <2>4
<1>6. sequence' = Cardinality(Recorded')
  BY <1>0, <1>1, <1>5 DEF CountExact
<1>7. TypeOK'
  <2>1. sequence' \in Nat
    BY <1>4, <1>6
  <2>2. /\ proof' \in [Tokens -> Owners \cup {Unknown, Conflict}]
        /\ trusted' \in [Tokens -> SUBSET Owners]
    BY <1>0, <1>1 DEF TypeOK
  <2>3. now' = now
    BY <1>2 DEF storeVars
  <2>4. issued' \in [Tokens -> 0 .. now']
    BY <1>0, <1>1, <2>3 DEF TypeOK
  <2>5. QED
    BY <1>0, <1>2, <2>1, <2>2, <2>4 DEF TypeOK, storeVars, opVars
<1>8. CountExact'
  BY <1>2, <1>6 DEF CountExact, storeVars
<1>9. OpInv'
  BY <1>0, <1>2 DEF OpInv, OpHolds, Sought, opVars, storeVars
<1>10. StakesHeld'
  <2>1. \A i \in Ops : need'[i] = None /\ answer'[i] = {}
    BY <1>0, <1>2 DEF OpInv, OpHolds, opVars
  <2>2. \A t \in Tokens : Stakes(t)' = trusted'[t]
    BY <2>1 DEF Stakes
  <2>3. \A t \in Tokens : trusted[t] \subseteq Stakes(t)
    BY DEF Stakes
  <2>4. \A t \in Tokens : \/ trusted'[t] = {}
                          \/ trusted'[t] = trusted[t] /\ proof'[t] = proof[t]
    BY <1>1
  <2>5. QED
    BY <1>0, <2>2, <2>3, <2>4 DEF StakesHeld
<1>11. QED
  BY <1>7, <1>8, <1>9, <1>10 DEF IInv

-----------------------------------------------------------------------------
LEMMA InitKept == Init => IInv
<1> SUFFICES ASSUME Init PROVE IInv
  OBVIOUS
<1>1. TypeOK
  <2>1. sequence \in Nat /\ now \in 0 .. MaxTime
    BY LimitAssumption DEF Init
  <2>2. /\ issued \in [Tokens -> 0 .. now]
        /\ claims \in [Ops -> BOOLEAN]
    BY DEF Init
  <2>3. QED
    BY <2>1, <2>2 DEF Init, TypeOK
<1>2. CountExact
  <2>1. Recorded = {}
    BY DEF Init, Recorded
  <2>2. QED
    BY <2>1, FS_EmptySet DEF Init, CountExact
<1>3. OpInv
  BY DEF Init, OpInv, OpHolds, Acting
<1>4. StakesHeld
  <2>1. \A t \in Tokens : Stakes(t) = {}
    BY DEF Init, Stakes
  <2>2. QED
    BY <2>1 DEF StakesHeld
<1>5. QED
  BY <1>1, <1>2, <1>3, <1>4 DEF IInv

LEMMA StutterKept ==
  ASSUME IInv, UNCHANGED vars
  PROVE  IInv'
<1>1. UNCHANGED <<diskVars, storeVars, opVars, trusted>>
  BY DEF vars
<1>2. TypeOK'
  BY <1>1 DEF IInv, TypeOK, diskVars, storeVars, opVars
<1>3. CountExact'
  BY <1>1 DEF IInv, CountExact, Recorded, diskVars, storeVars
<1>4. OpInv'
  BY <1>1 DEF IInv, OpInv, OpHolds, Sought, opVars, storeVars
<1>5. StakesHeld'
  BY <1>1 DEF IInv, StakesHeld, Stakes, Sought, opVars, diskVars
<1>6. QED
  BY <1>2, <1>3, <1>4, <1>5 DEF IInv

(* The types, the count of the records, what each request knows, and the   *)
(* stakes in each token, hold in every reachable state.                    *)
THEOREM DurableInvariant == Spec => []IInv
<1>1. IInv /\ [Next]_vars => IInv'
  BY OpenKept, CrashKept, PruneKept, TickKept, ServeKept, StutterKept DEF Next
<1>2. QED
  BY <1>1, InitKept, PTL DEF Spec

(* Until it is retired, a token is shared with one owner only, across      *)
(* restarts, uncertain commits and concurrent claims.                      *)
THEOREM OneOwnerAlways == Spec => []OneOwner
<1>1. IInv => OneOwner
  <2>1. \A t \in Tokens : trusted[t] \subseteq Stakes(t)
    BY DEF Stakes
  <2>2. QED
    BY <2>1 DEF IInv, StakesHeld, OneOwner
<1>2. QED
  BY <1>1, DurableInvariant, PTL

(* A token that left the proxy has its proof, or a tombstone, on disk.     *)
THEOREM ProofAlwaysHeld == Spec => []ProofHeld
<1>1. IInv => ProofHeld
  <2>1. \A t \in Tokens : trusted[t] \subseteq Stakes(t)
    BY DEF Stakes
  <2>2. QED
    BY <2>1 DEF IInv, StakesHeld, ProofHeld
<1>2. QED
  BY <1>1, DurableInvariant, PTL

(* The stored count is the number of records, within the capacity.         *)
THEOREM CountAlwaysExact == Spec => []CountExact
<1>1. IInv => CountExact
  BY DEF IInv
<1>2. QED
  BY <1>1, DurableInvariant, PTL

-----------------------------------------------------------------------------
LEMMA OwnershipStep ==
  ASSUME IInv, Next
  PROVE  Ownership!Next \/ UNCHANGED proof
<1>0. TypeOK /\ OpInv
  BY DEF IInv
<1>1. CASE Open \/ Crash \/ Tick
  BY <1>1 DEF Open, Crash, Tick, diskVars
<1>2. CASE Prune
  <2>1. PICK cutoff \in 1 .. now :
          proof' = [t \in Tokens |-> IF t \in Retired(cutoff) THEN Unknown ELSE proof[t]]
    BY <1>2 DEF Prune
  <2>2. proof' \in [Tokens -> Owners \cup {Unknown, Conflict}]
    BY <1>0, <2>1 DEF TypeOK
  <2>3. Ownership!Forget
    BY <2>1 DEF Ownership!Forget, Ownership!Forgotten, Ownership!Same
  <2>4. QED
    BY <2>2, <2>3 DEF Ownership!Next, Ownership!Authorities
<1>3. ASSUME NEW i \in Ops, Validate(i)
      PROVE  Ownership!Next \/ UNCHANGED proof
  <2>1. PICK o \in Owners : Fails(i, o) \/ Proceeds(i, o)
    BY <1>3 DEF Validate
  <2>2. \/ UNCHANGED proof
        \/ \E t \in asks[i], result \in Owners \cup {Conflict, Refused} : Claim(t, o, result)
    BY <2>1 DEF Fails, Proceeds, diskVars
  <2>3. ASSUME NEW t \in asks[i], NEW result \in Owners \cup {Conflict, Refused},
               Claim(t, o, result)
        PROVE  Ownership!Next \/ UNCHANGED proof
    <3>1. t \in Tokens /\ {t} \in SUBSET Tokens
      BY <1>0 DEF TypeOK
    <3>2. DiskStep({t}, o)
      BY <1>0, <2>3, <3>1, ClaimShape
    <3>3. QED
      BY <1>0, <3>1, <3>2, DiskOwned
  <2>4. QED
    BY <2>2, <2>3
<1>4. ASSUME NEW i \in Ops, Answer(i)
      PROVE  Ownership!Next \/ UNCHANGED proof
  <2>1. PICK S \in SUBSET Tokens \ {{}}, result \in Owners \cup {Conflict, Refused} :
          BindAll(S, owner[i], result)
    BY <1>4 DEF Answer
  <2>2. owner[i] \in Owners /\ S \in SUBSET Tokens
    BY <1>0, <1>4 DEF Answer, OpInv, OpHolds, Acting
  <2>3. DiskStep(S, owner[i])
    BY <1>0, <2>1, <2>2, BindShape
  <2>4. QED
    BY <1>0, <2>2, <2>3, DiskOwned
<1>5. ASSUME NEW i \in Ops, Ask(i) \/ Dispatch(i) \/ Retry(i) \/ Expose(i) \/ Finish(i)
      PROVE  UNCHANGED proof
  BY <1>5 DEF Ask, Dispatch, Retry, Expose, Finish, diskVars
<1>6. QED
  BY <1>1, <1>2, <1>3, <1>4, <1>5 DEF Next, Serve

(* The durable store implements StateOwnership: no owner is replaced, no   *)
(* tombstone is lifted, and a batch that collides grants nothing.          *)
THEOREM OwnershipAlwaysKept == Spec => OwnershipKept
<1>1. Init => Ownership!Init
  BY DEF Init, Ownership!Init
<1>2. IInv /\ [Next]_vars => [Ownership!Next]_proof
  <2>1. ASSUME UNCHANGED vars
        PROVE  UNCHANGED proof
    BY <2>1 DEF vars, diskVars
  <2>2. QED
    BY <2>1, OwnershipStep
<1>3. QED
  BY <1>1, <1>2, DurableInvariant, PTL DEF Spec, OwnershipKept, Ownership!Spec

-----------------------------------------------------------------------------
(* ConversationTurn                                                        *)

Sounds == Conv!Kinds \cup Conv!Terminals \cup {"created"}
Marks == {"none", "attempt", "released"}

Roots == Seq(Threads) \cup {Conv!NoRoot}

Fields ==
  {"phase", "client", "source", "root", "bridged", "pending", "trace", "lost", "blocked",
   "failed", "saved", "unprotected", "uncertain", "hidden", "trouble", "handoff", "seen",
   "read", "got", "cut", "over", "kept", "told", "gone"}

IsTurn(T) ==
  /\ DOMAIN T = Fields
  /\ T.phase \in {"open", "closed", "unborn"} /\ T.root \in Roots
  /\ {T.bridged, T.pending, T.lost, T.blocked, T.failed, T.saved, T.unprotected,
      T.uncertain, T.hidden, T.trouble, T.handoff, T.cut, T.gone} \subseteq BOOLEAN
  /\ T.trace \in {"none", "safe", "sent", "unsafe", "stream"}
  /\ T.seen \in Seq(Sounds) /\ T.read \in Nat /\ T.got \in Nat /\ T.kept \in SUBSET Nat
  /\ T.over \in {"no", "end", "read"} /\ T.told \in {"no", "settled", "complete"}

Ended(T) == T.over # "no" \/ (T.seen # <<>> /\ T.seen[Len(T.seen)] \in Conv!Terminals)

\* Where the reader and the client are in the stream.
Placed(T) ==
  IF T.trace = "stream"
  THEN /\ T.got <= T.read /\ T.read <= Len(T.seen)
       /\ Len(T.seen) - 1 <= T.read /\ Len(T.seen) - 2 <= T.got
       /\ ~T.cut => T.read - 1 <= T.got
       /\ T.seen # <<>>
       /\ T.cut => T.bridged /\ T.seen[Len(T.seen)] \notin Conv!Terminals
  ELSE T.seen = <<>> /\ T.read = 0 /\ T.got = 0 /\ ~T.hidden /\ ~T.cut

\* A turn without an answer has told nothing; its marker stands.
Waiting(T, m) ==
  T.trace \in {"none", "safe", "sent"} =>
     /\ T.told = "no" /\ ~T.uncertain /\ ~T.lost /\ ~T.blocked /\ ~T.saved
     /\ T.pending => m = "attempt"
     /\ T.trace # "none" => T.pending

\* So does the marker of a turn whose outcome the store was not told.
Owing(T, m) ==
  /\ T.lost => T.trace = "unsafe" /\ T.blocked /\ m = "attempt"
  /\ T.trace = "stream" /\ T.told = "no" => m = "attempt"

\* What the store was told of covers what the client received.
Covered(T, m) ==
  /\ m = "released" /\ Conv!Received(T) \subseteq T.kept
  /\ T.got = T.read /\ (T.read = Len(T.seen) \/ T.over = "read")

Told(T, m) ==
  T.told # "no" =>
     /\ T.saved \/ ~T.pending \/ T.blocked
     /\ ~T.handoff /\ (Conv!Known(T) \/ T.blocked)
     /\ T.trace = "stream" => Ended(T)
     /\ T.told = "settled" /\ Conv!Executable(T) => Covered(T, m)

\* An end that is settled later can be saved once the client has all of it.
HandedOff(T) ==
  T.handoff => /\ T.trace = "stream"
               /\ T.over = "read" \/ (T.seen # <<>> /\ T.seen[Len(T.seen)] = "failed")
               /\ T.read = Len(T.seen)
                    \/ (T.read = Len(T.seen) - 1 /\ T.seen[Len(T.seen)] = "failed")
               /\ Conv!Executable(T) => ~Conv!Unsavable(T, TRUE)

\* An inert turn keeps its marker only while its end is to be settled.
Freed(T, m) ==
  /\ ~T.trouble /\ ~Conv!Executable(T) /\ (~T.pending \/ T.saved) => m = "none"
  /\ (T.blocked \/ T.uncertain) /\ T.pending /\ ~T.saved
       => T.trouble \/ T.lost \/ Conv!Executable(T)

Sound(T, m) ==
  Placed(T) /\ Waiting(T, m) /\ Owing(T, m) /\ Told(T, m) /\ HandedOff(T) /\ Freed(T, m)

-----------------------------------------------------------------------------

LEMMA SameItems ==
  ASSUME NEW T, IsTurn(T), NEW X, IsTurn(X),
         X.seen = T.seen, X.hidden = T.hidden
  PROVE  /\ Conv!Executable(X) <=> Conv!Executable(T)
         /\ \A e \in BOOLEAN : /\ Conv!Delivered(X, e) = Conv!Delivered(T, e)
                               /\ Conv!Unsavable(X, e) <=> Conv!Unsavable(T, e)
         /\ X.got = T.got => Conv!Received(X) = Conv!Received(T)
  BY DEF Conv!Executable, Conv!Delivered, Conv!Unsavable, Conv!Received, Conv!Items,
     Conv!Observed, Conv!Unstaged, Conv!OpenItems

\* X is T with one more event.
Extends(X, T, k) == X.seen = Append(T.seen, k) /\ X.hidden = T.hidden

\* ... a terminal one: it carries the same items.
TerminatedAs(X, T, k) ==
  /\ Conv!Executable(X) <=> Conv!Executable(T)
  /\ Conv!Delivered(X, TRUE) = Conv!Delivered(T, TRUE)
  /\ Conv!Unsavable(X, TRUE) <=> Conv!Unsavable(T, TRUE)
  /\ Len(X.seen) = Len(T.seen) + 1 /\ X.seen[Len(X.seen)] = k
  /\ X.seen # <<>>

LEMMA AppendedTerminal ==
  ASSUME NEW T, IsTurn(T), NEW X, IsTurn(X), NEW k \in Conv!Terminals, Extends(X, T, k)
  PROVE  TerminatedAs(X, T, k)
<1>1. /\ Len(X.seen) = Len(T.seen) + 1 /\ X.seen[Len(X.seen)] = k
      /\ \A i \in 1..Len(T.seen) : X.seen[i] = T.seen[i]
      /\ Len(T.seen) \in Nat /\ X.seen # <<>>
  BY DEF IsTurn, Extends
<1>2. k \notin Conv!Kinds
  BY DEF Conv!Kinds, Conv!Terminals
<1>3. \A i \in 1..Len(X.seen) : i \in 1..Len(T.seen) \/ X.seen[i] = k
  BY <1>1
<1>4. Conv!Executable(X) <=> Conv!Executable(T)
  BY <1>1, <1>2, <1>3 DEF Conv!Executable, Conv!Kinds, Extends
<1>5. Conv!Items(X) = Conv!Items(T)
  BY <1>1, <1>2, <1>3 DEF Conv!Items, Conv!Kinds
<1>6. Conv!Unstaged(X) <=> Conv!Unstaged(T)
  BY <1>1, <1>2, <1>3 DEF Conv!Unstaged, Conv!Kinds, Extends
<1>7. Conv!OpenItems(X) <=> Conv!OpenItems(T)
  <2>1. k \notin {"call", "args"}
    BY <1>2 DEF Conv!Kinds
  <2>2. \A i \in 1..Len(T.seen) : X.seen[i] = T.seen[i] /\ i \in 1..Len(X.seen)
    BY <1>1
  <2>3. ASSUME NEW i \in 1..Len(T.seen)
        PROVE  (\A j \in (i + 1)..Len(X.seen) : X.seen[j] # "call")
                 <=> \A j \in (i + 1)..Len(T.seen) : T.seen[j] # "call"
    <3>1. ASSUME \A j \in (i + 1)..Len(X.seen) : X.seen[j] # "call",
                 NEW j \in (i + 1)..Len(T.seen)
          PROVE  T.seen[j] # "call"
      BY <1>1, <2>2, <3>1, SMTT(60)
    <3>2. ASSUME \A j \in (i + 1)..Len(T.seen) : T.seen[j] # "call",
                 NEW j \in (i + 1)..Len(X.seen)
          PROVE  X.seen[j] # "call"
      BY <1>1, <1>3, <2>1, <2>2, <3>2
    <3> QED BY <3>1, <3>2
  <2>4. \A i \in 1..Len(X.seen) : X.seen[i] = "args" => i \in 1..Len(T.seen)
    BY <1>3, <2>1
  <2> QED BY <2>2, <2>3, <2>4 DEF Conv!OpenItems
<1> QED BY <1>1, <1>4, <1>5, <1>6, <1>7 DEF Conv!Delivered, Conv!Unsavable, TerminatedAs

LEMMA AllReceived ==
  ASSUME NEW T, IsTurn(T), ~Conv!Unsavable(T, TRUE), T.got = T.read,
         T.read = Len(T.seen) \/ (T.read = Len(T.seen) - 1 /\ T.seen[Len(T.seen)] = "failed")
  PROVE  /\ Conv!Received(T) \subseteq Conv!Delivered(T, TRUE)
         /\ \A i \in Conv!Delivered(T, TRUE) : T.seen[i] = "call" => i <= T.got
<1>1. T.seen \in Seq(Sounds) /\ T.got \in Nat /\ Len(T.seen) \in Nat
  BY DEF IsTurn
<1>2. \A j \in 1..Len(T.seen) : T.seen[j] = "call" => j <= T.got
  BY <1>1
<1>3. ASSUME NEW i \in Conv!Received(T) PROVE i \in Conv!Delivered(T, TRUE)
  <2>1. i \in 1..Len(T.seen) /\ i \in 1..T.got
    BY <1>1, <1>3 DEF Conv!Received
  <2>2. T.seen[i] # "odd"
    BY <2>1 DEF Conv!Unsavable, Conv!Unstaged
  <2>3. T.seen[i] # "args"
    <3> SUFFICES ASSUME T.seen[i] = "args" PROVE FALSE
      OBVIOUS
    <3>1. \A j \in i..T.got : T.seen[j] # "call"
      BY <1>3 DEF Conv!Received
    <3>2. PICK j \in (i + 1)..Len(T.seen) : T.seen[j] = "call"
      BY <2>1 DEF Conv!Unsavable, Conv!OpenItems
    <3> QED BY <1>1, <1>2, <2>1, <3>1, <3>2
  <2> QED BY <1>3, <2>1, <2>2, <2>3 DEF Conv!Received, Conv!Delivered, Conv!Items
<1> QED BY <1>2, <1>3 DEF Conv!Delivered, Conv!Items

LEMMA EndedReceived ==
  ASSUME NEW T, IsTurn(T), ~Conv!Unsavable(T, FALSE),
         T.got <= Len(T.seen), Len(T.seen) - 2 <= T.got
  PROVE  Conv!Received(T) \subseteq Conv!Delivered(T, FALSE)
<1>1. T.seen \in Seq(Sounds) /\ T.got \in Nat /\ Len(T.seen) \in Nat
  BY DEF IsTurn
<1>0. Conv!Observed(T) \in Int /\ Conv!Observed(T) <= Len(T.seen)
  BY <1>1 DEF Conv!Observed
<1>2. \A j \in 1..Len(T.seen) : T.seen[j] = "call" => j <= Conv!Observed(T) - 2
  <2> SUFFICES ASSUME NEW j \in 1..Len(T.seen), T.seen[j] = "call", j > Conv!Observed(T) - 2
               PROVE  FALSE
    BY <1>0, <1>1
  <2>1. j \in Conv!Items(T)
    BY DEF Conv!Items
  <2> QED BY <2>1 DEF Conv!Unsavable
<1>3. ASSUME NEW i \in Conv!Received(T) PROVE i \in Conv!Delivered(T, FALSE)
  <2>1. i \in 1..Len(T.seen) /\ i \in 1..T.got
    BY <1>1, <1>3 DEF Conv!Received
  <2>2. T.seen[i] # "odd"
    BY <2>1 DEF Conv!Unsavable, Conv!Unstaged
  <2>3. T.seen[i] # "args"
    <3> SUFFICES ASSUME T.seen[i] = "args" PROVE FALSE
      OBVIOUS
    <3>1. \A j \in i..T.got : T.seen[j] # "call"
      BY <1>3 DEF Conv!Received
    <3>2. PICK j \in (i + 1)..Len(T.seen) : T.seen[j] = "call"
      BY <2>1 DEF Conv!Unsavable, Conv!OpenItems
    <3> QED BY <1>0, <1>1, <1>2, <2>1, <3>1, <3>2, SMTT(60)
  <2> QED BY <1>2, <1>3, <2>1, <2>2, <2>3 DEF Conv!Received, Conv!Delivered, Conv!Items
<1> QED BY <1>3

LEMMA InertReceived ==
  ASSUME NEW T, IsTurn(T), ~Conv!Executable(T), T.got <= Len(T.seen)
  PROVE  Conv!Received(T) = {} /\ \A i \in 1..Len(T.seen) : T.seen[i] # "call"
  BY DEF Conv!Executable, Conv!Received, IsTurn

\* The marker of turn T after SettleStore.
MarkAfter(T, ended, w, m) ==
  IF ~Conv!Needs(T, ended) THEN m
  ELSE IF Conv!Commits(w) /\ Conv!Executable(T) THEN "released"
  ELSE IF Conv!Commits(w) \/ (w = "full" /\ ~Conv!Executable(T)) THEN "none" ELSE m

\* What settling makes of a turn and its marker.
SettledTo(T, e, w, m, S, n) ==
  /\ IsTurn(S) /\ n \in Marks
  /\ \/ /\ S.told = "settled" /\ (S.failed \/ S.blocked) /\ (~S.pending \/ S.blocked)
        /\ Conv!Executable(T) => /\ n = "released" /\ S.kept = Conv!Delivered(T, e)
                                 /\ ~Conv!Unsavable(T, e)
     \/ /\ S.told = T.told /\ n = m /\ S.kept = T.kept
        /\ S.failed = T.failed /\ S.pending = T.pending
  /\ ~S.trouble => ~T.trouble /\ w = "ok"
  /\ ~S.trouble /\ ~Conv!Executable(T) => ~S.pending /\ S.failed
  /\ S.blocked \/ ~S.failed => T.blocked \/ S.trouble \/ Conv!Executable(T)
  /\ (T.blocked => S.blocked) /\ (S.pending => T.pending)
  /\ \A f \in Fields \ {"pending", "failed", "blocked", "trouble", "kept", "told"} :
       S[f] = T[f]
  /\ Freed(T, m) /\ ~S.trouble /\ ~Conv!Executable(T) => n = "none"

\* SettleAs's ok.
Succeeds(T, e, w) ==
  IF Conv!Executable(T) THEN ~Conv!Unsavable(T, e) /\ w = "ok" ELSE w \in {"ok", "full"}

LEMMA Settled ==
  ASSUME NEW T, IsTurn(T), NEW m \in Marks, NEW e \in BOOLEAN, NEW w \in Conv!Writes,
         ~Conv!Needs(T, e) => w = "ok",
         NEW S, S = Conv!SettleAs(T, e, w), NEW n, n = MarkAfter(T, e, w, m)
  PROVE  SettledTo(T, e, w, m, S, n)
<1>1. w \in {"ok", "full", "reused", "lost", "kept"}
  BY DEF Conv!Writes
<1>2. Conv!Delivered(T, e) \in SUBSET Nat
  BY DEF Conv!Delivered, Conv!Items, IsTurn
<1>3. IsTurn(S) /\ n \in Marks
  BY <1>2 DEF Conv!SettleAs, MarkAfter, IsTurn, Fields, Marks
<1>4. /\ S.pending <=> T.pending /\ ~Succeeds(T, e, w)
      /\ S.failed <=> T.failed \/ Succeeds(T, e, w)
  BY DEF Conv!SettleAs, Succeeds, IsTurn, Fields
<1>5. Conv!Executable(T) => (Conv!Needs(T, e) <=> ~Conv!Unsavable(T, e))
  BY DEF Conv!Needs
<1>6. ~Conv!Executable(T) => (Conv!Needs(T, e) <=> T.pending \/ Conv!Delivered(T, e) # {})
  BY DEF Conv!Needs
<1>7. ~Conv!Unsavable(T, e) => Conv!Delivered(T, e) # {}
  BY DEF Conv!Unsavable
<1>8. /\ S.blocked <=> T.blocked \/ (~Succeeds(T, e, w) /\ Conv!Needs(T, e))
      /\ S.trouble <=> T.trouble \/ w # "ok"
  BY DEF Conv!SettleAs, Succeeds, IsTurn, Fields
<1>9. /\ S.kept = IF Conv!Needs(T, e) /\ Conv!Commits(w) /\ Conv!Delivered(T, e) # {}
                  THEN Conv!Delivered(T, e) ELSE T.kept
      /\ S.told = IF Succeeds(T, e, w)
                     \/ (Conv!Needs(T, e) /\ Conv!Commits(w))
                  THEN "settled" ELSE T.told
  BY DEF Conv!SettleAs, Succeeds, IsTurn, Fields
<1>10. Conv!Commits(w) <=> w \in {"ok", "kept"}
  BY DEF Conv!Commits
<1>11. \/ /\ S.told = "settled" /\ (S.failed \/ S.blocked) /\ (~S.pending \/ S.blocked)
          /\ Conv!Executable(T) => /\ n = "released" /\ S.kept = Conv!Delivered(T, e)
                                   /\ ~Conv!Unsavable(T, e)
       \/ /\ S.told = T.told /\ n = m /\ S.kept = T.kept
          /\ S.failed = T.failed /\ S.pending = T.pending
  <2>1. CASE Conv!Executable(T)
    BY <2>1, <1>1, <1>3, <1>4, <1>5, <1>7, <1>8, <1>9, <1>10 DEF MarkAfter, Succeeds, IsTurn,
       Fields
  <2>2. CASE ~Conv!Executable(T)
    BY <2>2, <1>1, <1>3, <1>4, <1>6, <1>8, <1>9, <1>10 DEF MarkAfter, Succeeds, IsTurn, Fields
  <2> QED BY <2>1, <2>2
<1>12. Freed(T, m) /\ ~S.trouble /\ ~Conv!Executable(T) => n = "none"
  BY <1>6, <1>8, <1>10 DEF MarkAfter, Succeeds, Freed
<1>13. \A f \in Fields \ {"pending", "failed", "blocked", "trouble", "kept", "told"} :
         S[f] = T[f]
  BY DEF Conv!SettleAs, IsTurn
<1> QED BY <1>1, <1>3, <1>4, <1>5, <1>8, <1>11, <1>12, <1>13 DEF SettledTo, Succeeds

\* What settling leaves alone.
SameBut(S, T) ==
  /\ S.trace = T.trace /\ S.seen = T.seen /\ S.read = T.read /\ S.got = T.got
  /\ S.hidden = T.hidden /\ S.cut = T.cut /\ S.lost = T.lost
  /\ S.saved = T.saved /\ S.unprotected = T.unprotected /\ S.bridged = T.bridged
  /\ S.handoff = T.handoff /\ S.uncertain = T.uncertain

LEMMA SettledSame ==
  ASSUME NEW T, NEW w, NEW m, NEW S, NEW n, SettledTo(T, TRUE, w, m, S, n)
  PROVE  SameBut(S, T)
<1>1. \A f \in Fields \ {"pending", "failed", "blocked", "trouble", "kept", "told"} :
         S[f] = T[f]
  BY DEF SettledTo
<1> QED BY <1>1 DEF SameBut, Fields

\* The upstream's writer may hand over another event.
Writing(T) ==
  /\ T.trace = "stream" /\ T.over = "no" /\ T.read = Len(T.seen) /\ ~T.cut
  /\ \A i \in 1..Len(T.seen) : T.seen[i] \notin Conv!Terminals

Persisted(T, p) == [T EXCEPT !.pending = p, !.trouble = ~p]

LEMMA PersistSound ==
  ASSUME NEW T, IsTurn(T), NEW m \in Marks, Sound(T, m),
         T.trace = "none", ~T.pending, ~T.trouble, NEW w \in Conv!Writes,
         NEW p \in BOOLEAN, p <=> w = "ok",
         NEW X, X = Persisted(T, p),
         NEW n, n = IF Conv!Commits(w) THEN "attempt" ELSE m
  PROVE  IsTurn(X) /\ Sound(X, n)
<1> USE DEF Persisted
<1>1. IsTurn(X) /\ X.seen = T.seen /\ X.hidden = T.hidden
  BY DEF IsTurn, Fields
<1>2. /\ Conv!Executable(X) <=> Conv!Executable(T)
      /\ Conv!Unsavable(X, TRUE) <=> Conv!Unsavable(T, TRUE)
      /\ X.got = T.got => Conv!Received(X) = Conv!Received(T)
  BY <1>1, SameItems, ZenonT(60)
<1>3. Placed(X)
  BY <1>1 DEF Sound, Placed, Waiting, Conv!Commits, IsTurn, Fields
<1>4. Waiting(X, n)
  BY <1>1 DEF Sound, Waiting, Conv!Commits, IsTurn, Fields
<1>5. Owing(X, n)
  BY <1>1 DEF Sound, Owing, Waiting, Conv!Commits, IsTurn, Fields
<1>6. Told(X, n)
  BY <1>1, <1>2 DEF Sound, Told, Covered, Ended, Conv!Known, Waiting, Conv!Commits, IsTurn,
     Fields
<1>7. HandedOff(X)
  BY <1>1, <1>2 DEF Sound, HandedOff, Ended, Waiting, Conv!Commits, IsTurn, Fields
<1>8. Freed(X, n)
  <2>1. /\ X.pending = p /\ (X.trouble <=> ~p) /\ X.saved = T.saved
        /\ X.blocked = T.blocked /\ X.uncertain = T.uncertain
    BY DEF IsTurn, Fields
  <2> QED BY <2>1 DEF Sound, Waiting, Freed
<1> QED BY <1>1, <1>3, <1>4, <1>5, <1>6, <1>7, <1>8 DEF Sound

LEMMA DispatchSound ==
  ASSUME NEW T, IsTurn(T), NEW m \in Marks, Sound(T, m),
         T.pending, T.trace \in {"none", "safe"},
         NEW X, X = [T EXCEPT !.trace = "sent"]
  PROVE  IsTurn(X) /\ Sound(X, m)
<1>1. IsTurn(X) /\ X.seen = T.seen /\ X.hidden = T.hidden
  BY ZenonT(60) DEF IsTurn, Fields
<1>2. /\ Conv!Executable(X) <=> Conv!Executable(T)
      /\ Conv!Unsavable(X, TRUE) <=> Conv!Unsavable(T, TRUE)
      /\ X.got = T.got => Conv!Received(X) = Conv!Received(T)
  BY <1>1, SameItems
<1>3. Placed(X)
  BY <1>1 DEF Sound, Placed, Waiting, IsTurn, Fields
<1>4. Waiting(X, m)
  BY <1>1 DEF Sound, Waiting, IsTurn, Fields
<1>5. Owing(X, m)
  BY <1>1 DEF Sound, Owing, Waiting, IsTurn, Fields
<1>6. Told(X, m)
  BY <1>1, <1>2 DEF Sound, Told, Covered, Ended, Conv!Known, Waiting, IsTurn, Fields
<1>7. HandedOff(X)
  BY <1>1, <1>2 DEF Sound, HandedOff, Ended, Waiting, IsTurn, Fields
<1>8. Freed(X, m)
  BY <1>1, <1>2 DEF Sound, Freed, Waiting, IsTurn, Fields
<1> QED BY <1>1, <1>3, <1>4, <1>5, <1>6, <1>7, <1>8 DEF Sound

LEMMA SafeSound ==
  ASSUME NEW T, IsTurn(T), NEW m \in Marks, Sound(T, m),
         T.trace = "sent",
         NEW X, X = [T EXCEPT !.trace = "safe"]
  PROVE  IsTurn(X) /\ Sound(X, m)
<1>1. IsTurn(X) /\ X.seen = T.seen /\ X.hidden = T.hidden
  BY DEF IsTurn, Fields
<1>2. /\ Conv!Executable(X) <=> Conv!Executable(T)
      /\ Conv!Unsavable(X, TRUE) <=> Conv!Unsavable(T, TRUE)
      /\ X.got = T.got => Conv!Received(X) = Conv!Received(T)
  BY <1>1, SameItems
<1>3. Placed(X)
  BY <1>1 DEF Sound, Placed, Waiting, IsTurn, Fields
<1>4. Waiting(X, m)
  BY <1>1 DEF Sound, Waiting, IsTurn, Fields
<1>5. Owing(X, m)
  BY <1>1 DEF Sound, Owing, Waiting, IsTurn, Fields
<1>6. Told(X, m)
  BY <1>1, <1>2 DEF Sound, Told, Covered, Ended, Conv!Known, Waiting, IsTurn, Fields
<1>7. HandedOff(X)
  BY <1>1, <1>2 DEF Sound, HandedOff, Ended, Waiting, IsTurn, Fields
<1>8. Freed(X, m)
  BY <1>1, <1>2 DEF Sound, Freed, Waiting, IsTurn, Fields
<1> QED BY <1>1, <1>3, <1>4, <1>5, <1>6, <1>7, <1>8 DEF Sound

LEMMA AmbiguousSound ==
  ASSUME NEW T, IsTurn(T), NEW m \in Marks, Sound(T, m),
         T.trace = "sent", NEW c \in BOOLEAN,
         NEW X, X = [T EXCEPT !.trace = "unsafe", !.blocked = ~c, !.lost = ~c]
  PROVE  IsTurn(X) /\ Sound(X, m)
<1>1. IsTurn(X) /\ X.seen = T.seen /\ X.hidden = T.hidden
  BY DEF IsTurn, Fields
<1>2. /\ Conv!Executable(X) <=> Conv!Executable(T)
      /\ Conv!Unsavable(X, TRUE) <=> Conv!Unsavable(T, TRUE)
      /\ X.got = T.got => Conv!Received(X) = Conv!Received(T)
  BY <1>1, SameItems
<1>3. Placed(X)
  BY <1>1 DEF Sound, Placed, Waiting, IsTurn, Fields
<1>4. Waiting(X, m)
  BY <1>1 DEF Sound, Waiting, IsTurn, Fields
<1>5. Owing(X, m)
  BY <1>1 DEF Sound, Owing, Waiting, IsTurn, Fields
<1>6. Told(X, m)
  BY <1>1, <1>2 DEF Sound, Told, Covered, Ended, Conv!Known, Waiting, IsTurn, Fields
<1>7. HandedOff(X)
  BY <1>1, <1>2 DEF Sound, HandedOff, Ended, Waiting, IsTurn, Fields
<1>8. Freed(X, m)
  BY <1>1, <1>2 DEF Sound, Freed, Waiting, IsTurn, Fields
<1> QED BY <1>1, <1>3, <1>4, <1>5, <1>6, <1>7, <1>8 DEF Sound

LEMMA ReadSound ==
  ASSUME NEW T, IsTurn(T), NEW m \in Marks, Sound(T, m),
         T.trace = "stream", Conv!Consumed(T), T.read < Len(T.seen), T.over # "read",
         NEW X, X = [T EXCEPT !.read = @ + 1]
  PROVE  IsTurn(X) /\ Sound(X, m)
<1>1. IsTurn(X) /\ X.seen = T.seen /\ X.hidden = T.hidden
  BY DEF IsTurn, Fields
<1>2. /\ Conv!Executable(X) <=> Conv!Executable(T)
      /\ Conv!Unsavable(X, TRUE) <=> Conv!Unsavable(T, TRUE)
      /\ X.got = T.got => Conv!Received(X) = Conv!Received(T)
  BY <1>1, SameItems
<1>3. Placed(X)
  BY <1>1 DEF Sound, Placed, Conv!Consumed, IsTurn, Fields
<1>4. Waiting(X, m)
  BY <1>1 DEF Sound, Waiting, Conv!Consumed, IsTurn, Fields
<1>5. Owing(X, m)
  BY <1>1 DEF Sound, Owing, Conv!Consumed, IsTurn, Fields
<1>6. Told(X, m)
  BY <1>1, <1>2 DEF Sound, Told, Covered, Ended, Conv!Known, Conv!Consumed, IsTurn, Fields
<1>7. HandedOff(X)
  <2>1. /\ X.read = T.read + 1 /\ X.handoff = T.handoff
        /\ X.over = T.over /\ X.trace = T.trace
    BY DEF IsTurn, Fields
  <2>2. T.read \in Nat /\ Len(T.seen) \in Nat
    BY DEF IsTurn
  <2> SUFFICES ASSUME T.handoff
               PROVE  /\ X.trace = "stream" /\ X.read = Len(X.seen)
                      /\ X.over = "read" \/ (X.seen # <<>> /\ X.seen[Len(X.seen)] = "failed")
                      /\ Conv!Executable(X) => ~Conv!Unsavable(X, TRUE)
    BY <2>1 DEF HandedOff
  <2>3. /\ T.trace = "stream"
        /\ T.over = "read" \/ (T.seen # <<>> /\ T.seen[Len(T.seen)] = "failed")
        /\ Conv!Executable(T) => ~Conv!Unsavable(T, TRUE)
        /\ T.read = Len(T.seen) \/ T.read = Len(T.seen) - 1
    BY DEF Sound, HandedOff
  <2>4. X.read = Len(X.seen)
    BY <1>1, <2>1, <2>2, <2>3
  <2>5. X.over = "read" \/ (X.seen # <<>> /\ X.seen[Len(X.seen)] = "failed")
    BY <1>1, <2>1, <2>3
  <2> QED BY <1>2, <2>1, <2>3, <2>4, <2>5
<1>8. Freed(X, m)
  BY <1>1, <1>2 DEF Sound, Freed, Conv!Consumed, IsTurn, Fields
<1> QED BY <1>1, <1>3, <1>4, <1>5, <1>6, <1>7, <1>8 DEF Sound

LEMMA DeliverSound ==
  ASSUME NEW T, IsTurn(T), NEW m \in Marks, Sound(T, m),
         T.trace = "stream", T.got < T.read,
         NEW X, X = [T EXCEPT !.got = @ + 1]
  PROVE  IsTurn(X) /\ Sound(X, m)
<1>1. IsTurn(X) /\ X.seen = T.seen /\ X.hidden = T.hidden
  BY DEF IsTurn, Fields
<1>2. /\ Conv!Executable(X) <=> Conv!Executable(T)
      /\ Conv!Unsavable(X, TRUE) <=> Conv!Unsavable(T, TRUE)
      /\ X.got = T.got => Conv!Received(X) = Conv!Received(T)
  BY <1>1, SameItems
<1>3. Placed(X)
  BY <1>1 DEF Sound, Placed, IsTurn, Fields
<1>4. Waiting(X, m)
  BY <1>1 DEF Sound, Waiting, IsTurn, Fields
<1>5. Owing(X, m)
  BY <1>1 DEF Sound, Owing, IsTurn, Fields
<1>6. Told(X, m)
  BY <1>1, <1>2 DEF Sound, Told, Covered, Ended, Conv!Known, IsTurn, Fields
<1>7. HandedOff(X)
  <2>1. /\ X.handoff = T.handoff /\ X.trace = T.trace /\ X.read = T.read
        /\ X.over = T.over
    BY DEF IsTurn, Fields
  <2> QED BY <1>1, <1>2, <2>1 DEF Sound, HandedOff
<1>8. Freed(X, m)
  BY <1>1, <1>2 DEF Sound, Freed, IsTurn, Fields
<1> QED BY <1>1, <1>3, <1>4, <1>5, <1>6, <1>7, <1>8 DEF Sound

LEMMA ReadEndSound ==
  ASSUME NEW T, IsTurn(T), NEW m \in Marks, Sound(T, m),
         T.trace = "stream", Conv!AtEnd(T), NEW c \in BOOLEAN,
         Conv!Known(T) \/ c \/ T.blocked,
         NEW X, X = [T EXCEPT !.over = "read", !.uncertain = @ \/ (~Conv!Known(T) /\ ~c)]
  PROVE  IsTurn(X) /\ Sound(X, m)
<1>1. IsTurn(X) /\ X.seen = T.seen /\ X.hidden = T.hidden
  BY DEF IsTurn, Fields
<1>2. /\ Conv!Executable(X) <=> Conv!Executable(T)
      /\ Conv!Unsavable(X, TRUE) <=> Conv!Unsavable(T, TRUE)
      /\ X.got = T.got => Conv!Received(X) = Conv!Received(T)
  BY <1>1, SameItems
<1>3. Placed(X)
  BY <1>1 DEF Sound, Placed, Conv!AtEnd, IsTurn, Fields
<1>4. Waiting(X, m)
  BY <1>1 DEF Sound, Waiting, Conv!AtEnd, IsTurn, Fields
<1>5. Owing(X, m)
  BY <1>1 DEF Sound, Owing, Conv!AtEnd, IsTurn, Fields
<1>6. Told(X, m)
  BY <1>1, <1>2 DEF Sound, Told, Covered, Ended, Conv!Known, Conv!AtEnd, IsTurn, Fields
<1>7. HandedOff(X)
  <2>1. /\ X.handoff = T.handoff /\ X.trace = T.trace /\ X.read = T.read
        /\ X.over = "read"
    BY DEF IsTurn, Fields
  <2> QED BY <1>1, <1>2, <2>1 DEF Sound, HandedOff
<1>8. Freed(X, m)
  BY <1>1, <1>2 DEF Sound, Freed, Conv!AtEnd, IsTurn, Fields
<1> QED BY <1>1, <1>3, <1>4, <1>5, <1>6, <1>7, <1>8 DEF Sound

LEMMA BridgedEndSound ==
  ASSUME NEW T, IsTurn(T), NEW m \in Marks, Sound(T, m),
         T.trace = "stream", Conv!AtEnd(T), ~Conv!Known(T), ~T.blocked,
         NEW bad \in BOOLEAN,
         bad <=> ~T.handoff /\ Conv!Executable(T) /\ Conv!Unsavable(T, TRUE),
         NEW X, X = [T EXCEPT !.over = "read", !.uncertain = @ \/ bad,
                                 !.handoff = @ \/ ~bad]
  PROVE  IsTurn(X) /\ Sound(X, m)
<1>1. IsTurn(X) /\ X.seen = T.seen /\ X.hidden = T.hidden
  BY DEF IsTurn, Fields
<1>2. /\ Conv!Executable(X) <=> Conv!Executable(T)
      /\ Conv!Unsavable(X, TRUE) <=> Conv!Unsavable(T, TRUE)
      /\ X.got = T.got => Conv!Received(X) = Conv!Received(T)
  BY <1>1, SameItems
<1>3. Placed(X)
  BY <1>1 DEF Sound, Placed, Conv!AtEnd, IsTurn, Fields
<1>4. Waiting(X, m)
  BY <1>1 DEF Sound, Waiting, Conv!AtEnd, IsTurn, Fields
<1>5. Owing(X, m)
  BY <1>1 DEF Sound, Owing, Conv!AtEnd, IsTurn, Fields
<1>6. Told(X, m)
  BY <1>1, <1>2 DEF Sound, Told, Covered, Ended, Conv!Known, Conv!AtEnd, IsTurn, Fields
<1>0. /\ X.handoff <=> T.handoff \/ ~bad
      /\ X.uncertain <=> T.uncertain \/ bad
      /\ X.over = "read" /\ X.read = T.read /\ X.trace = T.trace
      /\ X.trouble = T.trouble /\ X.pending = T.pending /\ X.saved = T.saved
      /\ X.blocked = T.blocked /\ X.lost = T.lost
  BY DEF IsTurn, Fields
<1>7. HandedOff(X)
  <2>1. T.handoff => ~(Conv!Executable(T) /\ Conv!Unsavable(T, TRUE))
    BY DEF Sound, HandedOff
  <2>2. ~bad => (Conv!Executable(X) => ~Conv!Unsavable(X, TRUE))
    BY <1>2, <2>1
  <2>3. T.handoff => (Conv!Executable(X) => ~Conv!Unsavable(X, TRUE))
    BY <1>2, <2>1
  <2>4. X.read = Len(X.seen)
    BY <1>0, <1>1 DEF Conv!AtEnd
  <2> QED BY <1>0, <2>2, <2>3, <2>4 DEF HandedOff, Ended
<1>8. Freed(X, m)
  <2>1. bad => Conv!Executable(X)
    BY <1>2
  <2> QED BY <1>0, <1>2, <2>1 DEF Sound, Freed
<1> QED BY <1>1, <1>3, <1>4, <1>5, <1>6, <1>7, <1>8 DEF Sound

LEMMA GoneSound ==
  ASSUME NEW T, IsTurn(T), NEW m \in Marks, Sound(T, m),
         T.trace \in {"sent", "stream"},
         NEW X, X = [T EXCEPT !.gone = TRUE]
  PROVE  IsTurn(X) /\ Sound(X, m)
<1>1. IsTurn(X) /\ X.seen = T.seen /\ X.hidden = T.hidden
  BY DEF IsTurn, Fields
<1>2. /\ Conv!Executable(X) <=> Conv!Executable(T)
      /\ Conv!Unsavable(X, TRUE) <=> Conv!Unsavable(T, TRUE)
      /\ X.got = T.got => Conv!Received(X) = Conv!Received(T)
  BY <1>1, SameItems
<1>0. /\ X.told = T.told /\ X.saved = T.saved /\ X.pending = T.pending
      /\ X.blocked = T.blocked /\ X.handoff = T.handoff /\ X.trace = T.trace
      /\ X.failed = T.failed /\ X.unprotected = T.unprotected /\ X.lost = T.lost /\ X.over = T.over
      /\ X.read = T.read /\ X.got = T.got /\ X.kept = T.kept
  BY DEF IsTurn, Fields
<1>3. Placed(X)
  BY <1>1 DEF Sound, Placed, IsTurn, Fields
<1>4. Waiting(X, m)
  BY <1>1 DEF Sound, Waiting, IsTurn, Fields
<1>5. Owing(X, m)
  BY <1>1 DEF Sound, Owing, IsTurn, Fields
<1>6. Told(X, m)
  BY <1>0, <1>1, <1>2, ZenonT(60) DEF Sound, Told, Covered, Ended, Conv!Known
<1>7. HandedOff(X)
  BY <1>0, <1>1, <1>2, ZenonT(60) DEF Sound, HandedOff
<1>8. Freed(X, m)
  BY <1>1, <1>2 DEF Sound, Freed, IsTurn, Fields
<1> QED BY <1>1, <1>3, <1>4, <1>5, <1>6, <1>7, <1>8 DEF Sound

LEMMA CommitSound ==
  ASSUME NEW T, IsTurn(T), NEW m \in Marks, Sound(T, m), T.trace = "sent", NEW c \in BOOLEAN,
         NEW X, X = [T EXCEPT !.trace = "stream", !.bridged = c,
                              !.seen = <<"created">>, !.read = 1, !.got = 1]
  PROVE  IsTurn(X) /\ Sound(X, m)
<1>1. IsTurn(X) /\ X.seen = <<"created">>
  BY DEF IsTurn, Fields, Sounds
<1>2. "created" \notin Conv!Terminals
  BY DEF Conv!Terminals
<1>3. Placed(X)
  BY <1>1, <1>2 DEF Placed, Sound, Waiting, IsTurn, Fields
<1>4. Waiting(X, m) /\ Owing(X, m)
  BY DEF Owing, Sound, Waiting, IsTurn, Fields
<1>5. Told(X, m)
  BY DEF Told, Sound, Waiting, IsTurn, Fields
<1>6. HandedOff(X)
  BY DEF HandedOff, Sound, IsTurn, Fields
<1>7. Freed(X, m)
  BY DEF Freed, Sound, Waiting, IsTurn, Fields
<1> QED BY <1>1, <1>3, <1>4, <1>5, <1>6, <1>7 DEF Sound

LEMMA WritingTold ==
  ASSUME NEW T, IsTurn(T), NEW m \in Marks, Sound(T, m), Writing(T)
  PROVE  /\ T.told = "no" /\ ~T.handoff /\ ~T.lost /\ m = "attempt"
         /\ T.got <= T.read /\ T.read - 1 <= T.got
<1>1. ~Ended(T)
  BY DEF Ended, Writing, IsTurn
<1>2. T.handoff => Ended(T)
  BY DEF Sound, HandedOff, Ended, Conv!Terminals
<1> QED BY <1>1, <1>2 DEF Sound, Told, Owing, Placed, Writing, IsTurn

LEMMA ObserveSound ==
  ASSUME NEW T, IsTurn(T), NEW m \in Marks, Sound(T, m), Writing(T),
         NEW kind \in Conv!Kinds, NEW c \in BOOLEAN, c => T.bridged,
         NEW X, X = [T EXCEPT !.seen = Append(@, kind), !.cut = c]
  PROVE  IsTurn(X) /\ Sound(X, m)
<1>0. /\ T.told = "no" /\ ~T.handoff /\ ~T.lost /\ m = "attempt"
      /\ T.got <= T.read /\ T.read - 1 <= T.got
  BY WritingTold
<1>1. IsTurn(X) /\ X.seen = Append(T.seen, kind) /\ X.hidden = T.hidden
  BY DEF IsTurn, Fields, Sounds
<1>2. /\ Len(X.seen) = Len(T.seen) + 1 /\ X.seen[Len(X.seen)] = kind /\ X.seen # <<>>
      /\ \A i \in 1..Len(T.seen) : X.seen[i] = T.seen[i]
      /\ Len(T.seen) \in Nat /\ kind \notin Conv!Terminals
  BY <1>1 DEF IsTurn, Conv!Kinds, Conv!Terminals
<1>3. Conv!Executable(T) => Conv!Executable(X)
  BY <1>1, <1>2 DEF Conv!Executable
<1>4. Placed(X)
  <2>1. X.read = T.read /\ X.got = T.got /\ X.trace = "stream" /\ X.bridged = T.bridged
        /\ X.cut = c
    BY DEF Writing, IsTurn, Fields
  <2> QED BY <1>0, <1>2, <2>1 DEF Placed, Writing, IsTurn
<1>5. Waiting(X, m) /\ Owing(X, m)
  BY <1>0 DEF Owing, Waiting, Writing, IsTurn, Fields
<1>6. Told(X, m) /\ HandedOff(X)
  BY <1>0 DEF Told, HandedOff, IsTurn, Fields
<1>7. Freed(X, m)
  BY <1>3 DEF Freed, Sound, IsTurn, Fields
<1> QED BY <1>1, <1>4, <1>5, <1>6, <1>7 DEF Sound

\* A write of the completion that failed.
LEMMA DoubtSound ==
  ASSUME NEW T, IsTurn(T), NEW m \in Marks, Sound(T, m), Writing(T), NEW c \in BOOLEAN,
         NEW X, X = [T EXCEPT !.blocked = TRUE, !.trouble = TRUE, !.over = "end",
                              !.told = IF c THEN "complete" ELSE @],
         NEW n, n = IF c THEN "none" ELSE m
  PROVE  IsTurn(X) /\ Sound(X, n)
<1>0. /\ T.told = "no" /\ ~T.handoff /\ ~T.lost /\ m = "attempt"
  BY WritingTold
<1>1. IsTurn(X)
  BY DEF IsTurn, Fields
<1>2. /\ X.seen = T.seen /\ X.read = T.read /\ X.got = T.got /\ X.cut = T.cut
      /\ X.trace = "stream" /\ T.trace = "stream" /\ X.bridged = T.bridged
      /\ X.handoff = T.handoff /\ X.lost = T.lost /\ X.blocked = TRUE
      /\ X.trouble = TRUE /\ X.over = "end" /\ X.told = IF c THEN "complete" ELSE "no"
  BY <1>0 DEF IsTurn, Fields, Writing
<1>3. Placed(X)
  BY <1>2 DEF Sound, Placed
<1>4. Waiting(X, n) /\ Owing(X, n)
  BY <1>0, <1>2 DEF Waiting, Owing
<1>5. Told(X, n)
  <2>1. X.told # "settled" /\ ~X.handoff
    BY <1>0, <1>2
  <2>2. Ended(X)
    BY <1>2 DEF Ended
  <2> QED BY <1>2, <2>1, <2>2 DEF Told
<1>7. HandedOff(X)
  BY <1>0, <1>2 DEF HandedOff
<1>6. Freed(X, n)
  BY <1>2 DEF Freed
<1> QED BY <1>1, <1>3, <1>4, <1>5, <1>6, <1>7 DEF Sound

\* The completion is passed on, saved or unprotected.
LEMMA CompleteSound ==
  ASSUME NEW T, IsTurn(T), NEW m \in Marks, Sound(T, m), Writing(T),
         NEW X, \/ X = [T EXCEPT !.saved = TRUE, !.seen = Append(@, "completed"),
                                 !.told = "complete"]
                \/ X = [T EXCEPT !.unprotected = TRUE, !.blocked = TRUE, !.pending = FALSE,
                                 !.seen = Append(@, "completed"), !.told = "complete"]
  PROVE  IsTurn(X) /\ Sound(X, "none")
<1>0. /\ T.told = "no" /\ ~T.handoff /\ ~T.lost /\ m = "attempt"
      /\ T.got <= T.read /\ T.read - 1 <= T.got
  BY WritingTold
<1> DEFINE A == [T EXCEPT !.saved = TRUE, !.seen = Append(@, "completed"),
  !.told = "complete"]
           B == [T EXCEPT !.unprotected = TRUE, !.blocked = TRUE, !.pending = FALSE,
                          !.seen = Append(@, "completed"), !.told = "complete"]
<1>1. IsTurn(X)
  <2>1. IsTurn(A)
    BY DEF IsTurn, Fields, Sounds, Conv!Terminals
  <2>2. IsTurn(B)
    BY DEF IsTurn, Fields, Sounds, Conv!Terminals
  <2> QED BY <2>1, <2>2
<1>2. /\ X.seen = Append(T.seen, "completed") /\ X.read = T.read /\ X.got = T.got
      /\ X.cut = T.cut /\ X.trace = "stream" /\ T.trace = "stream"
      /\ X.handoff = T.handoff /\ X.lost = T.lost /\ X.told = "complete"
      /\ X.saved \/ (X.unprotected /\ ~X.pending)
  BY ZenonT(60) DEF IsTurn, Fields, Writing
<1>3. /\ Len(X.seen) = Len(T.seen) + 1 /\ X.seen[Len(X.seen)] = "completed"
      /\ X.seen # <<>> /\ Len(T.seen) \in Nat /\ "completed" \in Conv!Terminals
  BY <1>2 DEF IsTurn, Conv!Terminals
<1>4. Placed(X)
  BY <1>0, <1>2, <1>3 DEF Placed, Writing, IsTurn
<1>5. Waiting(X, "none") /\ Owing(X, "none")
  BY <1>0, <1>2 DEF Waiting, Owing
<1>6. Told(X, "none") /\ HandedOff(X)
  BY <1>0, <1>2, <1>3 DEF Told, HandedOff, Ended, Conv!Known
<1>7. Freed(X, "none")
  BY <1>2 DEF Freed
<1> QED BY <1>1, <1>4, <1>5, <1>6, <1>7 DEF Sound

LEMMA HiddenSound ==
  ASSUME NEW T, IsTurn(T), NEW m \in Marks, Sound(T, m), Writing(T),
         NEW X, X = [T EXCEPT !.hidden = TRUE, !.over = "end"]
  PROVE  IsTurn(X) /\ Sound(X, m)
<1>0. /\ T.told = "no" /\ ~T.handoff /\ ~T.lost /\ m = "attempt"
  BY WritingTold
<1>1. IsTurn(X) /\ X.hidden
  BY DEF IsTurn, Fields
<1>2. Conv!Executable(X)
  BY <1>1 DEF Conv!Executable
<1>3. /\ X.seen = T.seen /\ X.read = T.read /\ X.got = T.got /\ X.cut = T.cut
      /\ X.trace = "stream" /\ T.trace = "stream" /\ X.bridged = T.bridged
      /\ X.handoff = T.handoff /\ X.lost = T.lost /\ X.told = T.told
  BY DEF IsTurn, Fields, Writing
<1>4. Placed(X)
  BY <1>3 DEF Sound, Placed
<1>5. Waiting(X, m) /\ Owing(X, m) /\ Told(X, m) /\ HandedOff(X)
  BY <1>0, <1>3 DEF Waiting, Owing, Told, HandedOff
<1>6. Freed(X, m)
  BY <1>2 DEF Freed
<1> QED BY <1>1, <1>4, <1>5, <1>6 DEF Sound

LEMMA EndSound ==
  ASSUME NEW T, IsTurn(T), NEW m \in Marks, Sound(T, m), Writing(T), Conv!Executable(T),
         NEW X, X = [T EXCEPT !.over = "end"]
  PROVE  IsTurn(X) /\ Sound(X, m)
<1>0. /\ T.told = "no" /\ ~T.handoff /\ ~T.lost /\ m = "attempt"
  BY WritingTold
<1>1. IsTurn(X) /\ X.hidden = T.hidden
  BY DEF IsTurn, Fields
<1>2. /\ X.seen = T.seen /\ X.read = T.read /\ X.got = T.got /\ X.cut = T.cut
      /\ X.trace = "stream" /\ T.trace = "stream" /\ X.bridged = T.bridged
      /\ X.handoff = T.handoff /\ X.lost = T.lost /\ X.told = T.told
  BY DEF IsTurn, Fields, Writing
<1>3. Conv!Executable(X)
  BY <1>1, <1>2, SameItems
<1>4. Placed(X)
  BY <1>2 DEF Sound, Placed
<1>5. Waiting(X, m) /\ Owing(X, m) /\ Told(X, m) /\ HandedOff(X)
  BY <1>0, <1>2 DEF Waiting, Owing, Told, HandedOff
<1>6. Freed(X, m)
  BY <1>3 DEF Freed
<1> QED BY <1>1, <1>4, <1>5, <1>6 DEF Sound

LEMMA DeferSound ==
  ASSUME NEW T, IsTurn(T), NEW m \in Marks, Sound(T, m), Writing(T), Conv!Executable(T),
         ~Conv!Unsavable(T, TRUE),
         NEW X, X = [T EXCEPT !.handoff = TRUE, !.seen = Append(@, "failed")]
  PROVE  IsTurn(X) /\ Sound(X, m)
<1>0. /\ T.told = "no" /\ ~T.handoff /\ ~T.lost /\ m = "attempt"
      /\ T.got <= T.read /\ T.read - 1 <= T.got
  BY WritingTold
<1>1. IsTurn(X) /\ X.hidden = T.hidden
  BY DEF IsTurn, Fields, Sounds, Conv!Terminals
<1>2. /\ X.seen = Append(T.seen, "failed") /\ X.read = T.read /\ X.got = T.got
      /\ X.cut = T.cut /\ X.trace = "stream" /\ T.trace = "stream"
      /\ X.lost = T.lost /\ X.told = T.told
  BY DEF IsTurn, Fields, Writing
<1>3. "failed" \in Conv!Terminals /\ Len(T.seen) \in Nat
  BY DEF Conv!Terminals, IsTurn
<1>4. /\ Conv!Executable(X) /\ ~Conv!Unsavable(X, TRUE)
      /\ Len(X.seen) = Len(T.seen) + 1 /\ X.seen[Len(X.seen)] = "failed"
  <2>1. Extends(X, T, "failed")
    BY <1>1, <1>2 DEF Extends
  <2>2. TerminatedAs(X, T, "failed")
    BY <1>1, <1>3, <2>1, AppendedTerminal
  <2> QED BY <2>2 DEF TerminatedAs
<1>5. X.seen # <<>>
  BY <1>2 DEF IsTurn
<1>6. Placed(X)
  BY <1>0, <1>2, <1>3, <1>4, <1>5 DEF Placed, Writing, IsTurn
<1>7. Waiting(X, m) /\ Owing(X, m) /\ Told(X, m)
  BY <1>0, <1>2 DEF Waiting, Owing, Told
<1>8. HandedOff(X)
  <2>1. X.read = Len(X.seen) - 1
    BY <1>2, <1>3, <1>4 DEF Writing
  <2> QED BY <1>2, <1>3, <1>4, <1>5, <2>1 DEF HandedOff, Ended
<1>9. Freed(X, m)
  BY <1>4 DEF Freed
<1> QED BY <1>1, <1>6, <1>7, <1>8, <1>9 DEF Sound

Unsafely(S) == [S EXCEPT !.trace = "unsafe"]

LEMMA UnsafeType ==
  ASSUME NEW S, IsTurn(S), NEW X, X = Unsafely(S)
  PROVE  /\ IsTurn(X) /\ X.trace = "unsafe"
         /\ \A f \in Fields \ {"trace"} : X[f] = S[f]
<1>1. DOMAIN S = Fields
  BY DEF IsTurn
<1>2. /\ DOMAIN X = Fields /\ X.trace = "unsafe"
      /\ \A f \in Fields \ {"trace"} : X[f] = S[f]
  BY <1>1 DEF Unsafely, Fields
<1>3. IsTurn(X)
  BY <1>2 DEF IsTurn, Fields
<1> QED BY <1>2, <1>3

LEMMA FailedEarlySound ==
  ASSUME NEW T, IsTurn(T), NEW m \in Marks, Sound(T, m), T.trace = "sent",
         NEW w \in Conv!Writes, ~Conv!Needs(T, TRUE) => w = "ok",
         NEW n, n = MarkAfter(T, TRUE, w, m),
         NEW S, S = Conv!SettleAs(T, TRUE, w), NEW X, X = Unsafely(S)
  PROVE  IsTurn(X) /\ n \in Marks /\ Sound(X, n)
<1>1. /\ IsTurn(S) /\ n \in Marks
      /\ S.told = "no" \/ ((S.failed \/ S.blocked) /\ (~S.pending \/ S.blocked))
      /\ ~Conv!Executable(T) => (~S.trouble => n = "none")
      /\ ~Conv!Executable(T) => (S.blocked => S.trouble)
      /\ S.trace = T.trace /\ S.seen = T.seen /\ S.read = T.read /\ S.got = T.got
      /\ S.hidden = T.hidden /\ S.cut = T.cut /\ S.lost = T.lost /\ S.handoff = T.handoff
      /\ S.uncertain = T.uncertain /\ S.saved = T.saved
  <2>1. SettledTo(T, TRUE, w, m, S, n)
    BY Settled
  <2>2. SameBut(S, T)
    BY <2>1, SettledSame
  <2> QED BY <2>1, <2>2 DEF SettledTo, SameBut, Sound, Waiting
<1>2. /\ IsTurn(X) /\ X.trace = "unsafe" /\ X.told = S.told /\ X.failed = S.failed
      /\ X.blocked = S.blocked /\ X.pending = S.pending /\ X.trouble = S.trouble
      /\ X.seen = T.seen /\ X.read = T.read /\ X.got = T.got /\ X.hidden = T.hidden
      /\ X.cut = T.cut /\ X.lost = T.lost /\ X.handoff = T.handoff
      /\ X.uncertain = T.uncertain /\ X.saved = T.saved
  <2>1. IsTurn(S)
    BY <1>1
  <2>2. /\ IsTurn(X) /\ X.trace = "unsafe"
        /\ \A f \in Fields \ {"trace"} : X[f] = S[f]
    BY <2>1, UnsafeType, ZenonT(60)
  <2>3. /\ X.told = S.told /\ X.failed = S.failed
        /\ X.blocked = S.blocked /\ X.pending = S.pending /\ X.trouble = S.trouble
        /\ X.seen = S.seen /\ X.read = S.read /\ X.got = S.got /\ X.hidden = S.hidden
        /\ X.cut = S.cut /\ X.lost = S.lost /\ X.handoff = S.handoff
        /\ X.uncertain = S.uncertain /\ X.saved = S.saved
    BY <2>2, ZenonT(60) DEF Fields
  <2> QED BY <1>1, <2>2, <2>3, ZenonT(60)
<1>3. T.seen = <<>> /\ ~T.hidden
  BY DEF Sound, Placed
<1>4. ~Conv!Executable(X) /\ ~Conv!Executable(T)
  <2>1. 1..Len(T.seen) = {}
    BY <1>3
  <2>2. ~Conv!Executable(T)
    BY <1>3, <2>1 DEF Conv!Executable
  <2> QED BY <1>1, <1>2, <2>2, SameItems
<1>5. Placed(X)
  BY <1>2, ZenonT(60) DEF Sound, Placed
<1>6. Waiting(X, n) /\ Owing(X, n) /\ HandedOff(X)
  BY <1>2 DEF Sound, Waiting, Owing, HandedOff
<1>7. Told(X, n)
  BY <1>1, <1>2, <1>4, <1>6 DEF Told, HandedOff, Conv!Known, Sound
<1>8. Freed(X, n)
  BY <1>1, <1>2, <1>4 DEF Freed, Sound, Waiting
<1> QED BY <1>1, <1>2, <1>5, <1>6, <1>7, <1>8 DEF Sound

\* X is S with the failure passed on.
FailedAs(X, S) ==
  /\ IsTurn(X) /\ X.seen = Append(S.seen, "failed")
  /\ \A f \in Fields \ {"seen"} : X[f] = S[f]

LEMMA FailedType ==
  ASSUME NEW S, IsTurn(S), NEW X, X = [S EXCEPT !.seen = Append(@, "failed")]
  PROVE  FailedAs(X, S)
  BY DEF FailedAs, IsTurn, Fields, Sounds, Conv!Terminals

LEMMA FailedInertSound ==
  ASSUME NEW T, IsTurn(T), NEW m \in Marks, Sound(T, m), Writing(T), ~Conv!Executable(T),
         NEW w \in Conv!Writes, ~Conv!Needs(T, TRUE) => w = "ok",
         NEW n, n = MarkAfter(T, TRUE, w, m),
         NEW S, S = Conv!SettleAs(T, TRUE, w), S.failed,
         NEW X, FailedAs(X, S)
  PROVE  n \in Marks /\ Sound(X, n)
<1>0. /\ T.told = "no" /\ ~T.handoff /\ ~T.lost /\ m = "attempt"
      /\ T.got <= T.read /\ T.read - 1 <= T.got
  BY WritingTold
<1>1. /\ IsTurn(S) /\ n \in Marks
      /\ S.told = "settled" => ~S.pending \/ S.blocked
      /\ S.told = "settled" \/ (S.told = "no" /\ n = m)
      /\ ~S.trouble => n = "none"
      /\ S.blocked => T.blocked \/ S.trouble
      /\ ~S.trouble => ~T.trouble
      /\ S.pending => T.pending
      /\ S.trace = T.trace /\ S.seen = T.seen /\ S.read = T.read /\ S.got = T.got
      /\ S.hidden = T.hidden /\ S.cut = T.cut /\ S.lost = T.lost /\ S.handoff = T.handoff
      /\ S.uncertain = T.uncertain /\ S.saved = T.saved
  <2>1. SettledTo(T, TRUE, w, m, S, n)
    BY Settled
  <2>2. SameBut(S, T)
    BY <2>1, SettledSame
  <2> QED BY <1>0, <2>1, <2>2 DEF SettledTo, SameBut, Sound
<1>2. /\ IsTurn(X) /\ X.told = S.told /\ X.failed /\ X.trace = T.trace
      /\ X.blocked = S.blocked /\ X.pending = S.pending /\ X.trouble = S.trouble
      /\ X.seen = Append(T.seen, "failed") /\ X.read = T.read /\ X.got = T.got
      /\ X.hidden = T.hidden
      /\ X.cut = T.cut /\ X.lost = T.lost /\ X.handoff = T.handoff
      /\ X.uncertain = T.uncertain /\ X.saved = T.saved
  <2>1. /\ IsTurn(X) /\ X.seen = Append(S.seen, "failed")
        /\ X.told = S.told /\ X.failed = S.failed /\ X.trace = S.trace
        /\ X.blocked = S.blocked /\ X.pending = S.pending /\ X.trouble = S.trouble
        /\ X.read = S.read /\ X.got = S.got /\ X.hidden = S.hidden
        /\ X.cut = S.cut /\ X.lost = S.lost /\ X.handoff = S.handoff
        /\ X.uncertain = S.uncertain /\ X.saved = S.saved
    BY DEF FailedAs, Fields
  <2> QED BY <1>1, <2>1
<1>3. "failed" \in Conv!Terminals /\ Len(T.seen) \in Nat /\ T.trace = "stream"
  BY DEF Conv!Terminals, IsTurn, Writing
<1>4. /\ ~Conv!Executable(X)
      /\ Len(X.seen) = Len(T.seen) + 1 /\ X.seen[Len(X.seen)] = "failed"
      /\ X.seen # <<>>
  <2>1. Extends(X, T, "failed")
    BY <1>2 DEF Extends
  <2>2. TerminatedAs(X, T, "failed")
    BY <1>2, <1>3, <2>1, AppendedTerminal
  <2> QED BY <2>2 DEF TerminatedAs
<1>6. Placed(X)
  <2>1. T.got \in Nat /\ T.read \in Nat /\ T.read = Len(T.seen) /\ ~T.cut
    BY DEF Writing, IsTurn
  <2>2. ~X.cut /\ X.trace = "stream" /\ X.got = T.got /\ X.read = T.read
    BY <1>2, <1>3, <2>1
  <2>3. Len(X.seen) - 1 = T.read /\ Len(X.seen) - 2 <= T.got /\ T.read <= Len(X.seen)
    BY <1>0, <1>3, <1>4, <2>1
  <2> QED BY <1>0, <1>4, <2>1, <2>2, <2>3 DEF Placed
<1>7. Waiting(X, n) /\ Owing(X, n) /\ HandedOff(X)
  BY <1>0, <1>1, <1>2, <1>3 DEF Waiting, Owing, HandedOff
<1>8. Told(X, n)
  <2>1. Ended(X) /\ Conv!Known(X)
    BY <1>2, <1>3, <1>4 DEF Ended, Conv!Known
  <2> QED BY <1>0, <1>1, <1>2, <1>4, <2>1 DEF Told
<1>9. Freed(X, n)
  BY <1>0, <1>1, <1>2, <1>4 DEF Freed, Sound
<1> QED BY <1>1, <1>2, <1>6, <1>7, <1>8, <1>9 DEF Sound

\* X is S at the end of its stream.
EndedAs(X, S) ==
  /\ IsTurn(X)
  /\ \A f \in Fields \ {"handoff", "uncertain", "over"} : X[f] = S[f]

LEMMA EndedType ==
  ASSUME NEW S, IsTurn(S), NEW o \in {"no", "end", "read"}, NEW X, X = [S EXCEPT !.over = o]
  PROVE  /\ EndedAs(X, S) /\ X.over = o
         /\ X.handoff = S.handoff /\ X.uncertain = S.uncertain
  BY DEF EndedAs, IsTurn, Fields

Handed(S, o) == [S EXCEPT !.handoff = FALSE, !.over = o]

LEMMA HandedType ==
  ASSUME NEW S, IsTurn(S), NEW o \in {"no", "end", "read"}, NEW X, X = Handed(S, o)
  PROVE  /\ EndedAs(X, S) /\ X.over = o
         /\ ~X.handoff /\ X.uncertain = S.uncertain
<1> USE DEF Handed
<1>1. IsTurn(X)
  BY DEF IsTurn, Fields
<1>2. DOMAIN S = Fields
  BY DEF IsTurn
<1>3. \A f \in Fields \ {"handoff", "uncertain", "over"} : X[f] = S[f]
  BY <1>2
<1>4. X.over = o /\ ~X.handoff /\ X.uncertain = S.uncertain
  BY <1>2 DEF Fields
<1> QED BY <1>1, <1>3, <1>4 DEF EndedAs

Doubted(S, u) == [S EXCEPT !.over = "read", !.uncertain = u]

LEMMA UncertainType ==
  ASSUME NEW S, IsTurn(S), NEW u \in BOOLEAN,
         NEW X, X = Doubted(S, u)
  PROVE  /\ EndedAs(X, S) /\ X.over = "read"
         /\ X.handoff = S.handoff /\ X.uncertain = u
<1> USE DEF Doubted
<1>1. IsTurn(X)
  BY DEF IsTurn, Fields
<1>2. DOMAIN S = Fields
  BY DEF IsTurn
<1>3. \A f \in Fields \ {"handoff", "uncertain", "over"} : X[f] = S[f]
  BY <1>2
<1>4. X.over = "read" /\ X.handoff = S.handoff /\ X.uncertain = u
  BY <1>2 DEF Fields
<1> QED BY <1>1, <1>3, <1>4 DEF EndedAs

\* A turn that settles at the end of its stream, or once the client has it.
LEMMA SettledSound ==
  ASSUME NEW T, IsTurn(T), NEW m \in Marks, Sound(T, m), T.trace = "stream",
         NEW w \in Conv!Writes, ~Conv!Needs(T, TRUE) => w = "ok",
         NEW n, n = MarkAfter(T, TRUE, w, m),
         NEW S, S = Conv!SettleAs(T, TRUE, w),
         NEW X, EndedAs(X, S),
         ~X.handoff, Ended(X), X.uncertain => T.uncertain \/ ~S.failed,
         Conv!Executable(T) =>
           /\ T.got = T.read /\ (T.read = Len(T.seen) \/ X.over = "read")
           /\ T.read = Len(T.seen)
                \/ (T.read = Len(T.seen) - 1 /\ T.seen[Len(T.seen)] = "failed")
  PROVE  n \in Marks /\ Sound(X, n)
<1>1. /\ IsTurn(S) /\ n \in Marks
      /\ \/ /\ S.told = "settled" /\ (S.failed \/ S.blocked) /\ (~S.pending \/ S.blocked)
            /\ Conv!Executable(T) => /\ n = "released" /\ S.kept = Conv!Delivered(T, TRUE)
                                     /\ ~Conv!Unsavable(T, TRUE)
         \/ /\ S.told = T.told /\ n = m /\ S.kept = T.kept
            /\ S.failed = T.failed /\ S.pending = T.pending
      /\ ~S.trouble => ~T.trouble
      /\ Freed(T, m) /\ ~S.trouble /\ ~Conv!Executable(T) => n = "none"
      /\ S.blocked \/ ~S.failed => T.blocked \/ S.trouble \/ Conv!Executable(T)
      /\ (T.blocked => S.blocked) /\ (S.pending => T.pending)
      /\ S.trace = T.trace /\ S.seen = T.seen /\ S.read = T.read /\ S.got = T.got
      /\ S.hidden = T.hidden /\ S.cut = T.cut /\ S.lost = T.lost
      /\ S.saved = T.saved /\ S.unprotected = T.unprotected /\ S.bridged = T.bridged
  <2>1. SettledTo(T, TRUE, w, m, S, n)
    BY Settled
  <2>2. /\ S.trace = T.trace /\ S.seen = T.seen /\ S.read = T.read /\ S.got = T.got
        /\ S.hidden = T.hidden /\ S.cut = T.cut /\ S.lost = T.lost
        /\ S.saved = T.saved /\ S.unprotected = T.unprotected /\ S.bridged = T.bridged
    <3>1. SameBut(S, T)
      BY <2>1, SettledSame
    <3> QED BY <3>1 DEF SameBut
  <2> QED BY <2>1, <2>2 DEF SettledTo
<1>2. /\ X.told = S.told /\ X.failed = S.failed /\ X.trace = "stream" /\ X.kept = S.kept
      /\ X.blocked = S.blocked /\ X.pending = S.pending /\ X.trouble = S.trouble
      /\ X.seen = T.seen /\ X.read = T.read /\ X.got = T.got /\ X.hidden = T.hidden
      /\ X.cut = T.cut /\ X.lost = T.lost /\ X.bridged = T.bridged
      /\ X.saved = T.saved /\ X.unprotected = T.unprotected /\ IsTurn(X)
  <2>1. /\ IsTurn(X) /\ X.told = S.told /\ X.failed = S.failed /\ X.trace = S.trace
        /\ X.kept = S.kept /\ X.blocked = S.blocked /\ X.pending = S.pending
        /\ X.trouble = S.trouble /\ X.seen = S.seen /\ X.read = S.read /\ X.got = S.got
        /\ X.hidden = S.hidden /\ X.cut = S.cut /\ X.lost = S.lost
        /\ X.bridged = S.bridged /\ X.saved = S.saved /\ X.unprotected = S.unprotected
    BY DEF EndedAs, Fields
  <2> QED BY <1>1, <2>1
<1>3. /\ Conv!Executable(X) <=> Conv!Executable(T)
      /\ Conv!Received(X) = Conv!Received(T)
  BY <1>2, SameItems
<1>4. Placed(X)
  BY <1>2 DEF Sound, Placed
<1>5. ~T.lost
  BY DEF Sound, Owing
<1>6. Waiting(X, n) /\ Owing(X, n) /\ HandedOff(X)
  BY <1>1, <1>2, <1>5, ZenonT(60) DEF Waiting, Owing, HandedOff, Sound
<1>7. Told(X, n)
  <2>1. CASE S.told = T.told /\ n = m /\ S.kept = T.kept
             /\ S.failed = T.failed /\ S.pending = T.pending
    <3>1. Conv!Known(T) => Conv!Known(X)
      BY <1>2, <2>1 DEF Conv!Known
    <3>2. ASSUME T.told = "settled", Conv!Executable(T) PROVE Covered(X, n)
      BY <1>2, <1>3, <2>1, <3>2, ZenonT(60) DEF Sound, Told, Covered
    <3>3. T.told # "no" => /\ T.saved \/ ~T.pending \/ T.blocked
                           /\ Conv!Known(T) \/ T.blocked
      BY DEF Sound, Told
    <3> QED BY <1>1, <1>2, <1>3, <2>1, <3>1, <3>2, <3>3, ZenonT(60) DEF Told
  <2>2. CASE /\ S.told = "settled" /\ (S.failed \/ S.blocked) /\ (~S.pending \/ S.blocked)
             /\ Conv!Executable(T) => /\ n = "released" /\ S.kept = Conv!Delivered(T, TRUE)
                                      /\ ~Conv!Unsavable(T, TRUE)
    <3>1. Conv!Known(X) \/ X.blocked
      BY <1>2, <2>2 DEF Conv!Known
    <3>2. ASSUME Conv!Executable(T) PROVE Covered(X, n)
      <4>1. Conv!Received(T) \subseteq Conv!Delivered(T, TRUE)
        BY <2>2, <3>2, AllReceived
      <4> QED BY <1>2, <1>3, <2>2, <3>2, <4>1, ZenonT(60) DEF Covered
    <3> QED BY <1>1, <1>2, <1>3, <2>2, <3>1, <3>2 DEF Told
  <2> QED BY <1>1, <2>1, <2>2
<1>8. Freed(X, n)
  <2>1. Freed(T, m)
    BY DEF Sound
  <2> QED BY <1>1, <1>2, <1>3, <2>1 DEF Freed
<1> QED BY <1>1, <1>4, <1>6, <1>7, <1>8 DEF Sound

-----------------------------------------------------------------------------
(* The invariant.                                                          *)

StoreTypes ==
  /\ snaps \in [0..N -> Roots]
  /\ broken \in BOOLEAN /\ stopping \in BOOLEAN

TurnTypes ==
  /\ DOMAIN turn = Conv!Turns /\ \A t \in Conv!Turns : IsTurn(turn[t]) /\ Placed(turn[t])
  /\ marker \in [Conv!Turns -> Marks]
  /\ fate \in [Conv!Turns -> Conv!Fates] /\ inert \in [Conv!Turns -> BOOLEAN]

\* A conversation has one turn at a time.
Apart == \A t, u \in Conv!Turns : Conv!Open(t) /\ Conv!Open(u) /\
  turn[t].root = turn[u].root => t = u

OpenSound == \A t \in Conv!Turns : Conv!Open(t) => Sound(turn[t], marker[t]) /\ ~inert[t]

Admitted(T) == T.pending \/ T.trace # "none"
CleanBefore(t) ==
  \A u \in Conv!Turns : turn[u].phase = "closed" /\ turn[u].root = turn[t].root
    => fate[u] = "clean"

\* An admitted turn continues from, or was given, all that was done.
AdmittedClean == \A t \in Conv!Turns : Conv!Open(t) /\ Admitted(turn[t]) => CleanBefore(t)

\* What f requires of the marker of a closed turn.
Answers(f, m) == f # "clean" => m # "none" /\ (m = "released" => f = "held")
ClosedMarked ==
  \A u \in Conv!Turns : turn[u].phase = "closed" =>
     Answers(fate[u], marker[u]) /\ (inert[u] => marker[u] = "none")

UnbornUnmarked == \A u \in Conv!Turns : turn[u].phase = "unborn"
  => marker[u] = "none" /\ ~inert[u]

TurnInv == TurnTypes /\ Apart /\ OpenSound /\ AdmittedClean /\ ClosedMarked /\ UnbornUnmarked
ConversationInv == StoreTypes /\ TurnInv

\* The markers of other turns of t's conversation may be cleared.
Touches(t) ==
  /\ marker' \in [Conv!Turns -> Marks]
  /\ \A u \in Conv!Turns \ {t} :
       marker'[u] = marker[u] \/ (turn[u].root = turn[t].root /\ marker'[u] = "none")

Becomes(t, X) ==
  /\ DOMAIN turn' = Conv!Turns /\ turn'[t] = X
  /\ \A u \in Conv!Turns \ {t} : turn'[u] = turn[u]
  /\ IsTurn(X) /\ X.root = turn[t].root

LEMMA OpenStep ==
  ASSUME TurnInv, NEW t \in Conv!Turns, Conv!Open(t), Admitted(turn[t]),
         NEW X, Becomes(t, X), X.phase = "open", Sound(X, marker'[t]),
         Touches(t), UNCHANGED <<fate, inert>>
  PROVE  TurnInv'
<1>1. /\ DOMAIN turn' = Conv!Turns /\ turn'[t] = X
      /\ \A u \in Conv!Turns \ {t} : turn'[u] = turn[u]
  BY DEF TurnInv, TurnTypes, Becomes
<1>2. TurnTypes'
  BY <1>1 DEF TurnInv, TurnTypes, Becomes, Sound, Touches
<1>3. Apart'
  BY <1>1 DEF TurnInv, Apart, Conv!Open, Becomes
<1>4. \A u \in Conv!Turns \ {t} : Conv!Open(u)
        => turn[u].root # turn[t].root /\ marker'[u] = marker[u]
  BY DEF TurnInv, Apart, Touches
<1>5. OpenSound'
  BY <1>1, <1>4 DEF TurnInv, OpenSound, Conv!Open
<1>6. CleanBefore(t)
  BY DEF TurnInv, AdmittedClean
<1>7. \A u \in Conv!Turns : turn'[u].root = turn[u].root /\ turn'[u].phase = turn[u].phase
  BY <1>1 DEF Becomes, Conv!Open
<1>8. AdmittedClean'
  <2> SUFFICES ASSUME NEW v \in Conv!Turns, Conv!Open(v)', Admitted(turn'[v])
    PROVE CleanBefore(v)'
    BY DEF AdmittedClean
  <2>1. CleanBefore(v)
    BY <1>1, <1>6, <1>7 DEF TurnInv, AdmittedClean, Conv!Open
  <2> QED BY <1>7, <2>1 DEF CleanBefore
<1>9. ClosedMarked'
  <2> SUFFICES ASSUME NEW u \in Conv!Turns, turn'[u].phase = "closed"
               PROVE  Answers(fate[u], marker'[u]) /\ (inert[u] => marker'[u] = "none")
    BY DEF ClosedMarked
  <2>1. u # t /\ turn[u].phase = "closed"
    BY <1>1 DEF Conv!Open
  <2>2. Answers(fate[u], marker[u]) /\ (inert[u] => marker[u] = "none")
    BY <2>1 DEF TurnInv, ClosedMarked
  <2>3. CASE marker'[u] = marker[u]
    BY <2>2, <2>3
  <2>4. CASE turn[u].root = turn[t].root /\ marker'[u] = "none"
    BY <1>6, <2>1, <2>4 DEF CleanBefore, Answers
  <2> QED BY <2>1, <2>3, <2>4 DEF Touches
<1>10. UnbornUnmarked'
  BY <1>1 DEF TurnInv, UnbornUnmarked, Conv!Open, Touches
<1> QED BY <1>2, <1>3, <1>5, <1>8, <1>9, <1>10 DEF TurnInv

Closes(t, R) ==
  /\ turn' = [turn EXCEPT ![t] = Conv!Closed(R)]
  /\ fate' = [fate EXCEPT ![t] = Conv!FateOf(R)]
  /\ inert' = [inert EXCEPT ![t] = ~Conv!Executable(R) /\ ~R.trouble /\ ~R.lost]

LEMMA ClosedTurn ==
  ASSUME NEW R, R.root \in Roots, NEW C, C = Conv!Closed(R)
  PROVE  IsTurn(C) /\ Placed(C) /\ C.phase = "closed" /\ C.root = R.root
  BY DEF Conv!Closed, Conv!Begun, IsTurn, Fields, Placed

LEMMA ClosingStep ==
  ASSUME TurnInv, NEW t \in Conv!Turns, Conv!Open(t), NEW R, Closes(t, R),
         R.root = turn[t].root,
         Touches(t), marker' = marker \/ Admitted(turn[t]),
         Answers(Conv!FateOf(R), marker'[t]),
         ~Conv!Executable(R) /\ ~R.trouble /\ ~R.lost => marker'[t] = "none"
  PROVE  TurnInv'
<1>0. Conv!FateOf(R) \in Conv!Fates
  BY DEF Conv!FateOf, Conv!Fates
<1>1. /\ DOMAIN turn' = Conv!Turns /\ turn'[t] = Conv!Closed(R)
      /\ \A u \in Conv!Turns \ {t} : turn'[u] = turn[u]
      /\ \A u \in Conv!Turns \ {t} : fate'[u] = fate[u] /\ inert'[u] = inert[u]
      /\ fate'[t] = Conv!FateOf(R)
      /\ inert'[t] <=> ~Conv!Executable(R) /\ ~R.trouble /\ ~R.lost
  BY DEF TurnInv, TurnTypes, Closes
<1>2. PICK C : C = Conv!Closed(R)
  OBVIOUS
<1>3. turn'[t] = C /\ IsTurn(C) /\ Placed(C) /\ C.phase = "closed" /\ C.root = turn[t].root
  <2>1. R.root \in Roots
    BY DEF TurnInv, TurnTypes, IsTurn
  <2> QED BY <1>1, <1>2, <2>1, ClosedTurn
<1>4. TurnTypes'
  <2>1. fate' \in [Conv!Turns -> Conv!Fates] /\ inert' \in [Conv!Turns -> BOOLEAN]
    BY <1>0 DEF Closes, TurnInv, TurnTypes
  <2>2. \A u \in Conv!Turns : IsTurn(turn'[u]) /\ Placed(turn'[u])
    BY <1>1, <1>3 DEF TurnInv, TurnTypes
  <2> QED BY <1>1, <2>1, <2>2 DEF TurnTypes, Touches
<1>5. Apart'
  BY <1>1, <1>3 DEF TurnInv, Apart, Conv!Open
<1>6. \A u \in Conv!Turns \ {t} : Conv!Open(u)
        => turn[u].root # turn[t].root /\ marker'[u] = marker[u]
  BY DEF TurnInv, Apart, Touches
<1>7. OpenSound'
  BY <1>1, <1>3, <1>6 DEF TurnInv, OpenSound, Conv!Open
<1>8. AdmittedClean'
  <2> SUFFICES ASSUME NEW v \in Conv!Turns, Conv!Open(v)', Admitted(turn'[v])
    PROVE CleanBefore(v)'
    BY DEF AdmittedClean
  <2>1. v # t /\ Conv!Open(v) /\ turn'[v] = turn[v]
    BY <1>1, <1>3 DEF Conv!Open
  <2>2. CleanBefore(v) /\ turn[v].root # turn[t].root
    BY <1>6, <2>1 DEF TurnInv, AdmittedClean
  <2> QED BY <1>1, <1>3, <2>1, <2>2 DEF CleanBefore
<1>9. ClosedMarked'
  <2> SUFFICES ASSUME NEW u \in Conv!Turns, turn'[u].phase = "closed"
               PROVE  Answers(fate'[u], marker'[u]) /\ (inert'[u] => marker'[u] = "none")
    BY DEF ClosedMarked
  <2>1. CASE u = t
    BY <1>1, <2>1
  <2>2. ASSUME u # t
        PROVE  Answers(fate'[u], marker'[u]) /\ (inert'[u] => marker'[u] = "none")
    <3>1. turn[u].phase = "closed" /\ fate'[u] = fate[u] /\ inert'[u] = inert[u]
      BY <1>1, <2>2
    <3>2. Answers(fate[u], marker[u]) /\ (inert[u] => marker[u] = "none")
      BY <3>1 DEF TurnInv, ClosedMarked
    <3>3. CASE marker'[u] = marker[u]
      BY <3>1, <3>2, <3>3
    <3>4. CASE turn[u].root = turn[t].root /\ marker'[u] = "none" /\ marker' # marker
      <4>1. CleanBefore(t)
        BY <3>4 DEF TurnInv, AdmittedClean
      <4> QED BY <3>1, <3>4, <4>1 DEF CleanBefore, Answers
    <3> QED BY <2>2, <3>3, <3>4 DEF Touches
  <2> QED BY <2>1, <2>2
<1>10. UnbornUnmarked'
  BY <1>1, <1>3 DEF TurnInv, UnbornUnmarked, Touches
<1> QED BY <1>4, <1>5, <1>7, <1>8, <1>9, <1>10 DEF TurnInv

LEMMA OpenTurn ==
  ASSUME TurnInv, NEW t \in Conv!Turns, Conv!Open(t)
  PROVE  /\ IsTurn(turn[t]) /\ turn[t].phase = "open" /\ marker[t] \in Marks
         /\ Sound(turn[t], marker[t]) /\ ~inert[t]
  BY DEF TurnInv, TurnTypes, OpenSound, Conv!Open

LEMMA ClearedMarkers ==
  ASSUME TurnInv, NEW t \in Conv!Turns, marker' = Conv!Cleared(turn[t].root)
  PROVE  Touches(t) /\ marker'[t] = "none"
  BY DEF TurnInv, TurnTypes, Touches, Conv!Cleared, Marks

LEMMA MarkedMarkers ==
  ASSUME TurnInv, NEW t \in Conv!Turns, NEW how \in Marks, marker' = Conv!MarkedBy(t, how)
  PROVE  /\ Touches(t) /\ marker'[t] = how
         /\ \A u \in Conv!Turns \ {t} : turn[u].root = turn[t].root => marker'[u] = "none"
<1>1. marker' = [Conv!Cleared(turn[t].root) EXCEPT ![t] = how]
  BY DEF Conv!MarkedBy
<1>2. Conv!Cleared(turn[t].root) \in [Conv!Turns -> Marks]
  BY DEF TurnInv, TurnTypes, Conv!Cleared, Marks
<1> QED BY <1>1, <1>2 DEF Touches, Conv!Cleared, Marks

\* The snapshot that settling writes.
\* Settling saves the output.
Saves(T, e, w) == Conv!Needs(T, e) /\ Conv!Commits(w) /\ Conv!Delivered(T, e) # {}
Snapped(t, saves) ==
  snaps' = IF saves THEN [snaps EXCEPT ![t] = turn[t].root] ELSE snaps

LEMMA StoreSettled ==
  ASSUME TurnInv, StoreTypes, NEW t \in Conv!Turns, NEW e \in BOOLEAN, NEW w \in Conv!Writes,
         Conv!SettleStore(t, turn[t], e, w)
  PROVE  /\ Touches(t) /\ marker'[t] = MarkAfter(turn[t], e, w, marker[t])
         /\ ~Conv!Needs(turn[t], e) => w = "ok"
         /\ Snapped(t, Saves(turn[t], e, w))
         /\ broken' \in BOOLEAN
<1>0. broken \in BOOLEAN /\ marker \in [Conv!Turns -> Marks]
  BY DEF TurnInv, TurnTypes, StoreTypes
<1>1. CASE ~Conv!Needs(turn[t], e)
  BY <1>0, <1>1 DEF Conv!SettleStore, Conv!NoWrite, MarkAfter, Snapped, Saves, Touches
<1>2. CASE Conv!Needs(turn[t], e)
  <2>1. /\ snaps' = IF Conv!Commits(w) /\ Conv!Delivered(turn[t], e) # {}
                    THEN [snaps EXCEPT ![t] = turn[t].root] ELSE snaps
        /\ broken' = (broken \/ w \in Conv!Failing)
        /\ marker' = CASE Conv!Commits(w) /\
           Conv!Executable(turn[t]) -> Conv!MarkedBy(t, "released")
                       [] (Conv!Commits(w) \/ w = "full") /\ ~Conv!Executable(turn[t]) ->
                            Conv!Cleared(turn[t].root)
                       [] OTHER -> marker
    BY <1>2 DEF Conv!SettleStore, Conv!Write
  <2>2. "released" \in Marks
    BY DEF Marks
  <2>3. CASE Conv!Commits(w) /\ Conv!Executable(turn[t])
    <3>1. marker' = Conv!MarkedBy(t, "released")
      BY <2>1, <2>3
    <3>2. Touches(t) /\ marker'[t] = "released"
      BY <2>2, <3>1, MarkedMarkers
    <3> QED BY <1>2, <2>1, <2>3, <3>2 DEF MarkAfter, Snapped, Saves
  <2>4. CASE ~Conv!Executable(turn[t]) /\ (Conv!Commits(w) \/ w = "full")
    <3>1. marker' = Conv!Cleared(turn[t].root)
      BY <2>1, <2>4
    <3>2. Touches(t) /\ marker'[t] = "none"
      BY <3>1, ClearedMarkers
    <3> QED BY <1>2, <2>1, <2>4, <3>2 DEF MarkAfter, Snapped, Saves
  <2>5. CASE ~Conv!Commits(w) /\ ~(w = "full" /\ ~Conv!Executable(turn[t]))
    <3>1. marker' = marker
      BY <2>1, <2>5
    <3>2. Touches(t)
      BY <1>0, <3>1 DEF Touches
    <3> QED BY <1>2, <2>1, <2>5, <3>1, <3>2 DEF MarkAfter, Snapped, Saves
  <2> QED BY <2>3, <2>4, <2>5
<1> QED BY <1>1, <1>2

LEMMA SnapTypes ==
  ASSUME StoreTypes, NEW t \in Conv!Turns, turn[t].root \in Roots,
         NEW saves, Snapped(t, saves)
  PROVE  snaps' \in [0..N -> Roots]
  BY DEF StoreTypes, Snapped

-----------------------------------------------------------------------------
(* A closed turn: what its marker answers for.                             *)

LEMMA Settle0 ==
  ASSUME NEW T, IsTurn(T), NEW m \in Marks, Sound(T, m), ~T.lost, T.told # "complete",
         Conv!FateOf(T) # "clean"
  PROVE  T.trace = "stream" /\ Conv!Executable(T) /\ Conv!Received(T) # {} /\ ~T.gone
         /\ (T.told = "no" => m = "attempt")
         /\ (T.told = "settled" => m = "released" /\ Conv!FateOf(T) = "held")
<1>1. Conv!Received(T) # {} /\ ~T.gone
  BY DEF Conv!FateOf
<1>2. T.trace = "stream"
  <2>1. CASE T.trace # "stream"
    <3>1. T.got = 0
      BY <2>1 DEF Sound, Placed
    <3>2. 1..T.got = {}
      BY <3>1
    <3> QED BY <1>1, <3>2 DEF Conv!Received
  <2> QED BY <2>1
<1>3. Conv!Executable(T)
  <2>1. T.got <= Len(T.seen)
    BY <1>2 DEF Sound, Placed, IsTurn
  <2> QED BY <1>1, <2>1, InertReceived
<1>4. T.told = "settled" => Conv!Received(T) \subseteq T.kept /\ m = "released"
  BY <1>3 DEF Sound, Told, Covered
<1> QED BY <1>1, <1>2, <1>3, <1>4 DEF Conv!FateOf, Sound, Owing

\* The turn's fate when the proxy stops answers its marker.
LEMMA FateAnswered ==
  ASSUME NEW T, IsTurn(T), NEW m \in Marks, Sound(T, m)
  PROVE  Answers(Conv!FateOf(T), m)
<1>1. CASE T.lost
  BY <1>1 DEF Sound, Owing, Answers, Conv!FateOf
<1>2. CASE ~T.lost /\ T.told = "complete"
  BY <1>2 DEF Answers, Conv!FateOf
<1>3. CASE ~T.lost /\ T.told # "complete" /\ Conv!FateOf(T) # "clean"
  BY <1>3, Settle0 DEF Answers, IsTurn
<1> QED BY <1>1, <1>2, <1>3 DEF Answers

LEMMA CrashAnswered ==
  ASSUME NEW T, IsTurn(T), NEW m \in Marks, Sound(T, m), T.told = "no",
         T.trace \in {"sent", "stream"}
  PROVE  Answers("owed", m)
  BY DEF Answers, Sound, Owing, Waiting

\* A turn whose outcome is already in the store.
LEMMA SettledClear ==
  ASSUME NEW T, IsTurn(T), NEW m \in Marks, Sound(T, m), ~Conv!Executable(T), ~T.trouble,
         ~T.lost,
         Conv!Unsettled(T) => T.blocked \/ T.uncertain
  PROVE  m = "none"
  BY DEF Sound, Freed, Conv!Unsettled, IsTurn

Left(T, k, r) == [T EXCEPT !.kept = k, !.trouble = r]

LEMMA InterruptedClean ==
  ASSUME NEW T, IsTurn(T), NEW m \in Marks, Sound(T, m), Conv!Interrupted(T),
         NEW k, NEW r, NEW R, R = Left(T, k, r)
  PROVE  Conv!FateOf(R) = "clean" /\ R.root = T.root /\ R.trouble = r
<1>1. R.lost = T.lost /\ R.gone = T.gone /\ R.root = T.root /\ R.trouble = r
  BY DEF Left, IsTurn, Fields
<1>2. ~T.lost /\ T.gone
  BY DEF Sound, Owing, Conv!Interrupted, Conv!ClientEnded
<1> QED BY <1>1, <1>2 DEF Conv!FateOf

LEMMA SafeClean ==
  ASSUME NEW T, IsTurn(T), NEW m \in Marks, Sound(T, m), Conv!Safe(T),
         NEW r, NEW R, R = [T EXCEPT !.trouble = r]
  PROVE  Conv!FateOf(R) = "clean" /\ R.root = T.root /\ R.trouble = r
<1>1. /\ R.lost = T.lost /\ R.gone = T.gone /\ R.root = T.root /\ R.trouble = r
      /\ R.got = T.got /\ R.told = T.told
  BY DEF IsTurn, Fields
<1>2. ~T.lost /\ T.got = 0
  BY DEF Sound, Waiting, Placed, Conv!Safe
<1>3. Conv!Received(R) = {}
  <2>1. 1..R.got = {}
    BY <1>1, <1>2
  <2> QED BY <2>1 DEF Conv!Received
<1> QED BY <1>1, <1>2, <1>3 DEF Conv!FateOf

\* The proxy ended the turn: only what was followed counts.
\* A closing turn R that leaves marker n may be forgotten.
Forgettable(R, n, root) ==
  /\ Answers(Conv!FateOf(R), n) /\ R.root = root
  /\ ~Conv!Executable(R) /\ ~R.trouble /\ ~R.lost => n = "none"

LEMMA EndedAnswered ==
  ASSUME NEW T, IsTurn(T), NEW m \in Marks, Sound(T, m),
         Conv!Unsettled(T), ~T.blocked, ~T.uncertain, ~Conv!Safe(T), T.trace # "sent",
         NEW w \in Conv!Writes, ~Conv!Needs(T, FALSE) => w = "ok",
         NEW R, R = Conv!SettleAs(T, FALSE, w),
         NEW n, n = MarkAfter(T, FALSE, w, m)
  PROVE  Forgettable(R, n, T.root)
<1>1. SettledTo(T, FALSE, w, m, R, n)
  BY Settled
<1>2. /\ IsTurn(R) /\ R.root = T.root /\ R.seen = T.seen /\ R.hidden = T.hidden
      /\ R.got = T.got /\ R.lost = T.lost /\ R.trace = T.trace
      /\ R.told = "settled"
         => (Conv!Executable(T) => n = "released" /\ R.kept = Conv!Delivered(T, FALSE)
                                                     /\ ~Conv!Unsavable(T, FALSE))
      /\ R.told = "settled" \/ (R.told = T.told /\ n = m)
  <2>1. T.told # "settled"
    BY DEF Sound, Told, Conv!Unsettled
  <2> QED BY <1>1, <2>1, ZenonT(60) DEF SettledTo, Fields
<1>3. (Conv!Executable(R) <=> Conv!Executable(T)) /\ Conv!Received(R) = Conv!Received(T)
  BY <1>2, SameItems
<1>4. ~T.lost /\ T.told = "no"
  BY DEF Sound, Owing, Told, Conv!Unsettled
<1>5. ~Conv!Executable(R) /\ ~R.trouble => n = "none"
  BY <1>1, <1>3 DEF SettledTo, Sound
<1>6. ASSUME Conv!FateOf(R) # "clean" PROVE n # "none" /\
             (n = "released" => Conv!FateOf(R) = "held")
  <2>1. Conv!Received(T) # {}
    BY <1>3, <1>6, <1>2, <1>4 DEF Conv!FateOf
  <2>2. T.trace = "stream"
    <3>1. CASE T.trace # "stream"
      <4>1. T.got = 0
        BY <3>1 DEF Sound, Placed
      <4>2. 1..T.got = {}
        BY <4>1
      <4> QED BY <2>1, <4>2 DEF Conv!Received
    <3> QED BY <3>1
  <2>3. T.got <= Len(T.seen) /\ Len(T.seen) - 2 <= T.got
    BY <2>2 DEF Sound, Placed, IsTurn
  <2>4. Conv!Executable(T)
    BY <2>1, <2>3, InertReceived
  <2>5. m = "attempt"
    BY <1>4, <2>2 DEF Sound, Owing
  <2>6. CASE R.told = "settled"
    <3>1. Conv!Received(T) \subseteq Conv!Delivered(T, FALSE)
      BY <1>2, <2>3, <2>4, <2>6, EndedReceived
    <3>2. n = "released" /\ Conv!Received(R) \subseteq R.kept
      BY <1>2, <1>3, <2>4, <2>6, <3>1
    <3> QED BY <1>2, <1>4, <1>6, <3>2 DEF Conv!FateOf
  <2>7. CASE R.told # "settled"
    BY <1>2, <2>5, <2>7
  <2> QED BY <2>6, <2>7
<1> QED BY <1>2, <1>5, <1>6 DEF Answers, Forgettable

-----------------------------------------------------------------------------
(* The steps.                                                              *)

LEMMA DispatchStep ==
  ASSUME ConversationInv, NEW t \in Conv!Turns, Conv!Dispatch(t)
  PROVE  ConversationInv'
<1>1. TurnInv /\ StoreTypes /\ Conv!Open(t)
  BY DEF ConversationInv, Conv!Dispatch
<1>2. /\ IsTurn(turn[t]) /\ turn[t].phase = "open" /\ marker[t] \in Marks
      /\ Sound(turn[t], marker[t])
  BY <1>1, OpenTurn
<1>3. Admitted(turn[t]) /\ turn[t].pending /\ turn[t].trace \in {"none", "safe"}
  BY DEF Conv!Dispatch, Admitted
<1>4. PICK X : X = [turn[t] EXCEPT !.trace = "sent"]
  OBVIOUS
<1>5. IsTurn(X) /\ Sound(X, marker[t])
  BY <1>2, <1>3, <1>4, DispatchSound
<1>6. Becomes(t, X) /\ X.phase = "open"
  <2>1. X.phase = "open" /\ X.root = turn[t].root
    BY <1>2, <1>4 DEF IsTurn, Fields
  <2>2. DOMAIN turn = Conv!Turns
    BY <1>1 DEF TurnInv, TurnTypes
  <2>3. /\ DOMAIN turn' = Conv!Turns /\ turn'[t] = X
        /\ \A u \in Conv!Turns \ {t} : turn'[u] = turn[u]
    BY <1>4, <2>2 DEF Conv!Dispatch
  <2> QED BY <1>5, <2>1, <2>3 DEF Becomes
<1>7. UNCHANGED <<snaps, marker, broken, fate, inert>> /\ stopping' = stopping
  BY DEF Conv!Dispatch
<1>8. Touches(t) /\ marker'[t] = marker[t]
  BY <1>1, <1>7 DEF TurnInv, TurnTypes, Touches
<1>9. TurnInv'
  BY <1>1, <1>2, <1>3, <1>5, <1>6, <1>7, <1>8, OpenStep
<1> QED BY <1>1, <1>7, <1>9 DEF ConversationInv, StoreTypes

LEMMA SafeFailureStep ==
  ASSUME ConversationInv, NEW t \in Conv!Turns, Conv!SafeFailure(t)
  PROVE  ConversationInv'
<1>1. TurnInv /\ StoreTypes /\ Conv!Open(t)
  BY DEF ConversationInv, Conv!SafeFailure
<1>2. /\ IsTurn(turn[t]) /\ turn[t].phase = "open" /\ marker[t] \in Marks
      /\ Sound(turn[t], marker[t])
  BY <1>1, OpenTurn
<1>3. Admitted(turn[t]) /\ turn[t].trace = "sent"
  BY DEF Conv!SafeFailure, Admitted
<1>4. PICK X : X = [turn[t] EXCEPT !.trace = "safe"]
  OBVIOUS
<1>5. IsTurn(X) /\ Sound(X, marker[t])
  BY <1>2, <1>3, <1>4, SafeSound
<1>6. Becomes(t, X) /\ X.phase = "open"
  <2>1. X.phase = "open" /\ X.root = turn[t].root
    BY <1>2, <1>4 DEF IsTurn, Fields
  <2>2. DOMAIN turn = Conv!Turns
    BY <1>1 DEF TurnInv, TurnTypes
  <2>3. /\ DOMAIN turn' = Conv!Turns /\ turn'[t] = X
        /\ \A u \in Conv!Turns \ {t} : turn'[u] = turn[u]
    BY <1>4, <2>2 DEF Conv!SafeFailure
  <2> QED BY <1>5, <2>1, <2>3 DEF Becomes
<1>7. UNCHANGED <<snaps, marker, broken, fate, inert>> /\ stopping' = stopping
  BY DEF Conv!SafeFailure
<1>8. Touches(t) /\ marker'[t] = marker[t]
  BY <1>1, <1>7 DEF TurnInv, TurnTypes, Touches
<1>9. TurnInv'
  BY <1>1, <1>2, <1>3, <1>5, <1>6, <1>7, <1>8, OpenStep
<1> QED BY <1>1, <1>7, <1>9 DEF ConversationInv, StoreTypes

LEMMA HiddenStep ==
  ASSUME ConversationInv, NEW t \in Conv!Turns, Conv!FailWithOutput(t)
  PROVE  ConversationInv'
<1>1. TurnInv /\ StoreTypes /\ Conv!Open(t)
  BY DEF ConversationInv, Conv!FailWithOutput, Conv!CanObserve, Conv!Streaming, Conv!Open
<1>2. /\ IsTurn(turn[t]) /\ turn[t].phase = "open" /\ marker[t] \in Marks
      /\ Sound(turn[t], marker[t])
  BY <1>1, OpenTurn
<1>3. Admitted(turn[t]) /\ Writing(turn[t])
  BY DEF Conv!FailWithOutput, Admitted, Conv!CanObserve, Conv!Streaming, Writing
<1>4. PICK X : X = [turn[t] EXCEPT !.hidden = TRUE, !.over = "end"]
  OBVIOUS
<1>5. IsTurn(X) /\ Sound(X, marker[t])
  BY <1>2, <1>3, <1>4, HiddenSound
<1>6. Becomes(t, X) /\ X.phase = "open"
  <2>1. X.phase = "open" /\ X.root = turn[t].root
    BY <1>2, <1>4 DEF IsTurn, Fields
  <2>2. DOMAIN turn = Conv!Turns
    BY <1>1 DEF TurnInv, TurnTypes
  <2>3. /\ DOMAIN turn' = Conv!Turns /\ turn'[t] = X
        /\ \A u \in Conv!Turns \ {t} : turn'[u] = turn[u]
    BY <1>4, <2>2 DEF Conv!FailWithOutput
  <2> QED BY <1>5, <2>1, <2>3 DEF Becomes
<1>7. UNCHANGED <<snaps, marker, broken, fate, inert>> /\ stopping' = stopping
  BY DEF Conv!FailWithOutput
<1>8. Touches(t) /\ marker'[t] = marker[t]
  BY <1>1, <1>7 DEF TurnInv, TurnTypes, Touches
<1>9. TurnInv'
  BY <1>1, <1>2, <1>3, <1>5, <1>6, <1>7, <1>8, OpenStep
<1> QED BY <1>1, <1>7, <1>9 DEF ConversationInv, StoreTypes

LEMMA ReadStep ==
  ASSUME ConversationInv, NEW t \in Conv!Turns, Conv!ReadEvent(t)
  PROVE  ConversationInv'
<1>1. TurnInv /\ StoreTypes /\ Conv!Open(t)
  BY DEF ConversationInv, Conv!ReadEvent, Conv!Streaming, Conv!Open
<1>2. /\ IsTurn(turn[t]) /\ turn[t].phase = "open" /\ marker[t] \in Marks
      /\ Sound(turn[t], marker[t])
  BY <1>1, OpenTurn
<1>3. /\ Admitted(turn[t]) /\ turn[t].trace = "stream" /\ Conv!Consumed(turn[t])
      /\ turn[t].read < Len(turn[t].seen) /\ turn[t].over # "read"
  BY DEF Conv!ReadEvent, Admitted, Conv!Streaming
<1>4. PICK X : X = [turn[t] EXCEPT !.read = @ + 1]
  OBVIOUS
<1>5. IsTurn(X) /\ Sound(X, marker[t])
  BY <1>2, <1>3, <1>4, ReadSound
<1>6. Becomes(t, X) /\ X.phase = "open"
  <2>1. X.phase = "open" /\ X.root = turn[t].root
    BY <1>2, <1>4 DEF IsTurn, Fields
  <2>2. DOMAIN turn = Conv!Turns
    BY <1>1 DEF TurnInv, TurnTypes
  <2>3. /\ DOMAIN turn' = Conv!Turns /\ turn'[t] = X
        /\ \A u \in Conv!Turns \ {t} : turn'[u] = turn[u]
    BY <1>4, <2>2 DEF Conv!ReadEvent
  <2> QED BY <1>5, <2>1, <2>3 DEF Becomes
<1>7. UNCHANGED <<snaps, marker, broken, fate, inert>> /\ stopping' = stopping
  BY DEF Conv!ReadEvent
<1>8. Touches(t) /\ marker'[t] = marker[t]
  BY <1>1, <1>7 DEF TurnInv, TurnTypes, Touches
<1>9. TurnInv'
  BY <1>1, <1>2, <1>3, <1>5, <1>6, <1>7, <1>8, OpenStep
<1> QED BY <1>1, <1>7, <1>9 DEF ConversationInv, StoreTypes

LEMMA DeliverStep ==
  ASSUME ConversationInv, NEW t \in Conv!Turns, Conv!Deliver(t)
  PROVE  ConversationInv'
<1>1. TurnInv /\ StoreTypes /\ Conv!Open(t)
  BY DEF ConversationInv, Conv!Deliver, Conv!Streaming, Conv!Open
<1>2. /\ IsTurn(turn[t]) /\ turn[t].phase = "open" /\ marker[t] \in Marks
      /\ Sound(turn[t], marker[t])
  BY <1>1, OpenTurn
<1>3. Admitted(turn[t]) /\ turn[t].trace = "stream" /\ turn[t].got < turn[t].read
  BY DEF Conv!Deliver, Admitted, Conv!Streaming
<1>4. PICK X : X = [turn[t] EXCEPT !.got = @ + 1]
  OBVIOUS
<1>5. IsTurn(X) /\ Sound(X, marker[t])
  BY <1>2, <1>3, <1>4, DeliverSound
<1>6. Becomes(t, X) /\ X.phase = "open"
  <2>1. X.phase = "open" /\ X.root = turn[t].root
    BY <1>2, <1>4 DEF IsTurn, Fields
  <2>2. DOMAIN turn = Conv!Turns
    BY <1>1 DEF TurnInv, TurnTypes
  <2>3. /\ DOMAIN turn' = Conv!Turns /\ turn'[t] = X
        /\ \A u \in Conv!Turns \ {t} : turn'[u] = turn[u]
    BY <1>4, <2>2 DEF Conv!Deliver
  <2> QED BY <1>5, <2>1, <2>3 DEF Becomes
<1>7. UNCHANGED <<snaps, marker, broken, fate, inert>> /\ stopping' = stopping
  BY DEF Conv!Deliver
<1>8. Touches(t) /\ marker'[t] = marker[t]
  BY <1>1, <1>7 DEF TurnInv, TurnTypes, Touches
<1>9. TurnInv'
  BY <1>1, <1>2, <1>3, <1>5, <1>6, <1>7, <1>8, OpenStep
<1> QED BY <1>1, <1>7, <1>9 DEF ConversationInv, StoreTypes

LEMMA GoneStep ==
  ASSUME ConversationInv, NEW t \in Conv!Turns, Conv!ClientEnds(t)
  PROVE  ConversationInv'
<1>1. TurnInv /\ StoreTypes /\ Conv!Open(t)
  BY DEF ConversationInv, Conv!ClientEnds
<1>2. /\ IsTurn(turn[t]) /\ turn[t].phase = "open" /\ marker[t] \in Marks
      /\ Sound(turn[t], marker[t])
  BY <1>1, OpenTurn
<1>3. Admitted(turn[t]) /\ turn[t].trace \in {"sent", "stream"}
  BY DEF Conv!ClientEnds, Admitted
<1>4. PICK X : X = [turn[t] EXCEPT !.gone = TRUE]
  OBVIOUS
<1>5. IsTurn(X) /\ Sound(X, marker[t])
  BY <1>2, <1>3, <1>4, GoneSound
<1>6. Becomes(t, X) /\ X.phase = "open"
  <2>1. X.phase = "open" /\ X.root = turn[t].root
    BY <1>2, <1>4 DEF IsTurn, Fields
  <2>2. DOMAIN turn = Conv!Turns
    BY <1>1 DEF TurnInv, TurnTypes
  <2>3. /\ DOMAIN turn' = Conv!Turns /\ turn'[t] = X
        /\ \A u \in Conv!Turns \ {t} : turn'[u] = turn[u]
    BY <1>4, <2>2 DEF Conv!ClientEnds
  <2> QED BY <1>5, <2>1, <2>3 DEF Becomes
<1>7. UNCHANGED <<snaps, marker, broken, fate, inert>> /\ stopping' = stopping
  BY DEF Conv!ClientEnds
<1>8. Touches(t) /\ marker'[t] = marker[t]
  BY <1>1, <1>7 DEF TurnInv, TurnTypes, Touches
<1>9. TurnInv'
  BY <1>1, <1>2, <1>3, <1>5, <1>6, <1>7, <1>8, OpenStep
<1> QED BY <1>1, <1>7, <1>9 DEF ConversationInv, StoreTypes

LEMMA CommitStep ==
  ASSUME ConversationInv, NEW t \in Conv!Turns, NEW bridged \in BOOLEAN,
         Conv!Commit(t, bridged)
  PROVE  ConversationInv'
<1>1. TurnInv /\ StoreTypes /\ Conv!Open(t)
  BY DEF ConversationInv, Conv!Commit
<1>2. /\ IsTurn(turn[t]) /\ turn[t].phase = "open" /\ marker[t] \in Marks
      /\ Sound(turn[t], marker[t])
  BY <1>1, OpenTurn
<1>3. Admitted(turn[t]) /\ turn[t].trace = "sent"
  BY DEF Conv!Commit, Admitted
<1>4. PICK X : X = [turn[t] EXCEPT !.trace = "stream", !.bridged = bridged,
                                   !.seen = <<"created">>, !.read = 1, !.got = 1]
  OBVIOUS
<1>5. IsTurn(X) /\ Sound(X, marker[t])
  BY <1>2, <1>3, <1>4, CommitSound, ZenonT(60)
<1>6. Becomes(t, X) /\ X.phase = "open"
  <2>1. X.phase = "open" /\ X.root = turn[t].root
    BY <1>2, <1>4 DEF IsTurn, Fields
  <2>2. DOMAIN turn = Conv!Turns
    BY <1>1 DEF TurnInv, TurnTypes
  <2>3. /\ DOMAIN turn' = Conv!Turns /\ turn'[t] = X
        /\ \A u \in Conv!Turns \ {t} : turn'[u] = turn[u]
    BY <1>4, <2>2 DEF Conv!Commit
  <2> QED BY <1>5, <2>1, <2>3 DEF Becomes
<1>7. UNCHANGED <<snaps, marker, broken, fate, inert>> /\ stopping' = stopping
  BY DEF Conv!Commit
<1>8. Touches(t) /\ marker'[t] = marker[t]
  BY <1>1, <1>7 DEF TurnInv, TurnTypes, Touches
<1>9. TurnInv'
  BY <1>1, <1>2, <1>3, <1>5, <1>6, <1>7, <1>8, OpenStep
<1> QED BY <1>1, <1>7, <1>9 DEF ConversationInv, StoreTypes

LEMMA ObserveStep ==
  ASSUME ConversationInv, NEW t \in Conv!Turns, NEW kind \in Conv!Kinds, NEW cut \in BOOLEAN,
         Conv!Observe(t, kind, cut)
  PROVE  ConversationInv'
<1>1. TurnInv /\ StoreTypes /\ Conv!Open(t)
  BY DEF ConversationInv, Conv!Observe, Conv!CanObserve, Conv!Streaming, Conv!Open
<1>2. /\ IsTurn(turn[t]) /\ turn[t].phase = "open" /\ marker[t] \in Marks
      /\ Sound(turn[t], marker[t])
  BY <1>1, OpenTurn
<1>3. Admitted(turn[t]) /\ Writing(turn[t]) /\ (cut => turn[t].bridged)
  BY DEF Conv!Observe, Admitted, Conv!CanObserve, Conv!Streaming, Writing
<1>4. PICK X : X = [turn[t] EXCEPT !.seen = Append(@, kind), !.cut = cut]
  OBVIOUS
<1>5. IsTurn(X) /\ Sound(X, marker[t])
  BY <1>2, <1>3, <1>4, ObserveSound, ZenonT(60)
<1>6. Becomes(t, X) /\ X.phase = "open"
  <2>1. X.phase = "open" /\ X.root = turn[t].root
    BY <1>2, <1>4 DEF IsTurn, Fields
  <2>2. DOMAIN turn = Conv!Turns
    BY <1>1 DEF TurnInv, TurnTypes
  <2>3. /\ DOMAIN turn' = Conv!Turns /\ turn'[t] = X
        /\ \A u \in Conv!Turns \ {t} : turn'[u] = turn[u]
    BY <1>4, <2>2 DEF Conv!Observe
  <2> QED BY <1>5, <2>1, <2>3 DEF Becomes
<1>7. UNCHANGED <<snaps, marker, broken, fate, inert>> /\ stopping' = stopping
  BY DEF Conv!Observe
<1>8. Touches(t) /\ marker'[t] = marker[t]
  BY <1>1, <1>7 DEF TurnInv, TurnTypes, Touches
<1>9. TurnInv'
  BY <1>1, <1>2, <1>3, <1>5, <1>6, <1>7, <1>8, OpenStep
<1> QED BY <1>1, <1>7, <1>9 DEF ConversationInv, StoreTypes

LEMMA ReadEndStep ==
  ASSUME ConversationInv, NEW t \in Conv!Turns, Conv!ReadEnd(t)
  PROVE  ConversationInv'
<1>1. TurnInv /\ StoreTypes /\ Conv!Open(t)
  BY DEF ConversationInv, Conv!ReadEnd, Conv!Streaming, Conv!Open
<1>2. /\ IsTurn(turn[t]) /\ turn[t].phase = "open" /\ marker[t] \in Marks
      /\ Sound(turn[t], marker[t])
  BY <1>1, OpenTurn
<1>3. /\ Admitted(turn[t]) /\ turn[t].trace = "stream" /\ Conv!AtEnd(turn[t])
      /\ Conv!Known(turn[t]) \/ Conv!ClientEnded(turn[t]) \/ turn[t].blocked
  BY DEF Conv!ReadEnd, Admitted, Conv!Streaming
<1>4. PICK X : X = [turn[t] EXCEPT !.over = "read",
        !.uncertain = @ \/ (~Conv!Known(turn[t]) /\ ~Conv!ClientEnded(turn[t]))]
  OBVIOUS
<1>5. IsTurn(X) /\ Sound(X, marker[t])
  BY <1>2, <1>3, <1>4, ReadEndSound, ZenonT(60)
<1>6. Becomes(t, X) /\ X.phase = "open"
  <2>1. X.phase = "open" /\ X.root = turn[t].root
    BY <1>2, <1>4 DEF IsTurn, Fields
  <2>2. DOMAIN turn = Conv!Turns
    BY <1>1 DEF TurnInv, TurnTypes
  <2>3. /\ DOMAIN turn' = Conv!Turns /\ turn'[t] = X
        /\ \A u \in Conv!Turns \ {t} : turn'[u] = turn[u]
    BY <1>4, <2>2 DEF Conv!ReadEnd
  <2> QED BY <1>5, <2>1, <2>3 DEF Becomes
<1>7. UNCHANGED <<snaps, marker, broken, fate, inert>> /\ stopping' = stopping
  BY DEF Conv!ReadEnd
<1>8. Touches(t) /\ marker'[t] = marker[t]
  BY <1>1, <1>7 DEF TurnInv, TurnTypes, Touches
<1>9. TurnInv'
  BY <1>1, <1>2, <1>3, <1>5, <1>6, <1>7, <1>8, OpenStep
<1> QED BY <1>1, <1>7, <1>9 DEF ConversationInv, StoreTypes

LEMMA AmbiguousStep ==
  ASSUME ConversationInv, NEW t \in Conv!Turns, Conv!AmbiguousFailure(t)
  PROVE  ConversationInv'
<1>1. TurnInv /\ StoreTypes /\ Conv!Open(t)
  BY DEF ConversationInv, Conv!AmbiguousFailure
<1>2. /\ IsTurn(turn[t]) /\ turn[t].phase = "open" /\ marker[t] \in Marks
      /\ Sound(turn[t], marker[t])
  BY <1>1, OpenTurn
<1>3. Admitted(turn[t]) /\ turn[t].trace = "sent"
  BY DEF Conv!AmbiguousFailure, Admitted
<1>10. PICK c \in BOOLEAN :
        turn' = [turn EXCEPT ![t].trace = "unsafe", ![t].blocked = ~c, ![t].lost = ~c]
  <2>1. Conv!ClientEnded(turn[t]) \in BOOLEAN
    BY DEF Conv!ClientEnded
  <2> QED BY <2>1 DEF Conv!AmbiguousFailure
<1>4. PICK X : X = [turn[t] EXCEPT !.trace = "unsafe", !.blocked = ~c, !.lost = ~c]
  OBVIOUS
<1>5. IsTurn(X) /\ Sound(X, marker[t])
  BY <1>2, <1>3, <1>4, AmbiguousSound, ZenonT(60)
<1>6. Becomes(t, X) /\ X.phase = "open"
  <2>1. X.phase = "open" /\ X.root = turn[t].root
    BY <1>2, <1>4 DEF IsTurn, Fields
  <2>2. DOMAIN turn = Conv!Turns
    BY <1>1 DEF TurnInv, TurnTypes
  <2>3. /\ DOMAIN turn' = Conv!Turns /\ turn'[t] = X
        /\ \A u \in Conv!Turns \ {t} : turn'[u] = turn[u]
    BY <1>4, <2>2, <1>10 DEF Conv!AmbiguousFailure
  <2> QED BY <1>5, <2>1, <2>3 DEF Becomes
<1>7. UNCHANGED <<snaps, marker, broken, fate, inert>> /\ stopping' = stopping
  BY DEF Conv!AmbiguousFailure
<1>8. Touches(t) /\ marker'[t] = marker[t]
  BY <1>1, <1>7 DEF TurnInv, TurnTypes, Touches
<1>9. TurnInv'
  BY <1>1, <1>2, <1>3, <1>5, <1>6, <1>7, <1>8, OpenStep
<1> QED BY <1>1, <1>7, <1>9 DEF ConversationInv, StoreTypes

LEMMA BridgedEndStep ==
  ASSUME ConversationInv, NEW t \in Conv!Turns, Conv!ReadEndBridged(t)
  PROVE  ConversationInv'
<1>1. TurnInv /\ StoreTypes /\ Conv!Open(t)
  BY DEF ConversationInv, Conv!ReadEndBridged, Conv!Streaming, Conv!Open
<1>2. /\ IsTurn(turn[t]) /\ turn[t].phase = "open" /\ marker[t] \in Marks
      /\ Sound(turn[t], marker[t])
  BY <1>1, OpenTurn
<1>3. /\ Admitted(turn[t]) /\ turn[t].trace = "stream" /\ Conv!AtEnd(turn[t])
      /\ ~Conv!Known(turn[t]) /\ ~turn[t].blocked
  BY DEF Conv!ReadEndBridged, Admitted, Conv!Streaming
<1>10. PICK bad \in BOOLEAN :
        bad <=> ~turn[t].handoff /\ Conv!Executable(turn[t]) /\ Conv!Unsavable(turn[t], TRUE)
  BY Zenon
<1>11. turn' = [turn EXCEPT ![t].over = "read", ![t].uncertain = @ \/ bad,
                            ![t].handoff = @ \/ ~bad]
  BY <1>10 DEF Conv!ReadEndBridged
<1>4. PICK X : X = [turn[t] EXCEPT !.over = "read", !.uncertain = @ \/ bad,
                                   !.handoff = @ \/ ~bad]
  OBVIOUS
<1>5. IsTurn(X) /\ Sound(X, marker[t])
  BY <1>2, <1>3, <1>4, <1>10, BridgedEndSound, ZenonT(60)
<1>6. Becomes(t, X) /\ X.phase = "open"
  <2>1. X.phase = "open" /\ X.root = turn[t].root
    BY <1>2, <1>4 DEF IsTurn, Fields
  <2>2. DOMAIN turn = Conv!Turns
    BY <1>1 DEF TurnInv, TurnTypes
  <2>3. /\ DOMAIN turn' = Conv!Turns /\ turn'[t] = X
        /\ \A u \in Conv!Turns \ {t} : turn'[u] = turn[u]
    BY <1>4, <2>2, <1>11 DEF Conv!ReadEndBridged
  <2> QED BY <1>5, <2>1, <2>3 DEF Becomes
<1>7. UNCHANGED <<snaps, marker, broken, fate, inert>> /\ stopping' = stopping
  BY DEF Conv!ReadEndBridged
<1>8. Touches(t) /\ marker'[t] = marker[t]
  BY <1>1, <1>7 DEF TurnInv, TurnTypes, Touches
<1>9. TurnInv'
  BY <1>1, <1>2, <1>3, <1>5, <1>6, <1>7, <1>8, OpenStep
<1> QED BY <1>1, <1>7, <1>9 DEF ConversationInv, StoreTypes

LEMMA DeferStep ==
  ASSUME ConversationInv, NEW t \in Conv!Turns, Conv!FailDeferred(t)
  PROVE  ConversationInv'
<1>1. TurnInv /\ StoreTypes /\ Conv!Open(t)
  BY DEF ConversationInv, Conv!FailDeferred, Conv!CanObserve, Conv!Streaming, Conv!Open
<1>2. /\ IsTurn(turn[t]) /\ turn[t].phase = "open" /\ marker[t] \in Marks
      /\ Sound(turn[t], marker[t])
  BY <1>1, OpenTurn
<1>3. Admitted(turn[t]) /\ Writing(turn[t]) /\ Conv!Executable(turn[t])
  BY DEF Conv!FailDeferred, Admitted, Conv!CanObserve, Conv!Streaming, Writing
<1>4. PICK X : X = IF Conv!Unsavable(turn[t], TRUE) THEN [turn[t] EXCEPT !.over = "end"]
              ELSE [turn[t] EXCEPT !.handoff = TRUE, !.seen = Append(@, "failed")]
  OBVIOUS
<1>5. IsTurn(X) /\ Sound(X, marker[t])
  <2>1. CASE Conv!Unsavable(turn[t], TRUE)
    <3>1. X = [turn[t] EXCEPT !.over = "end"]
      BY <1>4, <2>1
    <3> QED BY <1>2, <1>3, <3>1, EndSound
  <2>2. CASE ~Conv!Unsavable(turn[t], TRUE)
    <3>1. X = [turn[t] EXCEPT !.handoff = TRUE, !.seen = Append(@, "failed")]
      BY <1>4, <2>2
    <3> QED BY <1>2, <1>3, <2>2, <3>1, DeferSound
  <2> QED BY <2>1, <2>2
<1>6. Becomes(t, X) /\ X.phase = "open"
  <2>1. X.phase = "open" /\ X.root = turn[t].root
    BY <1>2, <1>4 DEF IsTurn, Fields
  <2>2. DOMAIN turn = Conv!Turns
    BY <1>1 DEF TurnInv, TurnTypes
  <2>3. /\ DOMAIN turn' = Conv!Turns /\ turn'[t] = X
        /\ \A u \in Conv!Turns \ {t} : turn'[u] = turn[u]
    BY <1>4, <2>2 DEF Conv!FailDeferred
  <2> QED BY <1>5, <2>1, <2>3 DEF Becomes
<1>7. UNCHANGED <<snaps, marker, broken, fate, inert>> /\ stopping' = stopping
  BY DEF Conv!FailDeferred
<1>8. Touches(t) /\ marker'[t] = marker[t]
  BY <1>1, <1>7 DEF TurnInv, TurnTypes, Touches
<1>9. TurnInv'
  BY <1>1, <1>2, <1>3, <1>5, <1>6, <1>7, <1>8, OpenStep
<1> QED BY <1>1, <1>7, <1>9 DEF ConversationInv, StoreTypes

LEMMA CompletionStep ==
  ASSUME ConversationInv, NEW t \in Conv!Turns, NEW w \in Conv!Writes, Conv!Complete(t, w) \/
         Conv!Unprotect(t, w)
  PROVE  ConversationInv'
<1>1. TurnInv /\ StoreTypes /\ Conv!Open(t)
  BY DEF ConversationInv, Conv!Complete, Conv!Unprotect, Conv!CanObserve, Conv!Streaming,
     Conv!Open
<1>2. /\ IsTurn(turn[t]) /\ turn[t].phase = "open" /\ marker[t] \in Marks
      /\ Sound(turn[t], marker[t])
  BY <1>1, OpenTurn
<1>3. Admitted(turn[t]) /\ Writing(turn[t])
  BY DEF Conv!Complete, Conv!Unprotect, Admitted, Conv!CanObserve, Conv!Streaming, Writing
<1>10. /\ marker' = IF Conv!Commits(w) THEN Conv!Cleared(turn[t].root) ELSE marker
       /\ UNCHANGED <<fate, inert>> /\ stopping' = stopping /\ broken' \in BOOLEAN
  BY <1>1 DEF Conv!Complete, Conv!Unprotect, Conv!Write, StoreTypes
<1>11. Touches(t) /\ marker'[t] = IF Conv!Commits(w) THEN "none" ELSE marker[t]
  <2>1. CASE Conv!Commits(w)
    BY <1>1, <1>10, <2>1, ClearedMarkers
  <2>2. CASE ~Conv!Commits(w)
    BY <1>1, <1>10, <2>2 DEF TurnInv, TurnTypes, Touches
  <2> QED BY <2>1, <2>2
<1> DEFINE A == [turn[t] EXCEPT !.saved = TRUE, !.seen = Append(@, "completed"),
                                !.told = "complete"]
           B == [turn[t] EXCEPT !.unprotected = TRUE, !.blocked = TRUE, !.pending = FALSE,
                                !.seen = Append(@, "completed"), !.told = "complete"]
           D == [turn[t] EXCEPT !.blocked = TRUE, !.trouble = TRUE, !.over = "end",
                                !.told = IF Conv!Commits(w) THEN "complete" ELSE @]
<1>4. PICK X : /\ turn' = [turn EXCEPT ![t] = X]
              /\ IF w = "ok" THEN X = A \/ X = B ELSE X = D
  BY DEF Conv!Complete, Conv!Unprotect
<1>12. X.phase = "open" /\ X.root = turn[t].root
  <2>1. A.phase = "open" /\ A.root = turn[t].root
    BY <1>2 DEF IsTurn, Fields
  <2>2. B.phase = "open" /\ B.root = turn[t].root
    BY <1>2 DEF IsTurn, Fields
  <2>3. D.phase = "open" /\ D.root = turn[t].root
    BY <1>2 DEF IsTurn, Fields
  <2> QED BY <1>4, <2>1, <2>2, <2>3, ZenonT(60)
<1>5. IsTurn(X) /\ Sound(X, marker'[t])
  <2>1. CASE w = "ok"
    <3>1. IsTurn(X) /\ Sound(X, "none")
      BY <1>2, <1>3, <1>4, <2>1, CompleteSound
    <3> QED BY <1>11, <2>1, <3>1, SMTT(60) DEF Conv!Commits
  <2>2. CASE w # "ok"
    <3>1. PICK c \in BOOLEAN : c <=> Conv!Commits(w)
      BY Zenon
    <3>2. X = [turn[t] EXCEPT !.blocked = TRUE, !.trouble = TRUE, !.over = "end",
                              !.told = IF c THEN "complete" ELSE @]
      BY <1>4, <2>2, <3>1
    <3>3. marker'[t] = IF c THEN "none" ELSE marker[t]
      BY <1>11, <3>1
    <3> QED BY <1>2, <1>3, <3>2, <3>3, DoubtSound, ZenonT(60)
  <2> QED BY <2>1, <2>2
<1>6. Becomes(t, X)
  <2>1. DOMAIN turn = Conv!Turns
    BY <1>1 DEF TurnInv, TurnTypes
  <2> QED BY <1>4, <1>5, <1>12, <2>1 DEF Becomes
<1>7. TurnInv'
  BY <1>1, <1>3, <1>5, <1>6, <1>10, <1>11, <1>12, OpenStep
<1>8. snaps' \in [0..N -> Roots]
  BY <1>1, <1>2 DEF Conv!Complete, Conv!Unprotect, StoreTypes, IsTurn
<1> QED BY <1>1, <1>7, <1>8, <1>10 DEF ConversationInv, StoreTypes

\* What the turn is remembered to have saved.
Keeps(t, w) ==
  turn'[t].phase = "open" /\ turn'[t].kept = Conv!SettleAs(turn[t], TRUE, w).kept

LEMMA FailedEarlyStep ==
  ASSUME ConversationInv, NEW t \in Conv!Turns, NEW w \in Conv!Writes,
         Conv!FailedBeforeCommit(t, w)
  PROVE  ConversationInv' /\ Keeps(t, w)
<1>1. TurnInv /\ StoreTypes /\ Conv!Open(t) /\ Conv!SettleStore(t, turn[t], TRUE, w)
  BY DEF ConversationInv, Conv!FailedBeforeCommit
<1>2. /\ IsTurn(turn[t]) /\ turn[t].phase = "open" /\ marker[t] \in Marks
      /\ Sound(turn[t], marker[t])
  BY <1>1, OpenTurn
<1>3. Admitted(turn[t]) /\ turn[t].trace = "sent"
  BY DEF Conv!FailedBeforeCommit, Admitted
<1>4. /\ Touches(t) /\ marker'[t] = MarkAfter(turn[t], TRUE, w, marker[t])
      /\ ~Conv!Needs(turn[t], TRUE) => w = "ok"
      /\ Snapped(t, Saves(turn[t], TRUE, w))
      /\ broken' \in BOOLEAN
  BY <1>1, StoreSettled
<1>5. PICK S : S = Conv!SettleAs(turn[t], TRUE, w)
  OBVIOUS
<1>6. PICK n : n = MarkAfter(turn[t], TRUE, w, marker[t])
  OBVIOUS
<1>7. SettledTo(turn[t], TRUE, w, marker[t], S, n)
  BY <1>2, <1>4, <1>5, <1>6, Settled
<1>8. /\ IsTurn(S) /\ S.phase = "open" /\ S.root = turn[t].root
      /\ S.handoff = turn[t].handoff /\ S.uncertain = turn[t].uncertain
      /\ S.over = turn[t].over /\ S.seen = turn[t].seen /\ S.trace = turn[t].trace
  BY <1>2, <1>7 DEF SettledTo, Fields
<1>9. PICK X : X = Unsafely(S)
  OBVIOUS
<1>10. turn' = [turn EXCEPT ![t] = X]
  BY <1>5, <1>9 DEF Conv!FailedBeforeCommit, Unsafely
<1>11. IsTurn(X) /\ Sound(X, n) /\ X.phase = "open" /\ X.root = S.root /\ X.kept = S.kept
  <2>1. X.phase = "open" /\ X.root = S.root /\ X.kept = S.kept
    BY <1>8, <1>9 DEF IsTurn, Fields, Unsafely
  <2>2. IsTurn(X) /\ Sound(X, n)
    BY <1>2, <1>3, <1>4, <1>5, <1>6, <1>9, FailedEarlySound
  <2> QED BY <2>1, <2>2
<1>12. Becomes(t, X)
  <2>1. DOMAIN turn = Conv!Turns
    BY <1>1 DEF TurnInv, TurnTypes
  <2> QED BY <1>8, <1>10, <1>11, <2>1 DEF Becomes
<1>13. UNCHANGED <<fate, inert>> /\ stopping' = stopping
  BY DEF Conv!FailedBeforeCommit
<1>14. TurnInv'
  BY <1>1, <1>3, <1>4, <1>6, <1>11, <1>12, <1>13, OpenStep
<1>15. snaps' \in [0..N -> Roots]
  <2>1. turn[t].root \in Roots
    BY <1>2 DEF IsTurn
  <2> QED BY <1>1, <1>4, <2>1, SnapTypes
<1>16. Keeps(t, w)
  BY <1>5, <1>11, <1>12 DEF Becomes, Keeps
<1> QED BY <1>1, <1>4, <1>13, <1>14, <1>15, <1>16 DEF ConversationInv, StoreTypes

LEMMA FailedInertStep ==
  ASSUME ConversationInv, NEW t \in Conv!Turns, NEW w \in Conv!Writes, Conv!FailInert(t, w)
  PROVE  ConversationInv' /\ Keeps(t, w)
<1>1. TurnInv /\ StoreTypes /\ Conv!Open(t) /\ Conv!SettleStore(t, turn[t], TRUE, w)
  BY DEF ConversationInv, Conv!FailInert, Conv!CanObserve, Conv!Streaming, Conv!Open
<1>2. /\ IsTurn(turn[t]) /\ turn[t].phase = "open" /\ marker[t] \in Marks
      /\ Sound(turn[t], marker[t])
  BY <1>1, OpenTurn
<1>3. Admitted(turn[t]) /\ Writing(turn[t]) /\ ~Conv!Executable(turn[t])
  BY DEF Conv!FailInert, Admitted, Conv!CanObserve, Conv!Streaming, Writing
<1>4. /\ Touches(t) /\ marker'[t] = MarkAfter(turn[t], TRUE, w, marker[t])
      /\ ~Conv!Needs(turn[t], TRUE) => w = "ok"
      /\ Snapped(t, Saves(turn[t], TRUE, w))
      /\ broken' \in BOOLEAN
  BY <1>1, StoreSettled
<1>5. PICK S : S = Conv!SettleAs(turn[t], TRUE, w)
  OBVIOUS
<1>6. PICK n : n = MarkAfter(turn[t], TRUE, w, marker[t])
  OBVIOUS
<1>7. SettledTo(turn[t], TRUE, w, marker[t], S, n)
  BY <1>2, <1>4, <1>5, <1>6, Settled
<1>8. /\ IsTurn(S) /\ S.phase = "open" /\ S.root = turn[t].root
      /\ S.handoff = turn[t].handoff /\ S.uncertain = turn[t].uncertain
      /\ S.over = turn[t].over /\ S.seen = turn[t].seen /\ S.trace = turn[t].trace
  BY <1>2, <1>7 DEF SettledTo, Fields
<1>9. PICK X : X = IF S.failed THEN [S EXCEPT !.seen = Append(@, "failed")]
              ELSE [S EXCEPT !.over = "end"]
  OBVIOUS
<1>10. turn' = [turn EXCEPT ![t] = X]
  BY <1>5, <1>9 DEF Conv!FailInert
<1>11. IsTurn(X) /\ Sound(X, n) /\ X.phase = "open" /\ X.root = S.root /\ X.kept = S.kept
  <2>1. CASE S.failed
    <3>1. X = [S EXCEPT !.seen = Append(@, "failed")]
      BY <1>9, <2>1
    <3>2. FailedAs(X, S)
      BY <1>8, <3>1, FailedType
    <3>3. Sound(X, n)
      BY <1>2, <1>3, <1>4, <1>5, <1>6, <2>1, <3>2, FailedInertSound
    <3> QED BY <1>8, <3>2, <3>3 DEF FailedAs, Fields
  <2>2. CASE ~S.failed
    <3>1. X = [S EXCEPT !.over = "end"]
      BY <1>9, <2>2
    <3>2. /\ EndedAs(X, S) /\ X.over = "end"
          /\ X.handoff = turn[t].handoff /\ X.uncertain = turn[t].uncertain
      BY <1>8, <3>1, EndedType
    <3>3. turn[t].trace = "stream" /\ ~turn[t].handoff
      BY <1>2, <1>3, WritingTold DEF Writing
    <3>4. Ended(X) /\ ~X.handoff /\ (X.uncertain => turn[t].uncertain)
      BY <3>2, <3>3 DEF Ended
    <3>5. Sound(X, n)
      BY <1>2, <1>3, <1>4, <1>5, <1>6, <3>2, <3>3, <3>4, SettledSound
    <3> QED BY <1>8, <3>2, <3>5 DEF EndedAs, Fields
  <2> QED BY <2>1, <2>2
<1>12. Becomes(t, X)
  <2>1. DOMAIN turn = Conv!Turns
    BY <1>1 DEF TurnInv, TurnTypes
  <2> QED BY <1>8, <1>10, <1>11, <2>1 DEF Becomes
<1>13. UNCHANGED <<fate, inert>> /\ stopping' = stopping
  BY DEF Conv!FailInert
<1>14. TurnInv'
  BY <1>1, <1>3, <1>4, <1>6, <1>11, <1>12, <1>13, OpenStep
<1>15. snaps' \in [0..N -> Roots]
  <2>1. turn[t].root \in Roots
    BY <1>2 DEF IsTurn
  <2> QED BY <1>1, <1>4, <2>1, SnapTypes
<1>16. Keeps(t, w)
  BY <1>5, <1>11, <1>12 DEF Becomes, Keeps
<1> QED BY <1>1, <1>4, <1>13, <1>14, <1>15, <1>16 DEF ConversationInv, StoreTypes

LEMMA StartReadStep ==
  ASSUME ConversationInv, NEW t \in Conv!Turns, NEW w \in Conv!Writes,
         Conv!StartReadSettling(t, w)
  PROVE  ConversationInv' /\ Keeps(t, w)
<1>1. TurnInv /\ StoreTypes /\ Conv!Open(t) /\ Conv!SettleStore(t, turn[t], TRUE, w)
  BY DEF ConversationInv, Conv!StartReadSettling, Conv!Streaming, Conv!Open
<1>2. /\ IsTurn(turn[t]) /\ turn[t].phase = "open" /\ marker[t] \in Marks
      /\ Sound(turn[t], marker[t])
  BY <1>1, OpenTurn
<1>3. /\ Admitted(turn[t]) /\ turn[t].trace = "stream"
      /\ Conv!Consumed(turn[t]) /\ Conv!Due(turn[t])
  BY DEF Conv!StartReadSettling, Admitted, Conv!Streaming
<1>4. /\ Touches(t) /\ marker'[t] = MarkAfter(turn[t], TRUE, w, marker[t])
      /\ ~Conv!Needs(turn[t], TRUE) => w = "ok"
      /\ Snapped(t, Saves(turn[t], TRUE, w))
      /\ broken' \in BOOLEAN
  BY <1>1, StoreSettled
<1>5. PICK S : S = Conv!SettleAs(turn[t], TRUE, w)
  OBVIOUS
<1>6. PICK n : n = MarkAfter(turn[t], TRUE, w, marker[t])
  OBVIOUS
<1>7. SettledTo(turn[t], TRUE, w, marker[t], S, n)
  BY <1>2, <1>4, <1>5, <1>6, Settled
<1>8. /\ IsTurn(S) /\ S.phase = "open" /\ S.root = turn[t].root
      /\ S.handoff = turn[t].handoff /\ S.uncertain = turn[t].uncertain
      /\ S.over = turn[t].over /\ S.seen = turn[t].seen /\ S.trace = turn[t].trace
  BY <1>2, <1>7 DEF SettledTo, Fields
<1>9. PICK X : X = [[S EXCEPT !.handoff = FALSE] EXCEPT
                !.over = IF S.failed THEN @ ELSE "read"]
  OBVIOUS
<1>10. turn' = [turn EXCEPT ![t] = X]
  BY <1>5, <1>9 DEF Conv!StartReadSettling
<1>11. IsTurn(X) /\ Sound(X, n) /\ X.phase = "open" /\ X.root = S.root /\ X.kept = S.kept
  <2>6. PICK o \in {"no", "end", "read"} : X = Handed(S, o)
    <3>1. S.over \in {"no", "end", "read"}
      BY <1>8 DEF IsTurn
    <3>2. [S EXCEPT !.handoff = FALSE].over = S.over
      BY <1>8 DEF IsTurn, Fields
    <3> QED BY <1>9, <3>1, <3>2 DEF Handed
  <2>1. /\ EndedAs(X, S) /\ ~X.handoff /\ X.uncertain = turn[t].uncertain
        /\ X.phase = "open" /\ X.root = S.root /\ X.kept = S.kept /\ IsTurn(X) /\
           X.seen = turn[t].seen
    <3>1. EndedAs(X, S) /\ ~X.handoff /\ X.uncertain = S.uncertain
      BY <1>8, <2>6, HandedType
    <3> QED BY <1>8, <3>1 DEF EndedAs, Fields
  <2>2. /\ turn[t].read = Len(turn[t].seen) /\ turn[t].seen[Len(turn[t].seen)] = "failed"
        /\ turn[t].seen # <<>> /\ "failed" \in Conv!Terminals
    BY <1>2, <1>3 DEF Conv!Due, Sound, Placed, Conv!Terminals
  <2>3. turn[t].got = turn[t].read
    BY <1>2, <1>3, <2>2 DEF Conv!Consumed, Sound, Placed
  <2>4. Ended(X)
    BY <2>1, <2>2 DEF Ended
  <2>5. Sound(X, n)
    BY <1>2, <1>3, <1>4, <1>5, <1>6, <2>1, <2>2, <2>3, <2>4, SettledSound, ZenonT(60)
  <2> QED BY <2>1, <2>5
<1>12. Becomes(t, X)
  <2>1. DOMAIN turn = Conv!Turns
    BY <1>1 DEF TurnInv, TurnTypes
  <2> QED BY <1>8, <1>10, <1>11, <2>1 DEF Becomes
<1>13. UNCHANGED <<fate, inert>> /\ stopping' = stopping
  BY DEF Conv!StartReadSettling
<1>14. TurnInv'
  BY <1>1, <1>3, <1>4, <1>6, <1>11, <1>12, <1>13, OpenStep
<1>15. snaps' \in [0..N -> Roots]
  <2>1. turn[t].root \in Roots
    BY <1>2 DEF IsTurn
  <2> QED BY <1>1, <1>4, <2>1, SnapTypes
<1>16. Keeps(t, w)
  BY <1>5, <1>11, <1>12 DEF Becomes, Keeps
<1> QED BY <1>1, <1>4, <1>13, <1>14, <1>15, <1>16 DEF ConversationInv, StoreTypes

LEMMA ReadEndSettlingStep ==
  ASSUME ConversationInv, NEW t \in Conv!Turns, NEW w \in Conv!Writes,
         Conv!ReadEndSettling(t, w)
  PROVE  ConversationInv' /\ Keeps(t, w)
<1>1. TurnInv /\ StoreTypes /\ Conv!Open(t) /\ Conv!SettleStore(t, turn[t], TRUE, w)
  BY DEF ConversationInv, Conv!ReadEndSettling, Conv!Streaming, Conv!Open
<1>2. /\ IsTurn(turn[t]) /\ turn[t].phase = "open" /\ marker[t] \in Marks
      /\ Sound(turn[t], marker[t])
  BY <1>1, OpenTurn
<1>3. /\ Admitted(turn[t]) /\ turn[t].trace = "stream"
      /\ Conv!AtEnd(turn[t]) /\ ~turn[t].bridged /\ ~Conv!Known(turn[t]) /\ ~turn[t].blocked
  BY DEF Conv!ReadEndSettling, Admitted, Conv!Streaming
<1>4. /\ Touches(t) /\ marker'[t] = MarkAfter(turn[t], TRUE, w, marker[t])
      /\ ~Conv!Needs(turn[t], TRUE) => w = "ok"
      /\ Snapped(t, Saves(turn[t], TRUE, w))
      /\ broken' \in BOOLEAN
  BY <1>1, StoreSettled
<1>5. PICK S : S = Conv!SettleAs(turn[t], TRUE, w)
  OBVIOUS
<1>6. PICK n : n = MarkAfter(turn[t], TRUE, w, marker[t])
  OBVIOUS
<1>7. SettledTo(turn[t], TRUE, w, marker[t], S, n)
  BY <1>2, <1>4, <1>5, <1>6, Settled
<1>8. /\ IsTurn(S) /\ S.phase = "open" /\ S.root = turn[t].root
      /\ S.handoff = turn[t].handoff /\ S.uncertain = turn[t].uncertain
      /\ S.over = turn[t].over /\ S.seen = turn[t].seen /\ S.trace = turn[t].trace
  BY <1>2, <1>7 DEF SettledTo, Fields
<1>9. PICK X : X = [S EXCEPT !.over = "read", !.uncertain = ~S.failed]
  OBVIOUS
<1>10. turn' = [turn EXCEPT ![t] = X]
  BY <1>5, <1>9 DEF Conv!ReadEndSettling
<1>11. IsTurn(X) /\ Sound(X, n) /\ X.phase = "open" /\ X.root = S.root /\ X.kept = S.kept
  <2>7. PICK u \in BOOLEAN : u <=> ~S.failed
    BY Zenon
  <2>1. /\ EndedAs(X, S) /\ X.over = "read" /\ X.handoff = turn[t].handoff
        /\ X.phase = "open" /\ X.root = S.root /\ X.kept = S.kept /\ IsTurn(X) /\
           X.uncertain = u
    <3>1. X = Doubted(S, u)
      BY <1>9, <2>7 DEF Doubted
    <3>2. EndedAs(X, S) /\ X.over = "read" /\ X.handoff = S.handoff /\ X.uncertain = u
      <4>1. IsTurn(S) /\ u \in BOOLEAN
        BY <1>8
      <4> QED BY <3>1, <4>1, UncertainType
    <3> QED BY <1>8, <3>2 DEF EndedAs, Fields
  <2>6. X.uncertain => turn[t].uncertain \/ ~S.failed
    BY <2>1, <2>7
  <2>2. turn[t].read = Len(turn[t].seen) /\ turn[t].got = turn[t].read
    BY <1>3 DEF Conv!AtEnd, Conv!Consumed
  <2>3. ~turn[t].handoff
    BY <1>2, <1>3 DEF Sound, HandedOff, Conv!AtEnd, Conv!Due
  <2>4. Ended(X)
    BY <2>1 DEF Ended
  <2>5. Sound(X, n)
    BY <1>2, <1>3, <1>4, <1>5, <1>6, <2>1, <2>2, <2>3, <2>4, <2>6, SettledSound
  <2> QED BY <2>1, <2>5
<1>12. Becomes(t, X)
  <2>1. DOMAIN turn = Conv!Turns
    BY <1>1 DEF TurnInv, TurnTypes
  <2> QED BY <1>8, <1>10, <1>11, <2>1 DEF Becomes
<1>13. UNCHANGED <<fate, inert>> /\ stopping' = stopping
  BY DEF Conv!ReadEndSettling
<1>14. TurnInv'
  BY <1>1, <1>3, <1>4, <1>6, <1>11, <1>12, <1>13, OpenStep
<1>15. snaps' \in [0..N -> Roots]
  <2>1. turn[t].root \in Roots
    BY <1>2 DEF IsTurn
  <2> QED BY <1>1, <1>4, <2>1, SnapTypes
<1>16. Keeps(t, w)
  BY <1>5, <1>11, <1>12 DEF Becomes, Keeps
<1> QED BY <1>1, <1>4, <1>13, <1>14, <1>15, <1>16 DEF ConversationInv, StoreTypes

LEMMA DeliveredStep ==
  ASSUME ConversationInv, NEW t \in Conv!Turns, NEW w \in Conv!Writes,
         Conv!StreamDelivered(t, w)
  PROVE  ConversationInv' /\ Keeps(t, w)
<1>1. TurnInv /\ StoreTypes /\ Conv!Open(t) /\ Conv!SettleStore(t, turn[t], TRUE, w)
  BY DEF ConversationInv, Conv!StreamDelivered, Conv!Streaming, Conv!Open
<1>2. /\ IsTurn(turn[t]) /\ turn[t].phase = "open" /\ marker[t] \in Marks
      /\ Sound(turn[t], marker[t])
  BY <1>1, OpenTurn
<1>3. /\ Admitted(turn[t]) /\ turn[t].trace = "stream"
      /\ turn[t].handoff /\ turn[t].got = turn[t].read
  BY DEF Conv!StreamDelivered, Admitted, Conv!Streaming, Conv!Written
<1>4. /\ Touches(t) /\ marker'[t] = MarkAfter(turn[t], TRUE, w, marker[t])
      /\ ~Conv!Needs(turn[t], TRUE) => w = "ok"
      /\ Snapped(t, Saves(turn[t], TRUE, w))
      /\ broken' \in BOOLEAN
  BY <1>1, StoreSettled
<1>5. PICK S : S = Conv!SettleAs(turn[t], TRUE, w)
  OBVIOUS
<1>6. PICK n : n = MarkAfter(turn[t], TRUE, w, marker[t])
  OBVIOUS
<1>7. SettledTo(turn[t], TRUE, w, marker[t], S, n)
  BY <1>2, <1>4, <1>5, <1>6, Settled
<1>8. /\ IsTurn(S) /\ S.phase = "open" /\ S.root = turn[t].root
      /\ S.handoff = turn[t].handoff /\ S.uncertain = turn[t].uncertain
      /\ S.over = turn[t].over /\ S.seen = turn[t].seen /\ S.trace = turn[t].trace
  BY <1>2, <1>7 DEF SettledTo, Fields
<1>9. PICK X : X = [S EXCEPT !.handoff = FALSE, !.over = "read"]
  OBVIOUS
<1>10. turn' = [turn EXCEPT ![t] = X]
  BY <1>5, <1>9 DEF Conv!StreamDelivered
<1>11. IsTurn(X) /\ Sound(X, n) /\ X.phase = "open" /\ X.root = S.root /\ X.kept = S.kept
  <2>1. /\ EndedAs(X, S) /\ X.over = "read" /\ ~X.handoff
        /\ X.uncertain = turn[t].uncertain
        /\ X.phase = "open" /\ X.root = S.root /\ X.kept = S.kept /\ IsTurn(X)
    <3>2. X = Handed(S, "read")
      BY <1>9 DEF Handed
    <3>1. EndedAs(X, S) /\ X.over = "read" /\ ~X.handoff /\ X.uncertain = S.uncertain
      BY <1>8, <3>2, HandedType
    <3> QED BY <1>8, <3>1 DEF EndedAs, Fields
  <2>2. \/ turn[t].read = Len(turn[t].seen)
        \/ turn[t].read = Len(turn[t].seen) - 1 /\ turn[t].seen[Len(turn[t].seen)] = "failed"
    BY <1>2, <1>3 DEF Sound, HandedOff
  <2>4. Ended(X)
    BY <2>1 DEF Ended
  <2>5. Sound(X, n)
    BY <1>2, <1>3, <1>4, <1>5, <1>6, <2>1, <2>2, <2>4, SettledSound
  <2> QED BY <2>1, <2>5
<1>12. Becomes(t, X)
  <2>1. DOMAIN turn = Conv!Turns
    BY <1>1 DEF TurnInv, TurnTypes
  <2> QED BY <1>8, <1>10, <1>11, <2>1 DEF Becomes
<1>13. UNCHANGED <<fate, inert>> /\ stopping' = stopping
  BY DEF Conv!StreamDelivered
<1>14. TurnInv'
  BY <1>1, <1>3, <1>4, <1>6, <1>11, <1>12, <1>13, OpenStep
<1>15. snaps' \in [0..N -> Roots]
  <2>1. turn[t].root \in Roots
    BY <1>2 DEF IsTurn
  <2> QED BY <1>1, <1>4, <2>1, SnapTypes
<1>16. Keeps(t, w)
  BY <1>5, <1>11, <1>12 DEF Becomes, Keeps
<1> QED BY <1>1, <1>4, <1>13, <1>14, <1>15, <1>16 DEF ConversationInv, StoreTypes

LEMMA PersistStep ==
  ASSUME ConversationInv, NEW t \in Conv!Turns, NEW w \in Conv!Writes,
         Conv!PersistIntent(t, w)
  PROVE  ConversationInv'
<1>1. TurnInv /\ StoreTypes /\ Conv!Open(t)
  BY DEF ConversationInv, Conv!PersistIntent
<1>2. /\ IsTurn(turn[t]) /\ turn[t].phase = "open" /\ marker[t] \in Marks
      /\ Sound(turn[t], marker[t]) /\ ~inert[t]
  BY <1>1, OpenTurn
<1>3. /\ turn[t].trace = "none" /\ ~turn[t].pending /\ ~turn[t].trouble
      /\ Conv!Admits(turn[t].root, turn[t].source, Conv!Trusted(turn[t]))
      /\ marker' = IF Conv!Commits(w) THEN Conv!MarkedBy(t, "attempt") ELSE marker
      /\ fate' = [u \in Conv!Turns |->
                    IF Conv!Commits(w) /\ u \in Conv!Forgiven(t) THEN "clean" ELSE fate[u]]
      /\ UNCHANGED <<snaps, stopping, inert>> /\ broken' \in BOOLEAN
  BY <1>1 DEF Conv!PersistIntent, Conv!Write, StoreTypes
<1>20. PICK p \in BOOLEAN : p <=> w = "ok"
  BY Zenon
<1>4. PICK X : X = Persisted(turn[t], p)
  OBVIOUS
<1>5. /\ Touches(t) /\ marker'[t] = IF Conv!Commits(w) THEN "attempt" ELSE marker[t]
      /\ \A u \in Conv!Turns \ {t} : turn[u].root = turn[t].root =>
           marker'[u] = IF Conv!Commits(w) THEN "none" ELSE marker[u]
  <2>1. CASE Conv!Commits(w)
    <3>1. "attempt" \in Marks /\ marker' = Conv!MarkedBy(t, "attempt")
      BY <1>3, <2>1 DEF Marks
    <3> QED BY <1>1, <2>1, <3>1, MarkedMarkers
  <2>2. CASE ~Conv!Commits(w)
    BY <1>1, <1>3, <2>2 DEF TurnInv, TurnTypes, Touches
  <2> QED BY <2>1, <2>2
<1>6. IsTurn(X) /\ Sound(X, marker'[t])
  <2>1. PICK n : n = IF Conv!Commits(w) THEN "attempt" ELSE marker[t]
    OBVIOUS
  <2>2. IsTurn(X) /\ Sound(X, n)
    BY <1>2, <1>3, <1>4, <1>20, <2>1, PersistSound
  <2> QED BY <1>5, <2>1, <2>2
<1>7. /\ X.phase = "open" /\ X.root = turn[t].root /\ X.trace = "none"
      /\ X.pending => Conv!Commits(w)
  BY <1>2, <1>3, <1>4, <1>20 DEF Persisted, IsTurn, Fields, Conv!Commits
<1>8. /\ DOMAIN turn' = Conv!Turns /\ turn'[t] = X
      /\ \A u \in Conv!Turns \ {t} : turn'[u] = turn[u]
  <2>1. DOMAIN turn = Conv!Turns
    BY <1>1 DEF TurnInv, TurnTypes
  <2> QED BY <1>4, <1>20, <2>1 DEF Persisted, Conv!PersistIntent
<1>9. \A u \in Conv!Turns : turn'[u].root = turn[u].root /\ turn'[u].phase = turn[u].phase
  BY <1>2, <1>7, <1>8
\* What the turn's history does not hold refuses it.
<1>10. ASSUME NEW u \in Conv!Turns, turn[u].phase = "closed", turn[u].root = turn[t].root,
              Conv!Commits(w)
       PROVE  fate'[u] = "clean"
  <2> SUFFICES ASSUME fate[u] # "clean" PROVE u \in Conv!Forgiven(t)
    BY <1>3, <1>10
  <2>1. marker[u] # "none" /\ (marker[u] = "released" => fate[u] = "held")
    BY <1>1, <1>10 DEF TurnInv, ClosedMarked, Answers
  <2>2. Conv!Trusted(turn[t]) \/ (marker[u] = "released" /\ turn[t].source = u)
    BY <1>3, <1>10, <2>1 DEF Conv!Admits, Conv!Marked
  <2> QED BY <1>10, <2>1, <2>2 DEF Conv!Forgiven
<1>11. fate' \in [Conv!Turns -> Conv!Fates]
  BY <1>1, <1>3 DEF TurnInv, TurnTypes, Conv!Fates
<1>12. TurnTypes'
  BY <1>1, <1>3, <1>5, <1>6, <1>8, <1>11 DEF TurnInv, TurnTypes, Sound, Touches
<1>13. Apart'
  BY <1>1, <1>9 DEF TurnInv, Apart, Conv!Open
<1>14. \A u \in Conv!Turns \ {t} : Conv!Open(u)
         => turn[u].root # turn[t].root /\ marker'[u] = marker[u]
  BY <1>1, <1>5 DEF TurnInv, Apart, Touches
<1>15. OpenSound'
  BY <1>1, <1>2, <1>3, <1>6, <1>8, <1>14 DEF TurnInv, OpenSound, Conv!Open
<1>16. \A u \in Conv!Turns : fate'[u] = fate[u] \/ fate'[u] = "clean"
  BY <1>3
<1>17. AdmittedClean'
  <2> SUFFICES ASSUME NEW v \in Conv!Turns, Conv!Open(v)', Admitted(turn'[v])
    PROVE CleanBefore(v)'
    BY DEF AdmittedClean
  <2>1. CASE v = t
    <3>1. Conv!Commits(w)
      BY <1>7, <1>8, <2>1 DEF Admitted
    <3> QED BY <1>9, <1>10, <2>1, <3>1 DEF CleanBefore
  <2>2. CASE v # t
    <3>1. CleanBefore(v)
      BY <1>1, <1>8, <2>2 DEF TurnInv, AdmittedClean, Conv!Open
    <3> QED BY <1>9, <1>16, <3>1 DEF CleanBefore
  <2> QED BY <2>1, <2>2
<1>18. ClosedMarked'
  <2> SUFFICES ASSUME NEW u \in Conv!Turns, turn'[u].phase = "closed"
               PROVE  Answers(fate'[u], marker'[u]) /\ (inert'[u] => marker'[u] = "none")
    BY DEF ClosedMarked
  <2>1. u # t /\ turn[u].phase = "closed"
    BY <1>7, <1>8
  <2>2. Answers(fate[u], marker[u]) /\ (inert[u] => marker[u] = "none")
    BY <1>1, <2>1 DEF TurnInv, ClosedMarked
  <2>3. CASE turn[u].root = turn[t].root /\ Conv!Commits(w)
    BY <1>5, <1>10, <2>1, <2>3 DEF Answers
  <2>4. CASE turn[u].root # turn[t].root
    <3>1. marker'[u] = marker[u]
      BY <1>5, <2>1, <2>4 DEF Touches
    <3> QED BY <1>3, <1>16, <2>2, <3>1 DEF Answers
  <2>5. CASE ~Conv!Commits(w)
    BY <1>3, <2>2, <2>5
  <2> QED BY <2>3, <2>4, <2>5
<1>19. UnbornUnmarked'
  BY <1>1, <1>2, <1>3, <1>5, <1>9 DEF TurnInv, UnbornUnmarked, Touches
<1> QED BY <1>1, <1>3, <1>12, <1>13, <1>15, <1>17, <1>18, <1>19 DEF ConversationInv, TurnInv,
           StoreTypes

LEMMA BeginStep ==
  ASSUME ConversationInv, NEW t \in Conv!Turns, NEW c \in Threads, NEW src \in 0..N,
         Conv!Begin(t, c, src)
  PROVE  ConversationInv'
<1>1. TurnInv /\ StoreTypes /\ turn[t].phase = "unborn" /\ snaps[src] # Conv!NoRoot
  BY DEF ConversationInv, Conv!Begin
<1>2. PICK root : root = Conv!Conversation(c, snaps[src])
  OBVIOUS
<1>3. root \in Roots
  <2>1. snaps[src] \in Seq(Threads)
    BY <1>1 DEF StoreTypes, Roots
  <2> QED BY <1>2, <2>1 DEF Conv!Conversation, Roots
<1>4. PICK X : X = Conv!Begun(c, src, root)
  OBVIOUS
<1>5. Conv!Active(root) = {} /\ turn' = [turn EXCEPT ![t] = X]
      /\ UNCHANGED <<snaps, marker, broken, stopping, fate, inert>>
  BY <1>2, <1>4 DEF Conv!Begin
<1>6. /\ IsTurn(X) /\ X.phase = "open" /\ X.root = root /\ ~Admitted(X)
      /\ X.seen = <<>> /\ ~X.hidden
  BY <1>3, <1>4 DEF Conv!Begun, IsTurn, Fields, Admitted
<1>7. Sound(X, "none")
  <2>1. Placed(X) /\ Waiting(X, "none") /\ Owing(X, "none") /\ Told(X, "none") /\ HandedOff(X)
    BY <1>4 DEF Conv!Begun, Placed, Waiting, Owing, Told, HandedOff
  <2>2. Freed(X, "none")
    BY <1>4 DEF Conv!Begun, Freed
  <2> QED BY <2>1, <2>2 DEF Sound
<1>8. marker[t] = "none" /\ ~inert[t]
  BY <1>1 DEF TurnInv, UnbornUnmarked
<1>9. /\ DOMAIN turn' = Conv!Turns /\ turn'[t] = X
      /\ \A u \in Conv!Turns \ {t} : turn'[u] = turn[u]
  BY <1>1, <1>5 DEF TurnInv, TurnTypes
<1>10. TurnTypes'
  BY <1>1, <1>5, <1>6, <1>7, <1>9 DEF TurnInv, TurnTypes, Sound
<1>11. Apart'
  <2>1. \A u \in Conv!Turns \ {t} : Conv!Open(u) => turn[u].root # root
    BY <1>5 DEF Conv!Active
  <2> QED BY <1>1, <1>6, <1>9, <2>1 DEF TurnInv, Apart, Conv!Open
<1>12. OpenSound'
  BY <1>1, <1>5, <1>7, <1>8, <1>9 DEF TurnInv, OpenSound, Conv!Open
<1>13. AdmittedClean'
  BY <1>1, <1>5, <1>6, <1>9 DEF TurnInv, AdmittedClean, CleanBefore, Conv!Open
<1>14. ClosedMarked' /\ UnbornUnmarked'
  BY <1>1, <1>5, <1>6, <1>9 DEF TurnInv, ClosedMarked, UnbornUnmarked
<1> QED BY <1>1, <1>5, <1>10, <1>11, <1>12, <1>13, <1>14 DEF ConversationInv, TurnInv,
           StoreTypes

LEMMA RestartStep ==
  ASSUME ConversationInv, Conv!Restart
  PROVE  ConversationInv'
<1>1. TurnInv /\ StoreTypes
  BY DEF ConversationInv
<1>2. UNCHANGED <<snaps, marker, inert>> /\ broken' = FALSE /\ stopping' = FALSE
  BY DEF Conv!Restart
<1>3. turn' = [t \in Conv!Turns |-> IF Conv!Open(t) THEN Conv!Closed(turn[t]) ELSE turn[t]]
  BY DEF Conv!Restart
<1>4. fate' = [t \in Conv!Turns |->
        IF ~Conv!Open(t) THEN fate[t]
        ELSE IF turn[t].told = "no" /\ turn[t].trace \in {"sent", "stream"} THEN "owed"
        ELSE Conv!FateOf(turn[t])]
  BY DEF Conv!Restart
<1>5. ASSUME NEW t \in Conv!Turns, Conv!Open(t)
      PROVE  /\ IsTurn(turn'[t]) /\ Placed(turn'[t]) /\ turn'[t].phase = "closed"
             /\ Answers(fate'[t], marker[t]) /\ fate'[t] \in Conv!Fates
  <2>1. /\ IsTurn(turn[t]) /\ marker[t] \in Marks /\ Sound(turn[t], marker[t])
    BY <1>1, <1>5, OpenTurn
  <2>2. PICK C : C = Conv!Closed(turn[t])
    OBVIOUS
  <2>3. turn[t].root \in Roots
    BY <2>1 DEF IsTurn
  <2>4. turn'[t] = C /\ IsTurn(C) /\ Placed(C) /\ C.phase = "closed"
    BY <1>3, <1>5, <2>2, <2>3, ClosedTurn
  <2>5. Answers(Conv!FateOf(turn[t]), marker[t]) /\ Conv!FateOf(turn[t]) \in Conv!Fates
    BY <2>1, FateAnswered DEF Conv!FateOf, Conv!Fates
  <2>6. CASE turn[t].told = "no" /\ turn[t].trace \in {"sent", "stream"}
    <3>1. Answers("owed", marker[t])
      BY <2>1, <2>6, CrashAnswered
    <3> QED BY <1>4, <1>5, <2>4, <2>6, <3>1 DEF Conv!Fates
  <2>7. CASE ~(turn[t].told = "no" /\ turn[t].trace \in {"sent", "stream"})
    BY <1>4, <1>5, <2>4, <2>5, <2>7
  <2> QED BY <2>6, <2>7
<1>6. \A t \in Conv!Turns : ~Conv!Open(t) => turn'[t] = turn[t] /\ fate'[t] = fate[t]
  BY <1>3, <1>4
<1>7. \A t \in Conv!Turns : ~Conv!Open(t)'
  BY <1>5, <1>6 DEF Conv!Open
<1>8. TurnTypes'
  <2>1. DOMAIN turn' = Conv!Turns
    BY <1>3
  <2>2. \A t \in Conv!Turns : IsTurn(turn'[t]) /\ Placed(turn'[t])
    BY <1>1, <1>5, <1>6 DEF TurnInv, TurnTypes
  <2>3. fate' \in [Conv!Turns -> Conv!Fates]
    <3>1. \A t \in Conv!Turns : fate'[t] \in Conv!Fates
      BY <1>1, <1>5, <1>6 DEF TurnInv, TurnTypes
    <3> QED BY <1>4, <3>1
  <2> QED BY <1>1, <1>2, <2>1, <2>2, <2>3 DEF TurnInv, TurnTypes
<1>9. ClosedMarked'
  <2>1. \A t \in Conv!Turns : Conv!Open(t) => ~inert[t]
    BY <1>1 DEF TurnInv, OpenSound
  <2>2. ASSUME NEW u \in Conv!Turns, turn'[u].phase = "closed"
        PROVE  Answers(fate'[u], marker'[u]) /\ (inert'[u] => marker'[u] = "none")
    <3>1. CASE Conv!Open(u)
      BY <1>2, <1>5, <2>1, <3>1
    <3>2. CASE ~Conv!Open(u)
      BY <1>1, <1>2, <1>6, <2>2, <3>2 DEF TurnInv, ClosedMarked
    <3> QED BY <3>1, <3>2
  <2> QED BY <2>2 DEF ClosedMarked
<1>10. UnbornUnmarked'
  <2>1. \A u \in Conv!Turns : turn'[u].phase = "unborn" => turn[u].phase = "unborn"
    BY <1>5, <1>6
  <2> QED BY <1>1, <1>2, <2>1 DEF TurnInv, UnbornUnmarked
<1>11. Apart' /\ OpenSound' /\ AdmittedClean'
  BY <1>7 DEF Apart, OpenSound, AdmittedClean
<1> QED BY <1>1, <1>2, <1>8, <1>9, <1>10, <1>11 DEF ConversationInv, TurnInv, StoreTypes

LEMMA FinishStep ==
  ASSUME ConversationInv, NEW t \in Conv!Turns,
         Conv!FinishSettled(t)
           \/ \E w \in Conv!Writes : Conv!FinishInterrupted(t, w) \/ Conv!FinishSafe(t, w) \/
              Conv!FinishEnded(t, w)
  PROVE  ConversationInv'
<1>1. TurnInv /\ StoreTypes /\ Conv!Open(t)
  BY ZenonT(60) DEF ConversationInv, Conv!FinishSettled, Conv!FinishInterrupted, Conv!FinishSafe,
     Conv!FinishEnded
<1>2. /\ IsTurn(turn[t]) /\ turn[t].phase = "open" /\ marker[t] \in Marks
      /\ Sound(turn[t], marker[t]) /\ turn[t].root \in Roots
  <2>1. IsTurn(turn[t])
    BY <1>1, OpenTurn, SMTT(60)
  <2> QED BY <1>1, <2>1, OpenTurn, SMTT(60) DEF IsTurn
<1>3. stopping' \in BOOLEAN
  BY <1>1 DEF Conv!FinishSettled, Conv!FinishInterrupted, Conv!FinishSafe, Conv!FinishEnded,
     Conv!Close, StoreTypes
<1>4. \A R : Conv!Close(t, R) => Closes(t, R)
  BY DEF Conv!Close, Closes
<1>5. marker' = Conv!Cleared(turn[t].root) => Touches(t) /\ marker'[t] = "none"
  BY <1>1, ClearedMarkers
<1>6. marker' = marker => Touches(t) /\ marker'[t] = marker[t]
  BY <1>1 DEF TurnInv, TurnTypes, Touches
<1>7. ASSUME Conv!FinishSettled(t) PROVE ConversationInv'
  <2>1. Closes(t, turn[t]) /\ marker' = marker /\ snaps' = snaps /\ broken' = broken
    BY <1>4, <1>7 DEF Conv!FinishSettled
  <2>2. Answers(Conv!FateOf(turn[t]), marker'[t])
    BY <1>2, <1>6, <2>1, FateAnswered
  <2>3. ~Conv!Executable(turn[t]) /\ ~turn[t].trouble /\ ~turn[t].lost => marker'[t] = "none"
    <3>1. Conv!Unsettled(turn[t]) => turn[t].blocked \/ turn[t].uncertain
      BY <1>7 DEF Conv!FinishSettled
    <3> QED BY <1>2, <1>6, <2>1, <3>1, SettledClear
  <2>4. TurnInv'
    BY <1>1, <1>6, <2>1, <2>2, <2>3, ClosingStep
  <2> QED BY <1>1, <1>3, <2>1, <2>4 DEF ConversationInv, StoreTypes
<1>8. ASSUME NEW w \in Conv!Writes, Conv!FinishInterrupted(t, w) PROVE ConversationInv'
  <2>1. PICK k, r, R : R = Left(turn[t], k, r) /\ Closes(t, R) /\ r = (w # "ok")
    BY <1>4, <1>8 DEF Conv!FinishInterrupted, Left
  <2>2. /\ Conv!Interrupted(turn[t]) /\ broken' \in BOOLEAN
        /\ marker' = IF Conv!Commits(w) \/
           w = "full" THEN Conv!Cleared(turn[t].root) ELSE marker
        /\ snaps' = snaps \/ snaps' = [snaps EXCEPT ![t] = turn[t].root]
    BY <1>1, <1>8 DEF Conv!FinishInterrupted, Conv!Write, StoreTypes
  <2>3. Conv!FateOf(R) = "clean" /\ R.root = turn[t].root /\ R.trouble = r
    BY <1>2, <2>1, <2>2, InterruptedClean
  <2>4. Admitted(turn[t])
    BY <2>2 DEF Conv!Interrupted, Conv!Dispatched, Admitted
  <2>5. Touches(t) /\ (Conv!Commits(w) => marker'[t] = "none")
    BY <1>5, <1>6, <2>2
  <2>6. ~R.trouble => marker'[t] = "none"
    BY <2>1, <2>3, <2>5 DEF Conv!Commits
  <2>7. TurnInv'
    BY <1>1, <2>1, <2>3, <2>4, <2>5, <2>6, ClosingStep DEF Answers
  <2>8. snaps' \in [0..N -> Roots]
    BY <1>1, <1>2, <2>2 DEF StoreTypes
  <2> QED BY <1>3, <2>2, <2>7, <2>8 DEF ConversationInv, StoreTypes
<1>9. ASSUME NEW w \in Conv!Writes, Conv!FinishSafe(t, w) PROVE ConversationInv'
  <2>1. PICK r, R : /\ R = [turn[t] EXCEPT !.trouble = r] /\ Closes(t, R)
                    /\ r = (turn[t].trouble \/ w # "ok")
    BY <1>4, <1>9 DEF Conv!FinishSafe
  <2>2. /\ Conv!Safe(turn[t]) /\ Conv!Unsettled(turn[t]) /\ broken' \in BOOLEAN
        /\ marker' = IF Conv!Commits(w) THEN Conv!Cleared(turn[t].root) ELSE marker
        /\ snaps' = snaps
    BY <1>1, <1>9 DEF Conv!FinishSafe, Conv!Write, StoreTypes
  <2>3. Conv!FateOf(R) = "clean" /\ R.root = turn[t].root /\ R.trouble = r
    BY <1>2, <2>1, <2>2, SafeClean
  <2>4. Admitted(turn[t])
    BY <2>2 DEF Conv!Unsettled, Admitted
  <2>5. Touches(t) /\ (Conv!Commits(w) => marker'[t] = "none")
    BY <1>5, <1>6, <2>2
  <2>6. ~R.trouble => marker'[t] = "none"
    BY <2>1, <2>3, <2>5 DEF Conv!Commits
  <2>7. TurnInv'
    BY <1>1, <2>1, <2>3, <2>4, <2>5, <2>6, ClosingStep DEF Answers
  <2> QED BY <1>1, <1>3, <2>2, <2>7 DEF ConversationInv, StoreTypes
<1>10. ASSUME NEW w \in Conv!Writes, Conv!FinishEnded(t, w) PROVE ConversationInv'
  <2>1. PICK R : R = Conv!SettleAs(turn[t], FALSE, w)
    OBVIOUS
  <2>2. /\ Closes(t, R) /\ Conv!SettleStore(t, turn[t], FALSE, w) /\ Conv!Unsettled(turn[t])
        /\ ~Conv!Safe(turn[t]) /\ ~turn[t].blocked /\ ~turn[t].uncertain /\
           turn[t].trace # "sent"
    BY <1>4, <1>10, <2>1 DEF Conv!FinishEnded, Conv!CanFinish
  <2>3. /\ Touches(t) /\ marker'[t] = MarkAfter(turn[t], FALSE, w, marker[t])
        /\ ~Conv!Needs(turn[t], FALSE) => w = "ok"
        /\ Snapped(t, Saves(turn[t], FALSE, w))
        /\ broken' \in BOOLEAN
    BY <1>1, <2>2, StoreSettled
  <2>4. PICK n : n = MarkAfter(turn[t], FALSE, w, marker[t])
    OBVIOUS
  <2>5. Forgettable(R, n, turn[t].root)
    BY <1>2, <2>1, <2>2, <2>3, <2>4, EndedAnswered
  <2>6. Admitted(turn[t])
    BY <2>2 DEF Conv!Unsettled, Admitted
  <2>7. TurnInv'
    BY <1>1, <2>2, <2>3, <2>4, <2>5, <2>6, ClosingStep DEF Forgettable
  <2>8. snaps' \in [0..N -> Roots]
    BY <1>1, <1>2, <2>3, SnapTypes
  <2> QED BY <1>3, <2>3, <2>7, <2>8 DEF ConversationInv, StoreTypes
<1> QED BY <1>7, <1>8, <1>9, <1>10, SMTT(60)

LEMMA InitConversation == Conv!Init => ConversationInv
<1> SUFFICES ASSUME Conv!Init PROVE ConversationInv
  OBVIOUS
<1>1. StoreTypes
  <2>1. <<>> \in Roots /\ Conv!NoRoot \in Roots
    BY DEF Roots
  <2> QED BY <2>1 DEF Conv!Init, StoreTypes
<1>2. PICK U : U = Conv!Unborn
  OBVIOUS
<1>3. IsTurn(U) /\ Placed(U) /\ U.phase = "unborn"
  BY <1>2 DEF Conv!Unborn, Conv!Begun, IsTurn, Fields, Placed, Roots
<1>4. DOMAIN turn = Conv!Turns /\ \A t \in Conv!Turns : turn[t] = U
  BY <1>2 DEF Conv!Init
<1>5. TurnTypes
  BY <1>3, <1>4 DEF Conv!Init, TurnTypes, Marks, Conv!Fates
<1>6. Apart /\ OpenSound /\ AdmittedClean /\ ClosedMarked /\ UnbornUnmarked
  BY <1>3, <1>4 DEF Conv!Init, Apart, OpenSound, AdmittedClean, ClosedMarked, UnbornUnmarked,
     Conv!Open
<1> QED BY <1>1, <1>5, <1>6 DEF ConversationInv, TurnInv

LEMMA ConversationSteps == ConversationInv /\ [Conv!Next]_(Conv!vars) => ConversationInv'
<1> SUFFICES ASSUME ConversationInv, [Conv!Next]_(Conv!vars) PROVE ConversationInv'
  OBVIOUS
<1>1. CASE UNCHANGED Conv!vars
  BY <1>1 DEF Conv!vars, ConversationInv, StoreTypes, TurnInv, TurnTypes, Apart, OpenSound,
     AdmittedClean, Admitted, CleanBefore, ClosedMarked, UnbornUnmarked, Conv!Open
<1>2. CASE Conv!Shutdown
  BY <1>2 DEF Conv!Shutdown, ConversationInv, StoreTypes, TurnInv, TurnTypes, Apart,
     OpenSound, AdmittedClean, Admitted, CleanBefore, ClosedMarked, UnbornUnmarked, Conv!Open
<1>3. CASE Conv!Restart
  BY <1>3, RestartStep
<1>4. ASSUME NEW t \in Conv!Turns,
        \/ \E c \in Threads, src \in 0..N : Conv!Begin(t, c, src)
        \/ Conv!Dispatch(t) \/ Conv!SafeFailure(t) \/ Conv!AmbiguousFailure(t)
        \/ \E bridged \in BOOLEAN : Conv!Commit(t, bridged)
        \/ \E kind \in Conv!Kinds, cut \in BOOLEAN : Conv!Observe(t, kind, cut)
        \/ Conv!FailWithOutput(t) \/ Conv!FailDeferred(t)
        \/ Conv!ReadEvent(t) \/ Conv!Deliver(t) \/ Conv!ReadEnd(t) \/ Conv!ReadEndBridged(t)
        \/ Conv!ClientEnds(t)
      PROVE ConversationInv'
  BY <1>4, BeginStep, DispatchStep, SafeFailureStep, AmbiguousStep, CommitStep, ObserveStep,
     HiddenStep, DeferStep, ReadStep, DeliverStep, ReadEndStep, BridgedEndStep, GoneStep
<1>5. ASSUME NEW t \in Conv!Turns, Conv!FinishSettled(t) PROVE ConversationInv'
  BY <1>5, FinishStep
<1>6. ASSUME NEW t \in Conv!Turns, NEW w \in Conv!Writes,
        \/ Conv!PersistIntent(t, w) \/ Conv!FailedBeforeCommit(t, w)
        \/ Conv!Complete(t, w) \/ Conv!Unprotect(t, w) \/ Conv!FailInert(t, w)
        \/ Conv!StartReadSettling(t, w) \/ Conv!ReadEndSettling(t, w) \/
           Conv!StreamDelivered(t, w)
        \/ Conv!FinishInterrupted(t, w) \/ Conv!FinishSafe(t, w) \/ Conv!FinishEnded(t, w)
      PROVE ConversationInv'
  BY <1>6, PersistStep, FailedEarlyStep, CompletionStep, FailedInertStep, StartReadStep,
     ReadEndSettlingStep, DeliveredStep, FinishStep
<1> QED BY <1>1, <1>2, <1>3, <1>4, <1>5, <1>6 DEF Conv!Next

\* Every reachable state satisfies the invariant.
THEOREM ConversationInvariant == Conv!Spec => []ConversationInv
  BY InitConversation, ConversationSteps, PTL DEF Conv!Spec

\* The bindings change nothing of the conversations.
LEMMA ConversationsAlone == OnDiskSpec => Conv!Spec
<1>1. OnDiskInit => Conv!Init
  BY DEF OnDiskInit
<1>2. [OnDiskNext]_<<vars, conversationVars>> => [Conv!Next]_(Conv!vars)
  BY DEF OnDiskNext, conversationVars, Conv!vars
<1> QED BY <1>1, <1>2, PTL DEF OnDiskSpec, Conv!Spec

\* A turn after which nothing can be repeated leaves no marker, so its
\* conversation is not refused (finish and releaseEndedAttempt of
\* conversation_migration.go).
THEOREM InertTurnsFreed == OnDiskSpec => []InertTurnFreed
<1>1. ConversationInv => Conv!InertTurnFreed
  <2> SUFFICES ASSUME ConversationInv, NEW t \in Conv!Turns, inert[t] PROVE marker[t] = "none"
    BY DEF Conv!InertTurnFreed
  <2>1. TurnInv /\ IsTurn(turn[t])
    BY DEF ConversationInv, TurnInv, TurnTypes
  <2>2. turn[t].phase = "closed"
    BY <2>1 DEF TurnInv, OpenSound, UnbornUnmarked, Conv!Open, IsTurn
  <2> QED BY <2>1, <2>2 DEF TurnInv, ClosedMarked
<1> QED BY <1>1, ConversationInvariant, ConversationsAlone, PTL DEF InertTurnFreed

-----------------------------------------------------------------------------
(* The action properties.                                                  *)

\* Turn t of the open turns is sent by this step.
Sends(t) == turn[t].phase = "open" /\ turn[t].trace # "sent" /\ turn'[t].trace = "sent"

\* The step changes turn u alone, and does not send it.
Rests(u) ==
  /\ \A v \in Conv!Turns \ {u} : turn'[v] = turn[v]
  /\ turn'[u].trace = "sent" => turn[u].trace = "sent"

LEMMA UnsentStep ==
  ASSUME ConversationInv, NEW u \in Conv!Turns,
         \/ Conv!SafeFailure(u) \/ Conv!AmbiguousFailure(u)
         \/ \E bridged \in BOOLEAN : Conv!Commit(u, bridged)
         \/ \E kind \in Conv!Kinds, cut \in BOOLEAN : Conv!Observe(u, kind, cut)
         \/ Conv!FailWithOutput(u) \/ Conv!FailDeferred(u)
         \/ Conv!ReadEvent(u) \/ Conv!Deliver(u) \/ Conv!ReadEnd(u) \/ Conv!ReadEndBridged(u)
         \/ Conv!ClientEnds(u) \/ \E w \in Conv!Writes : Conv!PersistIntent(u, w)
         \/ \E w \in Conv!Writes : Conv!Complete(u, w) \/ Conv!Unprotect(u, w)
  PROVE  Rests(u)
<1>1. DOMAIN turn = Conv!Turns /\ IsTurn(turn[u])
  BY DEF ConversationInv, TurnInv, TurnTypes
<1>2. ASSUME Conv!SafeFailure(u) PROVE Rests(u)
  BY <1>1, <1>2 DEF Conv!SafeFailure, Rests, IsTurn, Fields
<1>3. ASSUME Conv!AmbiguousFailure(u) PROVE Rests(u)
  BY <1>1, <1>3 DEF Conv!AmbiguousFailure, Rests, IsTurn, Fields
<1>4. ASSUME NEW bridged \in BOOLEAN, Conv!Commit(u, bridged) PROVE Rests(u)
  BY <1>1, <1>4, ZenonT(60) DEF Conv!Commit, Rests, IsTurn, Fields
<1>5. ASSUME NEW kind \in Conv!Kinds, NEW cut \in BOOLEAN, Conv!Observe(u, kind, cut)
             PROVE Rests(u)
  BY <1>1, <1>5 DEF Conv!Observe, Rests, IsTurn, Fields
<1>6. ASSUME Conv!FailWithOutput(u) PROVE Rests(u)
  BY <1>1, <1>6 DEF Conv!FailWithOutput, Rests, IsTurn, Fields
<1>7. ASSUME Conv!FailDeferred(u) PROVE Rests(u)
  BY <1>1, <1>7 DEF Conv!FailDeferred, Rests, IsTurn, Fields
<1>8. ASSUME Conv!ReadEvent(u) \/ Conv!Deliver(u) \/ Conv!ClientEnds(u) PROVE Rests(u)
  BY <1>1, <1>8 DEF Conv!ReadEvent, Conv!Deliver, Conv!ClientEnds, Rests, IsTurn, Fields
<1>9. ASSUME Conv!ReadEnd(u) PROVE Rests(u)
  BY <1>1, <1>9 DEF Conv!ReadEnd, Rests, IsTurn, Fields
<1>10. ASSUME Conv!ReadEndBridged(u) PROVE Rests(u)
  BY <1>1, <1>10 DEF Conv!ReadEndBridged, Rests, IsTurn, Fields
<1>11. ASSUME NEW w \in Conv!Writes, Conv!PersistIntent(u, w) PROVE Rests(u)
  BY <1>1, <1>11 DEF Conv!PersistIntent, Rests, IsTurn, Fields
<1>12. ASSUME NEW w \in Conv!Writes, Conv!Complete(u, w) PROVE Rests(u)
  BY <1>1, <1>12 DEF Conv!Complete, Rests, IsTurn, Fields
<1>13. ASSUME NEW w \in Conv!Writes, Conv!Unprotect(u, w) PROVE Rests(u)
  BY <1>1, <1>13 DEF Conv!Unprotect, Rests, IsTurn, Fields
<1> QED BY <1>2, <1>3, <1>4, <1>5, <1>6, <1>7, <1>8, <1>9, <1>10, <1>11, <1>12, <1>13

LEMMA UnsentSettling ==
  ASSUME ConversationInv, NEW u \in Conv!Turns, NEW w \in Conv!Writes,
         \/ Conv!FailedBeforeCommit(u, w) \/ Conv!FailInert(u, w) \/
            Conv!StartReadSettling(u, w)
         \/ Conv!ReadEndSettling(u, w) \/ Conv!StreamDelivered(u, w)
  PROVE  Rests(u)
<1>1. DOMAIN turn = Conv!Turns /\ IsTurn(turn[u])
  BY DEF ConversationInv, TurnInv, TurnTypes
<1>2. PICK S : S = Conv!SettleAs(turn[u], TRUE, w)
  OBVIOUS
<1>3. DOMAIN S = Fields /\ S.trace = turn[u].trace
  BY <1>1, <1>2 DEF Conv!SettleAs, IsTurn, Fields
<1>4. ASSUME Conv!FailedBeforeCommit(u, w) PROVE Rests(u)
  BY <1>1, <1>2, <1>3, <1>4 DEF Conv!FailedBeforeCommit, Rests, Fields
<1>5. ASSUME Conv!FailInert(u, w) PROVE Rests(u)
  BY <1>1, <1>2, <1>3, <1>5 DEF Conv!FailInert, Rests, Fields
<1>6. ASSUME Conv!StartReadSettling(u, w) PROVE Rests(u)
  BY <1>1, <1>2, <1>3, <1>6 DEF Conv!StartReadSettling, Rests, Fields
<1>7. ASSUME Conv!ReadEndSettling(u, w) PROVE Rests(u)
  BY <1>1, <1>2, <1>3, <1>7 DEF Conv!ReadEndSettling, Rests, Fields
<1>8. ASSUME Conv!StreamDelivered(u, w) PROVE Rests(u)
  BY <1>1, <1>2, <1>3, <1>8 DEF Conv!StreamDelivered, Rests, Fields
<1> QED BY <1>4, <1>5, <1>6, <1>7, <1>8

LEMMA UnsentClosing ==
  ASSUME ConversationInv, NEW u \in Conv!Turns,
         \/ \E c \in Threads, src \in 0..N : Conv!Begin(u, c, src)
         \/ Conv!FinishSettled(u)
         \/ \E w \in Conv!Writes : Conv!FinishInterrupted(u, w) \/ Conv!FinishSafe(u, w) \/
            Conv!FinishEnded(u, w)
  PROVE  Rests(u)
<1>1. DOMAIN turn = Conv!Turns
  BY DEF ConversationInv, TurnInv, TurnTypes
<1>2. \A R : Conv!Closed(R).trace = "none"
  BY DEF Conv!Closed, Conv!Begun
<1>3. \A R : Conv!Close(u, R) => Rests(u)
  BY <1>1, <1>2 DEF Conv!Close, Rests
<1>4. ASSUME NEW c \in Threads, NEW src \in 0..N, Conv!Begin(u, c, src) PROVE Rests(u)
  BY <1>1, <1>4 DEF Conv!Begin, Conv!Begun, Rests
<1>5. ASSUME Conv!FinishSettled(u) PROVE Rests(u)
  BY <1>3, <1>5 DEF Conv!FinishSettled
<1>6. ASSUME NEW w \in Conv!Writes, Conv!FinishInterrupted(u, w) PROVE Rests(u)
  BY <1>3, <1>6 DEF Conv!FinishInterrupted
<1>7. ASSUME NEW w \in Conv!Writes, Conv!FinishSafe(u, w) PROVE Rests(u)
  BY <1>3, <1>7 DEF Conv!FinishSafe
<1>8. ASSUME NEW w \in Conv!Writes, Conv!FinishEnded(u, w) PROVE Rests(u)
  BY <1>3, <1>8 DEF Conv!FinishEnded
<1> QED BY <1>4, <1>5, <1>6, <1>7, <1>8

LEMMA OnlyAdmittedSent ==
  ASSUME ConversationInv, [Conv!Next]_(Conv!vars), NEW t \in Conv!Turns, Sends(t)
  PROVE  CleanBefore(t)
<1>1. \A u \in Conv!Turns : ~Rests(u)
  BY DEF Sends, Rests
<1>2. DOMAIN turn = Conv!Turns
  BY DEF ConversationInv, TurnInv, TurnTypes
<1>3. turn' # turn
  BY DEF Sends
<1>4. ~Conv!Restart
  <2>1. ASSUME Conv!Restart PROVE turn'[t] \in {Conv!Closed(turn[t]), turn[t]}
    BY <2>1 DEF Conv!Restart
  <2>2. Conv!Closed(turn[t]).trace = "none"
    BY DEF Conv!Closed, Conv!Begun
  <2> QED BY <2>1, <2>2 DEF Sends
<1>5. PICK u \in Conv!Turns : Conv!Dispatch(u)
  BY <1>1, <1>3, <1>4, UnsentStep, UnsentSettling, UnsentClosing DEF Conv!Next, Conv!Shutdown,
     Conv!vars
<1>6. u = t
  BY <1>2, <1>5 DEF Conv!Dispatch, Sends
<1>7. Conv!Open(t) /\ Admitted(turn[t])
  BY <1>5, <1>6 DEF Conv!Dispatch, Admitted
<1> QED BY <1>7 DEF ConversationInv, TurnInv, AdmittedClean

\* A client that is not known to resend what it received has no turn generated
\* while earlier work of the conversation is unaccounted for (beginAttemptFrom
\* of conversation_history.go, finish of conversation_migration.go).
THEOREM WorkNotRepeated == OnDiskSpec => NoWorkRepeated
<1>1. ConversationInv /\ [Conv!Next]_(Conv!vars) =>
        [\A t \in Conv!Turns :
           turn[t].phase = "open" /\ turn[t].trace # "sent" /\ turn'[t].trace = "sent"
           /\ ~Conv!Trusted(turn[t])
           => \A u \in Conv!Turns : turn[u].phase = "closed" /\ turn[u].root = turn[t].root
                                    => fate[u] = "clean"]_(Conv!vars)
  BY OnlyAdmittedSent DEF Sends, CleanBefore
<1> QED BY <1>1, ConversationInvariant, ConversationsAlone, PTL
   DEF Conv!Spec, NoWorkRepeated, Conv!NoWorkRepeated

\* Items followed by another event have reached the client.
LEMMA FollowedReceived ==
  ASSUME NEW T, IsTurn(T), Placed(T), NEW i \in Conv!Delivered(T, FALSE)
  PROVE  i <= T.got
<1>1. i \in 1..Len(T.seen) /\ i <= Conv!Observed(T) - 2
  BY DEF Conv!Delivered, Conv!Items
<1>2. T.seen \in Seq(Sounds) /\ T.got \in Nat /\ Len(T.seen) \in Nat
  BY DEF IsTurn
<1>3. Conv!Observed(T) \in Int /\ Conv!Observed(T) <= Len(T.seen)
  BY <1>2 DEF Conv!Observed
<1>4. T.trace = "stream"
  BY <1>1, <1>2 DEF Placed
<1> QED BY <1>1, <1>2, <1>3, <1>4 DEF Placed

\* The client has read all of the stream it will.
Through(T) ==
  /\ T.got = T.read
  /\ \/ T.read = Len(T.seen)
     \/ T.read = Len(T.seen) - 1 /\ T.seen[Len(T.seen)] = "failed"

LEMMA SettledReceived ==
  ASSUME ConversationInv, NEW t \in Conv!Turns, NEW w \in Conv!Writes,
         Conv!SettleStore(t, turn[t], TRUE, w), Keeps(t, w), snaps'[t] # snaps[t],
         Conv!Executable(turn[t]) => Through(turn[t]),
         NEW i \in turn'[t].kept, turn[t].seen[i] = "call"
  PROVE  i <= turn[t].got
<1>1. IsTurn(turn[t]) /\ Placed(turn[t]) /\ TurnInv /\ StoreTypes
  BY DEF ConversationInv, TurnInv, TurnTypes
<1>2. Snapped(t, Saves(turn[t], TRUE, w))
  BY <1>1, StoreSettled
<1>3. Conv!Needs(turn[t], TRUE) /\ Conv!Commits(w) /\ Conv!Delivered(turn[t], TRUE) # {}
  BY <1>2 DEF Snapped, Saves
<1>4. Conv!SettleAs(turn[t], TRUE, w).kept = Conv!Delivered(turn[t], TRUE)
  BY <1>1, <1>3 DEF Conv!SettleAs, IsTurn, Fields
<1>5. i \in Conv!Delivered(turn[t], TRUE)
  BY <1>4 DEF Keeps
<1>6. CASE Conv!Executable(turn[t])
  <2>1. ~Conv!Unsavable(turn[t], TRUE)
    BY <1>3, <1>6 DEF Conv!Needs
  <2> QED BY <1>1, <1>5, <1>6, <2>1, AllReceived DEF Through
<1>7. CASE ~Conv!Executable(turn[t])
  <2>1. turn[t].got <= Len(turn[t].seen)
    BY <1>1 DEF Placed, IsTurn
  <2>2. i \in 1..Len(turn[t].seen)
    BY <1>5 DEF Conv!Delivered, Conv!Items
  <2> QED BY <1>1, <1>7, <2>1, <2>2, InertReceived
<1> QED BY <1>6, <1>7

\* The step leaves the snapshot of every turn but u.
SavesFor(u) == \A v \in Conv!Turns \ {u} : snaps'[v] = snaps[v]

LEMMA OneSaved ==
  ASSUME ConversationInv, NEW u \in Conv!Turns, NEW r,
         snaps' = snaps \/ snaps' = [snaps EXCEPT ![u] = r]
  PROVE  SavesFor(u)
<1>1. DOMAIN snaps = 0..N /\ \A v \in Conv!Turns : v \in 0..N
  BY DEF ConversationInv, StoreTypes, Conv!Turns
<1> QED BY <1>1 DEF SavesFor

LEMMA SettlingSaves ==
  ASSUME ConversationInv, NEW u \in Conv!Turns, NEW e \in BOOLEAN, NEW w \in Conv!Writes,
         Conv!SettleStore(u, turn[u], e, w)
  PROVE  SavesFor(u)
<1>1. snaps' = snaps \/ snaps' = [snaps EXCEPT ![u] = turn[u].root]
  BY DEF Conv!SettleStore
<1> QED BY <1>1, OneSaved

\* The steps that save what an open turn did before it ended.
Settles(t, w) ==
  \/ Conv!FailedBeforeCommit(t, w) \/ Conv!StartReadSettling(t, w)
  \/ Conv!ReadEndSettling(t, w) \/ Conv!StreamDelivered(t, w)

LEMMA SettlesThrough ==
  ASSUME ConversationInv, NEW t \in Conv!Turns, NEW w \in Conv!Writes, Settles(t, w)
  PROVE  /\ Conv!SettleStore(t, turn[t], TRUE, w) /\ Keeps(t, w)
         /\ Conv!Executable(turn[t]) => Through(turn[t])
<1>1. Conv!SettleStore(t, turn[t], TRUE, w) /\ Conv!Open(t)
  BY DEF Settles, Conv!FailedBeforeCommit, Conv!StartReadSettling, Conv!ReadEndSettling,
     Conv!StreamDelivered, Conv!Streaming, Conv!Open
<1>2. Keeps(t, w)
  BY FailedEarlyStep, StartReadStep, ReadEndSettlingStep, DeliveredStep DEF Settles
<1>3. IsTurn(turn[t]) /\ Sound(turn[t], marker[t])
  BY <1>1 DEF ConversationInv, TurnInv, TurnTypes, OpenSound
<1>4. ASSUME Conv!FailedBeforeCommit(t, w) PROVE ~Conv!Executable(turn[t])
  <2>1. turn[t].seen = <<>> /\ ~turn[t].hidden
    BY <1>3, <1>4 DEF Conv!FailedBeforeCommit, Sound, Placed
  <2> QED BY <2>1 DEF Conv!Executable
<1>5. ASSUME Conv!StartReadSettling(t, w) PROVE Through(turn[t])
  <2>1. turn[t].read = Len(turn[t].seen) /\ turn[t].seen[Len(turn[t].seen)] \in Conv!Terminals
    BY <1>5 DEF Conv!StartReadSettling, Conv!Due, Conv!Terminals
  <2>2. turn[t].got = turn[t].read
    BY <1>3, <1>5, <2>1 DEF Conv!StartReadSettling, Conv!Streaming, Conv!Consumed, Sound,
       Placed
  <2> QED BY <2>1, <2>2 DEF Through
<1>6. ASSUME Conv!ReadEndSettling(t, w) PROVE Through(turn[t])
  BY <1>6 DEF Conv!ReadEndSettling, Conv!AtEnd, Conv!Consumed, Through
<1>7. ASSUME Conv!StreamDelivered(t, w) PROVE Through(turn[t])
  BY <1>3, <1>7 DEF Conv!StreamDelivered, Conv!Written, Sound, HandedOff, Through
<1> QED BY <1>1, <1>2, <1>4, <1>5, <1>6, <1>7 DEF Settles

\* A step that saves for a turn that stays open, and may hear more of it no
\* longer, is one that settles it.
LEMMA OnlySettlesSave ==
  ASSUME ConversationInv, [Conv!Next]_(Conv!vars), NEW t \in Conv!Turns, snaps'[t] # snaps[t],
         ~Conv!CanObserve(t), Conv!Open(t)'
  PROVE  \E w \in Conv!Writes : Settles(t, w)
<1>1. DOMAIN turn = Conv!Turns /\ DOMAIN snaps = 0..N
  BY DEF ConversationInv, TurnInv, TurnTypes, StoreTypes
<1>2. \A u \in Conv!Turns : SavesFor(u) => u = t
  BY DEF SavesFor
<1>3. snaps' # snaps
  OBVIOUS
<1>4. ASSUME NEW u \in Conv!Turns, NEW w \in Conv!Writes, Conv!Complete(u, w) PROVE FALSE
  <2>1. u = t
    BY <1>1, <1>2, <1>4 DEF Conv!Complete, SavesFor
  <2> QED BY <1>4, <2>1 DEF Conv!Complete
<1>5. ASSUME NEW u \in Conv!Turns, NEW w \in Conv!Writes, Conv!FailInert(u, w) PROVE FALSE
  <2>1. u = t
    BY <1>2, <1>5, SettlingSaves DEF Conv!FailInert
  <2> QED BY <1>5, <2>1 DEF Conv!FailInert
<1>6. ASSUME NEW u \in Conv!Turns, NEW w \in Conv!Writes, Conv!FinishInterrupted(u, w)
             PROVE FALSE
  <2>1. u = t
    <3>1. snaps' = snaps \/ snaps' = [snaps EXCEPT ![u] = turn[u].root]
      BY <1>6 DEF Conv!FinishInterrupted
    <3> QED BY <1>2, <3>1, OneSaved
  <2> QED BY <1>1, <1>6, <2>1 DEF Conv!FinishInterrupted, Conv!Close, Conv!Closed, Conv!Begun,
             Conv!Open
<1>7. ASSUME NEW u \in Conv!Turns, NEW w \in Conv!Writes, Conv!FinishEnded(u, w) PROVE FALSE
  <2>1. SavesFor(u)
    BY <1>7, SettlingSaves DEF Conv!FinishEnded
  <2>2. u = t
    BY <1>2, <2>1
  <2> QED BY <1>1, <1>7, <2>2 DEF Conv!FinishEnded, Conv!Close, Conv!Closed, Conv!Begun,
             Conv!Open
<1>8. ASSUME NEW u \in Conv!Turns, NEW w \in Conv!Writes, Settles(u, w) PROVE u = t
  <2>1. Conv!SettleStore(u, turn[u], TRUE, w)
    BY <1>8 DEF Settles, Conv!FailedBeforeCommit, Conv!StartReadSettling,
       Conv!ReadEndSettling, Conv!StreamDelivered
  <2> QED BY <1>2, <2>1, SettlingSaves
<1>9. ~Conv!Restart /\ ~Conv!Shutdown /\ ~UNCHANGED Conv!vars
  BY <1>3 DEF Conv!Restart, Conv!Shutdown, Conv!vars
<1>10. ASSUME NEW u \in Conv!Turns,
         \/ \E c \in Threads, src \in 0..N : Conv!Begin(u, c, src)
         \/ Conv!Dispatch(u) \/ Conv!SafeFailure(u) \/ Conv!AmbiguousFailure(u)
         \/ \E bridged \in BOOLEAN : Conv!Commit(u, bridged)
         \/ \E kind \in Conv!Kinds, cut \in BOOLEAN : Conv!Observe(u, kind, cut)
         \/ Conv!FailWithOutput(u) \/ Conv!FailDeferred(u)
         \/ Conv!ReadEvent(u) \/ Conv!Deliver(u) \/ Conv!ReadEnd(u) \/ Conv!ReadEndBridged(u)
         \/ Conv!ClientEnds(u) \/ Conv!FinishSettled(u)
         \/ \E w \in Conv!Writes : Conv!PersistIntent(u, w) \/ Conv!Unprotect(u, w) \/
            Conv!FinishSafe(u, w)
       PROVE FALSE
  BY <1>3, <1>10 DEF Conv!Begin, Conv!Dispatch, Conv!SafeFailure, Conv!AmbiguousFailure,
     Conv!Commit, Conv!Observe, Conv!FailWithOutput, Conv!FailDeferred, Conv!ReadEvent,
     Conv!Deliver, Conv!ReadEnd, Conv!ReadEndBridged, Conv!ClientEnds, Conv!FinishSettled,
     Conv!PersistIntent, Conv!Unprotect, Conv!FinishSafe
<1>11. PICK u \in Conv!Turns : \E w \in Conv!Writes : Settles(u, w)
  BY <1>4, <1>5, <1>6, <1>7, <1>9, <1>10 DEF Conv!Next, Settles
<1> QED BY <1>8, <1>11

LEMMA SavedReceived ==
  ASSUME ConversationInv, [Conv!Next]_(Conv!vars), NEW t \in Conv!Turns,
         snaps[t] = Conv!NoRoot, snaps'[t] # Conv!NoRoot, Conv!CanObserve(t)
           => ~Conv!Open(t)',
         NEW i \in IF Conv!Open(t)' THEN turn'[t].kept ELSE Conv!Delivered(turn[t], FALSE),
         turn[t].seen[i] = "call"
  PROVE  i <= turn[t].got
<1>1. CASE Conv!Open(t)'
  <2>1. PICK w \in Conv!Writes : Settles(t, w)
    BY <1>1, OnlySettlesSave
  <2>2. /\ Conv!SettleStore(t, turn[t], TRUE, w) /\ Keeps(t, w)
        /\ Conv!Executable(turn[t]) => Through(turn[t])
    BY <2>1, SettlesThrough
  <2> QED BY <1>1, <2>2, SettledReceived
<1>2. CASE ~Conv!Open(t)'
  <2>1. IsTurn(turn[t]) /\ Placed(turn[t])
    BY DEF ConversationInv, TurnInv, TurnTypes
  <2> QED BY <1>2, <2>1, FollowedReceived
<1> QED BY <1>1, <1>2

\* A snapshot of a response that did not complete holds only calls the client
\* was handed (deliveredOutput, streamReadStarting and streamDelivered of
\* conversation_migration.go).
THEOREM SavedReceivedFirst == OnDiskSpec => SavedWasReceived
<1>1. ConversationInv /\ [Conv!Next]_(Conv!vars) =>
        [\A t \in Conv!Turns :
           snaps[t] = Conv!NoRoot /\ snaps'[t] # Conv!NoRoot /\
             (Conv!CanObserve(t) => ~Conv!Open(t)')
           => \A i \in IF Conv!Open(t)' THEN turn'[t].kept ELSE Conv!Delivered(turn[t],
             FALSE) :
                turn[t].seen[i] = "call" => i <= turn[t].got]_(Conv!vars)
  BY SavedReceived
<1> QED BY <1>1, ConversationInvariant, ConversationsAlone, PTL
   DEF Conv!Spec, SavedWasReceived, Conv!SavedWasReceived

\* The variables of ConversationTurn have their types.
THEOREM ConversationTypeOK == Conv!Spec => []Conv!TypeOK
<1>1. ConversationInv => Conv!TypeOK
  <2> SUFFICES ASSUME ConversationInv PROVE Conv!TypeOK
    OBVIOUS
  <2>1. ASSUME NEW t \in Conv!Turns
        PROVE  turn[t].got <= turn[t].read /\ turn[t].read <= Len(turn[t].seen)
    BY DEF ConversationInv, TurnInv, TurnTypes, IsTurn, Placed
  <2> QED BY <2>1 DEF ConversationInv, StoreTypes, TurnInv, TurnTypes, Conv!TypeOK, Roots,
             Marks
<1> QED BY <1>1, ConversationInvariant, PTL
=============================================================================

-------------------------- MODULE DurableBindings --------------------------
(***************************************************************************)
(* Durable ownership of provider state: proxy/state_binding_durable.go,    *)
(* and the requests that rely on it, proxy/route_state_durable_identity.go *)
(* and the exposure boundaries of proxy/route_executor.go and              *)
(* proxy/response_model_normalization.go.                                  *)
(*                                                                         *)
(* A request that carries tokens is sent to their owner only.  A response  *)
(* reaches the client after its tokens were committed to disk.  A commit   *)
(* whose outcome is uncertain freezes the store until a restart.  Offline, *)
(* an operator may retire the records issued before a cutoff.              *)
(*                                                                         *)
(* One process holds the exclusive lock of the file from open to close, so *)
(* only one is modelled; a prune runs while it is down.  A commit is one   *)
(* step under d.mu.  A crash forgets the requests and keeps the disk.      *)
(***************************************************************************)
EXTENDS Naturals, FiniteSets

CONSTANTS
  Ops,            \* requests in flight (routeOperation)
  Tokens, Conversations,
  Routes, Targets, Owners,
  Unknown, Conflict, Refused, None,
  Bootstrap,      \* explicitConversationBootstrapTarget of each route
  Limits,         \* maxEntries in the configurations of the restarts
  MaxTime         \* bound of the clock

ASSUME OwnerAssumption ==
  \A o \in Owners : /\ o.route \in Routes
                    /\ o.target \in Targets
                    /\ o = [route |-> o.route, target |-> o.target, identity |-> o.identity]
                    /\ o.identity # None
ASSUME TokenAssumption == IsFiniteSet(Tokens) /\ Conversations \subseteq Tokens
ASSUME DistinctAssumption ==
  /\ {Unknown, Conflict, Refused, None} \cap Owners = {}
  /\ Unknown # Conflict /\ Refused \notin {Unknown, Conflict}
  /\ None \notin Targets
ASSUME BootstrapAssumption == Bootstrap \in [Routes -> Targets \cup {None}]
ASSUME LimitAssumption == Limits \subseteq Nat \ {0} /\ MaxTime \in Nat

VARIABLES
  \* the database: records with outcome or owner, their issuance time, Sequence
  proof, issued, sequence,
  \* durableStateBindings: down, open, or failed (frozen); maxEntries; the clock
  store, limit, now,
  \* routeOperation of each request
  phase, route, pin, asks, claims, need, owner, answer,
  \* history: the owners that issued a token to a client or were sent it,
  \* since its record was last retired
  trusted

diskVars  == <<proof, issued, sequence>>
storeVars == <<store, limit, now>>
opVars    == <<phase, route, pin, asks, claims, need, owner, answer>>
vars == <<diskVars, storeVars, opVars, trusted>>

Recorded == {t \in Tokens : proof[t] # Unknown}

-----------------------------------------------------------------------------
\* The request leaves nothing behind.
Idle(i) ==
  /\ phase' = [phase EXCEPT ![i] = "idle"]
  /\ route' = [route EXCEPT ![i] = None]
  /\ pin' = [pin EXCEPT ![i] = None]
  /\ asks' = [asks EXCEPT ![i] = {}]
  /\ claims' = [claims EXCEPT ![i] = FALSE]
  /\ need' = [need EXCEPT ![i] = None]
  /\ owner' = [owner EXCEPT ![i] = None]
  /\ answer' = [answer EXCEPT ![i] = {}]

Init ==
  /\ proof = [t \in Tokens |-> Unknown]
  /\ issued = [t \in Tokens |-> 0]
  /\ sequence = 0
  /\ store = "down" /\ limit \in Limits /\ now = 0
  /\ phase = [i \in Ops |-> "idle"]
  /\ route = [i \in Ops |-> None]
  /\ pin = [i \in Ops |-> None]
  /\ asks = [i \in Ops |-> {}]
  /\ claims = [i \in Ops |-> FALSE]
  /\ need = [i \in Ops |-> None]
  /\ owner = [i \in Ops |-> None]
  /\ answer = [i \in Ops |-> {}]
  /\ trusted = [t \in Tokens |-> {}]

-----------------------------------------------------------------------------
\* Mutant of Commit: the error of the commit is dropped.
CommitUnchecked(newProof, changed, newSequence, result, committed) ==
  /\ result = committed
  /\ \/ /\ proof' = newProof
        /\ issued' = [t \in Tokens |-> IF t \in changed THEN now ELSE issued[t]]
        /\ sequence' = newSequence
     \/ UNCHANGED diskVars
  /\ UNCHANGED store

\* One transaction, synced: it is durable, or its outcome is uncertain.
Commit(newProof, changed, newSequence, result, committed) ==
  \/ /\ result = committed
     /\ proof' = newProof
     /\ issued' = [t \in Tokens |-> IF t \in changed THEN now ELSE issued[t]]
     /\ sequence' = newSequence
     /\ UNCHANGED store
  \/ /\ result = Refused
     /\ store' = "failed"
     /\ \/ /\ proof' = newProof
           /\ issued' = [t \in Tokens |-> IF t \in changed THEN now ELSE issued[t]]
           /\ sequence' = newSequence
        \/ UNCHANGED diskVars

Fresh(S) == {t \in S : proof[t] = Unknown}
Foreign(S, o) == {t \in S : proof[t] \in Owners \ {o}}
Buried(S) == {t \in S : proof[t] = Conflict}

\* Mutant of Collided: the new tokens of the batch get their owner all the same.
CollidedInPart(S, o) ==
  [t \in Tokens |-> IF t \in Foreign(S, o) THEN Conflict
                    ELSE IF t \in Fresh(S) THEN o ELSE proof[t]]

Collided(S, o) ==
  [t \in Tokens |-> IF t \in Foreign(S, o) THEN Conflict ELSE proof[t]]

Granted(S, o) == [t \in Tokens |-> IF t \in Fresh(S) THEN o ELSE proof[t]]

Counted(S) == sequence + Cardinality(Fresh(S))

Fits(S) == Cardinality(Fresh(S)) <= limit - sequence

\* The tokens in S get the owner o, all of them or none.
BindAll(S, o, result) ==
  \/ /\ store # "open"
     /\ result = Refused
     /\ UNCHANGED <<diskVars, store>>
  \/ /\ store = "open"
     /\ \A t \in S : proof[t] = o
     /\ result = o
     /\ UNCHANGED <<diskVars, store>>
  \/ /\ store = "open"
     /\ Foreign(S, o) \cup Buried(S) # {}
     /\ Commit(Collided(S, o), Foreign(S, o), sequence, result, Conflict)
  \/ /\ store = "open"
     /\ Foreign(S, o) \cup Buried(S) = {}
     /\ Fresh(S) # {}
     /\ ~Fits(S)
     /\ result = Refused
     /\ UNCHANGED <<diskVars, store>>
  \/ /\ store = "open"
     /\ Foreign(S, o) \cup Buried(S) = {}
     /\ Fresh(S) # {}
     /\ Fits(S)
     /\ Commit(Granted(S, o), Fresh(S), Counted(S), result, o)

\* Mutant of Claim: the owner found by a claim is not told.
ClaimBlind(t, o, result) ==
  \/ /\ store = "open"
     /\ proof[t] # Unknown
     /\ result = o
     /\ UNCHANGED <<diskVars, store>>
  \/ /\ store = "open" => proof[t] = Unknown
     /\ BindAll({t}, o, result)

\* A conversation nobody owns gets the owner o; otherwise its owner is told.
Claim(t, o, result) ==
  \/ /\ store = "open"
     /\ proof[t] # Unknown
     /\ result = proof[t]
     /\ UNCHANGED <<diskVars, store>>
  \/ /\ store = "open" => proof[t] = Unknown
     /\ BindAll({t}, o, result)

\* All the tokens in S are known to be o's, for a route and a target chosen.
Owned(S, r, p, o) ==
  /\ \A t \in S : proof[t] = o
  /\ o.route = r
  /\ p \in {None, o.target}

-----------------------------------------------------------------------------
\* newDurableStateBindingStore, on a new file or after a restart.
Open == /\ store = "down"
        /\ \E l \in Limits : /\ Cardinality(Recorded) <= l
                             /\ limit' = l
        /\ Cardinality(Recorded) = sequence
        /\ store' = "open"
        /\ UNCHANGED <<diskVars, now, opVars, trusted>>

\* The process ends, with the requests it was serving.
Crash == /\ store # "down"
         /\ store' = "down"
         /\ phase' = [i \in Ops |-> "idle"]
         /\ route' = [i \in Ops |-> None]
         /\ pin' = [i \in Ops |-> None]
         /\ asks' = [i \in Ops |-> {}]
         /\ claims' = [i \in Ops |-> FALSE]
         /\ need' = [i \in Ops |-> None]
         /\ owner' = [i \in Ops |-> None]
         /\ answer' = [i \in Ops |-> {}]
         /\ UNCHANGED <<diskVars, limit, now, trusted>>

\* PruneDurableStateBindings: the operator gives up the older records.

Retired(cutoff) == {t \in Recorded : issued[t] < cutoff}

Prune == /\ store = "down"
         /\ Cardinality(Recorded) = sequence
         /\ \E cutoff \in 1 .. now :
              /\ proof' = [t \in Tokens |-> IF t \in Retired(cutoff) THEN Unknown ELSE proof[t]]
              /\ issued' = [t \in Tokens |-> IF t \in Retired(cutoff) THEN 0 ELSE issued[t]]
              /\ sequence' = sequence - Cardinality(Retired(cutoff))
              /\ trusted' = [t \in Tokens |-> IF t \in Retired(cutoff) THEN {} ELSE trusted[t]]
         /\ UNCHANGED <<storeVars, opVars>>

Tick == /\ now < MaxTime
        /\ now' = now + 1
        /\ UNCHANGED <<diskVars, store, limit, opVars, trusted>>

-----------------------------------------------------------------------------
\* A request without tokens may go to every target.
Unbound(i, p) ==
  /\ pin' = [pin EXCEPT ![i] = p]
  /\ UNCHANGED <<need, claims>>

\* A request whose tokens are known goes to their owner.
Continues(i, S, r, p) ==
  /\ store = "open"
  /\ \E o \in Owners : /\ Owned(S, r, p, o)
                       /\ pin' = [pin EXCEPT ![i] = o.target]
                       /\ need' = [need EXCEPT ![i] = o.identity]
  /\ UNCHANGED claims

\* A conversation nobody owns goes to the one eligible target of its route.
Begins(i, S, r, p) ==
  /\ store = "open"
  /\ \E c \in Conversations : S = {c} /\ proof[c] = Unknown
  /\ Bootstrap[r] # None /\ p \in {None, Bootstrap[r]}
  /\ pin' = [pin EXCEPT ![i] = Bootstrap[r]]
  /\ claims' = [claims EXCEPT ![i] = TRUE]
  /\ UNCHANGED need

\* applyDurableRequestStateBinding: a request with the tokens in S for route r,
\* possibly pinned by its websocket session.  A request that is rejected here
\* leaves nothing behind.
Ask(i) ==
  /\ phase[i] = "idle"
  /\ store # "down"
  /\ \E r \in Routes, p \in Targets \cup {None}, S \in SUBSET Tokens :
       /\ phase' = [phase EXCEPT ![i] = "ready"]
       /\ route' = [route EXCEPT ![i] = r]
       /\ asks' = [asks EXCEPT ![i] = S]
       /\ \/ S = {} /\ Unbound(i, p)
          \/ S # {} /\ Continues(i, S, r, p)
          \/ Begins(i, S, r, p)
  /\ UNCHANGED <<diskVars, storeVars, owner, answer, trusted>>

\* validateDurableRequestOwner: the target and the identity o of this attempt
\* are those that its tokens need; a new conversation is claimed for it.
Eligible(i, o) == o.route = route[i] /\ pin[i] \in {None, o.target}

Fails(i, o) ==
  /\ store # "open" \/ need[i] \notin {None, o.identity}
  /\ Idle(i)
  /\ UNCHANGED <<diskVars, store>>

Clear(i, o) ==
  /\ phase' = [phase EXCEPT ![i] = "cleared"]
  /\ owner' = [owner EXCEPT ![i] = o]
  /\ UNCHANGED <<route, pin, asks, claims, answer>>

Proceeds(i, o) ==
  /\ store = "open"
  /\ need[i] \in {None, o.identity}
  /\ \/ /\ ~claims[i]
        /\ Clear(i, o)
        /\ UNCHANGED <<need, diskVars, store>>
     \/ /\ claims[i]
        /\ \E t \in asks[i], result \in Owners \cup {Conflict, Refused} :
             /\ Claim(t, o, result)
             /\ \/ result # o /\ Idle(i)
                \/ result = o /\ Clear(i, o) /\ need' = [need EXCEPT ![i] = o.identity]

Validate(i) ==
  /\ phase[i] = "ready"
  /\ \E o \in Owners : Eligible(i, o) /\ (Fails(i, o) \/ Proceeds(i, o))
  /\ UNCHANGED <<limit, now, trusted>>

Trust(S, o) ==
  trusted' = [t \in Tokens |-> IF t \in S THEN trusted[t] \cup {o} ELSE trusted[t]]

\* The send: from here on this owner has seen the tokens of the request.
Dispatch(i) ==
  /\ phase[i] = "cleared"
  /\ phase' = [phase EXCEPT ![i] = "sent"]
  /\ Trust(asks[i], owner[i])
  /\ UNCHANGED <<diskVars, storeVars, route, pin, asks, claims, need, owner, answer>>

\* The attempt failed; the request is sent again, elsewhere if it may be.
Retry(i) ==
  /\ phase[i] = "sent"
  /\ phase' = [phase EXCEPT ![i] = "ready"]
  /\ owner' = [owner EXCEPT ![i] = None]
  /\ UNCHANGED <<diskVars, storeVars, route, pin, asks, claims, need, answer, trusted>>

\* bindExplicitStateTokens: a response, its headers or an event of its stream
\* brings tokens; without their proof it is not forwarded.
Answer(i) ==
  /\ phase[i] = "sent"
  /\ \E S \in SUBSET Tokens \ {{}}, result \in Owners \cup {Conflict, Refused} :
       /\ BindAll(S, owner[i], result)
       /\ \/ result # owner[i] /\ Idle(i)
          \/ /\ result = owner[i]
             /\ phase' = [phase EXCEPT ![i] = "bound"]
             /\ answer' = [answer EXCEPT ![i] = S]
             /\ UNCHANGED <<route, pin, asks, claims, need, owner>>
  /\ UNCHANGED <<limit, now, trusted>>

\* The client gets the response or the event.
Expose(i) ==
  /\ phase[i] = "bound"
  /\ phase' = [phase EXCEPT ![i] = "sent"]
  /\ answer' = [answer EXCEPT ![i] = {}]
  /\ Trust(answer[i], owner[i])
  /\ UNCHANGED <<diskVars, storeVars, route, pin, asks, claims, need, owner>>

\* The request ends, in any phase.
Finish(i) ==
  /\ phase[i] # "idle"
  /\ Idle(i)
  /\ UNCHANGED <<diskVars, storeVars, trusted>>

Serve(i) == \/ Ask(i) \/ Validate(i) \/ Dispatch(i) \/ Retry(i)
            \/ Answer(i) \/ Expose(i) \/ Finish(i)

Next == Open \/ Crash \/ Prune \/ Tick \/ \E i \in Ops : Serve(i)

Spec == Init /\ [][Next]_vars

-----------------------------------------------------------------------------
TypeOK ==
  /\ proof \in [Tokens -> Owners \cup {Unknown, Conflict}]
  /\ issued \in [Tokens -> 0 .. now]
  /\ sequence \in Nat
  /\ store \in {"down", "open", "failed"}
  /\ limit \in Limits
  /\ now \in 0 .. MaxTime
  /\ phase \in [Ops -> {"idle", "ready", "cleared", "sent", "bound"}]
  /\ route \in [Ops -> Routes \cup {None}]
  /\ pin \in [Ops -> Targets \cup {None}]
  /\ asks \in [Ops -> SUBSET Tokens]
  /\ claims \in [Ops -> BOOLEAN]
  /\ need \in [Ops -> {o.identity : o \in Owners} \cup {None}]
  /\ owner \in [Ops -> Owners \cup {None}]
  /\ answer \in [Ops -> SUBSET Tokens]
  /\ trusted \in [Tokens -> SUBSET Owners]

\* Until an operator retires it, a token is shared with one owner only: whoever
\* issued it to a client or was sent it in a request.  This spans restarts,
\* uncertain commits, two requests that claim one conversation, and an
\* ownership that changes between the lookup of a request and its send.
OneOwner == \A t \in Tokens : \A o, p \in trusted[t] : o = p

\* A token that left the proxy, to a client or upstream, has its proof on
\* disk, or a tombstone; no crash and no failed commit can lose it.
ProofHeld == \A t \in Tokens : \A o \in trusted[t] : proof[t] \in {o, Conflict}

\* The stored count is that of the records, so a store that was written by
\* this code opens again; the capacity check cannot wrap around.
CountExact == /\ sequence = Cardinality(Recorded)
              /\ store # "down" => sequence <= limit

\* The store keeps the promise of StateOwnership: a batch gets its owner
\* together, an owner is never replaced, and a tombstone stays one.
Ownership == INSTANCE StateOwnership WITH authority <- proof
OwnershipKept == Ownership!Spec
=============================================================================

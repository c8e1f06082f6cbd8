------------------------------ MODULE InProcess ------------------------------
(* Five protocols over state in memory that share none of it: the menubar    *)
(* application, a session of the Responses WebSocket bridge, policy routing, *)
(* the state bindings of the process, and the tool-call replay store.        *)
EXTENDS MenubarStartup

CONSTANTS
  SessionLimit, SessionCalls,
  Profiles, Routes, RouteOf, Configurations, Calls, Attempts, ProfileCapacity,
  GlobalCapacity, FailureThreshold, MaxGeneration, None,
  Tokens, Conversations, Owners, Unknown, Conflict, MaxEntries, BindingTTL,
  CallIDs, ReplayRoutes, Sizes, ReplayTTL, MaxGroups, MaxTotalBytes, MaxCalls,
  MaxPublishes, MaxNow
VARIABLES
  closing, barrier, socketClosed, cause, sessionDone, inflightCancel,
  inflightGen, holds, cancelled, sessionsDraining, registered, snapshot,
  frames, outstanding, handler, pump, ping, shutdown, closer, taken,
  mode, ready, required, breaker, profileSlots, globalSlots, call, stale,
  draining, pending, attempts, permit, attempt, diagnostic,
  recency, age, bound,
  groups, callsByID, lru, totalBytes, nextGroupID, closed, now, used

Session == INSTANCE WebSocketSession
             WITH Limit <- SessionLimit, MaxCalls <- SessionCalls,
                  draining <- sessionsDraining
Policy == INSTANCE PolicyRouting WITH shuttingDown <- draining
Bindings == INSTANCE MemoryBindings WITH TTL <- BindingTTL
Replay == INSTANCE ReplayStore
            WITH Routes <- ReplayRoutes, TTL <- ReplayTTL, recency <- used

ASSUME SessionAssumption == SessionLimit \in Nat

\* Routes and modes are given for every profile, and bounds are numbers.
PolicyConstants ==
  /\ RouteOf \in [Profiles -> Routes] /\ None \notin Profiles
  /\ Configurations \subseteq [Profiles -> Policy!Modes]
  /\ ProfileCapacity \in Nat /\ GlobalCapacity \in Nat /\ FailureThreshold \in Nat
  /\ IsFiniteSet(Calls) /\ IsFiniteSet(Attempts)

ASSUME PolicyAssumption == PolicyConstants

\* newStateBindingStore takes a limit and a lifetime that are positive.
ASSUME BindingsAssumption ==
  /\ IsFiniteSet(Tokens)
  /\ MaxEntries \in Nat \ {0} /\ BindingTTL \in Nat \ {0}
  /\ Conflict \notin Owners /\ Unknown \notin Owners \cup {Conflict}

\* newResponsesChatReplayStore puts its own limits in the place of those that
\* are not positive, and Publish refuses a group larger than all bytes allowed.
ASSUME ReplayAssumption ==
  /\ ReplayTTL \in Nat /\ MaxGroups \in Nat \ {0} /\ MaxTotalBytes \in Nat
  /\ Sizes \subseteq 0 .. MaxTotalBytes

sessionVars ==
  <<closing, barrier, socketClosed, cause, sessionDone, inflightCancel,
    inflightGen, holds, cancelled, sessionsDraining, registered, snapshot,
    frames, outstanding, handler, pump, ping, shutdown, closer, taken>>
policyVars ==
  <<mode, ready, required, breaker, profileSlots, globalSlots, call, stale,
    draining, pending, attempts, permit, attempt, diagnostic>>

bindingVars == <<recency, age, bound>>
replayVars ==
  <<groups, callsByID, lru, totalBytes, nextGroupID, closed, now, used>>
allVars == <<vars, sessionVars, policyVars, bindingVars, replayVars>>

InProcessInit ==
  Init /\ Session!Init /\ Policy!Init /\ Bindings!Init /\ Replay!Init
InProcessNext ==
  \/ Next /\ UNCHANGED <<sessionVars, policyVars, bindingVars, replayVars>>
  \/ Session!Next /\ UNCHANGED <<vars, policyVars, bindingVars, replayVars>>
  \/ Policy!Next /\ UNCHANGED <<vars, sessionVars, bindingVars, replayVars>>
  \/ Bindings!Next /\ UNCHANGED <<vars, sessionVars, policyVars, replayVars>>
  \/ Replay!Next /\ UNCHANGED <<vars, sessionVars, policyVars, bindingVars>>
InProcessSpec == InProcessInit /\ [][InProcessNext]_allVars

\* No upstream call outlives the closing of its session, and no session the
\* shutdown that waits for it: see WebSocketSession.
SessionsCut == Session!SessionsCut
\* Accepted requests fit in the queue: see WebSocketSession.
OneQueued == Session!OneQueued
\* One probe for a breaker, by one call: see PolicyRouting.
HalfOpenOwned == Policy!HalfOpenOwned
\* A gate that is open serves every profile, or says why not: see
\* PolicyRouting.
ReadyProfilesServe == Policy!ReadyProfilesServe
\* Late results of classifications change nothing: see PolicyRouting.
LateResultsIgnored == Policy!LateResultsIgnored
\* An entry of the bindings is there as its batch was bound, and for the time
\* it was given: see MemoryBindings.
EntriesKept == Bindings!BatchComplete /\ Bindings!AbsoluteLifetime
\* The bindings of the process keep the promise of StateOwnership too.
MemoryOwnershipKept == Bindings!OwnershipKept
\* Index, list and count agree with the groups: see ReplayStore.
StoreConsistent == Replay!StoreConsistent
\* A publish evicts what it must, the least recently used first: see
\* ReplayStore.
EvictsOldest == Replay!EvictsOldest
==============================================================================

----------------------------- MODULE MCInProcess -----------------------------
(* Five protocols over state in memory that share none of it, side by side:  *)
(* a behaviour is one of policy routing, of a Responses WebSocket session,   *)
(* of the menubar application, of the state bindings of the process, or of   *)
(* the tool-call replay store.  For policy routing, two profiles that share  *)
(* a classifier route, or without classifications two that have a route      *)
(* each.                                                                     *)
EXTENDS InProcess, TLC

CONSTANTS
  c1, c2, a1, a2, p1, p2, r1, r2,              \* policy routing
  t1, t2, t3, t4,                              \* bindings
  i1, i2, i3,                                  \* replay
  Parts

TwoProfiles == {p1, p2}
OneRoute == {r1}
SharedRoute == p1 :> r1 @@ p2 :> r1
OwnRoute == p1 :> r1 @@ p2 :> r2
EitherModes == {p1 :> "enforce" @@ p2 :> "observe",
                p1 :> "observe" @@ p2 :> "observe"}
TwoCalls == {c1, c2}
TwoAttempts == {a1, a2}

\* Four tokens, one of them a conversation, and room for two; two routes.
FourTokens == {t1, t2, t3, t4}
OneConversation == {t1}
TwoOwners == {[route |-> "r1", target |-> "a"], [route |-> "r2", target |-> "b"]}

\* Three call IDs for groups of two sizes.
ThreeCallIDs == {i1, i2, i3}
BothRoutes == {"r1", "r2"}
TwoSizes == {1, 3}

VARIABLE part

Readiness ==
  INSTANCE PolicyRouting
    WITH Routes <- {r1, r2}, RouteOf <- OwnRoute, ProfileCapacity <- 0,
         shuttingDown <- draining

MCInit ==
  /\ part \in Parts
  /\ Init
  /\ IF part = "readiness" THEN Readiness!Init ELSE Policy!Init
  /\ part \notin {"policy", "readiness"} =>
       \A p \in {p1, p2} : mode[p] = "observe"
  /\ Session!Init
  /\ Bindings!Init
  /\ Replay!Init

MCNext ==
  \/ /\ part = "menubar"
     /\ Next
     /\ UNCHANGED <<part, policyVars, sessionVars, bindingVars, replayVars>>
  \/ /\ part = "policy"
     /\ Policy!Next
     /\ UNCHANGED <<part, vars, sessionVars, bindingVars, replayVars>>
  \/ /\ part = "readiness"
     /\ Readiness!Next
     /\ UNCHANGED <<part, vars, sessionVars, bindingVars, replayVars>>
  \/ /\ part = "session"
     /\ Session!Next
     /\ UNCHANGED <<part, vars, policyVars, bindingVars, replayVars>>
  \/ /\ part = "bindings"
     /\ Bindings!Next
     /\ UNCHANGED <<part, vars, policyVars, sessionVars, replayVars>>
  \/ /\ part = "replay"
     /\ Replay!Next
     /\ UNCHANGED <<part, vars, policyVars, sessionVars, bindingVars>>

MCSpec == MCInit /\ [][MCNext]_<<part, allVars>>
=============================================================================

------------------------------- MODULE MCOnDisk -------------------------------
(* The two stores of OnDisk: a behaviour here is one of the durable state     *)
(* bindings or one of the conversation store.  For the state bindings, two    *)
(* requests, a response id and a conversation, two identities behind one      *)
(* target and a second target; only the first has a bootstrap target.         *)
EXTENDS OnDisk, TLC

CONSTANTS
  op1, op2, response, conversation,   \* state bindings
  a, b,                               \* clients of the conversations
  Parts

TwoOps == {op1, op2}
OpSymmetry == Permutations(TwoOps)
TwoTokens == {response, conversation}
OneConversation == {conversation}

TwoOwners == {[route |-> "r1", target |-> "a", identity |-> "id1"],
              [route |-> "r1", target |-> "a", identity |-> "id2"]}
ThreeOwners == TwoOwners \cup {[route |-> "r2", target |-> "b", identity |-> "id1"]}
OneBootstrap == [r \in {"r1", "r2"} |-> IF r = "r1" THEN "a" ELSE None]

\* A verified client and one that is not.
TwoThreads == {a, b}
OneVerified == {a}

VARIABLE part

MCInit ==
  /\ part \in Parts
  /\ OnDiskInit
  /\ part # "bindings" => \A l \in Limits : limit <= l

MCNext ==
  \/ /\ part = "bindings"
     /\ Next
     /\ UNCHANGED <<part, conversationVars>>
  \/ /\ part = "conversation"
     /\ Conv!Next
     /\ UNCHANGED <<part, vars>>

MCSpec == MCInit /\ [][MCNext]_<<part, vars, conversationVars>>
===============================================================================

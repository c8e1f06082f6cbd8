-------------------------------- MODULE OnDisk --------------------------------
(* The two stores the proxy keeps on disk, of the state bindings and of the   *)
(* conversations: no operation of one touches the other.                      *)
EXTENDS DurableBindings

CONSTANTS Threads, Resending, N, MaxStreams, MaxEvents, MaxFaults
VARIABLES snaps, marker, turn, broken, stopping, events, faults, fate, inert

Conv == INSTANCE ConversationTurn

conversationVars ==
  <<snaps, marker, turn, broken, stopping, events, faults, fate, inert>>

OnDiskInit == Init /\ Conv!Init
OnDiskNext ==
  \/ Next /\ UNCHANGED conversationVars
  \/ Conv!Next /\ UNCHANGED vars
OnDiskSpec == OnDiskInit /\ [][OnDiskNext]_<<vars, conversationVars>>

\* A turn that did nothing holds nobody up: see ConversationTurn.
InertTurnFreed == Conv!InertTurnFreed
\* No work is repeated that the model does not know of: see ConversationTurn.
NoWorkRepeated == Conv!NoWorkRepeated
\* What is saved of a turn is what the client received: see ConversationTurn.
SavedWasReceived == Conv!SavedWasReceived
===============================================================================

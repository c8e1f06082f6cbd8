SPECIFICATION MCSpec
CONSTANTS
  op1 = op1
  op2 = op2
  response = response
  conversation = conversation
  None = None
  Unknown = Unknown
  Conflict = Conflict
  Refused = Refused
  Ops <- TwoOps
  Tokens <- TwoTokens
  Conversations <- OneConversation
  Routes = {"r1", "r2"}
  Targets = {"a", "b"}
  Owners <- ThreeOwners
  Bootstrap <- OneBootstrap
  Limits = {1, 2}
  MaxTime = 1
  a = a
  b = b
  Threads <- TwoThreads
  Resending <- OneVerified
  N = 2
  MaxStreams = 1
  MaxEvents = 3
  MaxFaults = 1
  Parts = {"bindings", "conversation"}
SYMMETRY OpSymmetry
INVARIANTS
  OneOwner
  ProofHeld
  InertTurnFreed
PROPERTIES
  OwnershipKept
  NoWorkRepeated
  SavedWasReceived
CHECK_DEADLOCK FALSE

SPECIFICATION MCSpec
CONSTANTS
  c1 = c1
  c2 = c2
  a1 = a1
  a2 = a2
  p1 = p1
  p2 = p2
  r1 = r1
  r2 = r2
  None = None
  Profiles <- TwoProfiles
  Routes <- OneRoute
  RouteOf <- SharedRoute
  Configurations <- EitherModes
  Calls <- TwoCalls
  Attempts <- TwoAttempts
  ProfileCapacity = 2
  GlobalCapacity = 2
  FailureThreshold = 2
  MaxGeneration = 2
  SessionLimit = 2
  SessionCalls = 3
  MaxStartups = 2
  t1 = t1
  t2 = t2
  t3 = t3
  t4 = t4
  Tokens <- FourTokens
  Conversations <- OneConversation
  Owners <- TwoOwners
  Unknown = Unknown
  Conflict = Conflict
  MaxEntries = 2
  BindingTTL = 2
  i1 = i1
  i2 = i2
  i3 = i3
  CallIDs <- ThreeCallIDs
  ReplayRoutes <- BothRoutes
  Sizes <- TwoSizes
  ReplayTTL = 2
  MaxGroups = 2
  MaxTotalBytes = 4
  MaxCalls = 2
  MaxPublishes = 3
  MaxNow = 2
  Parts = {"policy", "readiness", "session", "menubar", "bindings", "replay"}
INVARIANTS
  HalfOpenOwned
  ReadyProfilesServe
  SessionsCut
  OneQueued
  PortAccounted
  WantedServerRuns
  EntriesKept
  StoreConsistent
PROPERTIES
  LateResultsIgnored
  MemoryOwnershipKept
  EvictsOldest
CHECK_DEADLOCK FALSE

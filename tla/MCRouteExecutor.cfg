SPECIFICATION FairSpec
CONSTANTS
  N = 3
  Azure <- AzureTargets
  Eligible <- AllTargets
  Replayable <- AllTargets
  Budgets <- RouteBudgets
  MaxFollowUps = 1
INVARIANTS
  OwnerKept
  PermitsSettled
PROPERTIES
  BindingMovesSafely
  ImplementsReplaySafety
  ExecutionEnds

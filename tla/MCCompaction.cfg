SPECIFICATION Spec
CONSTANTS
  N = 3
  Azure <- AzureTargets
  Eligible <- AllTargets
  Replayable <- AllTargets
  Budgets <- RouteBudgets
  MaxFollowUps = 1
PROPERTIES
  CompactionStaysOnTarget

SPECIFICATION FairSpec
CONSTANTS
  Callers = {c1, c2}
  Keys = {k1, k2}
  Entries = {e1, e2, e3}
  NoEntry = NoEntry
  Weights = {1, 2}
  Delays = {1}
  MaxEntries = 1
  MaxWaiters = 2
  MaxBytes = 3
  MaxDeploymentWaiters = 2
  MaxDeploymentBytes = 3
  MaxThrottles = 2
INVARIANTS ProbeOwned AbandonedBodyHoldsProbe
PROPERTIES QueueNotBypassed WaitersLeave

SPECIFICATION FairSpec
CONSTANTS
  c1 = c1
  c2 = c2
  nobody = nobody
  Callers <- TwoCallers
  Nobody <- nobody
  Keys <- CooldownKeys
  Requests <- TwoModels
  RelayedKeys = {"account"}
  Delays = {1}
  MaxEntries = 2
  WaiterLimits = {0, 1}
INVARIANT ProbesPermitted
PROPERTIES RenewalBeatsWaiters WaitsEnd

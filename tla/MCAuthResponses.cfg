SPECIFICATION Spec
CONSTANTS
  c1 = c1
  c2 = c2
  r1 = r1
  r2 = r2
  d1 = d1
  p1 = p1
  app = app
  legacy = legacy
  cli = cli
  shell = shell
  None = None
  Callers = {c1}
  RefreshSlots = {r1, r2}
  DeviceSlots = {d1}
  ResponsesSlots = {p1}
  Accounts = {app, legacy, cli, shell}
  AppAccounts = {app}
  LegacyAccounts = {legacy, cli, shell}
  LoginAccounts = {app}
  GhAccounts = {cli}
  EnvAccounts = {shell}
  Disks <- MCDisks
  MaxSignOuts = 1
  MaxRequests = 3
  MaxFaults = 0
INVARIANT ResponsesTokenCleared
CHECK_DEADLOCK FALSE

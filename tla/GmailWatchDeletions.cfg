\* A deletion and an excluded message on the same page.
SPECIFICATION Spec
CONSTANTS
  r1 = r1
  Requests = {r1}
  HistoryTypes = {"messageAdded", "messageDeleted"}
  HistoryMax = 3
  ResyncMax = 1
  Excluded = {3}
  HookSettings = {TRUE}
  OddPushes = {}
  FaultKinds = {}
  MaxEvents = 4
  MaxPushes = 1
  MaxFaults = 0
  MaxCrashes = 0
  MaxCommands = 1
CHECK_DEADLOCK FALSE
INVARIANT DeletionsReachTheHook

\* Two overlapping requests, commands beside the server, one fault, one crash.
SPECIFICATION Spec
CONSTANTS
  r1 = r1
  r2 = r2
  Requests = {r1, r2}
  HistoryTypes = {"messageAdded"}
  HistoryMax = 1
  ResyncMax = 1
  Excluded = {3}
  HookSettings = {TRUE}
  OddPushes = {}
  FaultKinds = {"api", "network", "save", "hook", "duplicate", "prune", "abort"}
  MaxEvents = 3
  MaxPushes = 2
  MaxFaults = 1
  MaxCrashes = 1
  MaxCommands = 2
SYMMETRY RequestSymmetry
CHECK_DEADLOCK FALSE
INVARIANT NothingUnaccounted
PROPERTY HistoryIdNeverRegresses

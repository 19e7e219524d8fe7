\* One request at a time: repeated pushes, pushes without a usable id, failing
\* calls and hooks, deletions, a crash.
SPECIFICATION FairSpec
CONSTANTS
  r1 = r1
  Requests = {r1}
  HistoryTypes = {"messageAdded", "messageDeleted", "labelAdded"}
  HistoryMax = 2
  ResyncMax = 1
  Excluded = {3}
  HookSettings = {TRUE, FALSE}
  OddPushes = {"missing", "malformed"}
  FaultKinds = {"api", "network", "hook", "duplicate", "prune"}
  MaxEvents = 3
  MaxPushes = 2
  MaxFaults = 1
  MaxCrashes = 1
  MaxCommands = 1
CHECK_DEADLOCK FALSE
INVARIANTS TypeOK AtMostOnce AcknowledgedPushesBehind
PROPERTY EveryPushIsHandled

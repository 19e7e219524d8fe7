\* The default client, one process at a time, faults and kills.
SPECIFICATION FairSpec
CONSTANTS
  add = add
  remove = remove
  s1 = s1
  s2 = s2
  c1 = c1
  c2 = c2
  Free = Free
  Adders = {add}
  Removers = {remove}
  Sessions = {s1}
  Calls = {c1, c2}
  Default = TRUE
  Serial = TRUE
  Faults = {"refused", "blank", "unreadable", "crash"}
  MaxFaults = 2
  MaxTokens = 4
CHECK_DEADLOCK FALSE
INVARIANTS TypeOK Settled LegacyFollows
PROPERTY EveryCallReturns

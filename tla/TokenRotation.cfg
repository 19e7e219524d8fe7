\* Two requests of one process, no faults.
SPECIFICATION Spec
CONSTANTS
  add = add
  remove = remove
  s1 = s1
  s2 = s2
  c1 = c1
  c2 = c2
  Free = Free
  Adders = {add}
  Removers = {remove}
  Sessions = {s1}
  Calls = {c1, c2}
  Default = TRUE
  Serial = TRUE
  Faults = {}
  MaxFaults = 0
  MaxTokens = 3
CHECK_DEADLOCK FALSE
INVARIANTS NewestKept

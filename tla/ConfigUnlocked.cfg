\* `config no-send set` beside `config set`, which takes no lock.
SPECIFICATION Spec
CONSTANTS
  p1 = p1
  p2 = p2
  p3 = p3
  Locked = {p1}
  Unlocked = {p2}
  Free = Free
  Garbage = Garbage
  NoFile = NoFile
  Faults = {}
CHECK_DEADLOCK FALSE
INVARIANT NoUpdateLost

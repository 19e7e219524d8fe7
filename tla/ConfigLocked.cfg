\* Three updates through UpdateConfig, with crashes and a full disk.
SPECIFICATION FairSpec
CONSTANTS
  p1 = p1
  p2 = p2
  p3 = p3
  Locked = {p1, p2, p3}
  Unlocked = {}
  Free = Free
  Garbage = Garbage
  NoFile = NoFile
  Faults = {"crash", "disk"}
CHECK_DEADLOCK FALSE
INVARIANTS TypeOK NoUpdateLost FileReadable
PROPERTIES UpdatesAreAtomic EveryUpdateEnds

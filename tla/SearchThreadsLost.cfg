\* A transient error while threads are fetched.
SPECIFICATION Spec
CONSTANTS
  i1 = i1
  i2 = i2
  i3 = i3
  Ids = {i1, i2, i3}
  NoId = NoId
  t1 = t1
  t2 = t2
  Tokens = {t1}
  End = End
  Tables <- OnePage
  MaxPages = 1
  Concurrency = 2
CHECK_DEADLOCK FALSE
INVARIANT ThreadsNotDropped

\* Threads and messages, two at a time: every list of two pages, circles of
\* tokens included, and a page of three entries.
SPECIFICATION FairSpec
CONSTANTS
  i1 = i1
  i2 = i2
  i3 = i3
  Ids = {i1, i2, i3}
  NoId = NoId
  t1 = t1
  t2 = t2
  Tokens = {t1, t2}
  End = End
  Tables <- SearchTables
  MaxPages = 3
  Concurrency = 2
CHECK_DEADLOCK FALSE
INVARIANTS TypeOK AllPagesListed NoPageTwice NothingDropped
PROPERTIES KeepsContract SearchEnds

SPECIFICATION FairSpec
CONSTANTS
  Url = {r, a, b}
  Root = r
  Stray = Stray
  MaxPages = 2
  Entries = 3
CHECK_DEADLOCK FALSE
INVARIANTS TypeOK AcquiredOnce CompleteIsClosed
PROPERTIES LatePagesArePartial CrawlEnds

SPECIFICATION FairSpec
CONSTANTS
  Url = {r, a, b}
  Root = r
  Stray = Stray
  MaxPages = 2
  Entries = 2
CHECK_DEADLOCK FALSE
INVARIANTS SitemapIsCovered

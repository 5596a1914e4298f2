SPECIFICATION FairSpec
CONSTANTS
  Doc = {d1}
  Job <- MCTwoJobs
  Worker = {w1, w2}
  NoWorker = NoWorker
  Reviewer = {}
  MaxRevision = 1
  MaxLapses = 2
CHECK_DEADLOCK FALSE
PROPERTIES EventuallyDecided

SPECIFICATION Spec
CONSTANTS
  Doc = {d1, d2}
  Job <- MCTwoJobs
  Worker = {w1}
  NoWorker = NoWorker
  Reviewer = {a1}
  MaxRevision = 3
  MaxLapses = 1
CHECK_DEADLOCK FALSE
SYMMETRY Symmetry
INVARIANTS ReviewIsItsEvidence EvidenceIsLive VerdictFollowsReview PublishedWasReviewed
 

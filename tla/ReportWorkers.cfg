SPECIFICATION Spec
CONSTANTS
  Owner = {o1, o2, o3}
  NoOwner = NoOwner
  Lease = 1
  Id <- MCTwoIds
  Key = {k1, k2}
  NoKey = NoKey
  Client = {c1, c2}
  Worker = {w1, w2}
  BatchSize = 2
  MaxAttempts = 2
  RetryDelay <- MCRetryDelay
  MaxLapses = 1
SYMMETRY Symmetry
CHECK_DEADLOCK FALSE
INVARIANTS TypeOK AttemptBudget SettledForCause QueueInvariant OneSubmissionPerKey
PROPERTIES ClaimEndsByHolder

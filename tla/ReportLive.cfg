SPECIFICATION FairSpec
CONSTANTS
  Owner = {o1, o2, o3}
  NoOwner = NoOwner
  Lease = 1
  Id <- MCOneId
  Key = {k1}
  NoKey = NoKey
  Client = {c1}
  Worker = {w1, w2}
  BatchSize = 1
  MaxAttempts = 2
  RetryDelay <- MCRetryDelay
  MaxLapses = 2
CHECK_DEADLOCK FALSE
INVARIANTS SendsAreCounted SharedOnlyAfterLapses
PROPERTIES EventuallySettled ImplementsPromise

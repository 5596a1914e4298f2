SPECIFICATION FairSpec
CONSTANTS
  Owner = {o1, o2}
  NoOwner = NoOwner
  Lease = 1
  Id <- MCOneId
  Worker = {w1}
  BatchSize = 1
  DelayCap = 2
  RetryDelay <- MCRetryDelay
  MaxLapses = 1
CHECK_DEADLOCK FALSE
PROPERTIES RetriesExhaust

SPECIFICATION FairSpec
CONSTANTS
  Owner = {o1, o2, o3}
  NoOwner = NoOwner
  Lease = 1
  Id <- MCTwoIds
  Worker = {w1, w2}
  BatchSize = 2
  DelayCap = 2
  RetryDelay <- MCRetryDelay
  MaxLapses = 1
CHECK_DEADLOCK FALSE
INVARIANTS TypeOK DeliveredWasReceived
PROPERTIES DeliveredOnceUp

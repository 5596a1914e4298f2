SPECIFICATION PartsSpec
CONSTANTS
  Tx = {t1, t2, t3}
  NoTx = NoTx
  Path <- MCUnpublished
  Tab = {p1, p2}
  Content = {x, y}
  MaxUploads = 3
  MaxSources = 2
  MaxRevision = 2
  Requester = {q1, q2, q3}
  Batches = 2
  MaxStages = 4
  Key = {k1, k2}
  Limit = 2
  Duration = 3
  MaxEntries = 1
  MaxClock = 7
  MaxJumps = 1
  Caller = {c1, c2}
  Budget = 5
  Estimates = {2, 3}
  MaxTokens = 4
  MaxReservations = 3
  MaxBase = 5
  MaxCap = 70
  MaxAttempts = 12
CHECK_DEADLOCK FALSE
SYMMETRY PartsSymmetry
INVARIANTS PartsTypeOK NoCircularWait  OneSourcePerCreation OneResultPerBatch OneCallPerWindow BoundaryBurst BudgetIsKept CappedDoubling

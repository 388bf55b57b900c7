SPECIFICATION Spec
CONSTANTS
  Analyses = {p, q}
  Keys = {a, b, c}
  Values = {0, 1, 2, 3}
  MaxEntries = 2
  MaxIPs = 2
  TTL = 2
  MaxTime = 3
  MaxRetries = 2
  Backoff = 1
  Jitter = 1
  MaxDelay = 2
  RetryAfter = {0, 3}
SYMMETRY MCSymmetry
INVARIANTS
  TypeOK
  PauseInBounds
  NoNeedlessDownload
  LockHasHolder
PROPERTIES
  KeepsPromise
  FreshRecords
CHECK_DEADLOCK FALSE

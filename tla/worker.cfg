SPECIFICATION FairSpec
CONSTANTS
  Jobs = {j1, j2}
  Keys = {}
  Domains = {d1}
  Clients = {}
  Children = {w1, w2}
  MaxRetries = 1
  MaxConcurrency = 1
  AllowedFaults = {"limiter", "childLost", "hardLimit", "lease", "progress"}
  NoKey = NoKey
  NoJob = NoJob
  NoRecord = NoRecord
  j1 = j1
  j2 = j2
  d1 = d1
  d2 = d2
  k1 = k1
  c1 = c1
  c2 = c2
  w1 = w1
  w2 = w2
INVARIANTS
  SingleDelivery
  ConcurrencyBound
  StartedNotQueued
  WaitingIsCounted
PROPERTY
  AcceptedJobEnds
\* A system whose jobs are all over stops.
CHECK_DEADLOCK FALSE

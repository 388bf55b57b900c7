SPECIFICATION Spec
CONSTANTS
  Jobs = {j1, j2}
  Keys = {k1}
  Domains = {d1, d2}
  Clients = {c1}
  Children = {w1}
  MaxRetries = 0
  MaxConcurrency = 1
  AllowedFaults = {"store", "enqueue", "expiry", "resultExpiry"}
  NoKey = NoKey
  NoJob = NoJob
  NoRecord = NoRecord
  j1 = j1
  j2 = j2
  d1 = d1
  d2 = d2
  k1 = k1
  c1 = c1
  c2 = c2
  w1 = w1
  w2 = w2
SYMMETRY Symmetry
INVARIANTS
  OneJobPerKey
  DuplicateCreateFindsJob
  DuplicateCreateMatches
  FailedCreateLeavesNothing
\* A system whose jobs are all over stops.
CHECK_DEADLOCK FALSE

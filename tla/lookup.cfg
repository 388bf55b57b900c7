SPECIFICATION FairSpec
CONSTANTS
  Lookups = {q1, q2, q3}
  Providers = {s1, s2}
  Domains = {d}
  s1 = s1
  s2 = s2
  ServersOf <- MCServersOf
  MaxRetries = 1
  FailureThreshold = 2
INVARIANTS
  ProbeFlagHonest
  OneProbe
PROPERTY
  Recovers

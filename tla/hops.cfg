SPECIFICATION Spec
CONSTANTS
  u1 = u1
  u2 = u2
  u3 = u3
  h1 = h1
  h2 = h2
  Urls = {u1, u2, u3}
  Hosts = {h1, h2}
  HostOf <- MCHostOf
  Addresses = {g1, g2, loopback}
  Public = {g1, g2}
  MaxRedirects = 2
  MaxRetries = 1
INVARIANTS
  TypeOK
  PinnedToGuarded
  ChainExplains
  RequestBudget
\* The probe ends.
CHECK_DEADLOCK FALSE

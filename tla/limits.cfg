SPECIFICATION Spec
CONSTANTS
  Clients = {c1, c2}
  Processes = {p1}
  MaxRequests = 2
  Window = 3
  Second = 2
  MaxTime = 5
  MaxAsked = 5
INVARIANTS
  WindowBound
PROPERTIES
  HonestHeaders
\* The clock and the requests have bounds.
CHECK_DEADLOCK FALSE

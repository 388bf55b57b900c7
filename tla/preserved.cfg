SPECIFICATION Spec
CONSTANT
  Checks = {"dns"}
INVARIANT
  CompletedPreserved
\* An analysis that is over stops.
CHECK_DEADLOCK FALSE

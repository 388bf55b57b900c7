SPECIFICATION Spec
CONSTANT
  MaxToken = 5
INVARIANTS
  ViewOfCurrentRun
  SpinnerHasRun
  CancelsWhatWasLeft
PROPERTY
  PageSettles
\* The user may stop.
CHECK_DEADLOCK FALSE

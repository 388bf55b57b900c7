SPECIFICATION FairSpec
CONSTANT
  Checks = {"dns", "http"}
INVARIANTS
  EveryCheckAccounted
  FailuresReported
  ProgressHonest
  FinalProgress
  NoTaskLeft
  ErrorsMatchObservations
PROPERTIES
  ObservedOnce
  PublishedMonotone
  AnalysisEnds
\* An analysis that is over stops.
CHECK_DEADLOCK FALSE

CONSTANTS
  NumJobs = 3
  DepLists <- MCDepLists
SPECIFICATION FairSpec
INVARIANTS
  DepsFirst
  Verdict
PROPERTY SearchEnds
CHECK_DEADLOCK FALSE

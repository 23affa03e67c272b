CONSTANTS
  Sessions = {"build", "lint"}
  Interposed = {"build"}
  Statuses <- MCStatuses
  StepTimeouts <- MCStepTimeouts
  Lenient <- MCLenient
  NilStatus <- MCNilStatus
  Capacity = 1
SPECIFICATION FairSpec
INVARIANTS
  PanicFree
  SessionOrder
  NothingLost
PROPERTIES
  RedactedFirst
  EverythingEnds

CONSTANTS
  WordBits = 4
  MaxSteps = 2
  StepRetries = {0, 4}
  Delays = {0, 1, 3}
  JobRetries = 1
SPECIFICATION Spec
INVARIANTS
  BuiltOnGoodState
  JobVerdict
  RetriesAsScheduled
PROPERTY JobEnds

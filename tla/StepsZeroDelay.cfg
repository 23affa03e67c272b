CONSTANTS
  WordBits = 4
  MaxSteps = 1
  StepRetries = {0, 4}
  Delays = {0, 1, 3}
  JobRetries = 0
SPECIFICATION Spec
INVARIANT DelayAsDocumented

CONSTANTS
  Root = "ci"
  Documents <- MCDocuments
  MaxDepth = 2
SPECIFICATION Spec
INVARIANTS
  ResolvesAsWritten
  AliasesLand
  CircularVerdict
CHECK_DEADLOCK FALSE

CONSTANTS
  MaxCombinations = 4
  DimNames = {"os", "arch"}
  NameParts <- MCNameParts
  Inputs <- MCInputs
  AliasMaps <- MCAliasMaps
  Targets <- MCTargets
SPECIFICATION Spec
INVARIANTS
  ExpandsAsDocumented
  StagesAgree
  RunsWhatWasAsked
CHECK_DEADLOCK FALSE

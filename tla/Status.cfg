CONSTANTS
  s1 = s1
  s2 = s2
  None = None
  Specs <- MCSpecs
  Configs <- MCConfigs
  StateErrors <- MCStateErrors
  ConflictCauses <- MCCauses
  DefaultConfig <- MCDefault
  CacheLag = TRUE
  MaxMoves = 2
  MaxFaults = 2
SYMMETRY MCSymmetry
SPECIFICATION StatusSpec
CHECK_DEADLOCK FALSE
INVARIANTS
  StatusTypeOK
  StatusInvariant
  ReadyIsCurrent
  OnePrimaryFailure
  ShownWithItsCondition
  OutcomesClassified
  InspectionReproduces
  OKPassesStrict
  ResultIsExplained
  CommandsAgree

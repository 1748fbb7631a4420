CONSTANTS
  N = 2
  NoRoot = NoRoot
  NoMap = NoMap
  Inputs <- AllInputs
SPECIFICATION Spec
CHECK_DEADLOCK FALSE
INVARIANTS
  EveryMappingChecked
  EveryDescriptorMatched
  HeldByThatPresentation
PROPERTY MatchReturns

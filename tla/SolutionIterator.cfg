CONSTANTS
  N = 5
  Logics <- MCLogics
SPECIFICATION Spec
INVARIANTS
  TypeOK
  EarlierDescriptorsFirst
PROPERTIES
  EnumeratesAllSolutions
  EventuallyExhausted

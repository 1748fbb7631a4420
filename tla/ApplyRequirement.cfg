CONSTANTS
  N = 3
  Creds = {1, 2}
  MaxCalls = 2
  Definitions <- MCDefinitions
  Wallets <- MCWallets
SPECIFICATION Spec
CHECK_DEADLOCK FALSE
INVARIANTS
  TypeOK
  LogicMeansRules
  SolvedIsSolution
  NoFailedDescriptorAgain
  NoCredentialsMeansUnsatisfiable
  PresentedStillAnswers
  NothingBeyondTheFields
PROPERTIES
  VerdictsAreFinal
  CallReturns

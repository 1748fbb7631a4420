CONSTANTS
  N = 2
  Creds = {1, 2}
  MaxCalls = 1
  Definitions <- SharedDefinitions
  Wallets <- SdWallets
SPECIFICATION Spec
CHECK_DEADLOCK FALSE
INVARIANTS
  NoCredentialsAtAll

SPECIFICATION Spec
CONSTANTS
  DIDs = {"did:i", "did:h"}
  Methods = {"i1", "ienc", "h1"}
  Controller <- MCController
  AgreementOnly = {"ienc"}
  Suite <- MCSuite
  None = None
  Refused = Refused
  Unsupported = Unsupported
  NeedsID = {2}
  OddEntry = OddEntry
  Expiration = 1
  NoSchema = None
  Contents <- MCContents
  Other <- MCOther
  IDs = {"urn:2"}
  Seconds = {"t2"}
  Holder = "did:h"
  Signings <- MCSignings
  Origin = "https://a"
  Options <- MCOptions
  Lists <- MCLists
  ListBytes = 2
  ByteSize = 2
  NoNumber = NoNumber
  Revocable <- MCRevocable
  Statuses <- MCStatuses
  MaxSteps = 3
  MaxVersion = 2
  MaxTime = 2
INVARIANTS TypeOK   SchemaWasRecent  
CHECK_DEADLOCK FALSE

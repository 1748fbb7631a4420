SPECIFICATION Spec
CONSTANTS
  Nodes <- MCNodes
  Root = "root"
  Parent <- MCParent
  Kind <- MCKind
  Name <- MCName
  SubjectID = {"id"}
  Decoy <- MCDecoy
  None = None
  IssuerOptions <- MCIssuerOptions
  OtherSDJWTs <- MCOtherSDJWTs
  Verifiers = {"v1", "v2"}
  Policy <- MCPolicy
  Leeway = 1
  MaxSessions = 2
  MaxTime = 2
INVARIANTS DisclosedExactly NothingUnasked IssuedIsUsable NoClaimReplaced
PROPERTY BoundToSession
CHECK_DEADLOCK FALSE

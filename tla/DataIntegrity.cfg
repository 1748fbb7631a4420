CONSTANTS
  m1 = m1
  m2 = m2
  d1 = d1
  Docs = {d1}
  Methods = {m1, m2}
  None = None
  AllowedFor <- MCAllowedFor
  SignOptions <- ByID
  VerifyOptions <- Expectations
  Resign = FALSE
  MaxTime = 3
SPECIFICATION Spec
INVARIANTS
  TypeOK
  CreatedProofsAreValid
  VerifiedByTheMethod
PROPERTY AcceptedIsFresh

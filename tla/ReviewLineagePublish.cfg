SPECIFICATION Spec
CONSTANTS
  owner = owner
  user = user
  x = x
  y = y
  Absent = Absent
  Objects = {owner, user}
  Contents <- MCContents
  InitialValue <- Existing
  ProposedValue <- MCProposed
  Depends <- MCDepends
  Deletable = {}
  Fingerprints = {}
  FingerprintOf <- MCFingerprint
  MaxSets = 2
  MaxDisturbances = 0
INVARIANTS
  PublicationCanFinish
CHECK_DEADLOCK FALSE

SPECIFICATION Spec
CONSTANTS
  owner = owner
  user = user
  x = x
  y = y
  Absent = Absent
  Objects = {owner, user}
  Contents <- MCContents
  InitialValue <- Created
  ProposedValue <- MCProposed
  Depends <- MCDepends
  Deletable = {owner, user}
  Fingerprints = {user}
  FingerprintOf <- MCFingerprint
  MaxSets = 4
  MaxDisturbances = 1
INVARIANTS
  OneFollowUp
  PrerequisitesInPlace
PROPERTIES
  UndoRestores
  PartialOutcomeRetained
CHECK_DEADLOCK FALSE

SPECIFICATION Spec
CONSTANTS
  owner = owner
  user = user
  x = x
  y = y
  Absent = Absent
  Objects = {owner, user}
  Contents <- MCContents
  InitialValue <- Existing
  ProposedValue <- MCProposed
  Depends <- MCDepends
  Deletable = {owner, user}
  Fingerprints = {}
  FingerprintOf <- MCFingerprint
  MaxSets = 2
  MaxDisturbances = 1
PROPERTIES
  OnlyUndoReverts
CHECK_DEADLOCK FALSE

SPECIFICATION FairSpec
CONSTANTS
  owner = owner
  user = user
  x = x
  y = y
  Absent = Absent
  Objects = {user}
  Contents <- MCContents
  InitialValue <- MCInitial
  Deletable <- MCDeletable
  InitialPlan = 1
  MaxRev = 5
  MaxPlan = 2
  MaxEdits = 1
  MaxAuth = 2
INVARIANTS
  WriteIsBacked
  WrittenOnce
  ApprovalsAreCurrent
PROPERTIES
  ApplicationsAreResolved
CHECK_DEADLOCK FALSE

SPECIFICATION Spec
CONSTANTS
  owner = owner
  user = user
  x = x
  y = y
  Absent = Absent
  Objects = {owner, user}
  Contents <- MCContents
  InitialValue <- MCInitial
  Deletable <- MCDeletable
  InitialPlan = 0
  MaxRev = 3
  MaxPlan = 0
  MaxEdits = 2
  MaxAuth = 1
INVARIANTS
  TypeOK
  WrittenAsDisplayed
  EffectsAreRemembered
  AppliedIsComplete
  NoForgottenWrite
PROPERTIES
  PrerequisitesFirst
CHECK_DEADLOCK FALSE

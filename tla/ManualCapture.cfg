SPECIFICATION Spec
CONSTANTS
  s1 = s1
  s2 = s2
  x = x
  y = y
  Absent = Absent
  Foreign = Foreign
  Reconciler = Reconciler
  Nobody = Nobody
  Saves <- MCSaves
  Text <- MCText
  Contents <- MCContents
  MaxVersions = 3
INVARIANTS
  ClaimsAreBacked
  ResultsAreOwn
PROPERTIES
  NeverAGate
CHECK_DEADLOCK FALSE

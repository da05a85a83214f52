SPECIFICATION Spec
CONSTANTS
  w1 = w1
  w2 = w2
  r1 = r1
  r2 = r2
  Windows = {w1, w2}
  NoWindow = NoWindow
  Requests = {r1, r2}
  NoRequest = NoRequest
  MaxRuns = 3
  MaxChanges = 1
  MaxEnds = 1
SYMMETRY Symmetry
INVARIANTS
  PostedOnce
  NoOrphanRun
  OneRunPerPreview
PROPERTIES
  ImplementsOneShot
CHECK_DEADLOCK FALSE

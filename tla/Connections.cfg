CONSTANTS
  Callers = {c1, c2, c3}
  Connections = {dev, test, demo}
  NoConnection = NoConnection
  Providers = {p1, p2, p3, p4, p5}
  NoProvider = NoProvider
SPECIFICATION Spec
SYMMETRY Symmetry
INVARIANTS
  TargetIsLive
  OneActiveInTurn
  LiveProvidersAreOwned
CHECK_DEADLOCK FALSE

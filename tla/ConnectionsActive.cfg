CONSTANTS
  Callers = {c1, c2}
  Connections = {dev, test, demo}
  NoConnection = NoConnection
  Providers = {p1, p2, p3}
  NoProvider = NoProvider
SPECIFICATION Spec
SYMMETRY Symmetry
INVARIANTS OneActive
CHECK_DEADLOCK FALSE

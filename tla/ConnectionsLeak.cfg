CONSTANTS
  Callers = {c1}
  Connections = {dev, test}
  NoConnection = NoConnection
  Providers = {p1, p2}
  NoProvider = NoProvider
SPECIFICATION Spec
INVARIANTS OwnsWhatIsOpen
CHECK_DEADLOCK FALSE

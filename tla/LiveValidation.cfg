SPECIFICATION LiveSpec
CONSTANTS
  d1 = d1
  d2 = d2
  Nothing = Nothing
  Docs = {d1, d2}
  MaxChanges = 4
INVARIANTS
  ShownIsCurrent
PROPERTIES
  EventuallyShown
CHECK_DEADLOCK FALSE

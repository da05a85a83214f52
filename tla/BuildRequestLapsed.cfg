CONSTANTS
  Windows = {w1, w2}
  Inputs = {i1}
  Questions = {q1}
  Specs = {s1, s2}
  Objects = {o1}
  NoBody = NoBody
  Unread = Unread
  MaxInputs = 2
  MaxRevisions = 2
  MaxBegun = 6
SPECIFICATION RequestSpec
SYMMETRY Symmetry
PROPERTIES NeverRestored
CHECK_DEADLOCK FALSE

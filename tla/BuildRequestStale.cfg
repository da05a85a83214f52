CONSTANTS
  Windows = {w1}
  Inputs = {i1, i2}
  Questions = {q1}
  Specs = {s1, s2}
  Objects = {o1}
  NoBody = NoBody
  Unread = Unread
  MaxInputs = 3
  MaxRevisions = 2
  MaxBegun = 6
SPECIFICATION RequestSpec
SYMMETRY Symmetry
INVARIANTS ApprovedSpecSawTheRequest
CHECK_DEADLOCK FALSE

SPECIFICATION Spec
CONSTANTS
  e1 = e1
  e2 = e2
  agent = agent
  other = other
  c1 = c1
  c2 = c2
  Edits = {e1, e2}
  OtherEdits = {other}
  Calls = {c1, c2}
  AgentEdit <- MCAgentEdit
  Limit = 1
SYMMETRY MCSymmetry
INVARIANTS
  BaselineIsAVersion
  EditsSurvive
PROPERTIES
  NothingOverwritten

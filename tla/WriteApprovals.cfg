SPECIFICATION Spec
CONSTANTS
  a1 = a1
  a2 = a2
  u = u
  k = k
  Calls <- MCCalls
  Agents = {a1, a2}
  Unlucky = {a1}
  Keys = {k}
  Key <- MCKey
  Ownership <- MCOwnership
INVARIANTS
  WritesAreAuthorised
  CardsTellTheTruth
  AuditIsComplete
PROPERTIES
  AgentCallsEnd
CHECK_DEADLOCK FALSE

SPECIFICATION FairSpec
CONSTANTS
  c1 = c1
  c2 = c2
  c3 = c3
  c4 = c4
  h1 = h1
  h2 = h2
  h3 = h3
  Callers <- MCCallers
  Hosts <- MCHosts
  Host <- MCHost
  NoCaller = NoCaller
  NoPid = NoPid
INVARIANTS
  TypeOK
PROPERTIES
  OnlyExitRaceRobs
  ImplementsMutex
  EveryCallReturns

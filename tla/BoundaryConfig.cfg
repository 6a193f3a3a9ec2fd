\* A config file that is edited, broken and deleted during the calls; no
\* symmetry, for the liveness property.
CONSTANTS
  NSources = 1
  Valid = {g1, g2}
  Malformed = {}
  Crashing = {odd}
  Missing = missing
  Recurrent = {missing}
  None = None
  g1 = g1
  Write = Write
  Read = Read
  Pairs <- MCPairs
  Calls = {"ruled"}
  Resolve <- MCResolve
  Environments <- WithoutCoverage
  Garbled <- MCForged
  MaxCalls = 2
SPECIFICATION FairSpec
INVARIANT RulesAreCurrent
PROPERTIES ImplementsGate CallsGoOn CallReturns

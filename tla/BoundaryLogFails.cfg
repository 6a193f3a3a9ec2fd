\* README.md says a denial returns a block directive.
CONSTANTS
  NSources = 0
  Valid = {g1}
  Malformed = {}
  Crashing = {}
  Missing = missing
  Recurrent = {missing}
  None = None
  g1 = g1
  Write = Write
  Read = Read
  Pairs <- MCPairs
  Calls = {"one"}
  Resolve <- MCResolve
  Environments <- LoggedEnvironment
  Garbled <- MCGarbled
  MaxCalls = 1
SPECIFICATION Spec
INVARIANT FailuresBlock

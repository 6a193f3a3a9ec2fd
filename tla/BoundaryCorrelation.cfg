\* docs/preflight.md correlates the pair and the audit id of a row.
CONSTANTS
  NSources = 0
  Valid = {g1}
  Malformed = {}
  Crashing = {}
  Missing = missing
  Recurrent = {missing}
  None = None
  g1 = g1
  Write = Write
  Read = Read
  Pairs <- MCPairs
  Calls = {"two"}
  Resolve <- MCResolve
  Environments <- LoggedEnvironment
  Garbled <- MCGarbled
  MaxCalls = 1
SPECIFICATION Spec
INVARIANT RowsCorrelate

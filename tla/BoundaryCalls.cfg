\* Two calls of any kind under every environment, no config path set: answers
\* to the first may come during the second.
CONSTANTS
  NSources = 0
  Valid = {g1}
  Malformed = {}
  Crashing = {}
  Missing = missing
  Recurrent = {missing}
  None = None
  g1 = g1
  Write = Write
  Read = Read
  Pairs <- MCPairs
  Calls = {"one", "two", "unknown", "shell", "bad", "url"}
  Resolve <- MCResolve
  Environments <- AllEnvironments
  Garbled <- MCGarbled
  MaxCalls = 2
SPECIFICATION Spec
INVARIANTS TypeOK AllowedWasPermitted LogsTellResult RowsHaveEvidence
PROPERTY ImplementsGate

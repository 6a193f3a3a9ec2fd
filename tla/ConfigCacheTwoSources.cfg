\* The config file and the MCP registry, each edited and deleted at any moment.
\* A load fails on a source that is missing.
CONSTANTS
  NSources = 2
  Valid = {g1, g2}
  Malformed = {}
  Crashing = {}
  Missing = missing
  Recurrent = {missing}
  None = None
SPECIFICATION Spec
SYMMETRY SymmetricStates
INVARIANTS TypeOK CacheCoherent ServedWasCurrent HitIsAtomic FailureIsCurrent

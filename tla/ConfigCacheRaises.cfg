\* README.md says a malformed file blocks every call.
CONSTANTS
  NSources = 1
  Valid = {g1}
  Malformed = {bad}
  Crashing = {odd}
  Missing = missing
  Recurrent = {missing}
  None = None
SPECIFICATION Spec
INVARIANT MalformedBlocks

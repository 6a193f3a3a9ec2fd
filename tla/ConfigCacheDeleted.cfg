\* README.md says a deleted file blocks the next call.
CONSTANTS
  NSources = 1
  Valid = {g1}
  Malformed = {bad}
  Crashing = {}
  Missing = missing
  Recurrent = {missing}
  None = None
SPECIFICATION Spec
INVARIANT DeletedFileBlocks

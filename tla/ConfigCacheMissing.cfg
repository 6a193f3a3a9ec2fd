\* docs/configuration.md says a missing file does not block.
CONSTANTS
  NSources = 1
  Valid = {g1}
  Malformed = {bad}
  Crashing = {}
  Missing = missing
  Recurrent = {missing}
  None = None
SPECIFICATION Spec
INVARIANT MissingDoesNotBlock

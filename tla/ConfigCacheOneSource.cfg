\* One source in every kind of file state.  No symmetry: TLC's symmetry
\* reduction is unsound for liveness.
CONSTANTS
  NSources = 1
  Valid = {g1, g2}
  Malformed = {bad}
  Crashing = {odd}
  Missing = missing
  Recurrent = {missing}
  None = None
SPECIFICATION FairSpec
PROPERTIES CallReturns EventuallyCurrent RecoversAfterRepair

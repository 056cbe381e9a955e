SPECIFICATION Spec
CONSTANTS
  ArgLanes = 2
  MaxChunk = 1
INVARIANTS
  NaNSticky

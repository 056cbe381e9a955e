SPECIFICATION Spec
CONSTANTS
  Number <- MCNumber
  NaNs <- MCNaNs
  Inputs <- MCInputs
  SortCutoff = 2
  SortSkewLimit = 5
  DepthPerBit = 1
INVARIANTS
  SortInv
  ReturnsSorted
PROPERTIES
  Returns

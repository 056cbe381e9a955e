SPECIFICATION StatisticsSpec
CONSTANTS
  Number <- MCNumber
  NaNs <- MCNaNs
  Slices <- MCSlices
  SelectMinLen = 4
  SelectCutoff = 2
  DepthPerBit = 1
INVARIANTS
  SelectInv
  ResultsOfSorted
PROPERTIES
  ImplementsOrderStatistics
CHECK_DEADLOCK FALSE

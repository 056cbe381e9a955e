SPECIFICATION FoldSpec
CONSTANTS
  Calls <- MCCalls
INVARIANTS
  LeftToRight
  FourBoundedByShortest
CHECK_DEADLOCK FALSE

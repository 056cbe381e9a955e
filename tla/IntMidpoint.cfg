SPECIFICATION Spec
CONSTANTS
  Inputs <- FourBitInputs
  Qs <- ThreeBitFloats
  Unit = 32
  Top = 8
  Ulps = {1, 2, 4, 8, 16, 32, 64, 128}
INVARIANTS
  StaysBetween
  RisesWithQ
  MedianIsHalfQuantile
CHECK_DEADLOCK FALSE

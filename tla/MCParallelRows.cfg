SPECIFICATION Spec
CONSTANTS
  MaxRows = 5
  MaxProcs = 4
  MatMulMinWork = 8
  GemvMinWork = 4
  Calls <- MCCalls
INVARIANTS
  NoSharedRow
  AtMostProcs
  ReturnsProduct
  OnlyNegativesPanic
PROPERTIES
  ImplementsSerialCall

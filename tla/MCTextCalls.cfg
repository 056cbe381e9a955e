SPECIFICATION Spec
CONSTANTS
  Bytes <- MCBytes
  Queries <- MCQueries
  Ranks <- MCRanks
  MultiLoopMax = 2
  BlockBits = 4
  LevelBits = 2
  Documents <- MCDocuments
  AsciiRunFloor = 3
  Texts <- MCTexts
  UnitTexts <- MCUnitTexts
  RuneTexts <- MCRuneTexts
  Claims <- MCClaims
INVARIANTS
  ScanInv
  EarliestReturned
  NestingKept
  ValidIsDocument
  Transcodes
PROPERTIES
  Returns
CHECK_DEADLOCK FALSE

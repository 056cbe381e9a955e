SPECIFICATION ColumnSpec
CONSTANTS
  Group = 4
  MaxLen = 3
  Load = 2
  Modulus = 32
  Columns <- MCColumns
  RawStreams <- MCRawStreams
  MaxRoom = 2
  Encodings <- MCEncodings
  Expansions <- MCExpansions
  Splat = 2
  Nibble = 2
  MinMatch = 2
  Lane = 2
  Blocks <- MCBlocks
  Rooms <- MCRooms
  MergeRounds = 2
  Ascending <- MCAscending
  SetBlock = 2
  Sets <- MCSets
  WordBits = 3
  Vectors <- MCVectors
  Positions <- MCPositions
INVARIANTS
  ResumedIsWhole
  RunsRoundTrip
  BlockMeaning
  MergesInOrder
  SetsExact
  SelectInvertsRank
PROPERTIES
  ColumnCallReturns
CHECK_DEADLOCK FALSE

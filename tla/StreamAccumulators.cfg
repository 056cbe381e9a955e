SPECIFICATION StreamSpec
CONSTANTS
  SumLanes = 4
  MaxChunk = 11
  MaxTotal = 22
  ArgLanes = 2
  MinMaxChunk = 5
INVARIANTS
  ChunkingInvisible
  WholeMinMax
PROPERTIES
  NeverNarrows
  AddReturns

SPECIFICATION DispatchSpec
CONSTANTS
  g1 = g1
  g2 = g2
  g3 = g3
  Goroutines <- MCGoroutines
  Fields <- MCFields
  Kernels <- MCKernels
  Base <- MCBase
  NTiers = 4
  Partial <- MCPartial
  TierIdx = 3
INVARIANTS
  SelectionInv
  NeverUnsupported
  PinnedOrStrongest
  ReturnsMergedGroup
  NoRace
  OnePointer
PROPERTIES
  GetReturns

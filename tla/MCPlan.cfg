SPECIFICATION PlanSpec
CONSTANTS
  NumRanks = 4
  Epn = 2
  NumRows = 4
  Chunk = 2
  Routings <- MCRoutings
  Inputs <- MCInputs
INVARIANTS
  LoadsAreRows
  Balanced
  OneSourcePerReceiver
  SegmentsNumbered
  TokensReachTheirExpert
  SlotsFillExactly

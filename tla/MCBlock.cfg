SPECIFICATION BlockSpec
CONSTANTS
  NumRanks = 8
  Steps = 4
  Pow <- MCPow
  ExpertRows = 4
  Shapes <- MCShapes
  Rows = 2
INVARIANTS
  Found
  TilesReady
  EachChunkOnce

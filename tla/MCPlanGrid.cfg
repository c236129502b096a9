SPECIFICATION FairSpec
CONSTANTS
  Shapes <- MCShapes
  Cores = {1, 2, 3}
  MaxBlocks = 3
  ChunkMin = 2
  Pow2 <- MCPow2
INVARIANTS
  ReadsAreFresh
  WorkIsPartitioned
PROPERTY KernelEnds

SPECIFICATION FairSpec
CONSTANT
  Shapes <- MCShapes
INVARIANTS
  ProjectedWhole
  FlagsTaken
PROPERTIES
  KernelEnds

SPECIFICATION Spec
CONSTANTS
  NumRanks = 3
  MaxSteps = 3
  MaxLoop = 8
  Programs <- MCReducePrograms
INVARIANTS
  GradientsHeld

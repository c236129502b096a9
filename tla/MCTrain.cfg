SPECIFICATION Spec
CONSTANTS
  NumRanks = 3
  MaxSteps = 3
  MaxLoop = 8
  Programs <- MCPrograms
INVARIANTS
  WeightsHeld
  GradientsHeld

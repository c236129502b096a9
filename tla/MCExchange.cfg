SPECIFICATION FairSpec
CONSTANTS
  NumRanks = 2
  MaxRounds = 4
  Closings = {"sync", "async"}
INVARIANTS
  TypeOK
  ClosedCallsAgree
  LeadAtMostOne
PROPERTY EveryPlanReturns

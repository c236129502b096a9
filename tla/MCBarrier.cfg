SPECIFICATION FairSpec
CONSTANTS
  ga = ga
  gb = gb
  Groups = {ga, gb}
  Members <- MCFull
  NumRanks = 3
  Traffic <- MCTraffic
  MaxRounds = 2
INVARIANTS
  TypeOK
  NoEarlyRelease
  DataLandedOnReturn
PROPERTIES
  RefinesRankBarrier
  EveryBarrierReturns

SPECIFICATION FairSpec
CONSTANTS
  NumThreads = 2
  NumProcs = 2
  DefaultTeam = 2
  Requests = {0, 1}
  MaxRegions = 2
  MaxBarriers = 1
INVARIANTS
  TypeOK
  NoAssertFails
  SerialAfterRegion
  RegionInv
PROPERTIES
  RegionEnds
  ImplementsPhases

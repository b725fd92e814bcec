SPECIFICATION FairSpec
CONSTANTS
  NumThreads = 2
  NumProcs = 2
  DefaultTeam = 1
  Requests = {0}
  MaxRegions = 1
  MaxBarriers = 1
CHECK_DEADLOCK FALSE
PROPERTY RegionEnds

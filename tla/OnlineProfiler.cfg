SPECIFICATION OnlineSpec
CONSTANTS
  NumThreads = 2
  NumProcs = 2
  DefaultTeam = 2
  Requests = {0}
  MaxRegions = 1
  MaxBarriers = 0
  MaxTasks = 2
  MaxBlocks = 1
  MaxChunks = 2
  MaxTogether = 2
  Kinds = {"master", "loop"}
  Alone = {"loop"}
  Undeferred = FALSE
  Waits = {"task", "block", "chunk", "entry", "barrier"}
  Period = 5
INVARIANTS
  NoAssertFails
  WorkIsMeasured
  ParentsAreLive
  WorkIsConserved
  CriticalPathIsExact
  PartsMakeCriticalPath
  ModesAgree
  SitesAreConsistent
PROPERTY SerialStepsAreOrdered

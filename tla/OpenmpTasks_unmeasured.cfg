SPECIFICATION TasksSpec
CONSTANTS
  NumThreads = 2
  NumProcs = 2
  DefaultTeam = 2
  Requests = {0}
  MaxRegions = 1
  MaxBarriers = 0
  MaxTasks = 1
  MaxBlocks = 0
  MaxChunks = 0
  MaxTogether = 9
  Kinds = {}
  Alone = {}
  Undeferred = TRUE
  Waits = {"barrier"}
INVARIANTS
  WorkIsMeasured

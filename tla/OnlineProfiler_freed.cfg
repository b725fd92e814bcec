SPECIFICATION OnlineSpec
CONSTANTS
  NumThreads = 2
  NumProcs = 2
  DefaultTeam = 2
  Requests = {0}
  MaxRegions = 1
  MaxBarriers = 0
  MaxTasks = 1
  MaxBlocks = 1
  MaxChunks = 0
  MaxTogether = 2
  Kinds = {"single"}
  Alone = {}
  Undeferred = FALSE
  Waits = {"task", "entry", "barrier"}
  Period = 5
INVARIANT ParentsAreLive

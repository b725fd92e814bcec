SPECIFICATION TasksSpec
CONSTANTS
  NumThreads = 2
  NumProcs = 2
  DefaultTeam = 2
  Requests = {1, 2}
  MaxRegions = 1
  MaxBarriers = 1
  MaxTasks = 2
  MaxBlocks = 1
  MaxChunks = 1
  MaxTogether = 2
  Kinds = {"loop"}
  Alone = {}
  Undeferred = TRUE
  Waits = {"entry", "chunk", "barrier"}
INVARIANTS
  TasksTypeOK
  SerialCodeHasNoTasks
  TreeIsReadable
PROPERTIES
  OrderedStepsAreSerial

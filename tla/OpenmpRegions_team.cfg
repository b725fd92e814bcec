SPECIFICATION Spec
CONSTANTS
  NumThreads = 3
  NumProcs = 3
  DefaultTeam = 3
  Requests = {0}
  MaxRegions = 1
  MaxBarriers = 1
INVARIANTS
  PhasesAgree
  RegionTreeComplete
PROPERTY ClosedPhaseStaysClosed

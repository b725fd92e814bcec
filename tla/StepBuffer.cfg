SPECIFICATION BufferSpec
CONSTANTS
  NumThreads = 2
  NumEntries = 2
  Works = {1, 2}
  Locks = {7}
  Regions = {"r"}
  MaxIds = 5
CHECK_DEADLOCK FALSE
INVARIANTS
  BufferInv
  IdsStayInOrder
  RegionWorkIsOwn
PROPERTY ImplementsLog

\* One tray thread beside the main thread.
SPECIFICATION FairSpec
CONSTANTS
  Trays = {tray}
  tray = tray
  MaxIssued = 3
INVARIANTS TypeOK LockSticks  
PROPERTY MemoryCatchesUp

\* One update at a time, every fault.
SPECIFICATION FairSpec
CONSTANTS
  Task = {t1}
  MaxVersion = 3
  Chunks = 3
  MaxAttempts = 8
  Faults <- AllFaults
  Absent = Absent
INVARIANTS TypeOK SourceWhole 
PROPERTIES NoUpdateLoop BackOnline
\* An exe lost to a fault is never started again.
CHECK_DEADLOCK FALSE

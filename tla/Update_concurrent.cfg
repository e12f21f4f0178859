\* Two UPDATE_AGENT commands, no fault.
SPECIFICATION Spec
CONSTANTS
  Task = {t1, t2}
  MaxVersion = 2
  Chunks = 2
  MaxAttempts = 2
  Faults = {}
  Absent = Absent
INVARIANT SourceWhole

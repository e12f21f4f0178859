\* Copy-Item leaves a shorter file.
SPECIFICATION Spec
CONSTANTS
  Task = {t1}
  MaxVersion = 2
  Chunks = 2
  MaxAttempts = 2
  Faults = {"short_copy"}
  Absent = Absent
PROPERTY ExistingBinaryRuns

\* Every fault of the environment; safety only.
SPECIFICATION Spec
CONSTANTS
  Proc = {p1, p2, p3}
  NoProc = NoProc
  Faults <- AllFaults
SYMMETRY Identifiers
INVARIANTS TypeOK SingleInstance 
\* The PC may be left without an exe: then nothing is ever started again.
CHECK_DEADLOCK FALSE

\* Only what the code sets out to survive; safety and liveness.
SPECIFICATION FairSpec
CONSTANTS
  Proc = {p1, p2, p3}
  NoProc = NoProc
  Faults <- HandledFaults
INVARIANTS ChainUnbroken 
PROPERTIES AgentReturns MarkerCleared

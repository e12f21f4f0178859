\* An agent that keeps dying, with no other fault.
SPECIFICATION CountedSpec
CONSTANTS
  Proc = {p1, p2}
  NoProc = NoProc
  Faults = {}
  MaxRestartAttempts = 3
INVARIANT CrashLoopGuard

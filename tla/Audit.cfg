\* Both flushers, lost answers, restarts.
SPECIFICATION Spec
CONSTANTS
  Key = {a, b}
  MaxCount = 2
  MaxReceived = 3
CONSTRAINT Bounded
INVARIANTS TypeOK NothingLost NothingTwice
PROPERTY ImplementsLedger

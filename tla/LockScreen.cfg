\* Three attempts of any kind.
SPECIFICATION FairSpec
CONSTANT MaxAttempts = 3
INVARIANTS TypeOK  HandedOverOnce StoredUserGranted
PROPERTIES NeverStuck  CancelStopsPolling
\* The service runs on, or the bound on attempts is reached.
CHECK_DEADLOCK FALSE

\* Two attempts: the first one's timer during the second.
SPECIFICATION FairSpec
CONSTANT MaxAttempts = 2
PROPERTIES GuardOnlyUnanswered
CHECK_DEADLOCK FALSE

SPECIFICATION FairSpec
CONSTANTS
    Starts = {1, 2}
    worker_count = 2
    QueueSize = 1
    MaxMessages = 2
INVARIANTS TypeOK EndsTogether OneLost
PROPERTIES ShutdownStaysInside SigintEndsAll
\* Every process may have ended.
CHECK_DEADLOCK FALSE

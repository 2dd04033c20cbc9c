\* The method queue with two callers, fair scheduling of the threads.
SPECIFICATION FairSpec
CONSTANTS
    Callers = {"main", "rpc"}
    Methods = {"startup", "running"}
    NoMethod = "none"
    MaxQueue = 3
INVARIANTS
    QueueTypeOK
    NoLostWakeup
PROPERTY
    ImplementsMethodQueue
CHECK_DEADLOCK FALSE

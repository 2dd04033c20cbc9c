\* The event server with descriptors for all events, fair scheduling.
SPECIFICATION FairSpec
CONSTANTS
    MaxEvents = 2
    MaxFds = 9
    Backlog = 2
PROPERTY StopEnds
CHECK_DEADLOCK FALSE

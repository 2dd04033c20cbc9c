\* The event server with descriptors for all events.
SPECIFICATION Spec
CONSTANTS
    MaxEvents = 2
    MaxFds = 9
    Backlog = 2
INVARIANT SurvivesTraffic
CHECK_DEADLOCK FALSE

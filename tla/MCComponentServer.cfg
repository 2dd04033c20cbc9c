\* The event server with more events than descriptors, fair scheduling.
SPECIFICATION FairSpec
CONSTANTS
    MaxEvents = 4
    MaxFds = 5
    Backlog = 2
INVARIANTS
    ServerTypeOK
    EventsInOrder
    SurvivesOneAtATime
PROPERTIES
    EventsArrive
    StopWaitsOnlyForAccept
CHECK_DEADLOCK FALSE

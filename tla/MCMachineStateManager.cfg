\* The MSM with crashes and new sessions, fair scheduling.
SPECIFICATION FairMsmSpec
CONSTANTS
    MachineStates = {"Running", "Shuttingdown"}
    OtherInputs = {"other"}
    MaxSent = 3
    MaxStarts = 3
INVARIANTS
    MsmTypeOK
    RestoresLastRequest
PROPERTIES
    ReceivedIsHandled
    SentIsReceived
CHECK_DEADLOCK FALSE

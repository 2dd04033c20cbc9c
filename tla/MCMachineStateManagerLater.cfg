\* The MSM with crashes and new sessions, fair scheduling.
SPECIFICATION FairMsmSpec
CONSTANTS
    MachineStates = {"Running", "Shuttingdown"}
    OtherInputs = {"other"}
    MaxSent = 2
    MaxStarts = 2
PROPERTY
    LaterIsReceived
CHECK_DEADLOCK FALSE

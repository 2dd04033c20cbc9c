\* The MSM with crashes and new sessions.
SPECIFICATION MsmSpec
CONSTANTS
    MachineStates = {"Running", "Suspend", "Shuttingdown"}
    OtherInputs = {"other"}
    MaxSent = 1
    MaxStarts = 2
INVARIANT
    UnregisteredTerminates
CHECK_DEADLOCK FALSE

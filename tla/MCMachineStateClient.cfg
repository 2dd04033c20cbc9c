\* The MSM's calls against the abstract Execution Manager.
SPECIFICATION ClientSpec
CONSTANTS
    MachineStates = {"Starting-up", "Running", "Suspend", "Living", "Shuttingdown"}
    OtherStates = {}
INVARIANTS
    ClientTypeOK
    RequestsBounded
CHECK_DEADLOCK FALSE

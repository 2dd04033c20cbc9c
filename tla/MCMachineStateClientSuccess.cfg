\* The MSM's calls against the abstract Execution Manager.
SPECIFICATION ClientSpec
CONSTANTS
    MachineStates = {"Starting-up", "Running", "Suspend", "Living", "Shuttingdown"}
    OtherStates = {}
INVARIANT
    SuccessMeansSet
CHECK_DEADLOCK FALSE

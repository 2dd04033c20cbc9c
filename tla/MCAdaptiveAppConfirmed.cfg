\* The MSM and the polling application.
SPECIFICATION AppSpec
CONSTANTS
    Procs = {"msm", "proc2"}
    MsmProcs = {"msm"}
    Components = {"proc2"}
    MachineStates = {"Starting-up", "Running", "Suspend"}
    StatesSupportedByApplication <- MCStatesSupportedByApplication
    OtherStates = {}
    Pids = {1}
    TimesToPollApps = 1
    MaxQueue = 1
    MaxSbscrs = 2
    UpdateMode <- MCUpdateMode
    Crashing = {}
    ComponentAddress = "unix:/tmp/component_management"
    MaxInbox = 1
INVARIANT ConfirmedMeansApplied
CHECK_DEADLOCK FALSE

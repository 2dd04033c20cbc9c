\* The MSM and one polling application, no crash, fair scheduling.
SPECIFICATION FairPlatformSpec
CONSTANTS
    Procs = {"msm", "proc2"}
    MsmProcs = {"msm"}
    Components = {"proc2"}
    MachineStates = {"Starting-up", "Running", "Shuttingdown"}
    StatesSupportedByApplication <- MCStatesSupportedByApplication
    OtherStates = {}
    Pids = {1}
    TimesToPollApps = 1
    MaxQueue = 1
    MaxSbscrs = 2
    UpdateMode <- MCUpdateMode
    Crashing = {}
CHECK_DEADLOCK FALSE
PROPERTY EveryTransitionEnds

\* The MSM and one polling application, which may crash, fair scheduling.
SPECIFICATION FairPlatformSpec
CONSTANTS
    Procs = {"msm", "proc2"}
    MsmProcs = {"msm"}
    Components = {"proc2"}
    MachineStates = {"Starting-up", "Running", "Shuttingdown"}
    StatesSupportedByApplication <- MCStatesSupportedByApplication
    OtherStates = {}
    Pids = {1}
    TimesToPollApps = 1
    MaxQueue = 2
    MaxSbscrs = 2
    UpdateMode <- MCUpdateMode
    Crashing = {"proc2"}
INVARIANTS
    PlatformTypeOK
    Settled
    WaitIsNotHopeless
PROPERTY RequestTakesEffect
CHECK_DEADLOCK FALSE

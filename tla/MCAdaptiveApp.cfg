\* The MSM and the polling application, which may crash, fair scheduling.
SPECIFICATION FairAppSpec
CONSTANTS
    Procs = {"msm", "poller"}
    MsmProcs = {"msm"}
    Components = {"poller"}
    MachineStates = {"Starting-up", "Running", "Suspend", "Shuttingdown"}
    StatesSupportedByApplication <- MCStatesSupportedByApplication
    OtherStates = {}
    Pids = {1}
    TimesToPollApps = 1
    MaxQueue = 1
    MaxSbscrs = 2
    UpdateMode <- MCUpdateMode
    Crashing = {"poller"}
    ComponentAddress = "unix:/tmp/component_management"
    MaxInbox = 1
INVARIANTS
    AppTypeOK
    Settled
PROPERTY PollersFollow
CHECK_DEADLOCK FALSE

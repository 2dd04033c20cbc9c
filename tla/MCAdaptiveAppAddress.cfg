\* The MSM and the application in event mode, the address em_main gives.
SPECIFICATION FairAppSpec
CONSTANTS
    Procs = {"msm", "proc1"}
    MsmProcs = {"msm"}
    Components = {"proc1"}
    MachineStates = {"Starting-up", "Running", "Suspend"}
    StatesSupportedByApplication <- MCStatesSupportedByApplication
    OtherStates = {}
    Pids = {1}
    TimesToPollApps = 1
    MaxQueue = 1
    MaxSbscrs = 2
    UpdateMode <- MCUpdateMode
    Crashing = {}
    ComponentAddress = "unix:/tmp/component_management"
    MaxInbox = 1
PROPERTY SubscribersFollow
CHECK_DEADLOCK FALSE

\* The MSM and the application in event mode, events sent to where it listens.
SPECIFICATION FairAppSpec
CONSTANTS
    Procs = {"msm", "proc1"}
    MsmProcs = {"msm"}
    Components = {"proc1"}
    MachineStates = {"Starting-up", "Running", "Suspend"}
    StatesSupportedByApplication <- MCStatesSupportedByApplication
    OtherStates = {}
    Pids = {1}
    TimesToPollApps = 1
    MaxQueue = 1
    MaxSbscrs = 2
    UpdateMode <- MCUpdateMode
    Crashing = {}
    ComponentAddress = "/tmp/component_management_"
    MaxInbox = 1
PROPERTY SubscribersFollow
CHECK_DEADLOCK FALSE

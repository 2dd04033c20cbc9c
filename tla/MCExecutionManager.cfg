\* The Execution Manager with arbitrary clients.
SPECIFICATION Spec
CONSTANTS
    Procs = {"msm", "app"}
    MsmProcs = {"msm"}
    MachineStates = {"Starting-up", "Suspend"}
    StatesSupportedByApplication <- MCStatesSupportedByApplication
    OtherStates = {"unknown"}
    Pids = {1}
    Components = {"app"}
    TimesToPollApps = 1
    MaxQueue = 1
    MaxSbscrs = 2
INVARIANTS
    TypeOK
    ConfirmMatchesState
    ComponentStateFollows
    TransitionIsValid
PROPERTY
    ImplementsAbstract

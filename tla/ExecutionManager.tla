-------------------------- MODULE ExecutionManager --------------------------
(***************************************************************************)
(* The Execution Manager (EM) process: the class ExecutionManager, the     *)
(* RPC server in front of it, the MSM registration it checks, the queue of *)
(* methods its worker thread executes and the threads that carry its       *)
(* confirmations to the Machine State Manager (MSM).                       *)
(*                                                                         *)
(* Two threads share the members of class ExecutionManager:                *)
(*   - the RPC thread (the kj event loop) runs one request handler at a    *)
(*     time;                                                               *)
(*   - the worker (m_setMachineStateThread) pops requests from the method  *)
(*     queue and runs setMachineState, which kills and starts processes,   *)
(*     tells the components the new state and busy-waits for the reports.  *)
(* One action is one access of a thread to what the other thread shares.   *)
(* The clients are arbitrary here: any process may report, register or     *)
(* confirm anything at any time.  Module Platform adds the real ones.      *)
(***************************************************************************)
EXTENDS Naturals, Sequences

CONSTANTS
    Procs,            \* service names found in the application manifests
    MsmProcs,         \* the service names that contain "msm"
    Components,       \* services whose process is a managed component
    MachineStates,    \* the modes of the machine manifest
    StatesSupportedByApplication,
                      \* mode |-> services, as the manifest reader returns it
    OtherStates,      \* strings a request may carry that are no mode
    Pids,             \* process ids a register or set request may carry
    TimesToPollApps,  \* how often the start-up poll looks for the MSM
    MaxQueue,         \* bound: requests waiting in the method queue
    MaxSbscrs         \* bound: entries of a component in the subscriber list

MACHINE_STATE_STARTUP == "Starting-up"
MACHINE_STATE_RUNNING == "Running"
MACHINE_STATE_SUSPEND == "Suspend"
COMPONENT_STATE_ON == "kOn"
COMPONENT_STATE_OFF == "kOff"

NoState == ""         \* an empty std::string member
NoPid == 0            \* MsmHandler's initial -1: no process has this id
NoProc == "-"         \* an iterator that points to nothing
NoConfirm == "-"      \* a confirmation thread that has finished

ASSUME ConstantsAssumption ==
    /\ MsmProcs \subseteq Procs
    /\ Components \subseteq Procs
    /\ NoProc \notin Procs
    /\ NoState \notin MachineStates
    /\ NoConfirm \notin MachineStates
    /\ \A s \in DOMAIN StatesSupportedByApplication :
          StatesSupportedByApplication[s] \subseteq Procs
    /\ NoPid \notin Pids
    /\ TimesToPollApps \in Nat \ {0}
    /\ MaxSbscrs \in Nat

VARIABLES
    activeProcesses,          \* m_activeProcesses
    readyToTransit,           \* m_readyToTransitToNextState
    confirmsReceived,         \* m_componentConfirmsReceived
    currentState,             \* m_currentState
    pendingState,             \* m_pendingState
    componentState,           \* m_currentComponentState
    registeredComponents,     \* m_registeredComponents
    pendingConfirms,          \* m_componentPendingConfirms
    stateUpdateSbscrs,        \* m_componentStateUpdateSbscrs, as a bag
    msmPid,                   \* MsmHandler::m_msmPId
    methodsQueue,             \* ThreadQueue::m_methodsQueue
    rpc,                      \* confirmComponentState in progress, or Idle
    worker,                   \* where the worker is in setMachineState
    snapshot,                 \* m_activeProcesses when the kill loop began
    scanned,                  \* what the kill loop has visited
    cursor,                   \* where the kill loop's iterator points
    toFind,                   \* allowed processes still to be looked up
    appsToBeStarted,          \* appsToBeStarted
    polls,                    \* polls left in the start-up poll
    sawNoneOpen,              \* m_componentPendingConfirms.empty(), as read
    sendThread,               \* m_sendThread: state it confirms, or NoConfirm
    newThread,                \* the thread confirm() has just made
    jobs                      \* systemctl commands forked and not yet run

transition == <<snapshot, scanned, cursor, toFind, appsToBeStarted, polls,
                sawNoneOpen>>
components == <<componentState, registeredComponents, pendingConfirms,
                stateUpdateSbscrs>>
threads == <<sendThread, newThread>>
vars == <<activeProcesses, readyToTransit, confirmsReceived, currentState,
          pendingState, components, msmPid, methodsQueue, rpc, worker,
          transition, threads, jobs>>

Idle == [component |-> NoProc]
UpdateModes == {"kPoll", "kEvent"}
AppStates == {"kRunning", "kShuttingDown"}  \* the others change nothing
StatesAndNone == MachineStates \cup {NoState}

(* The entry of m_allowedProcessesForState for a state: what filterStates  *)
(* left of the reader's map; a missing entry and an empty set are told     *)
(* apart by no caller.                                                     *)
AllowedProcesses(s) ==
    IF s \in MachineStates \cap DOMAIN StatesSupportedByApplication
    THEN StatesSupportedByApplication[s]
    ELSE {}

StartJob(p) == [action |-> "start", proc |-> p]
StopJob(p) == [action |-> "stop", proc |-> p]
Jobs == [action : {"start", "stop"}, proc : Procs]

Init ==
    /\ activeProcesses = {}
    /\ readyToTransit = FALSE
    /\ confirmsReceived = FALSE
    /\ currentState = NoState
    /\ pendingState = NoState
    /\ componentState = NoState
    /\ registeredComponents = {}
    /\ pendingConfirms = {}
    /\ stateUpdateSbscrs = [c \in Components |-> 0]
    /\ msmPid = NoPid
    /\ methodsQueue = <<MACHINE_STATE_STARTUP>>
    /\ rpc = Idle
    /\ worker = "idle"
    /\ snapshot = {}
    /\ scanned = {}
    /\ cursor = NoProc
    /\ toFind = {}
    /\ appsToBeStarted = {}
    /\ polls = 0
    /\ sawNoneOpen = FALSE
    /\ sendThread = NoConfirm
    /\ newThread = NoConfirm
    /\ jobs = {}

-----------------------------------------------------------------------------
(* The method queue between the two threads: each method holds its mutex.  *)
AddMethod(s) == methodsQueue' = Append(methodsQueue, s)
GetExecutor == methodsQueue # <<>> /\ methodsQueue' = Tail(methodsQueue)

-----------------------------------------------------------------------------
(* The RPC thread.  A handler is one step, but for confirmComponentState,  *)
(* which looks at m_componentPendingConfirms before it takes the mutex.    *)

Register(pid) ==
    /\ rpc = Idle
    /\ msmPid \in {NoPid, pid}
    /\ msmPid' = pid
    /\ UNCHANGED <<activeProcesses, readyToTransit, confirmsReceived,
                   currentState, pendingState, components, methodsQueue, rpc,
                   worker, transition, threads, jobs>>

(* setMachineState of the server: a caller that is not the MSM gets the    *)
(* same empty answer, but nothing is queued for it.                        *)
RequestMachineState(pid, s) ==
    /\ rpc = Idle
    /\ pid = msmPid
    /\ Len(methodsQueue) < MaxQueue
    /\ AddMethod(s)
    /\ UNCHANGED <<activeProcesses, readyToTransit, confirmsReceived,
                   currentState, pendingState, components, msmPid, rpc,
                   worker, transition, threads, jobs>>

ReportApplicationState(p, state) ==
    /\ rpc = Idle
    /\ activeProcesses' = IF state = "kRunning" THEN activeProcesses \cup {p}
                          ELSE activeProcesses \ {p}
    /\ UNCHANGED <<readyToTransit, confirmsReceived, currentState,
                   pendingState, components, msmPid, methodsQueue, rpc,
                   worker, transition, threads, jobs>>

(* A component that registers again is entered again.                      *)
RegisterComponent(c, mode) ==
    /\ rpc = Idle
    /\ mode = "kEvent" => stateUpdateSbscrs[c] < MaxSbscrs
    /\ registeredComponents' = registeredComponents \cup {c}
    /\ stateUpdateSbscrs' = IF mode = "kEvent"
                            THEN [stateUpdateSbscrs EXCEPT ![c] = @ + 1]
                            ELSE stateUpdateSbscrs
    /\ UNCHANGED <<activeProcesses, readyToTransit, confirmsReceived,
                   currentState, pendingState, componentState,
                   pendingConfirms, msmPid, methodsQueue, rpc, worker,
                   transition, threads, jobs>>

(* confirmComponentState reads m_componentPendingConfirms without the      *)
(* mutex ...  The status counts only as an error (K_GENERAL_ERROR or       *)
(* K_INVALID) or none.                                                     *)
ConfirmComponentState(c, error) ==
    /\ rpc = Idle
    /\ rpc' = [component |-> c, error |-> error,
               noneOpen |-> pendingConfirms = {}]
    /\ UNCHANGED <<activeProcesses, readyToTransit, confirmsReceived,
                   currentState, pendingState, components, msmPid,
                   methodsQueue, worker, transition, threads, jobs>>

(* ... and acts on what it read.  The worker holds the mutex while it      *)
(* sends the events ("notify").  The confirmed state is never looked at.   *)
FinishConfirmComponentState ==
    /\ rpc # Idle
    /\ \/ /\ rpc.noneOpen
          /\ confirmsReceived' = TRUE
          /\ UNCHANGED pendingConfirms
       \/ /\ ~rpc.noneOpen
          /\ rpc.error
          /\ UNCHANGED <<confirmsReceived, pendingConfirms>>
       \/ /\ ~rpc.noneOpen
          /\ ~rpc.error
          /\ worker # "notify"
          /\ pendingConfirms' = pendingConfirms \ {rpc.component}
          /\ confirmsReceived' = (pendingConfirms' = {})
    /\ rpc' = Idle
    /\ UNCHANGED <<activeProcesses, readyToTransit, currentState,
                   pendingState, componentState, registeredComponents,
                   stateUpdateSbscrs, msmPid, methodsQueue, worker,
                   transition, threads, jobs>>

-----------------------------------------------------------------------------
(* The worker: getExecutor and setMachineState.                            *)

(* Mutant: a request for the current state is not refused.                 *)
AcceptsSameState(s) == s \notin MachineStates

IsInvalid(s) == s \notin MachineStates \/ s = currentState

(* K_INVALID_STATE, which nobody receives: the queue drops the result.     *)
RejectRequest ==
    /\ worker = "idle"
    /\ GetExecutor
    /\ IsInvalid(Head(methodsQueue))
    /\ readyToTransit' = FALSE
    /\ confirmsReceived' = FALSE
    /\ UNCHANGED <<activeProcesses, currentState, pendingState, components,
                   msmPid, rpc, worker, transition, threads, jobs>>

BeginTransition ==
    /\ worker = "idle"
    /\ GetExecutor
    /\ ~IsInvalid(Head(methodsQueue))
    /\ readyToTransit' = FALSE
    /\ confirmsReceived' = FALSE
    /\ pendingState' = Head(methodsQueue)
    /\ snapshot' = activeProcesses
    /\ worker' = "kill"
    /\ UNCHANGED <<activeProcesses, currentState, components, msmPid, rpc,
                   scanned, cursor, toFind, appsToBeStarted, polls,
                   sawNoneOpen, threads, jobs>>

(* killProcessesForState walks m_activeProcesses without the mutex.  A     *)
(* report may insert behind the iterator (missed) or before it (visited);  *)
(* when it erases the element the iterator points to, advancing the        *)
(* iterator is undefined: the walk may stop or reach any element.          *)
CursorErased == cursor # NoProc /\ cursor \notin activeProcesses

Visitable == (IF CursorErased THEN snapshot \cup activeProcesses
                              ELSE activeProcesses) \ scanned

KillVisit(p) ==
    /\ worker = "kill"
    /\ p \in Visitable
    /\ cursor' = p
    /\ scanned' = scanned \cup {p}
    /\ IF p \in AllowedProcesses(pendingState)
       THEN UNCHANGED <<jobs, stateUpdateSbscrs>>
       ELSE /\ jobs' = jobs \cup {StopJob(p)}
            /\ stateUpdateSbscrs' =
                  [c \in Components |->
                      IF c = p THEN 0 ELSE stateUpdateSbscrs[c]]
    /\ UNCHANGED <<activeProcesses, readyToTransit, confirmsReceived,
                   currentState, pendingState, componentState,
                   registeredComponents, pendingConfirms, msmPid,
                   methodsQueue, rpc, worker, snapshot, toFind,
                   appsToBeStarted, polls, sawNoneOpen, threads>>

(* Mutant: the walk ends with the first process it visits.                 *)
KillDoneAfterFirst ==
    /\ worker = "kill"
    /\ CursorErased \/ snapshot \cap activeProcesses = {} \/ scanned # {}
    /\ worker' = "find"
    /\ toFind' = AllowedProcesses(pendingState)
    /\ snapshot' = {}
    /\ scanned' = {}
    /\ cursor' = NoProc
    /\ UNCHANGED <<activeProcesses, readyToTransit, confirmsReceived,
                   currentState, pendingState, components, msmPid,
                   methodsQueue, rpc, appsToBeStarted, polls, sawNoneOpen,
                   threads, jobs>>

KillDone ==
    /\ worker = "kill"
    /\ CursorErased \/ snapshot \cap activeProcesses \subseteq scanned
    /\ worker' = "find"
    /\ toFind' = AllowedProcesses(pendingState)
    /\ snapshot' = {}
    /\ scanned' = {}
    /\ cursor' = NoProc
    /\ UNCHANGED <<activeProcesses, readyToTransit, confirmsReceived,
                   currentState, pendingState, components, msmPid,
                   methodsQueue, rpc, appsToBeStarted, polls, sawNoneOpen,
                   threads, jobs>>

(* startApplicationsForState looks up one allowed process after another,   *)
(* again without the mutex ...                                             *)
FindApplication(p) ==
    /\ worker = "find"
    /\ p \in toFind
    /\ toFind' = toFind \ {p}
    /\ appsToBeStarted' = IF p \in activeProcesses THEN appsToBeStarted
                          ELSE appsToBeStarted \cup {p}
    /\ UNCHANGED <<activeProcesses, readyToTransit, confirmsReceived,
                   currentState, pendingState, components, msmPid,
                   methodsQueue, rpc, worker, snapshot, scanned, cursor,
                   polls, sawNoneOpen, threads, jobs>>

(* ... and starts those it did not find.  The start-up state then waits    *)
(* for its poll of the MSM.                                                *)
StartApplications ==
    /\ worker = "find"
    /\ toFind = {}
    /\ jobs' = jobs \cup {StartJob(p) : p \in appsToBeStarted}
    /\ \/ /\ pendingState = MACHINE_STATE_STARTUP
          /\ worker' = "poll"
          /\ polls' = TimesToPollApps
          /\ UNCHANGED appsToBeStarted
       \/ /\ pendingState # MACHINE_STATE_STARTUP
          /\ worker' = "change"
          /\ appsToBeStarted' = {}
          /\ UNCHANGED polls
    /\ UNCHANGED <<activeProcesses, readyToTransit, confirmsReceived,
                   currentState, pendingState, components, msmPid,
                   methodsQueue, rpc, snapshot, scanned, cursor, toFind,
                   sawNoneOpen, threads>>

(* Mutant: the poll does not count its rounds down to zero.                *)
PollMsmOnceTooOften(alive) ==
    /\ worker = "poll"
    /\ appsToBeStarted \cap MsmProcs \cap alive = {}
    /\ polls' = polls - 1
    /\ UNCHANGED <<activeProcesses, readyToTransit, confirmsReceived,
                   currentState, pendingState, components, msmPid,
                   methodsQueue, rpc, worker, snapshot, scanned, cursor,
                   toFind, appsToBeStarted, sawNoneOpen, threads, jobs>>

(* One round of the start-up poll; alive is the set of processes pidof     *)
(* finds.  Only processes this transition starts are asked for.            *)
PollMsm(alive) ==
    /\ worker = "poll"
    /\ polls > 0
    /\ \/ /\ appsToBeStarted \cap MsmProcs \cap alive # {}
          /\ worker' = "change"
          /\ polls' = 0
          /\ appsToBeStarted' = {}
       \/ /\ appsToBeStarted \cap MsmProcs \cap alive = {}
          /\ polls' = polls - 1
          /\ UNCHANGED <<worker, appsToBeStarted>>
    /\ UNCHANGED <<activeProcesses, readyToTransit, confirmsReceived,
                   currentState, pendingState, components, msmPid,
                   methodsQueue, rpc, snapshot, scanned, cursor, toFind,
                   sawNoneOpen, threads, jobs>>

(* Mutant: a start-up that failed is put back into the queue.              *)
RequeueStartup ==
    /\ worker = "poll"
    /\ polls = 0
    /\ worker' = "idle"
    /\ appsToBeStarted' = {}
    /\ methodsQueue' = Append(methodsQueue, pendingState)
    /\ UNCHANGED <<activeProcesses, readyToTransit, confirmsReceived,
                   currentState, pendingState, components, msmPid, rpc,
                   snapshot, scanned, cursor, toFind, polls, sawNoneOpen,
                   threads, jobs>>

(* K_INVALID_REQUEST: the processes stay killed and started.               *)
FailStartup ==
    /\ worker = "poll"
    /\ polls = 0
    /\ worker' = "idle"
    /\ appsToBeStarted' = {}
    /\ UNCHANGED <<activeProcesses, readyToTransit, confirmsReceived,
                   currentState, pendingState, components, msmPid,
                   methodsQueue, rpc, snapshot, scanned, cursor, toFind,
                   polls, sawNoneOpen, threads, jobs>>

ComponentStateFor(s) ==
    IF s = MACHINE_STATE_SUSPEND THEN COMPONENT_STATE_OFF
                                 ELSE COMPONENT_STATE_ON

(* Mutant: Suspend switches the components off, nothing switches them on.  *)
ChangeComponentStateToOff ==
    /\ worker = "change"
    /\ componentState' = IF pendingState = MACHINE_STATE_SUSPEND
                         THEN COMPONENT_STATE_OFF ELSE componentState
    /\ worker' = "open"
    /\ UNCHANGED <<activeProcesses, readyToTransit, confirmsReceived,
                   currentState, pendingState, registeredComponents,
                   pendingConfirms, stateUpdateSbscrs, msmPid, methodsQueue,
                   rpc, transition, threads, jobs>>

(* changeComponentsState: the new state becomes visible to pollers before  *)
(* the mutex is taken ...                                                  *)
ChangeComponentState ==
    /\ worker = "change"
    /\ componentState' = ComponentStateFor(pendingState)
    /\ worker' = "open"
    /\ UNCHANGED <<activeProcesses, readyToTransit, confirmsReceived,
                   currentState, pendingState, registeredComponents,
                   pendingConfirms, stateUpdateSbscrs, msmPid, methodsQueue,
                   rpc, transition, threads, jobs>>

(* ... then every component ever registered owes a confirmation ...        *)
OpenConfirms ==
    /\ worker = "open"
    /\ pendingConfirms' = pendingConfirms \cup registeredComponents
    /\ worker' = "notify"
    /\ UNCHANGED <<activeProcesses, readyToTransit, confirmsReceived,
                   currentState, pendingState, componentState,
                   registeredComponents, stateUpdateSbscrs, msmPid,
                   methodsQueue, rpc, transition, threads, jobs>>

(* ... and the subscribers get their event, whose outcome is ignored.      *)
NotifySubscribers ==
    /\ worker = "notify"
    /\ worker' = "check"
    /\ UNCHANGED <<activeProcesses, readyToTransit, confirmsReceived,
                   currentState, pendingState, components, msmPid,
                   methodsQueue, rpc, transition, threads, jobs>>

(* Mutant: processes that should have gone are not waited for.             *)
AllStarted == AllowedProcesses(pendingState) \subseteq activeProcesses

IsConfirmAvailable == activeProcesses = AllowedProcesses(pendingState)

(* The first isConfirmAvailable, whose result is kept in the flag.         *)
CheckProcesses ==
    /\ worker = "check"
    /\ readyToTransit' = IsConfirmAvailable
    /\ worker' = "wait"
    /\ UNCHANGED <<activeProcesses, confirmsReceived, currentState,
                   pendingState, components, msmPid, methodsQueue, rpc,
                   transition, threads, jobs>>

AwaitsComponents == pendingState \in {MACHINE_STATE_SUSPEND,
                                      MACHINE_STATE_RUNNING}

(* The busy-wait ends on either flag for Running and Suspend, and on the   *)
(* processes alone for every other state.                                  *)
WaitIsOver == readyToTransit \/ (AwaitsComponents /\ confirmsReceived)

(* Mutant: only the loop for Running and Suspend looks again.              *)
WaitAgainForComponents ==
    /\ worker = "wait"
    /\ ~WaitIsOver
    /\ AwaitsComponents
    /\ readyToTransit' = IsConfirmAvailable
    /\ worker' = "read"
    /\ UNCHANGED <<activeProcesses, confirmsReceived, currentState,
                   pendingState, components, msmPid, methodsQueue, rpc,
                   transition, threads, jobs>>

WaitAgain ==
    /\ worker = "wait"
    /\ ~WaitIsOver
    /\ readyToTransit' = IsConfirmAvailable
    /\ worker' = IF AwaitsComponents THEN "read" ELSE "wait"
    /\ UNCHANGED <<activeProcesses, confirmsReceived, currentState,
                   pendingState, components, msmPid, methodsQueue, rpc,
                   transition, threads, jobs>>

(* m_componentConfirmsReceived = m_componentPendingConfirms.empty() is a   *)
(* read and a later write: a confirmation may come in between.             *)
ReadPendingConfirms ==
    /\ worker = "read"
    /\ sawNoneOpen' = (pendingConfirms = {})
    /\ worker' = "store"
    /\ UNCHANGED <<activeProcesses, readyToTransit, confirmsReceived,
                   currentState, pendingState, components, msmPid,
                   methodsQueue, rpc, snapshot, scanned, cursor, toFind,
                   appsToBeStarted, polls, threads, jobs>>

StoreConfirmsReceived ==
    /\ worker = "store"
    /\ confirmsReceived' = sawNoneOpen
    /\ sawNoneOpen' = FALSE
    /\ worker' = "wait"
    /\ UNCHANGED <<activeProcesses, readyToTransit, currentState,
                   pendingState, components, msmPid, methodsQueue, rpc,
                   snapshot, scanned, cursor, toFind, appsToBeStarted, polls,
                   threads, jobs>>

(* confirmState: a new thread connects to the MSM and sends K_SUCCESS.     *)
SendConfirm ==
    /\ worker = "wait"
    /\ WaitIsOver
    /\ newThread' = pendingState
    /\ worker' = "join"
    /\ UNCHANGED <<activeProcesses, readyToTransit, confirmsReceived,
                   currentState, pendingState, components, msmPid,
                   methodsQueue, rpc, transition, sendThread, jobs>>

(* Mutant: the old confirmation thread is detached, not joined.            *)
PublishStateDetached ==
    /\ worker = "join"
    /\ sendThread' = IF sendThread = NoConfirm THEN newThread ELSE sendThread
    /\ newThread' = NoConfirm
    /\ currentState' = pendingState
    /\ worker' = "idle"
    /\ UNCHANGED <<activeProcesses, readyToTransit, confirmsReceived,
                   pendingState, components, msmPid, methodsQueue, rpc,
                   transition, jobs>>

(* Assigning the new thread to m_sendThread destroys the old one, which    *)
(* joins it; only then does the machine state change.                      *)
PublishState ==
    /\ worker = "join"
    /\ sendThread = NoConfirm
    /\ sendThread' = newThread
    /\ newThread' = NoConfirm
    /\ currentState' = pendingState
    /\ worker' = "idle"
    /\ UNCHANGED <<activeProcesses, readyToTransit, confirmsReceived,
                   pendingState, components, msmPid, methodsQueue, rpc,
                   transition, jobs>>

-----------------------------------------------------------------------------
(* A confirmation thread gets its answer from the MSM and ends.            *)
DeliverOldConfirm ==
    /\ sendThread # NoConfirm
    /\ sendThread' = NoConfirm
    /\ UNCHANGED <<activeProcesses, readyToTransit, confirmsReceived,
                   currentState, pendingState, components, msmPid,
                   methodsQueue, rpc, worker, transition, newThread, jobs>>

DeliverNewConfirm ==
    /\ newThread # NoConfirm
    /\ newThread' = NoConfirm
    /\ UNCHANGED <<activeProcesses, readyToTransit, confirmsReceived,
                   currentState, pendingState, components, msmPid,
                   methodsQueue, rpc, worker, transition, sendThread, jobs>>

(* systemctl runs a command.                                               *)
RunJob(job) ==
    /\ job \in jobs
    /\ jobs' = jobs \ {job}
    /\ UNCHANGED <<activeProcesses, readyToTransit, confirmsReceived,
                   currentState, pendingState, components, msmPid,
                   methodsQueue, rpc, worker, transition, threads>>

Worker ==
    \/ RejectRequest
    \/ BeginTransition
    \/ \E p \in Procs : KillVisit(p)
    \/ KillDone
    \/ \E p \in Procs : FindApplication(p)
    \/ StartApplications
    \/ FailStartup
    \/ ChangeComponentState
    \/ OpenConfirms
    \/ NotifySubscribers
    \/ CheckProcesses
    \/ WaitAgain
    \/ ReadPendingConfirms
    \/ StoreConfirmsReceived
    \/ SendConfirm
    \/ PublishState

Clients ==
    \/ \E pid \in Pids : Register(pid)
    \/ \E pid \in Pids, s \in MachineStates \cup OtherStates :
          RequestMachineState(pid, s)
    \/ \E p \in Procs, state \in AppStates : ReportApplicationState(p, state)
    \/ \E c \in Components, mode \in UpdateModes : RegisterComponent(c, mode)
    \/ \E c \in Components, error \in BOOLEAN : ConfirmComponentState(c, error)

Next ==
    \/ Worker
    \/ Clients
    \/ FinishConfirmComponentState
    \/ \E alive \in SUBSET MsmProcs : PollMsm(alive)
    \/ DeliverOldConfirm
    \/ DeliverNewConfirm
    \/ \E job \in Jobs : RunJob(job)

Spec == Init /\ [][Next]_vars

-----------------------------------------------------------------------------
Requests == MachineStates \cup OtherStates \cup {MACHINE_STATE_STARTUP}
WorkerSteps == {"idle", "kill", "find", "poll", "change", "open", "notify",
                "check", "wait", "read", "store", "join"}
ConfirmCalls == [component : Components, error : BOOLEAN, noneOpen : BOOLEAN]

(* The members of the class and the locals of its threads hold values of   *)
(* their declared kinds, whatever the clients send.                        *)
TypeOK ==
    /\ activeProcesses \in SUBSET Procs
    /\ readyToTransit \in BOOLEAN
    /\ confirmsReceived \in BOOLEAN
    /\ currentState \in StatesAndNone
    /\ pendingState \in StatesAndNone
    /\ componentState \in {NoState, COMPONENT_STATE_ON, COMPONENT_STATE_OFF}
    /\ registeredComponents \in SUBSET Components
    /\ pendingConfirms \in SUBSET registeredComponents
    /\ stateUpdateSbscrs \in [Components -> 0 .. MaxSbscrs]
    /\ msmPid \in Pids \cup {NoPid}
    /\ methodsQueue \in Seq(Requests)
    /\ rpc \in ConfirmCalls \cup {Idle}
    /\ worker \in WorkerSteps
    /\ snapshot \in SUBSET Procs
    /\ scanned \in SUBSET Procs
    /\ cursor \in Procs \cup {NoProc}
    /\ toFind \in SUBSET Procs
    /\ appsToBeStarted \in SUBSET Procs
    /\ polls \in 0 .. TimesToPollApps
    /\ sawNoneOpen \in BOOLEAN
    /\ sendThread \in MachineStates \cup {NoConfirm}
    /\ newThread \in MachineStates \cup {NoConfirm}
    /\ jobs \in SUBSET Jobs

(* ExecutionManagerClient::confirm carries no machine state, so the MSM    *)
(* can only take a confirmation as the answer to the latest change.  That  *)
(* is right if no confirmation outlives the state it announces: one in     *)
(* m_sendThread is always for m_currentState, and a newer one exists only  *)
(* while setMachineState waits to replace the older.  Rests on the join    *)
(* hidden in the assignment to m_sendThread.                               *)
ConfirmMatchesState ==
    /\ sendThread \in {NoConfirm, currentState}
    /\ newThread # NoConfirm => worker = "join" /\ newThread = pendingState

ComponentStateOf(s) ==
    IF s = NoState THEN NoState ELSE ComponentStateFor(s)

(* What getComponentState answers follows the transition under way: up to  *)
(* the last step that may still fail or kill and start processes it        *)
(* belongs to the machine state the clients see, and from                  *)
(* changeComponentsState on to the state that will be published.  In       *)
(* particular a start-up that fails leaves no half-changed component state *)
(* behind for the next request.                                            *)
ComponentStateFollows ==
    componentState =
        ComponentStateOf(IF worker \in {"idle", "kill", "find", "poll", "change"}
                         THEN currentState ELSE pendingState)

(* A transition under way is always to a state of the machine manifest     *)
(* other than the current one: validation happens once, before the wait,   *)
(* and nothing may change m_currentState or m_pendingState until the end.  *)
(* Only a start-up can get to the poll and so to K_INVALID_REQUEST.        *)
TransitionIsValid ==
    /\ worker # "idle" => /\ pendingState \in MachineStates
                          /\ pendingState # currentState
    /\ worker = "poll" => pendingState = MACHINE_STATE_STARTUP

(* What the MSM may rely on, whatever the worker does in between.          *)
Abstract ==
    INSTANCE MachineStateSpec WITH
        requests <- IF worker = "idle" THEN methodsQueue
                    ELSE <<pendingState>> \o methodsQueue,
        machineState <- currentState,
        announced <- IF worker = "join" THEN pendingState ELSE NoState

(* The EM handles requests first in, first out and one at a time, drops    *)
(* one only if it is no mode, repeats the current state or is a start-up,  *)
(* and a machine state is published only right after it was announced.     *)
ImplementsAbstract == Abstract!Spec

=============================================================================

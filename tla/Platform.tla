------------------------------ MODULE Platform ------------------------------
(***************************************************************************)
(* The Execution Manager together with the processes it manages: systemd,  *)
(* which runs the commands the EM forks, the adaptive applications, which  *)
(* register as components, report their state and poll the component       *)
(* state, and the MSM, which asks for machine states.                      *)
(*                                                                         *)
(* Every step is a step of ExecutionManager or leaves its variables alone, *)
(* so what is shown there for arbitrary clients holds here.                *)
(***************************************************************************)
EXTENDS ExecutionManager

CONSTANTS
    UpdateMode,       \* component |-> the mode it registers with
    Crashing          \* the applications that may crash

MACHINE_STATE_SHUTTINGDOWN == "Shuttingdown"
NotPolled == "-"      \* not in a round of the main loop
InRound == "in round" \* in a round, no component state read yet
MsmPid == 1           \* the pid of the only MSM process

ASSUME PlatformAssumption ==
    /\ UpdateMode \in [Components -> UpdateModes]
    /\ Crashing \subseteq Procs \ MsmProcs
    /\ Components \cap MsmProcs = {}
    /\ MsmPid \in Pids

VARIABLES
    proc,             \* how far the main function of each process is
    term,             \* the processes that have received SIGTERM
    polled,           \* what the round under way has read and not confirmed
    crashed,          \* history: the processes that have ever crashed
    accidents         \* history: what went wrong so far, see Accident

platform == <<proc, term, polled, crashed, accidents>>
allVars == <<vars, platform>>

(* "up" is an application in its main loop and the MSM in Run::enter,      *)
(* "done" the MSM after Run::enter.                                        *)
ProcStates == {"down", "starting", "registered", "up", "done"}
Alive == {p \in Procs : proc[p] # "down"}

PlatformInit ==
    /\ Init
    /\ proc = [p \in Procs |-> "down"]
    /\ term = {}
    /\ polled = [c \in Components |-> NotPolled]
    /\ crashed = {}
    /\ accidents = {}

-----------------------------------------------------------------------------
(* systemd.  Starting a unit that is up does nothing, and one that is      *)
(* being stopped is started once it is down; stopping sends SIGTERM.       *)
SystemctlStart(p) ==
    /\ RunJob(StartJob(p))
    /\ p \notin term
    /\ proc' = IF proc[p] = "down" THEN [proc EXCEPT ![p] = "starting"]
               ELSE proc
    /\ UNCHANGED <<term, polled, crashed, accidents>>

SystemctlStop(p) ==
    /\ RunJob(StopJob(p))
    /\ term' = IF proc[p] = "down" THEN term ELSE term \cup {p}
    /\ UNCHANGED <<proc, polled, crashed, accidents>>

-----------------------------------------------------------------------------
(* The applications and the MSM.  SIGTERM only sets a flag, which main     *)
(* looks at in its loop: a process told to stop while it starts still      *)
(* registers and reports that it runs.                                     *)

(* The constructor of ComponentClient.                                     *)
RegisterApplication(p) ==
    /\ p \in Components
    /\ proc[p] = "starting"
    /\ RegisterComponent(p, UpdateMode[p])
    /\ proc' = [proc EXCEPT ![p] = "registered"]
    /\ UNCHANGED <<term, polled, crashed, accidents>>

(* The MSM's Init::enter.                                                  *)
RegisterMsm(p) ==
    /\ p \in MsmProcs
    /\ proc[p] = "starting"
    /\ Register(MsmPid)
    /\ proc' = [proc EXCEPT ![p] = "registered"]
    /\ UNCHANGED <<term, polled, crashed, accidents>>

(* AdaptiveApp::run, and Init::leave of the MSM.                           *)
ReportRunning(p) ==
    /\ \/ proc[p] = "registered"
       \/ proc[p] = "starting" /\ p \notin Components \cup MsmProcs
    /\ ReportApplicationState(p, "kRunning")
    /\ proc' = [proc EXCEPT ![p] = "up"]
    /\ UNCHANGED <<term, polled, crashed, accidents>>

(* The test of the main loop, which a SIGTERM may follow at once.          *)
BeginRound(c) ==
    /\ proc[c] = "up"
    /\ c \notin term
    /\ polled[c] = NotPolled
    /\ polled' = [polled EXCEPT ![c] = InRound]
    /\ UNCHANGED <<vars, proc, term, crashed, accidents>>

(* Mutant: GetComponentState answers with the machine state.               *)
PollMachineState(c) ==
    /\ UpdateMode[c] = "kPoll"
    /\ polled[c] = InRound
    /\ rpc = Idle
    /\ polled' = [polled EXCEPT ![c] = currentState]
    /\ UNCHANGED <<vars, proc, term, crashed, accidents>>

(* pollComponentState: first GetComponentState ...                         *)
PollComponentState(c) ==
    /\ UpdateMode[c] = "kPoll"
    /\ polled[c] = InRound
    /\ rpc = Idle
    /\ polled' = [polled EXCEPT ![c] = componentState]
    /\ UNCHANGED <<vars, proc, term, crashed, accidents>>

HasRead(c) == polled[c] \notin {NotPolled, InRound}

(* ... then ConfirmComponentState, with K_INVALID if no component state    *)
(* had been set yet.                                                       *)
ConfirmPolledState(c) ==
    /\ HasRead(c)
    /\ ConfirmComponentState(c, polled[c] = NoState)
    /\ polled' = [polled EXCEPT ![c] = NotPolled]
    /\ UNCHANGED <<proc, term, crashed, accidents>>

(* One round of the MSM's Run::enter, which Shuttingdown ends.             *)
RequestState(p, s) ==
    /\ p \in MsmProcs
    /\ proc[p] = "up"
    /\ RequestMachineState(MsmPid, s)
    /\ proc' = IF s = MACHINE_STATE_SHUTTINGDOWN
               THEN [proc EXCEPT ![p] = "done"] ELSE proc
    /\ UNCHANGED <<term, polled, crashed, accidents>>

(* main leaves its loop and terminate reports.  The MSM gets there only    *)
(* once Run::enter has returned.                                           *)
Terminate(p) ==
    /\ p \in term
    /\ proc[p] = IF p \in MsmProcs THEN "done" ELSE "up"
    /\ p \in Components => polled[p] = NotPolled
    /\ ReportApplicationState(p, "kShuttingDown")
    /\ proc' = [proc EXCEPT ![p] = "down"]
    /\ term' = term \ {p}
    /\ UNCHANGED <<polled, crashed, accidents>>

(* An application dies without a word, wherever it is and whether it is a  *)
(* component or not; nothing tells the EM.                                 *)
Crash(p) ==
    /\ p \in Crashing
    /\ proc[p] # "down"
    /\ proc' = [proc EXCEPT ![p] = "down"]
    /\ term' = term \ {p}
    /\ polled' = [c \in Components |-> IF c = p THEN NotPolled ELSE polled[c]]
    /\ crashed' = crashed \cup {p}
    /\ UNCHANGED <<vars, accidents>>

-----------------------------------------------------------------------------
(* What makes the EM lose track of processes that have not crashed: the    *)
(* wait for Running or Suspend ends on the component confirmations while   *)
(* processes still start or stop, a start-up fails half way, or the kill   *)
(* walk steps on from an iterator that has been invalidated.               *)
Accidents == {"earlyExit", "failedStartup", "lostIterator"}
Accident(kind) ==
    CASE kind = "earlyExit" ->
            worker = "wait" /\ worker' = "join" /\ ~readyToTransit
      [] kind = "failedStartup" -> worker = "poll" /\ worker' = "idle"
      [] kind = "lostIterator" -> worker = "kill" /\ CursorErased
      [] OTHER -> FALSE

WorkerStep ==
    /\ Worker \/ PollMsm(Alive \cap MsmProcs)
    /\ accidents' = accidents \cup {kind \in Accidents : Accident(kind)}
    /\ UNCHANGED <<proc, term, polled, crashed>>

RpcStep ==
    /\ FinishConfirmComponentState
    /\ UNCHANGED platform

OldConfirmStep ==
    /\ DeliverOldConfirm
    /\ UNCHANGED platform

NewConfirmStep ==
    /\ DeliverNewConfirm
    /\ UNCHANGED platform

(* What a process or systemd does for it, but for the MSM's requests and   *)
(* for crashes.                                                            *)
ProcessStep(p) ==
    \/ SystemctlStart(p)
    \/ SystemctlStop(p)
    \/ RegisterApplication(p)
    \/ RegisterMsm(p)
    \/ ReportRunning(p)
    \/ Terminate(p)

(* A polling application goes round its loop; what one in event mode does  *)
(* there is in module AdaptiveApp.                                         *)
BeginPoll(c) == UpdateMode[c] = "kPoll" /\ BeginRound(c)
PollRound(c) == PollComponentState(c) \/ ConfirmPolledState(c)

PlatformNext ==
    \/ WorkerStep
    \/ RpcStep
    \/ OldConfirmStep
    \/ NewConfirmStep
    \/ \E p \in Procs : ProcessStep(p)
    \/ \E c \in Components : BeginPoll(c) \/ PollRound(c)
    \/ \E p \in MsmProcs, s \in MachineStates : RequestState(p, s)
    \/ \E p \in Procs : Crash(p)

PlatformSpec == PlatformInit /\ [][PlatformNext]_allVars

(* The kernel and systemd schedule every process and every thread.  The    *)
(* event loop of the RPC server answers every request in the end, whatever *)
(* other requests come in: a process waiting for its turn is not passed    *)
(* over for ever.  The MSM need not ask for anything, nothing need crash.  *)
Fairness ==
    /\ WF_allVars(WorkerStep)
    /\ WF_allVars(RpcStep)
    /\ WF_allVars(OldConfirmStep)
    /\ WF_allVars(NewConfirmStep)
    /\ \A p \in Procs : SF_allVars(ProcessStep(p))
    /\ \A c \in Components : SF_allVars(PollRound(c))

FairPlatformSpec == PlatformSpec /\ Fairness

-----------------------------------------------------------------------------
(* The processes are in states of their main functions; the MSM alone      *)
(* leaves Run::enter.                                                      *)
PlatformTypeOK ==
    /\ proc \in [Procs -> ProcStates]
    /\ term \in SUBSET Alive
    /\ polled \in [Components -> {NotPolled, InRound, NoState,
                                  COMPONENT_STATE_ON, COMPONENT_STATE_OFF}]
    /\ crashed \in SUBSET Crashing
    /\ accidents \in SUBSET Accidents
    /\ \A p \in Procs \ MsmProcs : proc[p] # "done"

Serving(p) == proc[p] \in {"up", "done"}

(* The point of the EM: between two transitions exactly the processes of   *)
(* the machine state serve, the EM knows them all, and no command or       *)
(* signal is left over that would start or stop one later.  A process that *)
(* has crashed may be missing, without harm to any other.  It holds as     *)
(* long as none of the accidents has happened.                             *)
Settled ==
    accidents = {} /\ worker = "idle" =>
        /\ activeProcesses = AllowedProcesses(currentState)
        /\ jobs = {}
        /\ term = {}
        /\ \A p \in Procs :
              /\ Serving(p) => p \in activeProcesses
              /\ ~Serving(p) => proc[p] = "down"
              /\ p \in activeProcesses => Serving(p) \/ p \in crashed

Waiting == {"check", "wait", "read", "store"}

(* While setMachineState waits, every process it still misses is on its    *)
(* way up, every process it has to get rid of is on its way down, and      *)
(* those it has will stay: the busy-wait is never for something that       *)
(* nobody is about to do, unless it is for a process that has crashed.     *)
WaitIsNotHopeless ==
    accidents = {} /\ worker \in Waiting =>
        \A p \in Procs :
            IF p \in AllowedProcesses(pendingState)
            THEN /\ StopJob(p) \notin jobs /\ p \notin term
                 /\ \/ p \in activeProcesses /\ Serving(p)
                    \/ StartJob(p) \in jobs
                    \/ proc[p] \in {"starting", "registered"}
                    \/ proc[p] = "down" /\ p \in crashed
            ELSE /\ StartJob(p) \notin jobs
                 /\ \/ p \notin activeProcesses /\ proc[p] = "down"
                    \/ StopJob(p) \in jobs \/ p \in term
                    \/ proc[p] = "down" /\ p \in crashed

(* A request that has reached the front of the queue takes effect, as long *)
(* as no accident and no crash happens: its state is in force in the end.  *)
RequestTakesEffect ==
    \A s \in MachineStates :
        methodsQueue # <<>> /\ Head(methodsQueue) = s
            ~> currentState = s \/ accidents # {} \/ crashed # {}

(* Every setMachineState returns, if nothing but the early end of the wait *)
(* for Running and Suspend has happened before.                            *)
EveryTransitionEnds ==
    worker # "idle"
        ~> worker = "idle" \/ accidents \ {"earlyExit"} # {} \/ crashed # {}

(* The start-up poll overlooks no MSM: if it has none to look for, none is *)
(* running.                                                                *)
StartupSeesRunningMsm ==
    worker = "poll" /\ appsToBeStarted \cap MsmProcs = {} =>
        \A p \in MsmProcs : ~Serving(p)

=============================================================================

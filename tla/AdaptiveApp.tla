---------------------------- MODULE AdaptiveApp ----------------------------
(***************************************************************************)
(* The applications of Platform with what they make of the component       *)
(* state: an application that polls reads it from the Execution Manager,   *)
(* one in event mode takes it from its event server; both then resume or   *)
(* suspend (setComponentState) and confirm.                                *)
(*                                                                         *)
(* The event server is a queue here; module ComponentServer is about when  *)
(* it is one.  Events reach it if they are sent to where it listens.       *)
(***************************************************************************)
EXTENDS Platform

CONSTANTS
    ComponentAddress, \* what the Execution Manager puts before the name
    MaxInbox          \* bound: events waiting when the MSM asks for a state

ServerAddress == "/tmp/component_management_"

ASSUME AdaptiveAppAssumption == MaxInbox \in Nat

VARIABLES
    appState,         \* m_componentState of each application
    applied,          \* applications between setComponentState and confirm
    inbox             \* m_recvDataQueue of each application's event server

appVars == <<appState, applied, inbox>>
everything == <<allVars, appVars>>

AppInit ==
    /\ PlatformInit
    /\ appState = [c \in Components |-> NoState]
    /\ applied = {}
    /\ inbox = [c \in Components |-> <<>>]

-----------------------------------------------------------------------------
Enters(p, state) == [c \in Components |-> IF c = p THEN state ELSE appState[c]]

(* run() from main; the MSM has no component state.                        *)
Run(p) ==
    /\ ReportRunning(p)
    /\ appState' = Enters(p, COMPONENT_STATE_ON)
    /\ UNCHANGED <<applied, inbox>>

(* The process ends, and what it knew is gone.                             *)
EndProcess(p) ==
    /\ Terminate(p) \/ Crash(p)
    /\ appState' = Enters(p, NoState)
    /\ applied' = applied \ {p}
    /\ inbox' = [c \in Components |-> IF c = p THEN <<>> ELSE inbox[c]]

OtherProcessStep(p) ==
    /\ \/ SystemctlStart(p) \/ SystemctlStop(p)
       \/ RegisterApplication(p) \/ RegisterMsm(p)
    /\ UNCHANGED appVars

(* The event loop of the Execution Manager over its subscribers: one event *)
(* for every entry of a component, if its server is there.                 *)
Reaches(c) ==
    ComponentAddress = ServerAddress /\ proc[c] \in {"registered", "up"}

SendEvents ==
    /\ worker = "notify"
    /\ WorkerStep
    /\ inbox' = [c \in Components |->
                    inbox[c] \o [i \in 1 .. IF Reaches(c) THEN stateUpdateSbscrs[c]
                                                          ELSE 0
                                    |-> componentState]]
    /\ UNCHANGED <<appState, applied>>

OtherWorkerStep ==
    /\ worker # "notify"
    /\ WorkerStep
    /\ UNCHANGED appVars

-----------------------------------------------------------------------------
(* performAction, once round the loop of main: getQueueElement, which may  *)
(* find nothing, and setStateUpdateHandler, or GetComponentState ...       *)
Begin(c) ==
    /\ BeginRound(c)
    /\ UNCHANGED appVars

FindNoEvent(c) ==
    /\ UpdateMode[c] = "kEvent"
    /\ polled[c] = InRound
    /\ inbox[c] = <<>>
    /\ polled' = [polled EXCEPT ![c] = NotPolled]
    /\ UNCHANGED <<vars, proc, term, crashed, accidents, appVars>>

HandleEvent(c) ==
    /\ UpdateMode[c] = "kEvent"
    /\ polled[c] = InRound
    /\ inbox[c] # <<>>
    /\ polled' = [polled EXCEPT ![c] = Head(inbox[c])]
    /\ inbox' = [inbox EXCEPT ![c] = Tail(@)]
    /\ UNCHANGED <<vars, proc, term, crashed, accidents, appState, applied>>

(* Mutant: an application that is suspended does not poll.                 *)
PollWhileOn(c) ==
    /\ appState[c] = COMPONENT_STATE_ON
    /\ PollComponentState(c)
    /\ UNCHANGED appVars

Poll(c) ==
    /\ PollComponentState(c)
    /\ UNCHANGED appVars

(* Mutant: suspend does not update m_componentState.                       *)
ForgetSuspend(c) ==
    /\ HasRead(c)
    /\ c \notin applied
    /\ applied' = applied \cup {c}
    /\ IF polled[c] = COMPONENT_STATE_ON /\ appState[c] # COMPONENT_STATE_ON
       THEN /\ ReportApplicationState(c, "kRunning")
            /\ appState' = Enters(c, COMPONENT_STATE_ON)
       ELSE UNCHANGED <<vars, appState>>
    /\ UNCHANGED <<platform, inbox>>

(* ... setComponentState: resuming reports that the application runs,      *)
(* suspending tells nobody, the same or no state changes nothing ...       *)
SetComponentState(c) ==
    /\ HasRead(c)
    /\ c \notin applied
    /\ applied' = applied \cup {c}
    /\ \/ /\ polled[c] = COMPONENT_STATE_ON /\ appState[c] # COMPONENT_STATE_ON
          /\ ReportApplicationState(c, "kRunning")
          /\ appState' = Enters(c, COMPONENT_STATE_ON)
       \/ /\ polled[c] = COMPONENT_STATE_OFF /\ appState[c] # COMPONENT_STATE_OFF
          /\ appState' = Enters(c, COMPONENT_STATE_OFF)
          /\ UNCHANGED vars
       \/ /\ polled[c] \in {appState[c], NoState}
          /\ UNCHANGED <<vars, appState>>
    /\ UNCHANGED <<platform, inbox>>

(* ... and ConfirmComponentState.                                          *)
Confirm(c) ==
    /\ c \in applied
    /\ ConfirmPolledState(c)
    /\ applied' = applied \ {c}
    /\ UNCHANGED <<appState, inbox>>

PerformAction(c) ==
    \/ FindNoEvent(c)
    \/ HandleEvent(c)
    \/ Poll(c)
    \/ SetComponentState(c)
    \/ Confirm(c)

-----------------------------------------------------------------------------
OtherStep ==
    /\ RpcStep \/ OldConfirmStep \/ NewConfirmStep
    /\ UNCHANGED appVars

MsmStep(p, s) ==
    /\ \A c \in Components : Len(inbox[c]) < MaxInbox
    /\ RequestState(p, s)
    /\ UNCHANGED appVars

AppNext ==
    \/ SendEvents
    \/ OtherWorkerStep
    \/ OtherStep
    \/ \E p \in Procs : Run(p) \/ EndProcess(p) \/ OtherProcessStep(p)
    \/ \E c \in Components : Begin(c) \/ PerformAction(c)
    \/ \E p \in MsmProcs, s \in MachineStates : MsmStep(p, s)

AppSpec == AppInit /\ [][AppNext]_everything

(* The main loop of every application goes round, the worker gets through  *)
(* its list of subscribers and the RPC handlers return, as in Platform.    *)
(* Nothing else need go on: the worker may wait for ever.                  *)
FairAppSpec ==
    /\ AppSpec
    /\ WF_everything(SendEvents)
    /\ WF_everything(RpcStep /\ UNCHANGED appVars)
    /\ \A c \in Components : SF_everything(Begin(c) \/ PerformAction(c))

-----------------------------------------------------------------------------
(* What an application confirms without an error is the state it is in:    *)
(* reading the component state, changing to it and confirming it are three *)
(* steps, and nothing else changes the application in between.             *)
AppTypeOK ==
    /\ appState \in [Components -> {NoState, COMPONENT_STATE_ON,
                                    COMPONENT_STATE_OFF}]
    /\ applied \in SUBSET Components
    /\ inbox \in [Components -> Seq({COMPONENT_STATE_ON, COMPONENT_STATE_OFF})]
    /\ \A c \in applied : polled[c] \in {NoState, appState[c]}

InLoop(c) == proc[c] = "up" /\ c \notin term

(* A polling application follows the component state of the Execution      *)
(* Manager, whatever transitions and stale confirmations went before: it   *)
(* gets into every state that stays, unless it is told to end.             *)
PollersFollow ==
    \A c \in Components, s \in {COMPONENT_STATE_ON, COMPONENT_STATE_OFF} :
        UpdateMode[c] = "kPoll" =>
            (InLoop(c) /\ componentState = s
                ~> appState[c] = s \/ componentState # s \/ ~InLoop(c))

(* An application that has subscribed gets into every component state the  *)
(* Execution Manager notifies its subscribers of, unless it is told to     *)
(* end.                                                                    *)
SubscribersFollow ==
    \A c \in Components, s \in {COMPONENT_STATE_ON, COMPONENT_STATE_OFF} :
        InLoop(c) /\ stateUpdateSbscrs[c] > 0 /\ worker = "notify" /\ componentState = s
            ~> appState[c] = s \/ ~InLoop(c)

(* When the wait for Running or Suspend ends on the confirmations of the   *)
(* components, those that are in their main loops are in the component     *)
(* state of the new machine state.                                         *)
ConfirmedMeansApplied ==
    worker = "wait" /\ AwaitsComponents /\ confirmsReceived /\ ~readyToTransit =>
        \A c \in registeredComponents :
            InLoop(c) => appState[c] = componentState

=============================================================================

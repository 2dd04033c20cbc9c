----------------------- MODULE ExecutionManagerProofs -----------------------
(***************************************************************************)
(* Proofs, for any manifests, any number of processes and any bounds, of   *)
(* the invariants of ExecutionManager and of its refinement of             *)
(* MachineStateSpec.                                                       *)
(***************************************************************************)
EXTENDS ExecutionManager, SequenceTheorems, TLAPS

USE DEF AddMethod, GetExecutor

(* The reader's map names known processes only, so the entry for any state *)
(* is a set of processes (m_allowedProcessesForState).                     *)
LEMMA AllowedProcessesType ==
    \A s : AllowedProcesses(s) \subseteq Procs
BY ConstantsAssumption DEF AllowedProcesses

(* Taking a request from the method queue leaves a queue of requests.      *)
LEMMA QueueTail ==
    ASSUME methodsQueue \in Seq(Requests), methodsQueue # <<>>
    PROVE  /\ Head(methodsQueue) \in Requests
           /\ Tail(methodsQueue) \in Seq(Requests)
BY HeadTailProperties

(* TypeOK alone is not inductive: that a confirmation thread announces a   *)
(* mode of the manifest rests on the validation at the start of the        *)
(* transition.                                                             *)
TypeAndTransition == TypeOK /\ TransitionIsValid

(* Every handler and every step of the worker leaves the members of the    *)
(* class within their types and the transition under way valid.            *)
LEMMA TypeAndTransitionInvariant == Spec => []TypeAndTransition
<1>1. Init => TypeAndTransition
  <2> SUFFICES ASSUME Init PROVE TypeAndTransition
    OBVIOUS
  <2>1. <<MACHINE_STATE_STARTUP>> \in Seq(Requests)
    BY DEF Requests
  <2>2. /\ 0 \in 0 .. TimesToPollApps
        /\ 0 \in 0 .. MaxSbscrs
    BY ConstantsAssumption
  <2>3. [c \in Components |-> 0] \in [Components -> 0 .. MaxSbscrs]
    BY <2>2
  <2> QED
    BY <2>1, <2>2, <2>3
    DEF Init, TypeAndTransition, TypeOK, TransitionIsValid, Idle, Jobs,
        StatesAndNone, WorkerSteps
<1>2. TypeAndTransition /\ [Next]_vars => TypeAndTransition'
  <2> SUFFICES ASSUME TypeAndTransition, [Next]_vars PROVE TypeAndTransition'
    OBVIOUS
  <2> USE DEF TypeAndTransition, TypeOK, TransitionIsValid
  <2>1. CASE UNCHANGED vars
    BY <2>1 DEF vars, components, transition, threads
  <2>2. ASSUME NEW pid \in Pids, Register(pid) PROVE TypeAndTransition'
    BY <2>2 DEF Register, components, transition, threads
  <2>3. ASSUME NEW pid \in Pids, NEW s \in MachineStates \cup OtherStates,
               RequestMachineState(pid, s)
        PROVE  TypeAndTransition'
    BY <2>3 DEF RequestMachineState, Requests, components, transition, threads
  <2>4. ASSUME NEW p \in Procs, NEW state \in AppStates,
               ReportApplicationState(p, state)
        PROVE  TypeAndTransition'
    BY <2>4 DEF ReportApplicationState, components, transition, threads
  <2>5. ASSUME NEW c \in Components, NEW mode \in UpdateModes,
               RegisterComponent(c, mode)
        PROVE  TypeAndTransition'
    BY <2>5, ConstantsAssumption
    DEF RegisterComponent, components, transition, threads
  <2>6. ASSUME NEW c \in Components, NEW error \in BOOLEAN,
               ConfirmComponentState(c, error)
        PROVE  TypeAndTransition'
    BY <2>6 DEF ConfirmComponentState, ConfirmCalls, components, transition,
                threads
  <2>7. CASE FinishConfirmComponentState
    <3>1. /\ pendingConfirms' \in SUBSET pendingConfirms
          /\ confirmsReceived' \in BOOLEAN
          /\ rpc' = Idle
          /\ UNCHANGED <<activeProcesses, readyToTransit, currentState,
                         pendingState, componentState, registeredComponents,
                         stateUpdateSbscrs, msmPid, methodsQueue, worker,
                         transition, threads, jobs>>
      BY <2>7 DEF FinishConfirmComponentState
    <3> QED
      BY <3>1 DEF transition, threads
  <2>8. CASE RejectRequest
    BY <2>8, QueueTail DEF RejectRequest, components, transition, threads
  <2>9. CASE BeginTransition
    BY <2>9, QueueTail
    DEF BeginTransition, IsInvalid, StatesAndNone, WorkerSteps, components,
        transition, threads
  <2>10. ASSUME NEW p \in Procs, KillVisit(p) PROVE TypeAndTransition'
    BY <2>10, ConstantsAssumption
    DEF KillVisit, StopJob, Jobs, components, transition, threads
  <2>11. CASE KillDone
    BY <2>11, AllowedProcessesType
    DEF KillDone, WorkerSteps, components, transition, threads
  <2>12. ASSUME NEW p \in Procs, FindApplication(p) PROVE TypeAndTransition'
    BY <2>12 DEF FindApplication, components, transition, threads
  <2>13. CASE StartApplications
    BY <2>13, ConstantsAssumption
    DEF StartApplications, StartJob, Jobs, WorkerSteps, components,
        transition, threads
  <2>14. ASSUME NEW alive \in SUBSET MsmProcs, PollMsm(alive) PROVE TypeAndTransition'
    BY <2>14, ConstantsAssumption
    DEF PollMsm, WorkerSteps, components, transition, threads
  <2>15. CASE FailStartup
    BY <2>15 DEF FailStartup, WorkerSteps, components, transition, threads
  <2>16. CASE ChangeComponentState
    BY <2>16 DEF ChangeComponentState, ComponentStateFor, WorkerSteps,
                 components, transition, threads
  <2>17. CASE OpenConfirms
    BY <2>17 DEF OpenConfirms, WorkerSteps, components, transition, threads
  <2>18. CASE NotifySubscribers
    BY <2>18 DEF NotifySubscribers, WorkerSteps, components, transition,
                 threads
  <2>19. CASE CheckProcesses
    BY <2>19 DEF CheckProcesses, IsConfirmAvailable, WorkerSteps, components,
                 transition, threads
  <2>20. CASE WaitAgain
    BY <2>20 DEF WaitAgain, IsConfirmAvailable, WorkerSteps, components,
                 transition, threads
  <2>21. CASE ReadPendingConfirms
    BY <2>21 DEF ReadPendingConfirms, WorkerSteps, components, transition,
                 threads
  <2>22. CASE StoreConfirmsReceived
    BY <2>22 DEF StoreConfirmsReceived, WorkerSteps, components, transition,
                 threads
  <2>23. CASE SendConfirm
    BY <2>23 DEF SendConfirm, WorkerSteps, components, transition, threads
  <2>24. CASE PublishState
    BY <2>24 DEF PublishState, WorkerSteps, components, transition, threads
  <2>25. CASE DeliverOldConfirm
    BY <2>25 DEF DeliverOldConfirm, components, transition, threads
  <2>26. CASE DeliverNewConfirm
    BY <2>26 DEF DeliverNewConfirm, components, transition, threads
  <2>27. ASSUME NEW job \in Jobs, RunJob(job) PROVE TypeAndTransition'
    BY <2>27 DEF RunJob, components, transition, threads
  <2> QED
    BY <2>1, <2>2, <2>3, <2>4, <2>5, <2>6, <2>7, <2>8, <2>9, <2>10, <2>11,
       <2>12, <2>13, <2>14, <2>15, <2>16, <2>17, <2>18, <2>19, <2>20, <2>21,
       <2>22, <2>23, <2>24, <2>25, <2>26, <2>27
    DEF Next, Worker, Clients
<1> QED
  BY <1>1, <1>2, PTL DEF Spec

(* The members of class ExecutionManager keep their types.                 *)
THEOREM TypeCorrect == Spec => []TypeOK
BY TypeAndTransitionInvariant, PTL DEF TypeAndTransition

(* setMachineState never works on a state that the manifest does not name  *)
(* or that is the current one, however the requests interleave with it.    *)
THEOREM TransitionsAreValid == Spec => []TransitionIsValid
BY TypeAndTransitionInvariant, PTL DEF TypeAndTransition

-----------------------------------------------------------------------------
(* The steps of the worker up to changeComponentsState.                    *)
Preparing == {"idle", "kill", "find", "poll", "change"}

(* What all but a few steps leave alone: the states, the component state,  *)
(* the requests, the confirmations and the phase the worker is in.         *)
Quiet ==
    /\ UNCHANGED <<currentState, pendingState, componentState, sendThread,
                   newThread, methodsQueue>>
    /\ worker' = "idle" <=> worker = "idle"
    /\ worker' = "join" <=> worker = "join"
    /\ worker' \in Preparing <=> worker \in Preparing

Loud ==
    \/ \E pid \in Pids, s \in MachineStates \cup OtherStates :
          RequestMachineState(pid, s)
    \/ RejectRequest
    \/ BeginTransition
    \/ FailStartup
    \/ ChangeComponentState
    \/ SendConfirm
    \/ PublishState
    \/ DeliverOldConfirm
    \/ DeliverNewConfirm

(* Only the steps named in Loud take part in what a client of the EM can   *)
(* observe; reports, component traffic, the kill and start loops and the   *)
(* busy-wait are internal.                                                 *)
LEMMA QuietSteps == [Next]_vars => Quiet \/ Loud
<1> SUFFICES ASSUME [Next]_vars, ~Loud PROVE Quiet
  OBVIOUS
<1> USE DEF Quiet, Preparing, components, transition, threads
<1>1. CASE UNCHANGED vars
  BY <1>1 DEF vars
<1>2. CASE Clients
  BY <1>2 DEF Clients, Loud, Register, ReportApplicationState,
              RegisterComponent, ConfirmComponentState
<1>3. CASE FinishConfirmComponentState
  BY <1>3 DEF FinishConfirmComponentState
<1>4. CASE \E alive \in SUBSET MsmProcs : PollMsm(alive)
  BY <1>4 DEF PollMsm
<1>5. CASE \E job \in Jobs : RunJob(job)
  BY <1>5 DEF RunJob
<1>6. CASE (\E p \in Procs : KillVisit(p)) \/ KillDone
  BY <1>6 DEF KillVisit, KillDone
<1>7. CASE (\E p \in Procs : FindApplication(p)) \/ StartApplications
  BY <1>7 DEF FindApplication, StartApplications
<1>8. CASE OpenConfirms \/ NotifySubscribers \/ CheckProcesses
  BY <1>8 DEF OpenConfirms, NotifySubscribers, CheckProcesses
<1>9. CASE WaitAgain \/ ReadPendingConfirms \/ StoreConfirmsReceived
  BY <1>9 DEF WaitAgain, ReadPendingConfirms, StoreConfirmsReceived
<1> QED
  BY <1>1, <1>2, <1>3, <1>4, <1>5, <1>6, <1>7, <1>8, <1>9
  DEF Next, Worker, Loud

(* Whatever reaches the MSM confirms the state that is in force or is      *)
(* about to be: confirmations never pile up behind one another.            *)
THEOREM ConfirmsMatch == Spec => []ConfirmMatchesState
<1>1. Init => ConfirmMatchesState
  BY DEF Init, ConfirmMatchesState
<1>2. ConfirmMatchesState /\ [Next]_vars => ConfirmMatchesState'
  <2> SUFFICES ASSUME ConfirmMatchesState, [Next]_vars
               PROVE  ConfirmMatchesState'
    OBVIOUS
  <2> USE DEF ConfirmMatchesState
  <2>1. CASE Quiet
    BY <2>1 DEF Quiet
  <2>2. CASE \E pid \in Pids, s \in MachineStates \cup OtherStates :
                RequestMachineState(pid, s)
    BY <2>2 DEF RequestMachineState, threads
  <2>3. CASE RejectRequest \/ BeginTransition
    BY <2>3 DEF RejectRequest, BeginTransition, threads
  <2>4. CASE FailStartup \/ ChangeComponentState
    BY <2>4 DEF FailStartup, ChangeComponentState, threads
  <2>5. CASE SendConfirm
    BY <2>5 DEF SendConfirm
  <2>6. CASE PublishState
    BY <2>6 DEF PublishState
  <2>7. CASE DeliverOldConfirm \/ DeliverNewConfirm
    BY <2>7 DEF DeliverOldConfirm, DeliverNewConfirm
  <2> QED
    BY QuietSteps, <2>1, <2>2, <2>3, <2>4, <2>5, <2>6, <2>7 DEF Loud
<1> QED
  BY <1>1, <1>2, PTL DEF Spec

(* Pollers are never shown the component state of a transition that was    *)
(* refused or failed, and always the one of the transition they take part  *)
(* in.                                                                     *)
THEOREM ComponentStateIsCurrent == Spec => []ComponentStateFollows
<1>1. Init => ComponentStateFollows
  BY DEF Init, ComponentStateFollows, ComponentStateOf
<1>2. TypeAndTransition /\ ComponentStateFollows /\ [Next]_vars
         => ComponentStateFollows'
  <2> SUFFICES ASSUME TypeAndTransition, ComponentStateFollows, [Next]_vars
               PROVE  ComponentStateFollows'
    OBVIOUS
  <2> USE DEF ComponentStateFollows, ComponentStateOf
  <2>1. CASE Quiet
    BY <2>1 DEF Quiet, Preparing
  <2>2. CASE \E pid \in Pids, s \in MachineStates \cup OtherStates :
                RequestMachineState(pid, s)
    BY <2>2 DEF RequestMachineState, components
  <2>3. CASE RejectRequest \/ BeginTransition \/ FailStartup
    BY <2>3 DEF RejectRequest, BeginTransition, FailStartup, components
  <2>4. CASE ChangeComponentState
    BY <2>4, ConstantsAssumption
    DEF ChangeComponentState, TypeAndTransition, TransitionIsValid
  <2>5. CASE SendConfirm \/ PublishState
    BY <2>5 DEF SendConfirm, PublishState, components
  <2>6. CASE DeliverOldConfirm \/ DeliverNewConfirm
    BY <2>6 DEF DeliverOldConfirm, DeliverNewConfirm, components
  <2> QED
    BY QuietSteps, <2>1, <2>2, <2>3, <2>4, <2>5, <2>6 DEF Loud
<1> QED
  BY <1>1, <1>2, TypeAndTransitionInvariant, PTL DEF Spec

-----------------------------------------------------------------------------
(* What the refinement needs to know about a queue with the request under  *)
(* way in front of it.                                                     *)
LEMMA QueueFront ==
    ASSUME NEW S, NEW q \in Seq(S), NEW x \in S
    PROVE  /\ <<x>> \o q # <<>>
           /\ Head(<<x>> \o q) = x
           /\ Tail(<<x>> \o q) = q
           /\ \A y \in S : <<x>> \o Append(q, y) = Append(<<x>> \o q, y)
           /\ q # <<>> => <<Head(q)>> \o Tail(q) = q
<1> <<x>> \in Seq(S)
  OBVIOUS
<1>1. /\ <<x>> \o q # <<>>
      /\ Head(<<x>> \o q) = x
  OBVIOUS
<1>2. Tail(<<x>> \o q) = q
  OBVIOUS
<1>3. ASSUME NEW y \in S
      PROVE  <<x>> \o Append(q, y) = Append(<<x>> \o q, y)
  BY AppendIsConcat, ConcatAssociative, ConcatProperties
<1>4. q # <<>> => <<Head(q)>> \o Tail(q) = q
  OBVIOUS
<1> QED
  BY <1>1, <1>2, <1>3, <1>4

(* ExecutionManager implements MachineStateSpec.                           *)
THEOREM Refinement == Spec => ImplementsAbstract
<1>1. Init => Abstract!Init
  BY DEF Init, Abstract!Init, NoState, Abstract!NoState,
         MACHINE_STATE_STARTUP, Abstract!MACHINE_STATE_STARTUP
<1>2. TypeAndTransition /\ [Next]_vars => [Abstract!Next]_(Abstract!specVars)
  <2> SUFFICES ASSUME TypeAndTransition, [Next]_vars
               PROVE  [Abstract!Next]_(Abstract!specVars)
    OBVIOUS
  <2> DEFINE requests == IF worker = "idle" THEN methodsQueue
                         ELSE <<pendingState>> \o methodsQueue
             announced == IF worker = "join" THEN pendingState ELSE NoState
  <2>1. /\ methodsQueue \in Seq(Requests)
        /\ worker # "idle" => /\ pendingState \in Requests
                              /\ pendingState \in MachineStates
                              /\ pendingState # currentState
                              /\ pendingState # NoState
    BY ConstantsAssumption
    DEF TypeAndTransition, TypeOK, TransitionIsValid, Requests
  <2>2. CASE Quiet
    <3>1. requests' = requests /\ announced' = announced
      BY <2>2 DEF Quiet
    <3> QED
      BY <2>2, <3>1 DEF Quiet, Abstract!specVars
  <2>3. ASSUME NEW pid \in Pids, NEW s \in MachineStates \cup OtherStates,
               RequestMachineState(pid, s)
        PROVE  Abstract!Next
    <3>1. requests' = Append(requests, s)
      BY <2>1, <2>3, QueueFront DEF RequestMachineState, Requests
    <3>2. announced' = announced /\ currentState' = currentState
      BY <2>3 DEF RequestMachineState
    <3> QED
      BY <3>1, <3>2 DEF Abstract!Next, Abstract!Request
  <2>4. CASE RejectRequest
    BY <2>4 DEF RejectRequest, IsInvalid, Abstract!Next, Abstract!Refuse,
                NoState, Abstract!NoState
  <2>5. CASE BeginTransition
    <3>1. requests' = requests
      BY <2>1, <2>5, QueueFront, HeadTailProperties DEF BeginTransition
    <3> QED
      BY <2>5, <3>1 DEF BeginTransition, Abstract!specVars
  <2>6. CASE FailStartup
    <3>1. pendingState = MACHINE_STATE_STARTUP
      BY <2>6 DEF FailStartup, TypeAndTransition, TransitionIsValid
    <3>2. /\ requests # <<>>
          /\ Head(requests) = MACHINE_STATE_STARTUP
          /\ requests' = Tail(requests)
      BY <2>1, <2>6, <3>1, QueueFront DEF FailStartup
    <3> QED
      BY <2>6, <3>2 DEF FailStartup, Abstract!Next, Abstract!Refuse, NoState,
                        Abstract!NoState, MACHINE_STATE_STARTUP,
                        Abstract!MACHINE_STATE_STARTUP
  <2>7. CASE ChangeComponentState
    BY <2>7 DEF ChangeComponentState, Abstract!specVars
  <2>8. CASE SendConfirm
    <3>1. /\ requests # <<>>
          /\ Head(requests) = pendingState
          /\ requests' = requests
      BY <2>1, <2>8, QueueFront DEF SendConfirm
    <3> QED
      BY <2>1, <2>8, <3>1 DEF SendConfirm, Abstract!Next, Abstract!Announce,
                              NoState, Abstract!NoState
  <2>9. CASE PublishState
    <3>1. requests' = Tail(requests)
      BY <2>1, <2>9, QueueFront DEF PublishState
    <3> QED
      BY <2>1, <2>9, <3>1 DEF PublishState, Abstract!Next, Abstract!Publish,
                              NoState, Abstract!NoState
  <2>10. CASE DeliverOldConfirm \/ DeliverNewConfirm
    BY <2>10 DEF DeliverOldConfirm, DeliverNewConfirm, Abstract!specVars
  <2> QED
    BY QuietSteps, <2>2, <2>3, <2>4, <2>5, <2>6, <2>7, <2>8, <2>9, <2>10
    DEF Loud
<1> QED
  BY <1>1, <1>2, TypeAndTransitionInvariant, PTL
  DEF Spec, ImplementsAbstract, Abstract!Spec

=============================================================================

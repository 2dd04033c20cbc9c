--------------------------- MODULE PlatformProofs ---------------------------
(***************************************************************************)
(* Proofs, for any manifests and any number of processes, that the         *)
(* platform is a behaviour of ExecutionManager and that, short of the      *)
(* accidents Platform names, the EM never loses track of a process; and    *)
(* the same for applications that suspend and resume (AdaptiveApp), which  *)
(* confirm only the state they are in.                                     *)
(***************************************************************************)
EXTENDS AdaptiveApp, ExecutionManagerProofs

USE DEF AddMethod, GetExecutor

(* The worker has started what it had to start.                            *)
Started == {"poll", "change", "open", "notify", "check", "wait", "read",
            "store", "join"}

Allowed == AllowedProcesses(pendingState)

(* The locals of the loops are empty outside of them.                      *)
LocalsReset ==
    /\ worker # "kill" => scanned = {} /\ cursor = NoProc
    /\ worker \notin {"find", "poll"} => appsToBeStarted = {}

Starting(p) == proc[p] \in {"starting", "registered"}

(* What the EM believes about a process is true, but for one that crashed, *)
(* and it has told a process to start or stop only if the state aimed at   *)
(* wants it so.                                                            *)
Tracked(p) ==
    /\ Serving(p) => p \in activeProcesses
    /\ p \in activeProcesses =>
          Serving(p) \/ (proc[p] = "down" /\ p \in crashed)
    /\ StartJob(p) \in jobs => proc[p] = "down"
    /\ StartJob(p) \in jobs \/ Starting(p) =>
          p \in Allowed /\ p \notin activeProcesses /\ worker \in Started
    /\ StopJob(p) \in jobs \/ p \in term =>
          p \in activeProcesses /\ p \notin Allowed /\ worker # "idle"
    /\ p \in term => Serving(p) /\ StopJob(p) \notin jobs

(* A process that has to go has been told so, unless it crashed before.    *)
Stopping(p) == StopJob(p) \in jobs \/ p \in term \/ proc[p] = "down"

(* How far the worker has got with a process.                              *)
HandledAtIdle(p) ==
    worker = "idle" => (p \in activeProcesses <=>
                           p \in AllowedProcesses(currentState))
HandledAtKill(p) ==
    worker = "kill" =>
        /\ p \in activeProcesses => p \in snapshot
        /\ p \in activeProcesses /\ p \in scanned /\ p \notin Allowed =>
              Stopping(p)
        /\ StopJob(p) \in jobs \/ p \in term => p \in scanned
HandledAtFind(p) ==
    worker = "find" =>
        /\ p \in activeProcesses /\ p \notin Allowed => Stopping(p)
        /\ p \in Allowed /\ p \notin activeProcesses =>
              p \in toFind \cup appsToBeStarted
        /\ p \in appsToBeStarted => p \in Allowed /\ p \notin activeProcesses
        /\ p \in toFind => p \in Allowed
HandledWhenStarted(p) ==
    worker \in Started =>
        /\ p \in activeProcesses /\ p \notin Allowed => Stopping(p)
        /\ p \in Allowed /\ p \notin activeProcesses =>
              StartJob(p) \in jobs \/ Starting(p) \/ p \in crashed

(* The flag that ends the wait is still true when it is acted upon.        *)
ReadyIsReady(p) ==
    \/ worker \in {"wait", "read", "store"} /\ readyToTransit
    \/ worker = "join"
    => (p \in activeProcesses <=> p \in Allowed)

Handled(p) ==
    /\ HandledAtIdle(p)
    /\ HandledAtKill(p)
    /\ HandledAtFind(p)
    /\ HandledWhenStarted(p)
    /\ ReadyIsReady(p)

Bookkeeping ==
    /\ LocalsReset
    /\ accidents = {} => \A p \in Procs : Tracked(p) /\ Handled(p)

-----------------------------------------------------------------------------
(* The applications, the MSM and systemd only do what ExecutionManager     *)
(* allows its clients.                                                     *)
LEMMA StepIsStep == [PlatformNext]_allVars => [Next]_vars
<1> SUFFICES ASSUME [PlatformNext]_allVars PROVE [Next]_vars
  OBVIOUS
<1>1. CASE UNCHANGED allVars
  BY <1>1 DEF allVars
<1>2. CASE WorkerStep
  <2>1. Alive \cap MsmProcs \in SUBSET MsmProcs
    OBVIOUS
  <2> QED
    BY <1>2, <2>1 DEF WorkerStep, Next
<1>3. CASE RpcStep \/ OldConfirmStep \/ NewConfirmStep
  BY <1>3 DEF RpcStep, OldConfirmStep, NewConfirmStep, Next
<1>4. ASSUME NEW p \in Procs, ProcessStep(p) PROVE Next
  <2>1. StartJob(p) \in Jobs /\ StopJob(p) \in Jobs
    BY DEF StartJob, StopJob, Jobs
  <2>2. CASE SystemctlStart(p) \/ SystemctlStop(p)
    BY <2>1, <2>2 DEF SystemctlStart, SystemctlStop, Next
  <2>3. CASE RegisterApplication(p)
    BY <2>3, PlatformAssumption DEF RegisterApplication, Next, Clients
  <2>4. CASE RegisterMsm(p)
    BY <2>4, PlatformAssumption DEF RegisterMsm, Next, Clients
  <2>5. CASE ReportRunning(p) \/ Terminate(p)
    BY <2>5 DEF ReportRunning, Terminate, Next, Clients, AppStates
  <2> QED
    BY <1>4, <2>2, <2>3, <2>4, <2>5 DEF ProcessStep
<1>5. ASSUME NEW c \in Components,
             BeginPoll(c) \/ PollRound(c)
      PROVE  [Next]_vars
  BY <1>5 DEF BeginPoll, BeginRound, PollRound, PollComponentState,
              ConfirmPolledState, Next, Clients
<1>6. ASSUME NEW p \in MsmProcs, NEW s \in MachineStates, RequestState(p, s)
      PROVE  Next
  BY <1>6, PlatformAssumption DEF RequestState, Next, Clients
<1>7. ASSUME NEW p \in Procs, Crash(p) PROVE UNCHANGED vars
  BY <1>7 DEF Crash
<1> QED
  BY <1>1, <1>2, <1>3, <1>4, <1>5, <1>6, <1>7 DEF PlatformNext

(* The platform is a behaviour of ExecutionManager, so the invariants and  *)
(* the refinement proved for arbitrary clients hold for the real ones.     *)
THEOREM PlatformImplementsManager == PlatformSpec => Spec
<1>1. PlatformInit => Init
  BY DEF PlatformInit
<1> QED
  BY <1>1, StepIsStep, PTL DEF PlatformSpec, Spec

-----------------------------------------------------------------------------
(* No process leaves the states of its main function in one step.          *)
LEMMA PlatformTypeStep ==
    TypeOK /\ PlatformTypeOK /\ [PlatformNext]_allVars => PlatformTypeOK'
<1> SUFFICES ASSUME TypeOK, PlatformTypeOK, [PlatformNext]_allVars
             PROVE  PlatformTypeOK'
  OBVIOUS
<1> USE DEF PlatformTypeOK, Alive, ProcStates
<1>1. CASE UNCHANGED allVars
  BY <1>1 DEF allVars, platform
<1>2. CASE WorkerStep
  BY <1>2 DEF WorkerStep
<1>3. CASE RpcStep \/ OldConfirmStep \/ NewConfirmStep
  BY <1>3 DEF RpcStep, OldConfirmStep, NewConfirmStep, platform
<1>4. ASSUME NEW p \in Procs, ProcessStep(p) PROVE PlatformTypeOK'
  BY <1>4 DEF ProcessStep, SystemctlStart, SystemctlStop,
              RegisterApplication, RegisterMsm, ReportRunning, Terminate
<1>5. ASSUME NEW c \in Components, BeginPoll(c) \/ PollRound(c)
      PROVE  PlatformTypeOK'
  BY <1>5 DEF BeginPoll, BeginRound, PollRound, PollComponentState,
              ConfirmPolledState, TypeOK
<1>6. ASSUME NEW p \in MsmProcs, NEW s \in MachineStates, RequestState(p, s)
      PROVE  PlatformTypeOK'
  BY <1>6, ConstantsAssumption DEF RequestState
<1>7. ASSUME NEW p \in Procs, Crash(p) PROVE PlatformTypeOK'
  BY <1>7, PlatformAssumption DEF Crash, Accidents
<1> QED
  BY <1>1, <1>2, <1>3, <1>4, <1>5, <1>6, <1>7 DEF PlatformNext

(* The processes stay within the states of their main functions.           *)
THEOREM PlatformTypeCorrect == PlatformSpec => []PlatformTypeOK
<1>1. PlatformInit => PlatformTypeOK
  BY PlatformAssumption
  DEF PlatformInit, PlatformTypeOK, ProcStates, NotPolled
<1> QED
  BY <1>1, PlatformTypeStep, PlatformImplementsManager, TypeCorrect, PTL
  DEF PlatformSpec

-----------------------------------------------------------------------------
(* Commands for different processes, and start and stop, are different.    *)
LEMMA JobsDiffer ==
    \A p, q : /\ StartJob(p) # StopJob(q)
              /\ StartJob(p) = StartJob(q) => p = q
              /\ StopJob(p) = StopJob(q) => p = q
BY DEF StartJob, StopJob

(* killProcessesForState and startApplicationsForState leave their locals  *)
(* empty.                                                                  *)
LEMMA LocalsStep == LocalsReset /\ [Next]_vars => LocalsReset'
<1> SUFFICES ASSUME LocalsReset, [Next]_vars PROVE LocalsReset'
  OBVIOUS
<1> USE DEF LocalsReset, transition
<1>1. CASE UNCHANGED vars
  BY <1>1 DEF vars
<1>2. CASE Clients \/ FinishConfirmComponentState
  BY <1>2 DEF Clients, Register, RequestMachineState, ReportApplicationState,
              RegisterComponent, ConfirmComponentState,
              FinishConfirmComponentState
<1>3. CASE RejectRequest \/ BeginTransition
  BY <1>3 DEF RejectRequest, BeginTransition
<1>4. CASE (\E p \in Procs : KillVisit(p)) \/ KillDone
  BY <1>4 DEF KillVisit, KillDone
<1>5. CASE (\E p \in Procs : FindApplication(p)) \/ StartApplications
  BY <1>5 DEF FindApplication, StartApplications
<1>6. CASE (\E alive \in SUBSET MsmProcs : PollMsm(alive)) \/ FailStartup
  BY <1>6 DEF PollMsm, FailStartup
<1>7. CASE ChangeComponentState \/ OpenConfirms \/ NotifySubscribers
           \/ CheckProcesses \/ WaitAgain
  BY <1>7 DEF ChangeComponentState, OpenConfirms, NotifySubscribers,
              CheckProcesses, WaitAgain
<1>8. CASE ReadPendingConfirms \/ StoreConfirmsReceived \/ SendConfirm
           \/ PublishState
  BY <1>8 DEF ReadPendingConfirms, StoreConfirmsReceived, SendConfirm,
              PublishState
<1>9. CASE DeliverOldConfirm \/ DeliverNewConfirm
           \/ \E job \in Jobs : RunJob(job)
  BY <1>9 DEF DeliverOldConfirm, DeliverNewConfirm, RunJob
<1> QED
  BY <1>1, <1>2, <1>3, <1>4, <1>5, <1>6, <1>7, <1>8, <1>9 DEF Next, Worker

(* One step keeps the books on one process, if it is no accident.          *)
LEMMA TrackStep ==
    ASSUME TypeOK, PlatformTypeOK, LocalsReset, [PlatformNext]_allVars,
           accidents' = {},
           NEW p \in Procs, Tracked(p), Handled(p)
    PROVE  Tracked(p)' /\ Handled(p)'
<1> USE DEF Tracked, Handled, HandledAtIdle, HandledAtKill, HandledAtFind,
            HandledWhenStarted, ReadyIsReady, Allowed, Started, Serving,
            Starting, Stopping
<1> DEFINE Untouched ==
        /\ UNCHANGED <<activeProcesses, readyToTransit, currentState,
                       pendingState, worker, snapshot, scanned, toFind,
                       appsToBeStarted, jobs>>
        /\ UNCHANGED <<proc, term, crashed>>
<1>0. Untouched => Tracked(p)' /\ Handled(p)'
  OBVIOUS
<1>1. CASE UNCHANGED allVars
  BY <1>0, <1>1 DEF allVars, vars, platform, transition
<1>2. CASE WorkerStep
  <2>1. /\ proc' = proc
        /\ term' = term
        /\ ~Accident("earlyExit")
        /\ ~Accident("failedStartup")
        /\ ~Accident("lostIterator")
        /\ crashed' = crashed
    BY <1>2 DEF WorkerStep, Accidents, Accident
  <2>2. CASE RejectRequest
    BY <2>1, <2>2 DEF RejectRequest, transition
  <2>3. CASE BeginTransition
    BY <2>1, <2>3 DEF BeginTransition, LocalsReset
  <2>4. ASSUME NEW q \in Procs, KillVisit(q) PROVE Tracked(p)' /\ Handled(p)'
    BY <2>1, <2>4, JobsDiffer DEF KillVisit, Visitable, Accident
  <2>5. CASE KillDone
    BY <2>1, <2>5 DEF KillDone, Accident, LocalsReset
  <2>6. ASSUME NEW q \in Procs, FindApplication(q)
        PROVE  Tracked(p)' /\ Handled(p)'
    BY <2>1, <2>6 DEF FindApplication
  <2>7. CASE StartApplications
    BY <2>1, <2>7, JobsDiffer
    DEF StartApplications, PlatformTypeOK, ProcStates
  <2>8. CASE PollMsm(Alive \cap MsmProcs)
    BY <2>1, <2>8 DEF PollMsm
  <2>9. CASE FailStartup
    BY <2>1, <2>9 DEF FailStartup, Accident
  <2>10. CASE ChangeComponentState \/ OpenConfirms \/ NotifySubscribers
    BY <2>1, <2>10 DEF ChangeComponentState, OpenConfirms, NotifySubscribers,
                       transition
  <2>11. CASE CheckProcesses \/ WaitAgain
    <3>1. CASE CheckProcesses
      BY <2>1, <3>1 DEF CheckProcesses, IsConfirmAvailable, transition
    <3>2. CASE WaitAgain
      BY <2>1, <3>2 DEF WaitAgain, IsConfirmAvailable, transition
    <3> QED
      BY <2>11, <3>1, <3>2
  <2>12. CASE ReadPendingConfirms \/ StoreConfirmsReceived
    BY <2>1, <2>12 DEF ReadPendingConfirms, StoreConfirmsReceived
  <2>13. CASE SendConfirm
    BY <2>1, <2>13 DEF SendConfirm, Accident, transition
  <2>14. CASE PublishState
    BY <2>1, <2>14 DEF PublishState, transition
  <2> QED
    BY <1>2, <2>2, <2>3, <2>4, <2>5, <2>6, <2>7, <2>8, <2>9, <2>10, <2>11,
       <2>12, <2>13, <2>14
    DEF WorkerStep, Worker
<1>3. CASE RpcStep \/ OldConfirmStep \/ NewConfirmStep
  <2>1. Untouched
    BY <1>3 DEF RpcStep, OldConfirmStep, NewConfirmStep, platform, transition,
                FinishConfirmComponentState, DeliverOldConfirm,
                DeliverNewConfirm
  <2> QED
    BY <1>0, <2>1
<1>4. ASSUME NEW q \in Procs, ProcessStep(q)
      PROVE  Tracked(p)' /\ Handled(p)'
  <2>1. CASE SystemctlStart(q)
    BY <2>1, JobsDiffer
    DEF SystemctlStart, RunJob, transition, PlatformTypeOK
  <2>2. CASE SystemctlStop(q)
    BY <2>2, JobsDiffer
    DEF SystemctlStop, RunJob, transition, PlatformTypeOK
  <2>3. CASE RegisterApplication(q) \/ RegisterMsm(q)
    <3>1. /\ UNCHANGED <<activeProcesses, readyToTransit, currentState,
                         pendingState, worker, snapshot, scanned, toFind,
                         appsToBeStarted, jobs>>
          /\ UNCHANGED <<term, crashed>>
          /\ proc[q] = "starting" /\ proc'[q] = "registered"
          /\ p # q => proc'[p] = proc[p]
      BY <2>3 DEF RegisterApplication, RegisterComponent, RegisterMsm, Register,
                  transition, PlatformTypeOK
    <3> QED
      BY <3>1
  <2>4. CASE ReportRunning(q)
    <3>1. /\ UNCHANGED <<readyToTransit, currentState, pendingState, worker,
                         snapshot, scanned, toFind, appsToBeStarted, jobs>>
          /\ UNCHANGED <<term, crashed>>
          /\ activeProcesses' = activeProcesses \cup {q}
          /\ Starting(q) /\ proc'[q] = "up"
          /\ p # q => proc'[p] = proc[p]
      BY <2>4 DEF ReportRunning, ReportApplicationState, transition,
                  PlatformTypeOK
    <3>2. CASE p = q
      <4>1. /\ p \in Allowed /\ p \in Allowed' /\ worker' \in Started
            /\ StartJob(p) \notin jobs' /\ StopJob(p) \notin jobs'
            /\ p \notin term' /\ p \in activeProcesses' /\ proc'[p] = "up"
        BY <3>1, <3>2
      <4>2. Tracked(p)'
        BY <4>1
      <4>3. Handled(p)'
        BY <4>1
      <4> QED
        BY <4>2, <4>3
    <3>3. CASE p # q
      BY <3>1, <3>3
    <3> QED
      BY <3>2, <3>3
  <2>5. CASE Terminate(q)
    BY <2>5 DEF Terminate, ReportApplicationState, transition, PlatformTypeOK
  <2> QED
    BY <1>4, <2>1, <2>2, <2>3, <2>4, <2>5 DEF ProcessStep
<1>5. ASSUME NEW c \in Components,
             BeginPoll(c) \/ PollRound(c)
      PROVE  Tracked(p)' /\ Handled(p)'
  <2>1. Untouched
    BY <1>5 DEF BeginPoll, BeginRound, PollRound, PollComponentState,
                ConfirmPolledState, ConfirmComponentState, vars, transition
  <2> QED
    BY <1>0, <2>1
<1>6. ASSUME NEW q \in MsmProcs, NEW s \in MachineStates, RequestState(q, s)
      PROVE  Tracked(p)' /\ Handled(p)'
  BY <1>6, ConstantsAssumption
  DEF RequestState, RequestMachineState, transition, PlatformTypeOK
<1>7. ASSUME NEW q \in Procs, Crash(q)
      PROVE  Tracked(p)' /\ Handled(p)'
  BY <1>7 DEF Crash, vars, transition, PlatformTypeOK
<1> QED
  BY <1>1, <1>2, <1>3, <1>4, <1>5, <1>6, <1>7 DEF PlatformNext

-----------------------------------------------------------------------------
(* The EM starts with nothing to keep track of.                            *)
LEMMA BookkeepingInit == PlatformInit => Bookkeeping
BY ConstantsAssumption
DEF PlatformInit, Init, Bookkeeping, LocalsReset, Tracked, Handled,
    HandledAtIdle, HandledAtKill, HandledAtFind, HandledWhenStarted,
    ReadyIsReady, Serving, Starting, Started, AllowedProcesses

(* No step loses track of a process without an accident.                   *)
LEMMA BookkeepingStep ==
    TypeOK /\ PlatformTypeOK /\ Bookkeeping /\ [PlatformNext]_allVars
        => Bookkeeping'
<1> SUFFICES ASSUME TypeOK, PlatformTypeOK, Bookkeeping,
                    [PlatformNext]_allVars
             PROVE  Bookkeeping'
  OBVIOUS
<1>1. LocalsReset'
  BY StepIsStep, LocalsStep DEF Bookkeeping
<1>2. accidents \subseteq accidents'
  BY DEF PlatformNext, allVars, platform, WorkerStep, RpcStep,
         OldConfirmStep, NewConfirmStep, ProcessStep, SystemctlStart,
         SystemctlStop, RegisterApplication, RegisterMsm, ReportRunning,
         Terminate, BeginPoll, BeginRound, PollRound, PollComponentState,
         ConfirmPolledState, RequestState, Crash
<1>3. ASSUME accidents' = {}, NEW p \in Procs
      PROVE  Tracked(p)' /\ Handled(p)'
  <2>1. LocalsReset /\ Tracked(p) /\ Handled(p)
    BY <1>2, <1>3 DEF Bookkeeping
  <2> QED
    BY <1>3, <2>1, TrackStep
<1> QED
  BY <1>1, <1>3 DEF Bookkeeping

(* The inductive invariant: Settled and WaitIsNotHopeless speak of two     *)
(* phases of the worker, Bookkeeping says what holds of every process in   *)
(* every phase between them.                                               *)
LEMMA BookkeepingInvariant == PlatformSpec => []Bookkeeping
BY BookkeepingInit, BookkeepingStep, PlatformImplementsManager, TypeCorrect,
   PlatformTypeCorrect, PTL DEF PlatformSpec

(* What the books say when the worker is idle.                             *)
LEMMA BooksAreSettled == TypeOK /\ PlatformTypeOK /\ Bookkeeping => Settled
<1> SUFFICES ASSUME TypeOK, PlatformTypeOK, Bookkeeping,
                    accidents = {}, worker = "idle"
             PROVE  /\ activeProcesses = AllowedProcesses(currentState)
                    /\ jobs = {}
                    /\ term = {}
                    /\ \A p \in Procs :
                          /\ Serving(p) => p \in activeProcesses
                          /\ ~Serving(p) => proc[p] = "down"
                          /\ p \in activeProcesses =>
                                Serving(p) \/ p \in crashed
  BY DEF Settled
<1>1. \A p \in Procs : Tracked(p) /\ HandledAtIdle(p)
  BY DEF Bookkeeping, Handled
<1>2. activeProcesses = AllowedProcesses(currentState)
  BY <1>1, AllowedProcessesType DEF HandledAtIdle, TypeOK
<1>3. \A p \in Procs : /\ StartJob(p) \notin jobs
                       /\ StopJob(p) \notin jobs
                       /\ p \notin term
                       /\ ~Starting(p)
                       /\ Serving(p) => p \in activeProcesses
                       /\ p \in activeProcesses =>
                             Serving(p) \/ p \in crashed
  BY <1>1 DEF Tracked, Started
<1>4. jobs = {}
  <2>1. \A job \in Jobs : \E p \in Procs :
           job = StartJob(p) \/ job = StopJob(p)
    BY DEF Jobs, StartJob, StopJob
  <2> QED
    BY <1>3, <2>1 DEF TypeOK
<1>5. term = {}
  BY <1>3 DEF PlatformTypeOK, Alive
<1>6. \A p \in Procs : ~Serving(p) => proc[p] = "down"
  BY <1>3 DEF PlatformTypeOK, ProcStates, Serving, Starting
<1> QED
  BY <1>2, <1>3, <1>4, <1>5, <1>6

(* Between two transitions the processes that run are those of the machine *)
(* state, but for those that crashed, for any manifests and any number of  *)
(* crashes, as long as no accident happens.                                *)
THEOREM SettledWhenIdle == PlatformSpec => []Settled
BY BooksAreSettled, BookkeepingInvariant, PlatformTypeCorrect, TypeCorrect,
   PlatformImplementsManager, PTL

(* What the books say while the worker waits.                              *)
LEMMA BooksGiveHope == PlatformTypeOK /\ Bookkeeping => WaitIsNotHopeless
<1> SUFFICES ASSUME PlatformTypeOK, Bookkeeping, accidents = {},
                    worker \in Waiting, NEW p \in Procs
             PROVE  IF p \in AllowedProcesses(pendingState)
                    THEN /\ StopJob(p) \notin jobs /\ p \notin term
                         /\ \/ p \in activeProcesses /\ Serving(p)
                            \/ StartJob(p) \in jobs
                            \/ proc[p] \in {"starting", "registered"}
                            \/ proc[p] = "down" /\ p \in crashed
                    ELSE /\ StartJob(p) \notin jobs
                         /\ \/ p \notin activeProcesses /\ proc[p] = "down"
                            \/ StopJob(p) \in jobs \/ p \in term
                            \/ proc[p] = "down" /\ p \in crashed
  BY DEF WaitIsNotHopeless
<1>1. Tracked(p) /\ HandledWhenStarted(p)
  BY DEF Bookkeeping, Handled
<1> QED
  BY <1>1 DEF Tracked, HandledWhenStarted, Allowed, Started, Waiting,
              Serving, Starting, Stopping, PlatformTypeOK, ProcStates

(* Short of an accident setMachineState never waits for a report that no   *)
(* process is on its way to send, for any manifests.                       *)
THEOREM WaitsAreNotHopeless == PlatformSpec => []WaitIsNotHopeless
BY BooksGiveHope, BookkeepingInvariant, PlatformTypeCorrect, PTL

-----------------------------------------------------------------------------
(* An application in a round is in its main loop, and changes to a state   *)
(* only after it has read one.                                             *)
ReadOnlyInLoop ==
    /\ \A c \in Components : polled[c] # NotPolled => proc[c] = "up"
    /\ \A c \in applied : HasRead(c)

AppInv == PlatformTypeOK /\ AppTypeOK /\ ReadOnlyInLoop

(* An application that resumes reports again that it runs.                 *)
Resume(c) ==
    /\ HasRead(c)
    /\ ReportApplicationState(c, "kRunning")
    /\ UNCHANGED platform

(* A round of the main loop up to the event it reads.                      *)
EventRound(c) == BeginRound(c) \/ FindNoEvent(c) \/ HandleEvent(c)

(* What applications that suspend and resume add to the steps of Platform: *)
(* an event is read like a polled state, and resuming is reported.         *)
LEMMA AppStep ==
    [AppNext]_everything =>
        \/ [PlatformNext]_allVars
        \/ \E c \in Components : EventRound(c) \/ Resume(c)
<1> SUFFICES ASSUME [AppNext]_everything
             PROVE  \/ [PlatformNext]_allVars
                    \/ \E c \in Components : EventRound(c) \/ Resume(c)
  OBVIOUS
<1>1. CASE UNCHANGED everything
  BY <1>1 DEF everything
<1>2. CASE SendEvents \/ OtherWorkerStep \/ OtherStep
  BY <1>2 DEF SendEvents, OtherWorkerStep, OtherStep, PlatformNext
<1>3. ASSUME NEW p \in Procs, Run(p) \/ EndProcess(p) \/ OtherProcessStep(p)
      PROVE  PlatformNext
  BY <1>3 DEF Run, EndProcess, OtherProcessStep, PlatformNext, ProcessStep
<1>4. ASSUME NEW c \in Components, Poll(c) \/ Confirm(c)
      PROVE  PlatformNext
  BY <1>4 DEF Poll, Confirm, PlatformNext, PollRound
<1>5. ASSUME NEW c \in Components, SetComponentState(c)
      PROVE  Resume(c) \/ UNCHANGED allVars
  BY <1>5 DEF SetComponentState, Resume, allVars
<1>6. ASSUME NEW p \in MsmProcs, NEW s \in MachineStates, MsmStep(p, s)
      PROVE  PlatformNext
  BY <1>6 DEF MsmStep, PlatformNext
<1>7. ASSUME NEW c \in Components, Begin(c) \/ FindNoEvent(c) \/ HandleEvent(c)
      PROVE  EventRound(c)
  BY <1>7 DEF Begin, EventRound
<1> QED
  BY <1>1, <1>2, <1>3, <1>4, <1>5, <1>6, <1>7 DEF AppNext, PerformAction

(* Applications that suspend and resume are clients ExecutionManager       *)
(* allows too, so that what is proved for arbitrary clients holds of them. *)
THEOREM AppImplementsManager == AppSpec => Spec
<1>1. AppInit => Init
  BY DEF AppInit, PlatformInit
<1>2. [AppNext]_everything => [Next]_vars
  <2>1. ASSUME NEW c \in Components, EventRound(c) \/ Resume(c)
        PROVE  [Next]_vars
    BY <2>1, ConstantsAssumption
    DEF EventRound, BeginRound, FindNoEvent, HandleEvent, Resume, Next,
        Clients, AppStates
  <2> QED
    BY <2>1, AppStep, StepIsStep
<1> QED
  BY <1>1, <1>2, PTL DEF AppSpec, Spec

(* With the real applications, too, requests are handled in order, and a   *)
(* machine state is published only after it was announced: what            *)
(* MachineStateClient takes for granted of the EM.                         *)
THEOREM AppImplementsAbstract == AppSpec => ImplementsAbstract
BY AppImplementsManager, Refinement, PTL

-----------------------------------------------------------------------------
(* Every event sent says on or off: when the subscribers are notified the  *)
(* component state has been set.                                           *)
LEMMA EventSaysOnOrOff ==
    ASSUME ComponentStateFollows, TransitionIsValid, worker = "notify"
    PROVE  componentState \in {COMPONENT_STATE_ON, COMPONENT_STATE_OFF}
BY ConstantsAssumption
DEF ComponentStateFollows, ComponentStateOf, ComponentStateFor,
    TransitionIsValid

(* The queue of an event server takes the events of one notification.      *)
LEMMA InboxGrows ==
    ASSUME NEW S, NEW s \in Seq(S), NEW x \in S, NEW n \in Nat
    PROVE  s \o [i \in 1 .. n |-> x] \in Seq(S)
<1>1. [i \in 1 .. n |-> x] \in Seq(S)
  OBVIOUS
<1> QED
  BY <1>1, ConcatProperties

(* The processes of AdaptiveApp have the types of those of Platform.       *)
LEMMA AppPlatformStep ==
    ASSUME TypeOK, PlatformTypeOK, AppTypeOK, [AppNext]_everything
    PROVE  PlatformTypeOK'
<1>1. ASSUME NEW c \in Components, EventRound(c) PROVE PlatformTypeOK'
  <2>1. HandleEvent(c) =>
           Head(inbox[c]) \in {COMPONENT_STATE_ON, COMPONENT_STATE_OFF}
    BY HeadTailProperties DEF HandleEvent, AppTypeOK
  <2> QED
    BY <1>1, <2>1
    DEF EventRound, BeginRound, FindNoEvent, HandleEvent, PlatformTypeOK, Alive
<1>2. ASSUME NEW c \in Components, Resume(c) PROVE PlatformTypeOK'
  BY <1>2 DEF Resume, platform, PlatformTypeOK, Alive
<1> QED
  BY <1>1, <1>2, AppStep, PlatformTypeStep

(* Between reading a component state and confirming it an application only *)
(* changes to it: run comes before its main loop, and an end of the        *)
(* process forgets both.                                                   *)
LEMMA AppInvStep ==
    ASSUME TypeOK, TransitionIsValid, ComponentStateFollows, AppInv,
           [AppNext]_everything
    PROVE  AppInv'
<1>1. PlatformTypeOK'
  BY AppPlatformStep DEF AppInv
<1> DEFINE OnOrOff == {COMPONENT_STATE_ON, COMPONENT_STATE_OFF}
<1> SUFFICES AppTypeOK' /\ ReadOnlyInLoop'
  BY <1>1 DEF AppInv
<1> USE DEF AppInv, ReadOnlyInLoop, HasRead
<1>2. CASE UNCHANGED everything
  BY <1>2 DEF everything, allVars, platform, appVars, AppTypeOK
<1>3. CASE SendEvents
  <2>1. UNCHANGED <<proc, polled, appState, applied>>
    BY <1>3 DEF SendEvents, WorkerStep
  <2>2. componentState \in OnOrOff
    BY <1>3, EventSaysOnOrOff DEF SendEvents
  <2>3. ASSUME NEW c \in Components PROVE inbox'[c] \in Seq(OnOrOff)
    <3> DEFINE n == IF Reaches(c) THEN stateUpdateSbscrs[c] ELSE 0
    <3>1. n \in Nat
      BY ConstantsAssumption DEF TypeOK
    <3>2. inbox[c] \in Seq(OnOrOff)
      BY DEF AppTypeOK
    <3>3. inbox'[c] = inbox[c] \o [i \in 1 .. n |-> componentState]
      BY <1>3 DEF SendEvents
    <3> HIDE DEF n, OnOrOff
    <3> QED
      BY <2>2, <3>1, <3>2, <3>3, InboxGrows
  <2>4. inbox' \in [Components -> Seq(OnOrOff)]
    BY <1>3, <2>3 DEF SendEvents
  <2> QED
    BY <2>1, <2>4 DEF AppTypeOK
<1>4. CASE OtherWorkerStep \/ OtherStep
  BY <1>4 DEF OtherWorkerStep, OtherStep, WorkerStep, RpcStep, OldConfirmStep,
              NewConfirmStep, platform, appVars, AppTypeOK
<1>5. ASSUME NEW p \in Procs, Run(p) PROVE AppTypeOK' /\ ReadOnlyInLoop'
  <2>1. p \in Components => proc[p] = "registered"
    BY <1>5 DEF Run, ReportRunning
  <2>2. p \notin applied
    BY <2>1 DEF AppTypeOK
  <2> QED
    BY <1>5, <2>1, <2>2
    DEF Run, ReportRunning, Enters, AppTypeOK, PlatformTypeOK
<1>6. ASSUME NEW p \in Procs, EndProcess(p) PROVE AppTypeOK' /\ ReadOnlyInLoop'
  <2>1. /\ appState' = Enters(p, NoState) /\ applied' = applied \ {p}
        /\ inbox' = [c \in Components |-> IF c = p THEN <<>> ELSE inbox[c]]
        /\ \A c \in Components \ {p} : polled'[c] = polled[c] /\ proc'[c] = proc[c]
        /\ p \in Components => polled'[p] = NotPolled
    BY <1>6, ConstantsAssumption
    DEF EndProcess, Terminate, Crash, PlatformTypeOK
  <2>2. inbox' \in [Components -> Seq(OnOrOff)]
    BY <2>1 DEF AppTypeOK
  <2>3. appState' \in [Components -> {NoState} \cup OnOrOff]
    BY <2>1 DEF AppTypeOK, Enters
  <2> QED
    BY <2>1, <2>2, <2>3 DEF AppTypeOK, Enters
<1>7. ASSUME NEW p \in Procs, OtherProcessStep(p)
      PROVE  AppTypeOK' /\ ReadOnlyInLoop'
  <2>1. /\ UNCHANGED <<polled, appState, applied, inbox>>
        /\ \A c \in Components : proc[c] = "up" => proc'[c] = "up"
    BY <1>7, ConstantsAssumption
    DEF OtherProcessStep, SystemctlStart, SystemctlStop, RegisterApplication,
        RegisterMsm, appVars, PlatformTypeOK
  <2> QED
    BY <2>1 DEF AppTypeOK
<1>8. ASSUME NEW c \in Components, HandleEvent(c)
      PROVE  AppTypeOK' /\ ReadOnlyInLoop'
  <2>1. /\ Head(inbox[c]) \in OnOrOff /\ Tail(inbox[c]) \in Seq(OnOrOff)
    BY <1>8, HeadTailProperties DEF HandleEvent, AppTypeOK
  <2>2. c \notin applied
    BY <1>8 DEF HandleEvent
  <2> QED
    BY <1>8, <2>1, <2>2
    DEF HandleEvent, AppTypeOK, PlatformTypeOK, NotPolled, InRound
<1>9. ASSUME NEW c \in Components, Poll(c)
      PROVE  AppTypeOK' /\ ReadOnlyInLoop'
  <2>1. c \notin applied
    BY <1>9 DEF Poll, PollComponentState
  <2> QED
    BY <1>9, <2>1 DEF Poll, PollComponentState, appVars, AppTypeOK,
                      PlatformTypeOK, NotPolled, InRound
<1>10. ASSUME NEW c \in Components, SetComponentState(c)
       PROVE  AppTypeOK' /\ ReadOnlyInLoop'
  <2>1. /\ applied' = applied \cup {c} /\ inbox' = inbox
        /\ polled' = polled /\ proc' = proc /\ HasRead(c)
        /\ appState' \in [Components -> {NoState} \cup OnOrOff]
        /\ \A d \in Components \ {c} : appState'[d] = appState[d]
        /\ polled[c] \in {NoState, appState'[c]}
    BY <1>10 DEF SetComponentState, Enters, platform, AppTypeOK
  <2> QED
    BY <2>1 DEF AppTypeOK
<1>11. ASSUME NEW c \in Components, Confirm(c)
       PROVE  AppTypeOK' /\ ReadOnlyInLoop'
  BY <1>11 DEF Confirm, ConfirmPolledState, AppTypeOK, PlatformTypeOK
<1>12. ASSUME NEW p \in MsmProcs, NEW s \in MachineStates, MsmStep(p, s)
       PROVE  AppTypeOK' /\ ReadOnlyInLoop'
  <2>1. \A c \in Components : proc'[c] = proc[c]
    BY <1>12, PlatformAssumption, ConstantsAssumption
    DEF MsmStep, RequestState, PlatformTypeOK
  <2> QED
    BY <1>12, <2>1 DEF MsmStep, RequestState, appVars, AppTypeOK
<1>13. ASSUME NEW c \in Components, Begin(c) \/ FindNoEvent(c)
       PROVE  AppTypeOK' /\ ReadOnlyInLoop'
  <2>1. c \notin applied
    BY <1>13 DEF Begin, BeginRound, FindNoEvent
  <2> QED
    BY <1>13, <2>1
    DEF Begin, BeginRound, FindNoEvent, appVars, AppTypeOK, PlatformTypeOK
<1> QED
  BY <1>2, <1>3, <1>4, <1>5, <1>6, <1>7, <1>8, <1>9, <1>10, <1>11, <1>12,
     <1>13
  DEF AppNext, PerformAction

(* The inductive invariant of the applications: AppTypeOK alone does not   *)
(* say that an application between reading and confirming is in its loop,  *)
(* where run cannot change its state.                                      *)
LEMMA AppInvariant == AppSpec => []AppInv
<1>1. AppInit => AppInv
  <2> SUFFICES ASSUME AppInit PROVE AppInv
    OBVIOUS
  <2>1. PlatformTypeOK
    BY PlatformAssumption
    DEF AppInit, PlatformInit, PlatformTypeOK, ProcStates, NotPolled
  <2>2. <<>> \in Seq({COMPONENT_STATE_ON, COMPONENT_STATE_OFF})
    OBVIOUS
  <2> QED
    BY <2>1, <2>2 DEF AppInit, PlatformInit, AppInv, AppTypeOK, ReadOnlyInLoop
<1>2. TypeOK /\ TransitionIsValid /\ ComponentStateFollows /\ AppInv
         /\ [AppNext]_everything => AppInv'
  BY AppInvStep
<1> QED
  BY <1>1, <1>2, AppImplementsManager, TypeCorrect, TransitionsAreValid,
     ComponentStateIsCurrent, PTL DEF AppSpec

(* An application confirms without an error only the state it is in, and   *)
(* its event queue holds nothing but on and off, for any applications in   *)
(* either mode, however they crash and are started and stopped.            *)
THEOREM AppTypeCorrect == AppSpec => []AppTypeOK
BY AppInvariant, PTL DEF AppInv

-----------------------------------------------------------------------------
(* Reading an event and resuming leave the books as they are: the process  *)
(* that resumes serves, so the EM has it among the active ones already.    *)
LEMMA AppBookkeepingStep ==
    ASSUME TypeOK, AppInv, Bookkeeping, [AppNext]_everything
    PROVE  Bookkeeping'
<1> USE DEF Bookkeeping, LocalsReset, Tracked, Handled, HandledAtIdle,
            HandledAtKill, HandledAtFind, HandledWhenStarted, ReadyIsReady,
            Allowed, Serving, Starting, Stopping
<1>1. ASSUME NEW c \in Components, EventRound(c) PROVE Bookkeeping'
  BY <1>1 DEF EventRound, BeginRound, FindNoEvent, HandleEvent, vars, transition
<1>2. ASSUME NEW c \in Components, Resume(c) PROVE Bookkeeping'
  <2>1. c \in Procs /\ proc[c] = "up"
    BY <1>2, ConstantsAssumption DEF Resume, AppInv, ReadOnlyInLoop, HasRead
  <2>2. accidents = {} => activeProcesses' = activeProcesses
    BY <1>2, <2>1 DEF Resume, ReportApplicationState
  <2>3. /\ UNCHANGED <<readyToTransit, currentState, pendingState, worker,
                       snapshot, scanned, cursor, toFind, appsToBeStarted, jobs>>
        /\ UNCHANGED <<proc, term, crashed, accidents>>
    BY <1>2 DEF Resume, ReportApplicationState, transition, platform
  <2> QED
    BY <2>2, <2>3
<1> QED
  BY <1>1, <1>2, AppStep, BookkeepingStep DEF AppInv

(* Applications that are suspended, resume and report again do not make    *)
(* the EM lose track of them.                                              *)
LEMMA AppBookkeeping == AppSpec => []Bookkeeping
<1>1. AppInit => Bookkeeping
  BY BookkeepingInit DEF AppInit
<1>2. TypeOK /\ AppInv /\ Bookkeeping /\ [AppNext]_everything => Bookkeeping'
  BY AppBookkeepingStep
<1> QED
  BY <1>1, <1>2, AppInvariant, AppImplementsManager, TypeCorrect, PTL
  DEF AppSpec

(* Between two transitions the processes that run are those of the machine *)
(* state, but for those that crashed, although applications that resume    *)
(* report kRunning a second time, also while they are on their way to be   *)
(* stopped.                                                                *)
THEOREM AppSettledWhenIdle == AppSpec => []Settled
BY BooksAreSettled, AppBookkeeping, AppInvariant, AppImplementsManager,
   TypeCorrect, PTL DEF AppInv

(* Nor does setMachineState wait in vain for such applications.            *)
THEOREM AppWaitsAreNotHopeless == AppSpec => []WaitIsNotHopeless
BY BooksGiveHope, AppBookkeeping, AppInvariant, PTL DEF AppInv

=============================================================================

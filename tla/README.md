# A TLA+ model of the Execution Manager

This directory is a TLA+ development for the AUTOSAR Adaptive style Execution
Manager of this repository: specifications of its threads and of the processes
around them, TLC configurations for small instances, and TLAPS proofs for all
instances. `PROJECT.json` is its index: which definition models which lines,
which run checks what, and which hazard each property is for.

    cd tla
    tlc -config MCPlatform.cfg MCPlatform        # one run
    tlapm PlatformProofs.tla                     # one module of proofs

## 1. The system

| component | state | operations | talks to |
|---|---|---|---|
| `ExecutionManager` (EM) | active processes, current and pending machine state, component state, registered components, pending confirmations, subscribers, two atomic flags | `setMachineState` (worker thread), `reportApplicationState`, `registerComponent`, `getComponentState`, `confirmComponentState`, `getMachineState` (RPC thread) | systemd (through `ApplicationHandler`), MSM and components (through `ExecutionManagerClient`) |
| `ExecutionManagerServer` | worker thread, `MsmHandler` | Cap'n Proto handlers; queues `setMachineState` | everything below |
| `MsmHandler` | pid of the MSM | `registerMsm`, `checkMsm` | |
| `ThreadQueue` | queue of methods | `addMethod`, `getExecutor` | RPC thread to worker |
| `ApplicationHandler` | none | fork and exec of `systemctl --user start/stop`, `pidof` | systemd |
| `ExecutionManagerClient` | `m_sendThread` | `confirm` (a thread per confirmation), `SetComponentState` | MSM, components |
| `MachineStateClient` | promise for the next confirmation, server thread | `Register`, `SetMachineState`, `confirmStateTransition` | EM |
| `MachineStateManager` (MSM) | current application state, stored state | `init`, `run`, `terminate`, `getNewState`, `saveReceivedState` | EM, socket, storage |
| `SocketServer`, `KeyValueStorage` | connection; key-value cache and file | `getData`; `SetValue`, `SyncToStorage` | MSM |
| `AdaptiveApp` (proc1, proc2, proc3) | application state, component state | `init`, `run`, `suspend`, `terminate`, `pollComponentState`, `stateUpdateHandler` | EM |
| `ComponentClient`, `ApplicationStateClient` | RPC connection | one RPC per call | EM |
| `ComponentServer`, `base_server`, `base_client`, `SafeQueue` | accept and receive thread, connections, queue of received events, descriptors | `start`, `stop`, `getQueueElement`; `connect`, `sendMessage` | EM to component |
| `ManifestReader`, service names | none | modes, and services per mode; the name a process reports under | files, EM, applications |

How a machine state change works: the MSM sends `setMachineState`; the RPC
handler queues it; the worker stops the active processes that the new state
does not allow, starts the allowed ones that are not active, sets the component
state, notes that every registered component owes a confirmation, and then
busy-waits until the processes have reported what they should - or, for Running
and Suspend, until the components have confirmed, whichever is first. It then
confirms to the MSM in a thread of its own and changes the state the clients see.

What is hard about it:

* the RPC thread and the worker share containers, some of them without a lock
  (the kill walk, the look-up of active processes, the check for pending
  confirmations);
* `systemctl` commands run asynchronously, so a process may be starting or
  stopping while the next transition is decided on;
* the wait of Running and Suspend may end before the processes are where they
  should be;
* confirmations carry no machine state and the promise they fulfil is used once;
* a start-up that fails has already killed and started processes;
* component events travel over one connection each, into a vector that one thread
  fills and another walks, erases from and blocks on;
* the service name is made three times - from the manifest, from the path of the
  binary and by the build - and everything depends on the three being equal.

What makes it correct, per component: the EM handles requests in order, one at a
time, and publishes only validated states (`TransitionIsValid`,
`ImplementsAbstract`); its confirmations are for the state in force
(`ConfirmMatchesState`); what pollers read belongs to the right state
(`ComponentStateFollows`); between transitions exactly the right processes run
(`Settled`); it never waits in vain (`WaitIsNotHopeless`, `RequestTakesEffect`);
the MSM cannot flood the queue (`RequestsBounded`); a restarted MSM restores what it last
asked for (`RestoresLastRequest`), receives what is sent (`SentIsReceived`) and handles
every input (`ReceivedIsHandled`); the method queue loses no wake-up and keeps the
order (`NoLostWakeup`, `ImplementsMethodQueue`); events reach an application once, in
order and in the end (`EventsInOrder`, `EventsArrive`), stopping its server can wait only for a
blocked `accept` (`StopWaitsOnlyForAccept`) and it follows the events
(`PollersFollow`, `SubscribersFollow`); the EM serves exactly what the manifests
declare (`ServesWhatIsDeclared`) and hears from a process under the name it started it
by (`ReportsAsItsService`); what was synchronised is still there after a crash
(`SyncedSurvives`).

## 2. Modules

    MachineStateSpec  <--(implements)--  ExecutionManager  <--(extends)--  Platform
          ^                                     ^                              ^
          | extends                   ExecutionManagerProofs  <--extends--  PlatformProofs
    MachineStateClient                  MCExecutionManager                MCPlatform
          ^
    MachineStateClientProofs, MCMachineStateClient

    MachineStateManager  <--(extends)--  MachineStateManagerProofs, MCMachineStateManager

    Platform         <--(extends)--     AdaptiveApp      <--(extends)--  PlatformProofs, MCAdaptiveApp
    MethodQueue      <--(implements)--  ThreadQueue      <--(extends)--  ThreadQueueProofs, MCThreadQueue
    ServiceNames     <--(extends)--     ManifestReader   <--(extends)--  ManifestReaderProofs, MCManifestReader
    ComponentServer  <--(extends)--     ComponentServerProofs, MCComponentServer
    KeyValueStorage  <--(extends)--     KeyValueStorageProofs, MCKeyValueStorage

**MachineStateSpec** is what a client may rely on: a FIFO of requests, a state,
and the announcement that precedes every change. A request is refused only if
it is no mode, repeats the current state or is for Starting-up.

**ExecutionManager** is the EM process with arbitrary clients. Its variables are
the members of the class (named after them), the queue, the `rpc` handler under
way, and the locals of `setMachineState`. The worker's program counter is
`worker`:

| `worker` | code (`execution_manager.cpp`) | actions |
|---|---|---|
| idle | `getExecutor`, validation (232-248) | `RejectRequest`, `BeginTransition` |
| kill | `killProcessesForState` (119-139) | `KillVisit`, `KillDone` |
| find | look-up and start (59-110) | `FindApplication`, `StartApplications` |
| poll | start-up poll (78-101) and its failure (254) | `PollMsm`, `FailStartup` |
| change, open, notify | `changeComponentsState` (170-191) | `ChangeComponentState`, `OpenConfirms`, `NotifySubscribers` |
| check, wait, read, store | the waits (260-286) | `CheckProcesses`, `WaitAgain`, `ReadPendingConfirms`, `StoreConfirmsReceived`, `SendConfirm` |
| join | `confirm` and line 289 | `PublishState` |

An RPC handler is one step, because the event loop runs one at a time and each
makes one access to shared state, except `confirmComponentState`, which looks at
the pending confirmations before it takes the mutex: two steps. `KillVisit` is
one step of an iterator over a set that the other thread changes: it may visit
what was inserted meanwhile, or miss it, and if the element under the iterator is
erased the walk may stop or go anywhere (`CursorErased`; undefined behaviour in
the code). Assigning a new thread to `m_sendThread` joins the old one, so
`PublishState` waits for `sendThread`.

**Platform** adds the real clients: systemd, applications that register, report,
poll and confirm, the MSM that asks for states, and crashes. Each action conjoins
an action of ExecutionManager with the process's own step, so PlatformSpec
implements ExecutionManager's Spec (proved: `PlatformImplementsManager`).
The test of an application's main loop, the read of the component state and its
confirmation are steps of their own, so that a SIGTERM may come between any two.
An application in `Crashing` may crash wherever it is and as often as it is started,
whether it is a component or not. Two history variables say what went wrong:
`crashed` has the processes that have ever crashed, which the properties except one by
one, and `accidents` the three events after which the EM has lost track of any of its
processes (an early end of the wait, a failed start-up, an invalidated iterator).

**MachineStateClient** is the other end: `SetMachineState` of the MSM with its
promise and its two time-outs, against MachineStateSpec and the two threads that
may be carrying a confirmation.

**MachineStateManager** is the MSM process itself: the main thread from its start
through `Init::enter`, `Run::enter` and `ShutDown::enter` (`main`), the listener thread and
its queue, and the file behind `KeyValueStorage`. `saveReceivedState` is three steps (set
the cache, open and so empty the file, write it) because the process may die
between any two; `SyncFails` is a file that does not open or cannot be written, which no code
looks at. `asked` and `torn` are history: the state the EM was last asked for, and whether, since the
file was last written, the process has died between opening it and asking, or the file has failed. `later` is what
senders that were run again have sent: their connections wait in the listen queue.

**ThreadQueue** opens up the queue that ExecutionManager takes for atomic: the caller's
push and its `notify_one` are two steps, the worker locks, tests the predicate, sleeps
(releasing the mutex), is woken with or without a reason, and pops. `worker` is its program
counter: top and ended are the loop of `ExecutionManagerServer`, the others are in
`getExecutor`. **MethodQueue** is what it promises: a FIFO from which every method is taken
while the server runs, unless the one before it does not return.

**ComponentServer** is the server of an application in event mode with the client that
sends it events. `acceptor` and `receiver` are the program counters of the two threads, `active`
is `m_activeConnections` (connection k carries event k), `cursor` and `walkEnd` the range-for
that computed its end once, `owner` the thread in `stop`. A slot past the end of a
vector that has shrunk holds a moved-from, null pointer. The accepted sockets are blocking,
because `O_NONBLOCK` is given to `F_SETFD`; a walk that waits in `recv` is the absence of a
step, with the mutex held. `leaked` counts the sockets that `Client`'s constructor opens
and `makeProxyClient` overwrites.

**AdaptiveApp** extends Platform with `m_componentState` of every application: after the loop
test (`Begin`), `Poll` or `HandleEvent` (or `FindNoEvent`, which ends the round), then
`SetComponentState`, then `Confirm` are the steps of `performAction`, each of them an RPC to the EM or
local. Where events go is the constant `ComponentAddress`, so that both
the address of `em_main` and the one the servers listen on can be checked.

**ServiceNames** has the string functions: `getServiceName`, `parseServiceName` with
`size_t` arithmetic and `npos`, and what `isActiveProcess` hands to `pidof`. **ManifestReader**
is the constructor of the EM: list the folder, read each manifest in any order, read the machine
manifest, filter; each may throw, which ends the process. `Start` then starts any service the EM
knows and records what the process will report as.

**KeyValueStorage** is the persistency library with any number of keys: `OpenFile` truncates,
`CloseFile` writes, `OpenFails` and `WriteFails` are the failures no code looks at, and the process
dies anywhere. `json::accept` would take any JSON text; the only ones that occur are those SyncToStorage
has written, since there is no file at first and nobody else writes it.

Abstractions worth knowing:

* operations of the standard containers are atomic; their data races appear as
  interleavings and as the choice in `CursorErased`. Memory corruption is not modelled.
* all starts of a transition are one step: what matters is when systemctl runs
  them, and `jobs` lets it do so in any order. The start-up poll begins with a
  sleep of a second, so it is modelled after the starts.
* handlers and states that change nothing (getters, the report of
  Initializing, a request from somebody who is not the MSM) are stuttering steps.
* `filterStates` is part of `AllowedProcesses`; an entry for a mode without
  services, which `operator[]` adds, is the empty set.
* statuses of a component's confirmation count only as error or no error; the
  state it names is never looked at by the code.
* a process's exit is one step with its ShuttingDown report; SIGTERM only sets a
  flag; systemd's kill after its stop time-out is left out; a start of a unit
  that is stopping waits for the stop.
* an application that resumes reports Running again. Platform leaves this report out;
  AdaptiveApp has it, and the run `app` checks `Settled` with it.
* component events are sent to an address nobody listens on (`em_main.cpp:31` and
  `execution_manager_client.cpp:52` against `server.cpp:21`): in Platform an
  event-mode component registers and is never heard of again. AdaptiveApp has the
  event mode for both addresses; its event server is a queue, and ComponentServer is about
  when it is one.
* in ComponentServer a client connects, sends and closes before the next one connects, because
  `SetComponentState` is called in a loop by one thread; an event is received by one `recv`; once
  there is a connection without client no second one is modelled, since the walk never passes the
  first (`AcceptFails`).
* in ManifestReader a manifest is what `from_json` makes of it or unreadable as a whole; start-up
  options, which are read and never used, are left out. Reading `/proc/<pid>/cmdline` with `>>` stops
  at a blank (`ReportedName`); that the paths have none is part of `NamesAssumption`.
* in Platform the MSM is one process with one pid, does not crash, asks only for modes of the
  manifest, and reacts to SIGTERM once it has asked for Shuttingdown.
* in MachineStateManager an answer to SetMachineState is any of those the client can
  give; a confirmation may reach an MSM that is not registered, because the EM sends
  it to an address and not to a pid. Several states received in one `recv` are one
  string, `Garbled`, which is no mode. A new session restarts the EM with the MSM and
  keeps the file.
* in MachineStateClient the RPC reply times out only for Shuttingdown, whose
  timeout is zero; the exception the EM's thread gets when a confirmation
  is refused is left out.

## 3. Runs

| run | specification | bounds | result |
|---|---|---|---|
| em | `Spec` | MSM and one application, two modes and an unknown string, queue of 1 behind the request in work, 1 poll, 2 subscriptions | holds, 1,074,080 states |
| platform | `FairPlatformSpec` | MSM and proc2, which may crash, three modes, queue of 2 | holds, 94,640 states |
| platform_ends | `FairPlatformSpec` | the same without a crash, queue of 1 | violated (finding) |
| client | `ClientSpec` | the five modes of the manifest | holds, 10,086 states |
| client_success | `ClientSpec` | the five modes | violated (finding) |
| msm | `FairMsmSpec` | two modes and another string, 3 inputs, 3 starts | holds, 870,421 states |
| thread_queue | `FairSpec` | two callers, two methods, queue of 3 | holds, 808 states |
| server | `FairSpec` | 4 events, 5 descriptors, listen queue of 2 | holds, 34,013 states |
| app | `FairAppSpec` | MSM and a polling application that lives in Suspend too and may crash, four modes | holds, 616,558 states |
| app_event | `FairAppSpec` | MSM and an application in event mode, three modes, 2 registrations, events sent to where it listens | holds, 835,077 states |
| app_address | `FairAppSpec` | the same, with the address of `em_main` | violated (finding) |
| manifests | `Spec` | up to two application folders out of three names, five manifests each, four machine manifests | holds, 2,093 states |

Further configurations, not part of the list in `PROJECT.json`; each takes seconds, and all but the first
end in a counterexample:

| configuration | property | what it shows |
|---|---|---|
| MCKeyValueStorage | `KvsTypeOK`, `SyncedSurvives` | hold, 1,262 states: the instance beside KeyValueStorageProofs |
| MCKeyValueStorageDurable | `SyncIsDurable` | SyncToStorage returns although the file did not open |
| MCPlatformStartup | `StartupSeesRunningMsm` | a repeated Starting-up does not see the running MSM and fails |
| MCMachineStateManagerRegister | `UnregisteredTerminates` | an MSM that could not register goes on asking |
| MCMachineStateManagerLater | `LaterIsReceived` | a sender that is run again is never accepted |
| MCComponentServerStop | `StopEnds` | `stop` joins an acceptor that stays in `accept` |
| MCComponentServerTraffic | `SurvivesTraffic` | two connections at once: the walk reads a moved-from pointer |
| MCAdaptiveAppConfirmed | `ConfirmedMeansApplied` | the confirmation of kOn ends the wait for kOff |

Why the bounds are enough to be interesting: two processes are the least with
which one is killed and another started or left; the modes include one that waits
for processes or components (Running or Suspend), one that waits for processes
only, the start-up with its poll, and one without any process. A queue of one
request behind the one in work is what lets a request meet what the previous
transition left behind. Crashes are not counted: the one application may crash in
every life. `MaxQueue` and `MaxSbscrs` bound containers that are unbounded in the code;
2 entries are the least with which a component that registers again is in the list twice
and gets each event twice, and a third registration is cut off by the bound;
`TimesToPollApps` is 6 in the code and 1 in the runs, and a poll may fail or
succeed in either. The MachineStateClient needs no bound: that its queue is finite
is what `RequestsBounded` says. In MachineStateManager two inputs are the least that `recv` can
run together, and three starts the least for a crash in a life that was itself restored
from a torn file. In ComponentServer the limit of 5 descriptors is met by the fourth event, which is how
the leak shows; two connections at once are the least with which an erased one is not the last.
The folders of ManifestReader have names that are prefixes and suffixes of each other with and without
underscores, manifests whose id is not the directory's name, and "/processes/" is shortened to
"/p/" (its length is a parameter; the proof is for every length). Two keys suffice to tell
a merged file from a replaced one. Deadlock is checked in `em` and with KeyValueStorage. The other runs turn it
off because the MSM may ask for Shuttingdown, after which nothing is left to do,
or die, a server may be stopped or crash, and a reader serves nothing or ends.

The manifests of the runs are cut from the repository's: proc2 polls and belongs
to Running and Living, proc1 registers for events and belongs to Starting-up and
Running. In MCAdaptiveApp proc1 and proc2 are not in Starting-up, so that a repeated
start-up stops them and they register again. The invariants of `platform` hold as well with three
processes (msm, proc1, proc2, both applications crashing, queue of 1; 4,103,994 states), which is
not part of the runs for its size.

Fairness (`Fairness` in Platform): weak fairness for the worker, the handler that
finishes a confirmation, and each confirmation thread - they are threads the
kernel schedules, and nothing else disables their steps. Strong fairness for what
a process does: its calls wait for the event loop (`rpc = Idle`), which serves
requests in order of arrival, so a waiting call is not passed over for ever. The
MSM need not ask for anything, polling need not happen, and nothing need crash.
`FairMsmSpec` is weak fairness of the MSM's main thread, whose waits all end: `getData`
polls, and the wait for a confirmation has a time-out; and of its listener. No confirmation is assumed.
ThreadQueue: weak fairness of the worker inside `getExecutor` and of a caller that has pushed
and has to notify; a method need not return. ComponentServer: weak fairness of the receiver, the
connected client and the application's loop, strong fairness of the acceptor, because the mutex it
waits for is free again and again (the receiver sleeps 200 ms between walks) but not for ever.
AdaptiveApp: weak fairness of the worker while it sends events and of the handler that finishes a
confirmation, strong fairness for the main loop of every application, whose calls wait for the EM's
event loop. Nothing else is assumed to go on: applications follow even if the worker waits for ever.

### What the violated properties show

In the runs:

* `EveryTransitionEnds`: Running is confirmed by the components before proc2 has
  reported; Shuttingdown then finds only the MSM in the active set, proc2 is never
  stopped, reports, and the wait for an empty set never ends.
* `SuccessMeansSet`: the confirmation of the start-up, which nobody asked for,
  fulfils the promise; the MSM's first request gets it as its K_SUCCESS.
* `SubscribersFollow` with the address of `em_main`: the EM notifies its subscriber of kOff, the
  event goes nowhere, the subscriber stays in kOn. The run `app_event` shows that the address is all
  that is missing.

In the further configurations:

* `StartupSeesRunningMsm`: the start-up poll looks for the MSM only among the
  processes it has just had to start. Starting-up requested again, with the MSM
  active, fails with "Failed to start critical App!!!".
* `UnregisteredTerminates`: the MSM is killed and started again; the EM keeps the old pid;
  the new process logs "Terminating..." and goes on to ask for states.
* `LaterIsReceived`: the sender is ended and run again; its connection is never accepted.
* `StopEnds`: the owner joins the acceptor, which waits in `accept` for a client that does not come.
* `SurvivesTraffic`: two events in quick succession, the first connection ends, is erased, and
  the walk reads the slot it left behind.
* `ConfirmedMeansApplied`: an application polls kOn, the transition to Suspend begins, and
  its confirmation of kOn counts for kOff.
* `SyncIsDurable`: the file does not open, and SyncToStorage returns as if it had.

Each passing property has a mutant in `PROJECT.json`: an operator with a plausible
mistake in the place of the modelled one, under which TLC finds a violation.

## 4. Proofs

All theorems hold for every value of the constants that satisfies
`ConstantsAssumption` (and `PlatformAssumption`, `NoStateIsNoMode`, `MsmAssumption`): manifests name
known services, the special values are none of the ordinary ones, the MSM is no
component. ComponentServer assumes that the process may open at least two files (`ServerAssumption`: its listening
socket and one more), and AdaptiveApp nothing of substance. ThreadQueue assumes that the empty method is none of the others; ServiceNames and ManifestReader
that "/processes/" begins and ends with a slash, that names of files have no slash and no NUL in
them, and that the path of a binary has no blank and is shorter than `size_t` can count.

**ExecutionManagerProofs.** `TypeCorrect` and `TransitionsAreValid` are proved
together (`TypeAndTransition`): that `newThread` and `currentState` are modes rests on
the validation at the start of the transition still holding at its end, so neither
is inductive alone. `ConfirmsMatch` and `ComponentStateIsCurrent` follow from it, most
actions being dismissed by `QuietSteps`. `Refinement`: the queue of the abstract
specification is the pending request followed by the method queue; SendConfirm is
Announce, PublishState is Publish, a rejection and a failed start-up are Refuse, and
every other step stutters.

**PlatformProofs.** `PlatformImplementsManager` carries the theorems above over.
`SettledWhenIdle` and `WaitsAreNotHopeless` rest on `Bookkeeping`, which holds as long as
no accident has happened, whatever crashes: the worker's locals are reset between phases; every
process is where the EM believes it is - in the active set and serving, being
stopped, being started, or down with nothing pending - or has crashed and is down (`Tracked`); and what the worker
has already handled in this transition is on its way to where the pending state
wants it (`Handled`). `Settled` is what is left of this when the strict wait has seen the
sets equal.

The same module carries this over to AdaptiveApp, whose applications do two things those of Platform do
not: they take an event from their queue, and they report kRunning once more when they resume (`AppStep`).
`AppImplementsManager` says that the EM allows both, and `AppImplementsAbstract` that the whole implements MachineStateSpec.
`AppTypeCorrect` says that what an application confirms
without an error is the state it is in. It needs `ReadOnlyInLoop`: an application that has read a component state and not
confirmed it yet is in its main loop, so that `run`, the only other place that sets its state,
cannot come in between; and it needs `ComponentStateFollows` and `TransitionIsValid` from ExecutionManagerProofs for the events,
which are sent only when the component state is no longer empty. `AppSettledWhenIdle` and `AppWaitsAreNotHopeless` need
that the second report changes nothing: the process that resumes is in its loop (`ReadOnlyInLoop`), serves, and is therefore
in the active set already (`Tracked`).

**ComponentServerProofs.** `ServerTypeCorrect` counts descriptors: accepted clients, leaked sockets and
the listening socket stay within `MaxFds`, because a failed `accept` brings none and the constructor leaks one
only if there is one left. `EventsComeInOrder` rests on `ServerInv`, four facts none of which is inductive without the others:
connections keep their order from the listen queue through the acceptor into the vector (`ConnectionsInOrder`); one that has left
the listen queue is dropped only after its client has closed it and its event was read
(`NoneLost`); the vector does not grow under a walk, since the walk holds the mutex (`WalkInBounds`); and, as long as the
walk has skipped nothing, the events received are 1 to n, those in the sockets n+1 and up, and what lies
before the cursor has been received (`ReadInOrder`). The heart of it is `NextEventFirst`: the first event a
walk finds is the next one, because its connection is neither dropped, nor with the acceptor or in
the listen queue, nor at a slot the walk has passed. `OneAtATimeSurvives` rests on `OnlyTheLatest` (without an overlap the only live
connection is the latest one) and `NullIsExcused`: a null pointer gets into the vector only through a failed
`accept`, for which one live connection does not suffice without the leak, and a walk reads past
the end only after erasing a connection that was not the last, for which there must be two.

**MachineStateClientProofs.** `QueueIsBounded` rests on an account: requests not yet
announced plus confirmations not yet used up never exceed 1 (the start-up nobody
asked for) plus 1 for a call under way plus 1 for a wait that timed out. A request
moves one unit from the queue to the confirmations when it is announced, and a
K_SUCCESS uses it up. The same account gives the bounds of `RequestsBounded` for each step of a call: three
only in the call after a wait that timed out or when the MSM calls no more, one when it has its answer.

**MachineStateManagerProofs.** `LastRequestIsRestored` needs `SavedInOrder`: from taking a new
state to asking for it, the value is first in the local, then also in the cache, then
also in the file unless the file has failed. Without it the step that asks could make `asked` differ
from the file.

**ThreadQueueProofs.** `QueueTypeCorrect` has the fact that makes the pop safe (the worker at take has a
non-empty queue), which is preserved because nobody else pops and callers only push. `WakeupsReachTheWorker`
needs besides that the queue was empty when the worker decided to sleep and that the mutex kept
callers out until it did. `QueueIsFifo` is the refinement of MethodQueue's safety part, step by step.

**ManifestReaderProofs.** `ServesTheManifests` rests on `MapInv`: while the manifests are read, the map
has exactly the services of the directories already read, which makes the order of reading irrelevant, and
nothing that failed to read is behind it. `ReportsUnderItsName` and `PollsTheProcess` rest on lemmas
about the strings: the last slash of a binary's path is the one "/processes/" ends in, so that subtracting its length
leads to the last character of the directory's name without wrapping; the slash before it is the
one after the path of the folder; the first underscore of a service name is the one `getServiceName` put
there if the application's name has none.

**KeyValueStorageProofs.** `SyncedIsRestored` rests on `FileInv`: unless something has gone wrong, the
file outside SyncToStorage is whole and has the map of the last synchronisation, or nothing was ever synchronised.

Model-checked only: liveness (`RequestTakesEffect`, `ReceivedIsHandled`, `SentIsReceived`, `EventsArrive`,
`StopWaitsOnlyForAccept`, `PollersFollow`, `SubscribersFollow`, the liveness part of `ImplementsMethodQueue`), which is out of
the prover's reach; and the violations, which are single behaviours. Every invariant of a passing run is
stated by a theorem.

## 5. Not modelled, and the plan

Left out, and why:

* `tools/json/json.hpp`, a vendored library and four fifths of all lines in the repository: it appears as what its
  callers see (a text is accepted or not, a key is there or throws). Logging, the mean calculator, the
  generated RPC code and the schemas keep no state a property is about.
* `StartupOption::makeCommandLineOption` and `to_json` of the manifests have no caller; nothing
  uses what they make.
* A fork or an exec that fails (`application_handler.cpp:57`, `:77`): the parent logs it, and a child whose
  exec fails goes on as a second EM on the same RPC connection, for which there is no defined behaviour.
* A restart of the EM alone. Nothing in the repository starts it again; a new session, in which both the EM and
  the MSM start again, is modelled in MachineStateManager.
* Bytes: the unterminated receive buffer of `Client::receive`, the parsing of a protobuf message,
  an unknown message in `setStateUpdateHandler`, which has no return value.

Plan:

1. A composition of Platform with MachineStateManager: the restart of the MSM as the EM sees it (a process it believes
   active, a pid it does not accept), and of AdaptiveApp with ComponentServer's events.

------------------------- MODULE MachineStateManager -------------------------
(***************************************************************************)
(* The MSM process: its main thread, which registers with the Execution    *)
(* Manager (EM) and then asks for one machine state after another, the     *)
(* SocketServer thread that receives new states from a sender, and the     *)
(* KeyValueStorage in which the last state survives the process.           *)
(*                                                                         *)
(* The EM is reduced to the pid it has registered and to the answers a     *)
(* call of SetMachineState may get; MachineStateClient has the details.    *)
(* The process may be killed at any step and started again, with the EM    *)
(* (a new session of the user) or without it.                              *)
(***************************************************************************)
EXTENDS Naturals, Sequences

CONSTANTS
    MachineStates,    \* m_availableStates: the modes of the machine manifest
    OtherInputs,      \* other strings a sender may send or a file may hold
    MaxSent,          \* bound: states sent to the socket
    MaxStarts         \* bound: starts of the process, each with a new pid

MACHINE_STATE_SHUTTINGDOWN == "Shuttingdown"
NoState == ""         \* no value under the key, or no readable file
Garbled == "garbled"  \* several states received as one string
NoPid == 0

ASSUME MsmAssumption ==
    /\ {NoState, Garbled} \cap MachineStates = {}
    /\ NoState \notin OtherInputs
    /\ MaxSent \in Nat
    /\ MaxStarts \in Nat

VARIABLES
    main,             \* where the main thread is
    pid,              \* the process id, counted up
    msmPid,           \* EM: MsmHandler::m_msmPId
    isTerminated,     \* isTerminated
    state,            \* the local of Run::enter
    data,             \* m_data["state"] of KeyValueStorage
    file,             \* its file
    futureRetrieved,  \* the promise of MachineStateClient has no future left
    listener,         \* where dataListener is
    sender,           \* the connection of the state sender
    channel,          \* sent and not yet received
    later,            \* sent over connections made after that one
    receivedData,     \* m_receivedData
    sent,             \* bound: number of states sent
    asked,            \* history: the state the EM was last asked for
    torn              \* history: since the file was last written, died
                      \* between saving and asking, or the file failed

process == <<main, pid, isTerminated, state, data, futureRetrieved>>
socket == <<listener, sender, channel, later, receivedData, sent>>
history == <<asked, torn>>
msmVars == <<process, msmPid, file, socket, history>>

Inputs == MachineStates \cup OtherInputs

MsmInit ==
    /\ main = "down"
    /\ pid = NoPid
    /\ msmPid = NoPid
    /\ isTerminated = FALSE
    /\ state = NoState
    /\ data = NoState
    /\ file \in Inputs \cup {NoState}
    /\ futureRetrieved = FALSE
    /\ listener = "off"
    /\ sender = "none"
    /\ channel = <<>>
    /\ later = <<>>
    /\ receivedData = <<>>
    /\ sent = 0
    /\ asked = NoState
    /\ torn = FALSE

-----------------------------------------------------------------------------
(* The queue between the listener and main, under one mutex.               *)
Push(value) == receivedData' = Append(receivedData, value)
Pop == receivedData # <<>> /\ receivedData' = Tail(receivedData)

-----------------------------------------------------------------------------
(* main: the constructors open the socket and load the file, if it can be  *)
(* parsed.                                                                 *)
Start ==
    /\ main = "down"
    /\ pid < MaxStarts
    /\ pid' = pid + 1
    /\ main' = "start"
    /\ isTerminated' = FALSE
    /\ state' = NoState
    /\ data' = file
    /\ futureRetrieved' = FALSE
    /\ UNCHANGED <<msmPid, file, socket, history>>

(* Init::enter.  The EM registers one pid; whether it was this one makes   *)
(* no difference to what follows.                                          *)
RegisterMsm ==
    /\ main = "start"
    /\ main' = "init"
    /\ msmPid' = IF msmPid = NoPid THEN pid ELSE msmPid
    /\ listener' = "accept"
    /\ UNCHANGED <<pid, isTerminated, state, data, file, futureRetrieved,
                   sender, channel, later, receivedData, sent,
                   history>>

(* Init::leave reports that the process is running.                        *)
LeaveInit ==
    /\ main = "init"
    /\ main' = "first"
    /\ UNCHANGED <<pid, isTerminated, state, data, futureRetrieved, msmPid,
                   file, socket, history>>

(* The first state is the stored one, unless that was the shutdown.        *)
GetNewStateForStartRun ==
    /\ main = "first"
    /\ \/ /\ data \in MachineStates \ {MACHINE_STATE_SHUTTINGDOWN}
          /\ state' = data
          /\ main' = "save"
       \/ /\ data \notin MachineStates \ {MACHINE_STATE_SHUTTINGDOWN}
          /\ main' = "get"
          /\ UNCHANGED state
    /\ UNCHANGED <<pid, isTerminated, data, futureRetrieved, msmPid, file,
                   socket, history>>

(* Mutant: a string that is no mode is not dropped.                        *)
GetAnyState ==
    /\ main = "get"
    /\ Pop
    /\ state' = Head(receivedData)
    /\ main' = "save"
    /\ UNCHANGED <<pid, isTerminated, data, futureRetrieved, msmPid, file,
                   listener, sender, channel, later, sent, history>>

(* getNewState takes strings from the queue until one is a mode.           *)
GetNewState ==
    /\ main = "get"
    /\ Pop
    /\ \/ /\ Head(receivedData) \in MachineStates
          /\ state' = Head(receivedData)
          /\ main' = "save"
       \/ /\ Head(receivedData) \notin MachineStates
          /\ UNCHANGED <<state, main>>
    /\ UNCHANGED <<pid, isTerminated, data, futureRetrieved, msmPid, file,
                   listener, sender, channel, later, sent, history>>

(* saveReceivedState; the destructor of its future waits for the thread.   *)
SetValue ==
    /\ main = "save"
    /\ data' = state
    /\ main' = "sync"
    /\ UNCHANGED <<pid, isTerminated, state, futureRetrieved, msmPid, file,
                   socket, history>>

(* Mutant: the value is set in the cache and not synchronised.             *)
SkipSync ==
    /\ main = "sync"
    /\ main' = "set"
    /\ UNCHANGED <<pid, isTerminated, state, data, futureRetrieved, msmPid,
                   file, socket, history>>

(* SyncToStorage: opening the file empties it ...                          *)
OpenFile ==
    /\ main = "sync"
    /\ file' = NoState
    /\ main' = "write"
    /\ UNCHANGED <<pid, isTerminated, state, data, futureRetrieved, msmPid,
                   socket, history>>

(* ... and closing it writes the new contents.                             *)
WriteFile ==
    /\ main = "write"
    /\ file' = data
    /\ main' = "set"
    /\ torn' = FALSE
    /\ UNCHANGED <<pid, isTerminated, state, data, futureRetrieved, msmPid,
                   socket, asked>>

(* Nobody looks at the stream: saveReceivedState returns all the same when *)
(* the file does not open, and stays as it is, or cannot be written, and   *)
(* is left empty or cut off.                                               *)
SyncFails ==
    /\ main \in {"sync", "write"}
    /\ main' = "set"
    /\ torn' = TRUE
    /\ UNCHANGED <<pid, isTerminated, state, data, futureRetrieved, msmPid,
                   file, socket, asked>>

(* SetMachineState sends the request.                                      *)
SetMachineState ==
    /\ main = "set"
    /\ main' = "wait"
    /\ asked' = state
    /\ UNCHANGED <<pid, isTerminated, state, data, futureRetrieved, msmPid,
                   file, socket, torn>>

(* The loop of Run::enter ends after a Shuttingdown, whatever the result.  *)
Return ==
    /\ main = "wait"
    /\ main' = IF state = MACHINE_STATE_SHUTTINGDOWN THEN "done" ELSE "get"
    /\ UNCHANGED <<pid, isTerminated, state, data, msmPid, file, socket,
                   history>>

Confirmed ==
    /\ ~futureRetrieved
    /\ Return
    /\ UNCHANGED futureRetrieved

(* Mutant: only the registered MSM waits with a time-out.                  *)
TimesOutWhenRegistered ==
    /\ ~futureRetrieved /\ msmPid = pid
    /\ Return
    /\ futureRetrieved' = TRUE

(* The wait for the confirmation gives up and leaves the promise without a *)
(* future to give.                                                         *)
ConfirmTimesOut ==
    /\ ~futureRetrieved
    /\ Return
    /\ futureRetrieved' = TRUE

(* Shuttingdown does not even wait for the reply.                          *)
ReplyTimesOut ==
    /\ state = MACHINE_STATE_SHUTTINGDOWN
    /\ Return
    /\ UNCHANGED futureRetrieved

-----------------------------------------------------------------------------
(* What is left when the process is gone: the file, and what the EM knows. *)
Down ==
    /\ main' = "down"
    /\ isTerminated' = FALSE
    /\ state' = NoState
    /\ data' = NoState
    /\ futureRetrieved' = FALSE
    /\ listener' = "off"
    /\ sender' = "none"
    /\ channel' = <<>>
    /\ later' = <<>>
    /\ receivedData' = <<>>
    /\ torn' = (torn \/ main \in {"write", "set"})
    /\ UNCHANGED <<pid, file, sent, asked>>

(* The second get_future throws, and nobody catches.                       *)
FutureError ==
    /\ main = "wait"
    /\ futureRetrieved
    /\ Down
    /\ UNCHANGED msmPid

(* SIGTERM sets a flag, which main looks at after Run::enter ...           *)
SignalHandler ==
    /\ main # "down"
    /\ isTerminated' = TRUE
    /\ UNCHANGED <<main, pid, state, data, futureRetrieved, msmPid, file,
                   socket, history>>

(* ... and then closes the server, reports and exits.                      *)
Terminate ==
    /\ main = "done"
    /\ isTerminated
    /\ Down
    /\ UNCHANGED msmPid

Crash ==
    /\ main # "down"
    /\ Down
    /\ UNCHANGED msmPid

(* The user session ends and another begins, with a new EM; the file stays.*)
NewSession ==
    /\ pid # NoPid
    /\ Down
    /\ msmPid' = NoPid

-----------------------------------------------------------------------------
(* The state sender, which makes a connection whenever it is run.          *)
Connect ==
    /\ main # "down"
    /\ sender = "none"
    /\ sender' = "connected"
    /\ UNCHANGED <<process, msmPid, file, listener, channel, later,
                   receivedData, sent, history>>

Send(s) ==
    /\ sender = "connected"
    /\ sent < MaxSent
    /\ sent' = sent + 1
    /\ channel' = Append(channel, s)
    /\ UNCHANGED <<process, msmPid, file, listener, sender, later, receivedData,
                   history>>

Disconnect ==
    /\ sender = "connected"
    /\ sender' = "closed"
    /\ UNCHANGED <<process, msmPid, file, listener, channel, later,
                   receivedData, sent, history>>

(* The sender is run again: its connection stays in the listen queue.      *)
SendLater(s) ==
    /\ sender = "closed"
    /\ sent < MaxSent
    /\ sent' = sent + 1
    /\ later' = Append(later, s)
    /\ UNCHANGED <<process, msmPid, file, listener, sender, channel,
                   receivedData, history>>

(* dataListener accepts one connection in the life of the process.         *)
Accept ==
    /\ listener = "accept"
    /\ sender # "none"
    /\ listener' = "recv"
    /\ UNCHANGED <<process, msmPid, file, sender, channel, later,
                   receivedData, sent, history>>

(* recv returns what has arrived; a stream does not tell messages apart.   *)
Receive(n) ==
    /\ listener = "recv"
    /\ n \in 1 .. Len(channel)
    /\ Push(IF n = 1 THEN Head(channel) ELSE Garbled)
    /\ channel' = SubSeq(channel, n + 1, Len(channel))
    /\ UNCHANGED <<process, msmPid, file, listener, sender, later, sent, history>>

(* Mutant: the listener ends when the sender does, whatever has arrived.   *)
EndWithSender ==
    /\ listener = "recv"
    /\ sender = "closed"
    /\ listener' = "closed"
    /\ UNCHANGED <<process, msmPid, file, sender, channel, later,
                   receivedData, sent, history>>

(* Nothing will be received any more.                                      *)
EndOfStream ==
    /\ listener = "recv"
    /\ channel = <<>>
    /\ sender = "closed"
    /\ listener' = "closed"
    /\ UNCHANGED <<process, msmPid, file, sender, channel, later,
                   receivedData, sent, history>>

Main ==
    \/ RegisterMsm
    \/ LeaveInit
    \/ GetNewStateForStartRun
    \/ GetNewState
    \/ SetValue
    \/ OpenFile
    \/ WriteFile
    \/ SyncFails
    \/ SetMachineState
    \/ ConfirmTimesOut
    \/ FutureError
    \/ Terminate

DataListener ==
    \/ Accept
    \/ \E n \in 1 .. MaxSent : Receive(n)
    \/ EndOfStream

MsmNext ==
    \/ Start
    \/ Main
    \/ Confirmed
    \/ ReplyTimesOut
    \/ SignalHandler
    \/ Crash
    \/ NewSession
    \/ Connect
    \/ \E s \in Inputs : Send(s) \/ SendLater(s)
    \/ Disconnect
    \/ DataListener

MsmSpec == MsmInit /\ [][MsmNext]_msmVars

(* Both threads are scheduled, and the main thread's waits are limited:    *)
(* for a confirmation by the time-out.  Nobody need confirm, send or stop. *)
FairMsmSpec == MsmSpec /\ WF_msmVars(Main) /\ WF_msmVars(DataListener)

-----------------------------------------------------------------------------
Strings == Inputs \cup {Garbled}
MainSteps == {"down", "start", "init", "first", "get", "save", "sync",
              "write", "set", "wait", "done"}

(* The process is in one of its steps; only a mode is ever asked for.      *)
MsmTypeOK ==
    /\ main \in MainSteps
    /\ pid \in 0 .. MaxStarts
    /\ msmPid \in 0 .. pid
    /\ isTerminated \in BOOLEAN
    /\ state \in MachineStates \cup {NoState}
    /\ data \in Inputs \cup {NoState}
    /\ file \in Inputs \cup {NoState}
    /\ futureRetrieved \in BOOLEAN
    /\ listener \in {"off", "accept", "recv", "closed"}
    /\ sender \in {"none", "connected", "closed"}
    /\ channel \in Seq(Inputs)
    /\ later \in Seq(Inputs)
    /\ receivedData \in Seq(Strings)
    /\ sent \in 0 .. MaxSent
    /\ asked \in MachineStates \cup {NoState}
    /\ torn \in BOOLEAN

(* The state an MSM that is started again would restore is the one it last *)
(* asked for, in this life or an earlier one: saveReceivedState is done    *)
(* with its file before setMachineState is called.  Excepted are an MSM    *)
(* that died between saving a state and asking for it, and a file that did *)
(* not open or could not be written (SyncToStorage), until a later state   *)
(* is saved.                                                               *)
RestoresLastRequest ==
    ~torn /\ asked # NoState /\ main \notin {"write", "set"} => file = asked

(* Whatever has been received is taken from the queue in the end, however  *)
(* the calls of SetMachineState fare, unless the process ends.             *)
ReceivedIsHandled ==
    receivedData # <<>> ~> receivedData = <<>> \/ main \in {"down", "done"}

(* What the first sender has sent is received in the end, also what it     *)
(* sent before the listener was started or just before it disconnected.    *)
SentIsReceived == channel # <<>> ~> channel = <<>> \/ main = "down"

(* What a later sender has sent is received in the end.                    *)
LaterIsReceived == later # <<>> ~> later = <<>> \/ main = "down"

(* "Unsuccessful registration as a MSM. Terminating...": an MSM that is    *)
(* not the registered one asks for no machine state.                       *)
UnregisteredTerminates == main = "wait" => msmPid = pid

=============================================================================

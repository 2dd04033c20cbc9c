---------------------- MODULE MachineStateManagerProofs ----------------------
(***************************************************************************)
(* Proofs about MachineStateManager, for every manifest, every input and   *)
(* any number of restarts: its types, and what a restarted MSM restores.   *)
(***************************************************************************)
EXTENDS MachineStateManager, SequenceTheorems, TLAPS

USE DEF Push, Pop

(* Between taking a new state and asking for it, the state goes from the   *)
(* local to the cache and from there to the file, unless the file fails.   *)
SavedInOrder ==
    /\ main \in {"save", "sync", "write", "set", "wait"} => state \in MachineStates
    /\ main \in {"sync", "write", "set"} => data = state
    /\ main = "set" => file = state \/ torn

MsmInvariant == MsmTypeOK /\ SavedInOrder /\ RestoresLastRequest

(* Cutting the first element off a queue, as Pop does.                     *)
LEMMA PopType ==
    ASSUME NEW S, NEW q \in Seq(S), q # <<>>
    PROVE  Head(q) \in S /\ Tail(q) \in Seq(S)
  BY HeadTailProperties, EmptySeq

(* What recv hands over leaves a channel of inputs and adds one string.    *)
LEMMA ReceiveType ==
    ASSUME NEW n \in 1 .. MaxSent, MsmTypeOK, Receive(n)
    PROVE  channel' \in Seq(Inputs) /\ receivedData' \in Seq(Strings)
<1>1. channel \in Seq(Inputs) /\ n \in 1 .. Len(channel) /\ Len(channel) \in Nat
  BY LenProperties DEF MsmTypeOK, Receive
<1>2. channel # <<>>
  BY <1>1, EmptySeq
<1>3. Head(channel) \in Inputs
  BY <1>1, <1>2, PopType
<1>4. channel' \in Seq(Inputs)
  BY <1>1, SubSeqProperties DEF Receive
<1>5. receivedData' \in Seq(Strings)
  BY <1>3, AppendProperties DEF Receive, MsmTypeOK, Strings
<1> QED  BY <1>4, <1>5

(* MsmInvariant is inductive.                                              *)
LEMMA MsmInvariantHolds == MsmSpec => []MsmInvariant
<1> USE MsmAssumption
<1>1. MsmInit => MsmInvariant
  <2> SUFFICES ASSUME MsmInit PROVE MsmInvariant
    OBVIOUS
  <2>1. /\ channel \in Seq(Inputs) /\ later \in Seq(Inputs)
        /\ receivedData \in Seq(Strings)
    BY EmptySeq DEF MsmInit
  <2>2. pid \in 0 .. MaxStarts /\ msmPid \in 0 .. pid /\ sent \in 0 .. MaxSent
    BY DEF MsmInit, NoPid
  <2>3. SavedInOrder /\ RestoresLastRequest
    BY DEF MsmInit, SavedInOrder, RestoresLastRequest
  <2> QED
    BY <2>1, <2>2, <2>3 DEF MsmInit, MsmInvariant, MsmTypeOK, MainSteps
<1>2. MsmInvariant /\ [MsmNext]_msmVars => MsmInvariant'
  <2> SUFFICES ASSUME MsmInvariant, [MsmNext]_msmVars
               PROVE  MsmInvariant'
    OBVIOUS
  <2> USE DEF MsmInvariant, MsmTypeOK, SavedInOrder, RestoresLastRequest,
              MainSteps
  <2>1. CASE Start
    <3>1. pid' \in 0 .. MaxStarts /\ msmPid' \in 0 .. pid'
      BY <2>1 DEF Start
    <3> QED  BY <2>1, <3>1 DEF Start, socket, history
  <2>2. CASE RegisterMsm
    BY <2>2 DEF RegisterMsm, history, NoPid
  <2>3. CASE LeaveInit
    BY <2>3 DEF LeaveInit, socket, history
  <2>4. CASE GetNewStateForStartRun
    BY <2>4 DEF GetNewStateForStartRun, socket, history
  <2>5. CASE GetNewState
    <3>1. Head(receivedData) \in Strings /\ receivedData' \in Seq(Strings)
      BY <2>5, PopType DEF GetNewState
    <3> QED  BY <2>5, <3>1 DEF GetNewState, history
  <2>6. CASE SetValue
    BY <2>6 DEF SetValue, socket, history, Inputs
  <2>7. CASE OpenFile
    BY <2>7 DEF OpenFile, socket, history
  <2>8. CASE WriteFile
    BY <2>8 DEF WriteFile, socket, history
  <2>9. CASE SetMachineState \/ SyncFails
    BY <2>9 DEF SetMachineState, SyncFails, socket
  <2>10. CASE Confirmed \/ ConfirmTimesOut \/ ReplyTimesOut
    BY <2>10 DEF Confirmed, ConfirmTimesOut, ReplyTimesOut, Return, socket,
       history
  <2>11. ASSUME Down, msmPid' \in 0 .. pid
         PROVE  MsmInvariant'
    BY <2>11, EmptySeq DEF Down
  <2>12. CASE FutureError \/ Terminate \/ Crash \/ NewSession
    BY <2>11, <2>12 DEF FutureError, Terminate, Crash, NewSession, NoPid
  <2>13. CASE SignalHandler
    BY <2>13 DEF SignalHandler, socket, history
  <2>14. CASE Connect \/ Disconnect \/ Accept \/ EndOfStream
    BY <2>14 DEF Connect, Disconnect, Accept, EndOfStream, process, history
  <2>15. ASSUME NEW s \in Inputs, Send(s) \/ SendLater(s)
         PROVE  MsmInvariant'
    <3>1. CASE Send(s)
      BY <3>1, AppendProperties DEF Send, process, history
    <3>2. CASE SendLater(s)
      BY <3>2, AppendProperties DEF SendLater, process, history
    <3> QED  BY <2>15, <3>1, <3>2
  <2>16. ASSUME NEW n \in 1 .. MaxSent, Receive(n)
         PROVE  MsmInvariant'
    <3>1. channel' \in Seq(Inputs) /\ receivedData' \in Seq(Strings)
      BY <2>16, ReceiveType
    <3> QED  BY <2>16, <3>1 DEF Receive, process, history
  <2>17. CASE UNCHANGED msmVars
    BY <2>17 DEF msmVars, process, socket, history
  <2> QED
    BY <2>1, <2>2, <2>3, <2>4, <2>5, <2>6, <2>7, <2>8, <2>9, <2>10, <2>12,
       <2>13, <2>14, <2>15, <2>16, <2>17 DEF MsmNext, Main, DataListener
<1> QED  BY <1>1, <1>2, PTL DEF MsmSpec

(* The MSM keeps its types and asks for modes of the manifest only,        *)
(* whatever is sent to its socket and whatever its file holds.             *)
THEOREM MsmTypeCorrect == MsmSpec => []MsmTypeOK
<1>1. MsmInvariant => MsmTypeOK
  BY DEF MsmInvariant
<1> QED  BY <1>1, MsmInvariantHolds, PTL

(* An MSM that is started again restores the state it last asked for,      *)
(* unless it died between saving a state and asking for it or the file     *)
(* failed, until a later state is saved.                                   *)
THEOREM LastRequestIsRestored == MsmSpec => []RestoresLastRequest
<1>1. MsmInvariant => RestoresLastRequest
  BY DEF MsmInvariant
<1> QED  BY <1>1, MsmInvariantHolds, PTL

=============================================================================

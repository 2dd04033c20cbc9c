---------------------- MODULE MachineStateClientProofs ----------------------
(***************************************************************************)
(* Proofs about MachineStateClient, for every set of modes: its types, and *)
(* the bound on the requests the Execution Manager has in its queue.       *)
(***************************************************************************)
EXTENDS MachineStateClient, SequenceTheorems, TLAPS

(* Confirmations the MSM has not used up yet.                              *)
Unused ==
    Count(oldConfirm) + Count(newConfirm) + Count(promiseSet /\ client # "got")

(* How many requests and unused confirmations there may be: one for the    *)
(* start-up nobody asked for, one for the call under way, one for the      *)
(* wait that has timed out.                                                *)
Budget ==
    IF client \in {"done", "dead"} THEN 3
    ELSE 1 + Count(client \in {"called", "waiting"})
           + Count(futureRetrieved /\ client \notin {"waiting", "got"})

(* A request under way or announced is paid for by a call that has not     *)
(* returned yet; what a call got for its K_SUCCESS is gone.                *)
ClientInvariant ==
    /\ ClientTypeOK
    /\ announced # NoState => requests # <<>>
    /\ NotAnnounced + Unused <= Budget

(* Cutting the first request off the queue, as Refuse and Publish do.      *)
LEMMA RequestsTail ==
    ASSUME NEW S, NEW q \in Seq(S), q # <<>>
    PROVE  Tail(q) \in Seq(S) /\ Len(Tail(q)) = Len(q) - 1 /\ Len(q) \in Nat \ {0}
  BY HeadTailProperties, EmptySeq, LenProperties

(* ClientInvariant is inductive.                                           *)
LEMMA ClientInvariantHolds == ClientSpec => []ClientInvariant
<1>1. ClientInit => ClientInvariant
  <2> SUFFICES ASSUME ClientInit PROVE ClientInvariant
    OBVIOUS
  <2>1. /\ requests \in Seq(MachineStates \cup {MACHINE_STATE_STARTUP})
        /\ Len(requests) = 1
    BY SMT DEF ClientInit, Init, MACHINE_STATE_STARTUP
  <2>2. ClientTypeOK
    BY <2>1 DEF ClientInit, Init, ClientTypeOK
  <2> QED
    BY <2>1, <2>2 DEF ClientInit, Init, ClientInvariant, NotAnnounced, Unused,
       Budget, Count
<1>2. ClientInvariant /\ [ClientNext]_mscVars => ClientInvariant'
  <2> SUFFICES ASSUME ClientInvariant, [ClientNext]_mscVars
               PROVE  ClientInvariant'
    OBVIOUS
  <2> DEFINE S == MachineStates \cup {MACHINE_STATE_STARTUP}
  <2> USE DEF ClientInvariant, ClientTypeOK, NotAnnounced, Unused, Budget, Count
  <2>l. requests \in Seq(S) /\ Len(requests) \in Nat
    BY LenProperties
  <2>1. CASE Register
    BY <2>1, <2>l, SMT DEF Register, specVars
  <2>2. ASSUME NEW s \in MachineStates, SetMachineState(s)
        PROVE  ClientInvariant'
    <3>1. requests' \in Seq(S) /\ Len(requests') = Len(requests) + 1
      BY <2>2, <2>l, AppendProperties DEF SetMachineState, Request
    <3> QED  BY <2>2, <2>l, <3>1, EmptySeq, SMT DEF SetMachineState, Request
  <2>3. CASE WaitForConfirm
    BY <2>3, <2>l, SMT DEF WaitForConfirm, specVars
  <2>4. CASE ReplyTimesOut
    BY <2>4, <2>l, SMT DEF ReplyTimesOut, Return, specVars
  <2>5. CASE ConfirmTimesOut
    BY <2>5, <2>l, SMT DEF ConfirmTimesOut, Return, specVars
  <2>6. CASE GetConfirm
    BY <2>6, <2>l, SMT DEF GetConfirm, specVars
  <2>7. CASE ResetPromise
    <3>1. ClientTypeOK'
      BY <2>7 DEF ResetPromise, Return, specVars
    <3>2. Count(promiseSet /\ client # "got") = 0
      BY <2>7 DEF ResetPromise
    <3>3. Count(promiseSet /\ client # "got")' = 0
      BY <2>7 DEF ResetPromise
    <3> QED
      BY <2>7, <2>l, <3>1, <3>2, <3>3, SMT DEF ResetPromise, Return, specVars
  <2>8. CASE ConfirmStateTransition
    <3>1. /\ promiseSet' = TRUE
          /\ \/ oldConfirm /\ oldConfirm' = FALSE /\ newConfirm' = newConfirm
             \/ newConfirm /\ newConfirm' = FALSE /\ oldConfirm' = oldConfirm
      BY <2>8 DEF ConfirmStateTransition
    <3>2. ClientTypeOK'
      <4>1. CASE oldConfirm' = FALSE /\ newConfirm' = newConfirm
        BY <2>8, <4>1, Zenon DEF ConfirmStateTransition, specVars
      <4>2. CASE newConfirm' = FALSE /\ oldConfirm' = oldConfirm
        BY <2>8, <4>2, Zenon DEF ConfirmStateTransition, specVars
      <4> QED  BY <3>1, <4>1, <4>2
    <3>3. Unused' <= Unused
      BY <2>8, <3>1, SMT DEF ConfirmStateTransition
    <3> QED
      BY <2>8, <2>l, <3>2, <3>3, SMT DEF ConfirmStateTransition, specVars
  <2>9. CASE AnnounceState
    BY <2>9, <2>l, NoStateIsNoMode, SMT DEF AnnounceState, Announce
  <2>10. CASE PublishAnnounced
    <3>1. requests' \in Seq(S) /\ Len(requests') = Len(requests) - 1
      BY <2>10, <2>l, RequestsTail DEF PublishAnnounced, Publish
    <3>2. ClientTypeOK'
      BY <2>10, <3>1 DEF PublishAnnounced, Publish
    <3>3. Unused' = Unused
      BY <2>10 DEF PublishAnnounced
    <3>4. NotAnnounced' = NotAnnounced
      BY <2>10, <2>l, <3>1 DEF PublishAnnounced, Publish
    <3>5. Budget' = Budget /\ announced' = NoState
      BY <2>10 DEF PublishAnnounced, Publish
    <3> QED  BY <3>2, <3>3, <3>4, <3>5
  <2>11. CASE RefuseRequest
    <3>1. requests' \in Seq(S) /\ Len(requests') = Len(requests) - 1
      BY <2>11, <2>l, RequestsTail DEF RefuseRequest, Refuse
    <3> QED  BY <2>11, <2>l, <3>1, SMT DEF RefuseRequest, Refuse, clientVars
  <2>12. CASE UNCHANGED mscVars
    BY <2>12, <2>l, SMT DEF mscVars, specVars, clientVars
  <2> QED
    BY <2>1, <2>2, <2>3, <2>4, <2>5, <2>6, <2>7, <2>8, <2>9, <2>10, <2>11,
       <2>12 DEF ClientNext
<1> QED  BY <1>1, <1>2, PTL DEF ClientSpec

(* The MSM's thread and its promise keep their types, and the promise      *)
(* belongs to the wait under way.                                          *)
THEOREM ClientTypeCorrect == ClientSpec => []ClientTypeOK
<1>1. ClientInvariant => ClientTypeOK
  BY DEF ClientInvariant
<1> QED  BY <1>1, ClientInvariantHolds, PTL

(* However many modes there are and however slow the confirmations: the    *)
(* method queue of the Execution Manager never holds more than three       *)
(* requests of the MSM, and three only once a wait has timed out or the    *)
(* MSM calls no more.                                                      *)
THEOREM QueueIsBounded == ClientSpec => []RequestsBounded
<1>1. ClientInvariant => RequestsBounded
  <2> SUFFICES ASSUME ClientInvariant PROVE RequestsBounded
    OBVIOUS
  <2>1. Len(requests) \in Nat
    BY LenProperties DEF ClientInvariant, ClientTypeOK
  <2>2. Unused \in Nat /\ NotAnnounced \in Int
    BY <2>1 DEF Unused, NotAnnounced, Count
  <2>3. NotAnnounced <= Budget
    <3>1. Budget \in Int
      BY DEF Budget, Count
    <3> QED
      BY <2>2, <3>1 DEF ClientInvariant
  <2> QED
    BY <2>2, <2>3 DEF RequestsBounded, Budget, Count
<1> QED  BY <1>1, ClientInvariantHolds, PTL

=============================================================================

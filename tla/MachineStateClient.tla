------------------------- MODULE MachineStateClient -------------------------
(***************************************************************************)
(* The MSM's end of a machine state change: class MachineStateClient,      *)
(* whose SetMachineState sends the request and then waits on a promise,    *)
(* the server thread behind which the EM's confirmations fulfil that       *)
(* promise, and the loop of Run::enter that calls SetMachineState.         *)
(*                                                                         *)
(* The EM is its abstract specification MachineStateSpec, which            *)
(* ExecutionManager implements, and the two threads that may be carrying   *)
(* a confirmation.                                                         *)
(***************************************************************************)
EXTENDS MachineStateSpec, Integers

ASSUME NoStateIsNoMode == NoState \notin MachineStates

MACHINE_STATE_SHUTTINGDOWN == "Shuttingdown"
NoResult == "none"

VARIABLES
    client,           \* where the main thread of the MSM is
    target,           \* the state SetMachineState was last called with
    result,           \* what it returned
    promiseSet,       \* m_promise holds a value
    futureRetrieved,  \* m_promise.get_future() has been called
    oldConfirm,       \* EM: m_sendThread is at work
    newConfirm        \* EM: the thread that will replace it is at work

clientVars == <<client, target, result, promiseSet, futureRetrieved,
                oldConfirm, newConfirm>>
mscVars == <<specVars, clientVars>>

ClientInit ==
    /\ Init
    /\ client = "new"
    /\ target = NoState
    /\ result = NoResult
    /\ promiseSet = FALSE
    /\ futureRetrieved = FALSE
    /\ oldConfirm = FALSE
    /\ newConfirm = FALSE

-----------------------------------------------------------------------------
(* Register also starts the server for the confirmations.                  *)
Register ==
    /\ client = "new"
    /\ client' = "idle"
    /\ UNCHANGED <<specVars, target, result, promiseSet, futureRetrieved,
                   oldConfirm, newConfirm>>

(* The request of SetMachineState reaches the EM, which queues it.  The    *)
(* MSM asks for modes of the manifest only.                                *)
SetMachineState(s) ==
    /\ client = "idle"
    /\ client' = "called"
    /\ target' = s
    /\ Request(s)
    /\ UNCHANGED <<result, promiseSet, futureRetrieved, oldConfirm,
                   newConfirm>>

(* Run::enter calls SetMachineState again until it was for Shuttingdown.   *)
Return(error) ==
    /\ result' = error
    /\ client' = IF target = MACHINE_STATE_SHUTTINGDOWN THEN "done"
                 ELSE "idle"

(* Mutant: every wait takes a future of its own.                           *)
WaitForConfirmAfresh ==
    /\ client = "called"
    /\ client' = "waiting"
    /\ UNCHANGED <<specVars, target, result, promiseSet, futureRetrieved,
                   oldConfirm, newConfirm>>

(* The EM's answer is K_SUCCESS, always, and waitForConfirm takes the      *)
(* future.  A promise gives its future only once; the exception ends main. *)
WaitForConfirm ==
    /\ client = "called"
    /\ client' = IF futureRetrieved THEN "dead" ELSE "waiting"
    /\ futureRetrieved' = TRUE
    /\ UNCHANGED <<specVars, target, result, promiseSet, oldConfirm,
                   newConfirm>>

(* Shuttingdown is requested with NO_TIMEOUT, which is no time at all.     *)
ReplyTimesOut ==
    /\ client = "called"
    /\ target = MACHINE_STATE_SHUTTINGDOWN
    /\ Return("K_TIMEOUT")
    /\ UNCHANGED <<specVars, target, promiseSet, futureRetrieved, oldConfirm,
                   newConfirm>>

(* wait_for gives up; the promise is left as it is.                        *)
ConfirmTimesOut ==
    /\ client = "waiting"
    /\ ~promiseSet
    /\ Return("K_TIMEOUT")
    /\ UNCHANGED <<specVars, target, promiseSet, futureRetrieved, oldConfirm,
                   newConfirm>>

(* Mutant: the promise is replaced before its value has been read.         *)
ResetPromiseFirst ==
    /\ client = "waiting"
    /\ promiseSet
    /\ client' = "got"
    /\ promiseSet' = FALSE
    /\ futureRetrieved' = FALSE
    /\ UNCHANGED <<specVars, target, result, oldConfirm, newConfirm>>

(* The value is taken out of the future ...                                *)
GetConfirm ==
    /\ client = "waiting"
    /\ promiseSet
    /\ client' = "got"
    /\ UNCHANGED <<specVars, target, result, promiseSet, futureRetrieved,
                   oldConfirm, newConfirm>>

(* ... and only then is the promise replaced by a fresh one.               *)
ResetPromise ==
    /\ client = "got"
    /\ Return("K_SUCCESS")
    /\ promiseSet' = FALSE
    /\ futureRetrieved' = FALSE
    /\ UNCHANGED <<specVars, target, oldConfirm, newConfirm>>

-----------------------------------------------------------------------------
(* confirmStateTransition in the server thread.  set_value on a promise    *)
(* that has a value throws, and the confirmation is lost.                  *)
ConfirmStateTransition ==
    /\ promiseSet' = TRUE
    /\ \/ oldConfirm /\ oldConfirm' = FALSE /\ UNCHANGED newConfirm
       \/ newConfirm /\ newConfirm' = FALSE /\ UNCHANGED oldConfirm
    /\ UNCHANGED <<specVars, client, target, result, futureRetrieved>>

(* The EM announces a state to the MSM, whose report it has waited for and *)
(* which has therefore registered.                                         *)
AnnounceState ==
    /\ Announce
    /\ client # "new"
    /\ newConfirm' = TRUE
    /\ UNCHANGED <<client, target, result, promiseSet, futureRetrieved,
                   oldConfirm>>

(* The state changes once the previous confirmation thread has ended.      *)
PublishAnnounced ==
    /\ Publish
    /\ ~oldConfirm
    /\ oldConfirm' = newConfirm
    /\ newConfirm' = FALSE
    /\ UNCHANGED <<client, target, result, promiseSet, futureRetrieved>>

RefuseRequest ==
    /\ Refuse
    /\ UNCHANGED clientVars

ClientNext ==
    \/ Register
    \/ \E s \in MachineStates : SetMachineState(s)
    \/ WaitForConfirm
    \/ ReplyTimesOut
    \/ ConfirmTimesOut
    \/ GetConfirm
    \/ ResetPromise
    \/ ConfirmStateTransition
    \/ AnnounceState
    \/ PublishAnnounced
    \/ RefuseRequest

ClientSpec == ClientInit /\ [][ClientNext]_mscVars

-----------------------------------------------------------------------------
(* The MSM's thread and its promise are in one of their states, and the    *)
(* promise belongs to the wait: waitForConfirm holds its future until the  *)
(* value has been taken, and a confirmation under way is for the state     *)
(* announced last.                                                         *)
ClientTypeOK ==
    /\ client \in {"new", "idle", "called", "waiting", "got", "done", "dead"}
    /\ target \in MachineStates \cup {NoState}
    /\ result \in {NoResult, "K_SUCCESS", "K_TIMEOUT"}
    /\ promiseSet \in BOOLEAN
    /\ futureRetrieved \in BOOLEAN
    /\ oldConfirm \in BOOLEAN
    /\ newConfirm \in BOOLEAN
    /\ requests \in Seq(MachineStates \cup {MACHINE_STATE_STARTUP})
    /\ machineState \in MachineStates \cup {NoState}
    /\ announced \in MachineStates \cup {NoState}
    /\ client \in {"waiting", "got"} => futureRetrieved
    /\ client = "got" => promiseSet
    /\ newConfirm => announced # NoState

Count(b) == IF b THEN 1 ELSE 0
NotAnnounced == Len(requests) - Count(announced # NoState)

(* The method queue of the EM has no limit of its own.  It stays short     *)
(* because the MSM waits: every K_SUCCESS it gets uses up the confirmation *)
(* of another transition, be it an earlier one, and a wait that timed out  *)
(* is followed by one more request at most.  At most three requests are    *)
(* waiting or under way, and three only in that last call or when the MSM  *)
(* calls no more; no more than two while it waits, and one when it has its *)
(* answer.                                                                 *)
RequestsBounded ==
    /\ NotAnnounced <= 3
    /\ NotAnnounced = 3 => \/ client \in {"done", "dead"}
                           \/ client = "called" /\ futureRetrieved
    /\ client = "got" => NotAnnounced <= 1

(* SetMachineState returns K_SUCCESS only if the machine is in the state   *)
(* that was asked for, or about to be.                                     *)
SuccessMeansSet ==
    client \in {"idle", "done"} /\ result = "K_SUCCESS" =>
        target \in {machineState, announced}

=============================================================================

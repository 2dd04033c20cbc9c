-------------------------- MODULE MachineStateSpec --------------------------
(***************************************************************************)
(* What the Execution Manager promises about the machine state, without    *)
(* its threads, processes and components: a queue of requests, the state   *)
(* the clients see, and the announcement that precedes every change.       *)
(***************************************************************************)
EXTENDS Naturals, Sequences

CONSTANTS
    MachineStates,    \* the modes of the machine manifest
    OtherStates       \* other strings a request may carry

MACHINE_STATE_STARTUP == "Starting-up"
NoState == ""

VARIABLES
    requests,         \* requests not yet answered, oldest first
    machineState,     \* what getMachineState returns
    announced         \* confirmed to the MSM and not yet in force

specVars == <<requests, machineState, announced>>

Init ==
    /\ requests = <<MACHINE_STATE_STARTUP>>
    /\ machineState = NoState
    /\ announced = NoState

Request(s) ==
    /\ requests' = Append(requests, s)
    /\ UNCHANGED <<machineState, announced>>

(* setMachineState returns an error: the machine state stays as it is.     *)
Refuse ==
    /\ announced = NoState
    /\ requests # <<>>
    /\ \/ Head(requests) \notin MachineStates
       \/ Head(requests) = machineState
       \/ Head(requests) = MACHINE_STATE_STARTUP
    /\ requests' = Tail(requests)
    /\ UNCHANGED <<machineState, announced>>

Announce ==
    /\ announced = NoState
    /\ requests # <<>>
    /\ Head(requests) \in MachineStates \ {machineState}
    /\ announced' = Head(requests)
    /\ UNCHANGED <<requests, machineState>>

Publish ==
    /\ announced # NoState
    /\ requests' = Tail(requests)
    /\ machineState' = announced
    /\ announced' = NoState

Next ==
    \/ \E s \in MachineStates \cup OtherStates : Request(s)
    \/ Refuse
    \/ Announce
    \/ Publish

Spec == Init /\ [][Next]_specVars

=============================================================================

---------------------------- MODULE MethodQueue ----------------------------
(***************************************************************************)
(* What the RPC thread of the Execution Manager relies on when it hands a  *)
(* method to the worker thread: methods are executed one at a time in the  *)
(* order they were added, and while the server runs no added method is     *)
(* left lying once the worker is done with the ones before it.             *)
(***************************************************************************)
EXTENDS Sequences

CONSTANTS Methods, NoMethod

VARIABLES
    waiting,          \* methods added and not yet taken, oldest first
    executing,        \* the method the worker executes, or NoMethod
    serving           \* the server has not begun to stop

queueVars == <<waiting, executing, serving>>

Init == waiting = <<>> /\ executing = NoMethod /\ serving = TRUE

Add(m) == waiting' = Append(waiting, m) /\ UNCHANGED <<executing, serving>>

Take ==
    /\ executing = NoMethod
    /\ waiting # <<>>
    /\ executing' = Head(waiting)
    /\ waiting' = Tail(waiting)
    /\ UNCHANGED serving

Return ==
    /\ executing # NoMethod
    /\ executing' = NoMethod
    /\ UNCHANGED <<waiting, serving>>

Stop == serving' = FALSE /\ UNCHANGED <<waiting, executing>>

Next == (\E m \in Methods : Add(m)) \/ Take \/ Return \/ Stop

SafeSpec == Init /\ [][Next]_queueVars

(* A method need not return (setMachineState waits for other processes),   *)
(* and a server that stops may leave methods behind.                       *)
Spec == SafeSpec /\ WF_queueVars(serving /\ Take)

=============================================================================

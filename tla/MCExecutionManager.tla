------------------------- MODULE MCExecutionManager -------------------------
(***************************************************************************)
(* A small instance of ExecutionManager for TLC: the MSM and one           *)
(* application, and two modes of the repository's machine manifest: the    *)
(* start-up with its poll and its wait for the processes, which kills the  *)
(* application, and Suspend, which starts it and waits for processes or    *)
(* components.                                                             *)
(***************************************************************************)
EXTENDS ExecutionManager

MCStatesSupportedByApplication ==
    [s \in {"Starting-up", "Suspend"} |->
        IF s = "Suspend" THEN {"msm", "app"} ELSE {"msm"}]

=============================================================================

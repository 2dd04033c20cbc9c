----------------------------- MODULE MCPlatform -----------------------------
(***************************************************************************)
(* The platform with the MSM and applications of the repository's          *)
(* manifests: proc1 registers for events and belongs to Starting-up,       *)
(* proc2 polls and belongs to Running and Living, nothing runs in          *)
(* Shuttingdown.                                                           *)
(***************************************************************************)
EXTENDS Platform

MCStatesSupportedByApplication ==
    [s \in {"Starting-up", "Running", "Living"} |->
        CASE s = "Starting-up" -> Procs \cap {"msm", "proc1"}
          [] s = "Running" -> Procs \cap {"msm", "proc1", "proc2"}
          [] s = "Living" -> Procs \cap {"msm", "proc2"}]

MCUpdateMode ==
    [c \in Components |-> IF c = "proc1" THEN "kEvent" ELSE "kPoll"]

=============================================================================

--------------------------- MODULE MCAdaptiveApp ---------------------------
(***************************************************************************)
(* The MSM and one application that runs in Running and in Suspend, which  *)
(* switches components off: poller polls and is started with the machine;  *)
(* proc1, which takes events, and proc2, which polls, are started by       *)
(* transitions, and a start-up that is asked for again stops them, so that *)
(* they register more than once.                                           *)
(***************************************************************************)
EXTENDS AdaptiveApp

MCStatesSupportedByApplication ==
    [s \in {"Starting-up", "Running", "Suspend"} |->
        IF s = "Starting-up" THEN Procs \cap {"msm", "poller"} ELSE Procs]

MCUpdateMode ==
    [c \in Components |-> IF c = "proc1" THEN "kEvent" ELSE "kPoll"]

=============================================================================

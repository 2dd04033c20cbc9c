------------------------ MODULE MCMachineStateClient ------------------------
(***************************************************************************)
(* MachineStateClient with the modes of the repository's machine manifest. *)
(***************************************************************************)
EXTENDS MachineStateClient

=============================================================================

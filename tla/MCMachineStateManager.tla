----------------------- MODULE MCMachineStateManager -----------------------
(***************************************************************************)
(* MachineStateManager with modes of the repository's machine manifest and *)
(* one string that is no mode.                                             *)
(***************************************************************************)
EXTENDS MachineStateManager

=============================================================================

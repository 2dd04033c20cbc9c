------------------------- MODULE MCComponentServer -------------------------
(***************************************************************************)
(* The event server with a few events and descriptors.                     *)
(***************************************************************************)
EXTENDS ComponentServer

=============================================================================

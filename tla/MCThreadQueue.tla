--------------------------- MODULE MCThreadQueue ---------------------------
(***************************************************************************)
(* The method queue with two callers and two methods.                      *)
(***************************************************************************)
EXTENDS ThreadQueue

=============================================================================

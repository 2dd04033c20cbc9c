------------------------- MODULE MCKeyValueStorage -------------------------
(***************************************************************************)
(* Two keys and two values: a key can be set, changed, left alone while    *)
(* the other changes, and removed.                                         *)
(***************************************************************************)
EXTENDS KeyValueStorage
=============================================================================

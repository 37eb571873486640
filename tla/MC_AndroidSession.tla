------------------------- MODULE MC_AndroidSession -------------------------
(* An instance of AndroidSession for TLC. *)
EXTENDS AndroidSession

CONSTANTS i1
=============================================================================

-------------------------- MODULE MC_MessageQueue --------------------------
(* An instance of MessageQueue for TLC. *)
EXTENDS MessageQueue

CONSTANTS r1, r2
=============================================================================

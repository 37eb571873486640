------------------------ MODULE MC_MultiClientEvent ------------------------
(* An instance of MultiClientEvent for TLC. *)
EXTENDS MultiClientEvent

\* One sends, one is at the barrier, one leaves and one joins.
FourClients == {"c1", "c2", "c3", "c4"}
=============================================================================

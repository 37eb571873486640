--------------------- MODULE MC_SynchronizationBarrier ---------------------
(* An instance of SynchronizationBarrier for TLC. *)
EXTENDS SynchronizationBarrier

CONSTANTS t1, t2, t3
=============================================================================

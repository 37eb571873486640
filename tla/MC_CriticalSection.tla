------------------------ MODULE MC_CriticalSection ------------------------
(* An instance of CriticalSection for TLC. *)
EXTENDS CriticalSection

\* A holder, a thread about to take over and a thread that overtakes it.
ThreeThreads == {"t1", "t2", "t3"}

\* With the spinning path of EnterCriticalSection and without.
SpinOrNot == {0, 1}
=============================================================================

--------------------------- MODULE RecursiveLock ---------------------------
(***************************************************************************)
(* What a CRITICAL_SECTION promises its callers: one thread at a time      *)
(* holds it, the holder may take it again, and it is free once the holder  *)
(* has released it as often as it took it.                                 *)
(***************************************************************************)
EXTENDS Naturals

CONSTANTS Threads, NoThread

VARIABLES holder,   \* the thread that holds the lock, or NoThread
          count     \* how often the holder has taken it

lockVars == <<holder, count>>

LockInit == holder = NoThread /\ count = 0

Acquire(t) ==
    /\ holder \in {NoThread, t}
    /\ holder' = t
    /\ count' = count + 1

Release(t) ==
    /\ holder = t
    /\ count' = count - 1
    /\ holder' = IF count = 1 THEN NoThread ELSE t

LockNext == \E t \in Threads : Acquire(t) \/ Release(t)

LockSpec == LockInit /\ [][LockNext]_lockVars
=============================================================================

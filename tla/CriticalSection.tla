-------------------------- MODULE CriticalSection --------------------------
(***************************************************************************)
(* WinPR's CRITICAL_SECTION (winpr/libwinpr/synch/critical.c): a recursive *)
(* lock built from one interlocked counter, a semaphore, and two plain     *)
(* fields that only the owner writes.  Every access to LockCount, to       *)
(* OwningThread and to the semaphore is a step of its own, so all the      *)
(* interleavings of EnterCriticalSection, TryEnterCriticalSection and      *)
(* LeaveCriticalSection are explored.  RecursionCount is read and written  *)
(* by the owner only, and shares a step with the neighbouring access.      *)
(***************************************************************************)
EXTENDS Integers, FiniteSets

CONSTANTS
    Threads,      \* the threads that use the section
    NoThread,     \* OwningThread = NULL
    SpinCounts,   \* values passed to SetCriticalSectionSpinCount
    MaxDepth      \* bound: how deep a caller nests its Enter calls

ASSUME ThreadsAssumption == IsFiniteSet(Threads) /\ NoThread \notin Threads
ASSUME SpinAssumption == SpinCounts \subseteq Nat
ASSUME DepthAssumption == MaxDepth \in Nat

VARIABLES
    LockCount,       \* interlocked counter, -1 when the section is free
    RecursionCount,
    OwningThread,
    LockSemaphore,   \* value of the POSIX semaphore
    SpinCount,       \* the section's spin count field
    pc,              \* where each thread is; "out" outside of any call
    spin,            \* the local SpinCount of EnterCriticalSection
    caller,          \* which function runs TryEnterCriticalSection's code
    depth            \* completed Enter calls minus Leave calls, per thread

vars == <<LockCount, RecursionCount, OwningThread, LockSemaphore, SpinCount,
          pc, spin, caller, depth>>
section == <<LockCount, RecursionCount, OwningThread, LockSemaphore, SpinCount>>

PCs == {"out", "tryCas", "tryOwner", "tryInc", "spinTest", "spinCas", "inc",
        "ownerTest", "wait", "setCount", "setOwner", "clearOwner", "unlock",
        "post", "dec"}

TypeOK ==
    /\ LockCount \in Int
    /\ RecursionCount \in Int
    /\ OwningThread \in Threads \cup {NoThread}
    /\ LockSemaphore \in Nat
    /\ SpinCount \in Nat
    /\ pc \in [Threads -> PCs]
    /\ spin \in [Threads -> Nat]
    /\ caller \in [Threads -> {"enter", "tryEnter"}]
    /\ depth \in [Threads -> Nat]

\* InitializeCriticalSectionEx, with SetCriticalSectionSpinCount at its end.
Init ==
    /\ LockCount = -1
    /\ RecursionCount = 0
    /\ OwningThread = NoThread
    /\ LockSemaphore = 0
    /\ SpinCount \in SpinCounts
    /\ pc = [t \in Threads |-> "out"]
    /\ spin = [t \in Threads |-> 0]
    /\ caller = [t \in Threads |-> "enter"]
    /\ depth = [t \in Threads |-> 0]

Goto(t, to) == pc' = [pc EXCEPT ![t] = to]

\* The call of thread t returns with the section held once more.
ReturnHeld(t) ==
    /\ Goto(t, "out")
    /\ depth' = [depth EXCEPT ![t] = @ + 1]

-----------------------------------------------------------------------------
SetCriticalSectionSpinCount(t) ==
    /\ pc[t] = "out"
    /\ SpinCount' \in SpinCounts
    /\ UNCHANGED <<LockCount, RecursionCount, OwningThread, LockSemaphore,
                   pc, spin, caller, depth>>

\* The call: SpinCount is read once; with 0 the fast path is skipped.
EnterCriticalSection(t) ==
    /\ pc[t] = "out"
    /\ depth[t] < MaxDepth
    /\ spin' = [spin EXCEPT ![t] = SpinCount]
    /\ caller' = [caller EXCEPT ![t] = "enter"]
    /\ Goto(t, IF SpinCount > 0 THEN "tryCas" ELSE "inc")
    /\ UNCHANGED <<section, depth>>

TryEnterCriticalSection(t) ==
    /\ pc[t] = "out"
    /\ depth[t] < MaxDepth
    /\ caller' = [caller EXCEPT ![t] = "tryEnter"]
    /\ Goto(t, "tryCas")
    /\ UNCHANGED <<section, spin, depth>>

TryCas(t) ==
    /\ pc[t] = "tryCas"
    /\ \/ LockCount = -1 /\ LockCount' = 0 /\ Goto(t, "setCount")
       \/ LockCount # -1 /\ UNCHANGED LockCount /\ Goto(t, "tryOwner")
    /\ UNCHANGED <<RecursionCount, OwningThread, LockSemaphore, SpinCount,
                   spin, caller, depth>>

TryOwner(t) ==
    /\ pc[t] = "tryOwner"
    /\ \/ /\ OwningThread = t
          /\ RecursionCount' = RecursionCount + 1
          /\ Goto(t, "tryInc")
       \/ /\ OwningThread # t
          /\ UNCHANGED RecursionCount
          /\ Goto(t, IF caller[t] = "enter" THEN "spinTest" ELSE "out")
    /\ UNCHANGED <<LockCount, OwningThread, LockSemaphore, SpinCount,
                   spin, caller, depth>>

TryInc(t) ==
    /\ pc[t] = "tryInc"
    /\ LockCount' = LockCount + 1
    /\ ReturnHeld(t)
    /\ UNCHANGED <<RecursionCount, OwningThread, LockSemaphore, SpinCount,
                   spin, caller>>

\* while (SpinCount-- && LockCount < 1)
SpinTest(t) ==
    /\ pc[t] = "spinTest"
    /\ IF spin[t] > 0 /\ LockCount < 1
         THEN spin' = [spin EXCEPT ![t] = @ - 1] /\ Goto(t, "spinCas")
         ELSE UNCHANGED spin /\ Goto(t, "inc")
    /\ UNCHANGED <<section, caller, depth>>

SpinCas(t) ==
    /\ pc[t] = "spinCas"
    /\ \/ LockCount = -1 /\ LockCount' = 0 /\ Goto(t, "setCount")
       \/ LockCount # -1 /\ UNCHANGED LockCount /\ Goto(t, "spinTest")
    /\ UNCHANGED <<RecursionCount, OwningThread, LockSemaphore, SpinCount,
                   spin, caller, depth>>

\* Mistake: the increment's result is compared as if LockCount started at 0.
IncOffByOne(t) ==
    /\ pc[t] = "inc"
    /\ LockCount' = LockCount + 1
    /\ Goto(t, IF LockCount + 1 > 1 THEN "ownerTest" ELSE "setCount")
    /\ UNCHANGED <<RecursionCount, OwningThread, LockSemaphore, SpinCount,
                   spin, caller, depth>>

\* if (InterlockedIncrement(&LockCount))
Inc(t) ==
    /\ pc[t] = "inc"
    /\ LockCount' = LockCount + 1
    /\ Goto(t, IF LockCount + 1 # 0 THEN "ownerTest" ELSE "setCount")
    /\ UNCHANGED <<RecursionCount, OwningThread, LockSemaphore, SpinCount,
                   spin, caller, depth>>

OwnerTest(t) ==
    /\ pc[t] = "ownerTest"
    /\ \/ /\ OwningThread = t
          /\ RecursionCount' = RecursionCount + 1
          /\ ReturnHeld(t)
       \/ /\ OwningThread # t
          /\ Goto(t, "wait")
          /\ UNCHANGED <<RecursionCount, depth>>
    /\ UNCHANGED <<LockCount, OwningThread, LockSemaphore, SpinCount,
                   spin, caller>>

\* Mistake: a sem_wait interrupted by a signal (EINTR) counts as a wakeup.
WaitInterrupted(t) ==
    /\ pc[t] = "wait"
    /\ LockSemaphore' = IF LockSemaphore > 0 THEN LockSemaphore - 1 ELSE 0
    /\ Goto(t, "setCount")
    /\ UNCHANGED <<LockCount, RecursionCount, OwningThread, SpinCount,
                   spin, caller, depth>>

\* _WaitForCriticalSection: sem_wait returns.
Wait(t) ==
    /\ pc[t] = "wait"
    /\ LockSemaphore > 0
    /\ LockSemaphore' = LockSemaphore - 1
    /\ Goto(t, "setCount")
    /\ UNCHANGED <<LockCount, RecursionCount, OwningThread, SpinCount,
                   spin, caller, depth>>

SetCount(t) ==
    /\ pc[t] = "setCount"
    /\ RecursionCount' = 1
    /\ Goto(t, "setOwner")
    /\ UNCHANGED <<LockCount, OwningThread, LockSemaphore, SpinCount,
                   spin, caller, depth>>

SetOwner(t) ==
    /\ pc[t] = "setOwner"
    /\ OwningThread' = t
    /\ ReturnHeld(t)
    /\ UNCHANGED <<LockCount, RecursionCount, LockSemaphore, SpinCount,
                   spin, caller>>

\* if (--RecursionCount < 1); a caller leaves only what it entered.
LeaveCriticalSection(t) ==
    /\ pc[t] = "out"
    /\ depth[t] > 0
    /\ depth' = [depth EXCEPT ![t] = @ - 1]
    /\ RecursionCount' = RecursionCount - 1
    /\ Goto(t, IF RecursionCount - 1 < 1 THEN "clearOwner" ELSE "dec")
    /\ UNCHANGED <<LockCount, OwningThread, LockSemaphore, SpinCount,
                   spin, caller>>

ClearOwner(t) ==
    /\ pc[t] = "clearOwner"
    /\ OwningThread' = NoThread
    /\ Goto(t, "unlock")
    /\ UNCHANGED <<LockCount, RecursionCount, LockSemaphore, SpinCount,
                   spin, caller, depth>>

\* Mistake: > 0 for >= 0, the last waiter is not woken.
UnlockOffByOne(t) ==
    /\ pc[t] = "unlock"
    /\ LockCount' = LockCount - 1
    /\ Goto(t, IF LockCount - 1 > 0 THEN "post" ELSE "out")
    /\ UNCHANGED <<RecursionCount, OwningThread, LockSemaphore, SpinCount,
                   spin, caller, depth>>

Unlock(t) ==
    /\ pc[t] = "unlock"
    /\ LockCount' = LockCount - 1
    /\ Goto(t, IF LockCount - 1 >= 0 THEN "post" ELSE "out")
    /\ UNCHANGED <<RecursionCount, OwningThread, LockSemaphore, SpinCount,
                   spin, caller, depth>>

\* _UnWaitCriticalSection: sem_post.
Post(t) ==
    /\ pc[t] = "post"
    /\ LockSemaphore' = LockSemaphore + 1
    /\ Goto(t, "out")
    /\ UNCHANGED <<LockCount, RecursionCount, OwningThread, SpinCount,
                   spin, caller, depth>>

Dec(t) ==
    /\ pc[t] = "dec"
    /\ LockCount' = LockCount - 1
    /\ Goto(t, "out")
    /\ UNCHANGED <<RecursionCount, OwningThread, LockSemaphore, SpinCount,
                   spin, caller, depth>>

-----------------------------------------------------------------------------
Call(t) ==
    \/ SetCriticalSectionSpinCount(t)
    \/ EnterCriticalSection(t)
    \/ TryEnterCriticalSection(t)

\* The steps a thread takes once it is inside a call.
Step(t) ==
    \/ TryCas(t) \/ TryOwner(t) \/ TryInc(t)
    \/ SpinTest(t) \/ SpinCas(t)
    \/ Inc(t) \/ OwnerTest(t) \/ Wait(t) \/ SetCount(t) \/ SetOwner(t)
    \/ ClearOwner(t) \/ Unlock(t) \/ Post(t) \/ Dec(t)

Next == \E t \in Threads : Call(t) \/ LeaveCriticalSection(t) \/ Step(t)

Spec == Init /\ [][Next]_vars

\* The scheduler runs every thread, and a caller leaves what it entered
\* (outside of a nested Enter it is about to make).
FairSpec ==
    /\ Spec
    /\ \A t \in Threads : WF_vars(Step(t)) /\ WF_vars(LeaveCriticalSection(t))

-----------------------------------------------------------------------------
(***************************************************************************)
(* Properties.                                                             *)
(***************************************************************************)

\* t has the section: it won it and has not yet given the counter back.
Holding(t) ==
    \/ depth[t] > 0
    \/ pc[t] \in {"setCount", "setOwner", "clearOwner", "unlock"}

\* Two threads never have the section at the same time, whichever of the
\* three ways (interlocked compare, increment from -1, semaphore) each used.
MutualExclusion ==
    \A t, u \in Threads : Holding(t) /\ Holding(u) => t = u

\* Between its calls the holder is the recorded owner, with as many
\* recursions as it has Enter calls to undo (LeaveCriticalSection relies on
\* both to find the outermost leave), and a thread that is not the holder is
\* never recorded: otherwise its next Enter would be taken for a recursion.
OwnerFields ==
    \A t \in Threads : pc[t] = "out" =>
        IF depth[t] > 0
          THEN OwningThread = t /\ RecursionCount = depth[t]
          ELSE OwningThread # t

\* When no call is in progress no wakeup is left in the semaphore, and
\* LockCount is what the comment in InitializeCriticalSectionEx says: the
\* number of Enter calls minus one, -1 for an unlocked section.
QuiescentCounts ==
    (\A t \in Threads : pc[t] = "out") =>
        /\ LockSemaphore = 0
        /\ LockCount = RecursionCount - 1
        /\ (LockCount = -1) <=> (\A t \in Threads : depth[t] = 0)

\* No wakeup is lost: while a thread sleeps in sem_wait, some thread will
\* have the section, so that its leave can hand it on.
WaiterIsServed ==
    (\E t \in Threads : pc[t] = "wait") ~> (\E t \in Threads : Holding(t))

\* How often t has taken the section, counting the call in progress once it
\* can no longer fail.
Level(t) ==
    depth[t] + IF pc[t] \in {"setCount", "setOwner", "tryInc",
                             "clearOwner", "unlock"} THEN 1 ELSE 0

Holder == IF \E t \in Threads : Holding(t)
            THEN CHOOSE t \in Threads : Holding(t)
            ELSE NoThread

HeldCount == IF Holder = NoThread THEN 0 ELSE Level(Holder)

Lock == INSTANCE RecursiveLock WITH holder <- Holder, count <- HeldCount

\* Every behaviour of the section is a behaviour of a recursive lock.
ImplementsRecursiveLock == Lock!LockSpec

-----------------------------------------------------------------------------
(***************************************************************************)
(* The inductive invariant behind the safety properties.                   *)
(***************************************************************************)

\* The threads whose increment of LockCount is still owed a wakeup.
Queue == {t \in Threads : depth[t] = 0 /\ pc[t] \in {"ownerTest", "wait"}}

\* The section is being handed on: a wakeup is posted, or about to be.
Handing == LockSemaphore > 0 \/ \E t \in Threads : pc[t] = "post"

\* What a holder t has added to LockCount and not yet taken off.
Claims(t) ==
    depth[t] + IF \/ pc[t] \in {"setCount", "setOwner", "clearOwner",
                                "unlock", "dec"}
                  \/ pc[t] = "ownerTest" /\ depth[t] > 0
                 THEN 1 ELSE 0

Places ==
    \A t \in Threads :
        IF depth[t] > 0
          THEN pc[t] \in {"out", "tryCas", "tryOwner", "tryInc", "inc",
                          "ownerTest", "dec"}
          ELSE pc[t] \notin {"tryInc", "dec"}

OwnerInv ==
    \A t \in Threads :
        OwningThread = t <=> depth[t] > 0 \/ pc[t] = "clearOwner"

RecursionInv ==
    /\ \A t \in Threads :
         /\ depth[t] > 0 =>
              RecursionCount = depth[t] + IF pc[t] = "tryInc" THEN 1 ELSE 0
         /\ pc[t] = "setOwner" => RecursionCount = 1
         /\ pc[t] \in {"setCount", "clearOwner", "unlock"} =>
              RecursionCount = 0
    /\ (\A t \in Threads : ~Holding(t)) => RecursionCount = 0

TokenInv ==
    /\ LockSemaphore \in {0, 1}
    /\ \A t \in Threads : pc[t] = "post" => LockSemaphore = 0
    /\ \A t, u \in Threads : pc[t] = "post" /\ pc[u] = "post" => t = u
    /\ Handing => \A t \in Threads : ~Holding(t)

\* While nobody holds the section, a wakeup is on its way exactly when some
\* thread is owed one.
QueueInv ==
    (\A t \in Threads : ~Holding(t)) => (Handing <=> Queue # {})

CountInv ==
    /\ (\A t \in Threads : ~Holding(t)) => LockCount = Cardinality(Queue) - 1
    /\ \A t \in Threads :
         Holding(t) => LockCount = Cardinality(Queue) - 1 + Claims(t)

\* A wakeup is in flight only while nobody holds the section and somebody is
\* queued for it, and LockCount is exactly the claims of the holder plus the
\* queue: the accounting by which LeaveCriticalSection decides to post.
HandoverInv ==
    /\ Places
    /\ MutualExclusion
    /\ OwnerInv
    /\ RecursionInv
    /\ TokenInv
    /\ QueueInv
    /\ CountInv

\* What every step of every thread keeps: the fields of the section have their
\* types, and the accounting by which it is handed on is right.
Inv == TypeOK /\ HandoverInv
=============================================================================

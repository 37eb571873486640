----------------------- MODULE SynchronizationBarrier -----------------------
(***************************************************************************)
(* The synchronization barrier of WinPR (winpr/libwinpr/synch/barrier.c):  *)
(* a counter and two manual-reset events that swap their roles after every *)
(* phase, with no lock.  Every access to the barrier is a step.            *)
(*                                                                         *)
(* As many threads as the barrier was initialized for pass it Loops times; *)
(* then it is deleted, as TestSynchBarrier.c does.                         *)
(*                                                                         *)
(* The last thread of a phase writes Reserved1, Reserved3[1] and           *)
(* Reserved3[0] with plain stores.  Between the stores nothing orders them *)
(* for the compiler or for a processor like ARM; SetEvent, a system call,  *)
(* comes after all of them.  inOrder tells whether this build keeps their  *)
(* order.                                                                  *)
(***************************************************************************)
EXTENDS Integers, FiniteSets

CONSTANTS
    Participants, \* the threads that share the barrier
    Loops,        \* how often each of them enters it
    Processors    \* Reserved4

\* InitializeSynchronizationBarrier refuses lTotalThreads < 1.
ASSUME BarrierAssumption ==
    /\ IsFiniteSet(Participants) /\ Participants # {}
    /\ Loops \in Nat /\ Processors \in Nat

N == Cardinality(Participants)
Events == {"event0", "event1"}
Flags == {"NONE", "SPIN_ONLY", "BLOCK_ONLY"}

VARIABLES
    remaining,   \* Reserved1: threads that have not entered yet
    current,     \* Reserved3[0]
    dormant,     \* Reserved3[1]
    set,         \* the events that are set
    at,          \* where each thread is
    cur, dor,    \* hCurrentEvent and hDormantEvent of each thread
    stores,      \* the stores each thread has still to make
    deleted,     \* DeleteSynchronizationBarrier has returned
    flags,       \* dwFlags of each thread
    inOrder,     \* the stores of a thread are seen in program order
    passed,      \* history: how often each thread has returned
    trues        \* history: how many threads got TRUE in each phase

barrier == <<remaining, current, dormant, set>>
locals == <<cur, dor, stores>>
history == <<passed, trues>>
barrierVars == <<barrier, at, locals, deleted, flags, inOrder, history>>

\* InitializeSynchronizationBarrier with valid arguments.
BarrierInit ==
    /\ remaining = N
    /\ current = "event0" /\ dormant = "event1"
    /\ set = {}
    /\ at = [t \in Participants |-> "out"]
    /\ cur = [t \in Participants |-> "event0"]
    /\ dor = [t \in Participants |-> "event1"]
    /\ stores = [t \in Participants |-> {}]
    /\ deleted = FALSE
    /\ flags \in [Participants -> Flags]
    /\ inOrder \in BOOLEAN
    /\ passed = [t \in Participants |-> 0]
    /\ trues = [p \in 1 .. Loops |-> 0]

MoveTo(t, place) == at' = [at EXCEPT ![t] = place]

Return(t) ==
    /\ passed' = [passed EXCEPT ![t] = @ + 1]
    /\ MoveTo(t, "out")

Return_FALSE(t) == Return(t) /\ UNCHANGED trues

Return_TRUE(t) ==
    /\ Return(t)
    /\ trues' = [trues EXCEPT ![passed[t] + 1] = @ + 1]
-----------------------------------------------------------------------------
\* The two reads of Reserved3 on entry.
ReadCurrent(t) ==
    /\ at[t] = "out" /\ passed[t] < Loops
    /\ cur' = [cur EXCEPT ![t] = current]
    /\ MoveTo(t, "readDormant")
    /\ UNCHANGED <<barrier, dor, stores, deleted, flags, inOrder, history>>

ReadDormant(t) ==
    /\ at[t] = "readDormant"
    /\ dor' = [dor EXCEPT ![t] = dormant]
    /\ MoveTo(t, "enter")
    /\ UNCHANGED <<barrier, cur, stores, deleted, flags, inOrder, history>>

\* A thread that has found n others missing spins before it blocks.
Spins(t, n) ==
    \/ flags[t] = "SPIN_ONLY"
    \/ flags[t] = "NONE" /\ n < Processors

\* The InterlockedDecrement, and the assertion on its result: it ends the
\* program.
Decrement(t) ==
    LET n == remaining - 1
    IN  /\ at[t] = "enter"
        /\ remaining' = n
        /\ MoveTo(t, IF n < 0 THEN "assert"
                   ELSE IF n = 0 THEN "last"
                   ELSE IF Spins(t, n) THEN "spin" ELSE "block")
        /\ UNCHANGED <<current, dormant, set, locals, deleted, flags, inOrder, history>>

\* Mistake: the spinning thread goes on when the counter is reset, not when
\* the events are switched.
SpinSeesCounter(t) ==
    /\ at[t] = "spin" /\ remaining = N
    /\ Return_FALSE(t)
    /\ UNCHANGED <<barrier, locals, deleted, flags, inOrder>>

\* The spinning thread sees the events switched.
SpinSees(t) ==
    /\ at[t] = "spin" /\ current # cur[t]
    /\ Return_FALSE(t)
    /\ UNCHANGED <<barrier, locals, deleted, flags, inOrder>>

\* The spin count is used up.
SpinGivesUp(t) ==
    /\ at[t] = "spin" /\ flags[t] # "SPIN_ONLY" /\ current = cur[t]
    /\ MoveTo(t, "block")
    /\ UNCHANGED <<barrier, locals, deleted, flags, inOrder, history>>

\* WaitForSingleObject(hCurrentEvent, INFINITE) returns.
WaitReturns(t) ==
    /\ at[t] = "block" /\ cur[t] \in set
    /\ Return_FALSE(t)
    /\ UNCHANGED <<barrier, locals, deleted, flags, inOrder>>

\* Mistake: the event of the phase before stays set.
ResetDormantMissing(t) ==
    /\ at[t] = "last"
    /\ stores' = [stores EXCEPT ![t] = {"counter", "dormant", "current"}]
    /\ MoveTo(t, "store")
    /\ UNCHANGED <<barrier, cur, dor, deleted, flags, inOrder, history>>

\* The last thread resets the dormant event.
ResetDormant(t) ==
    /\ at[t] = "last"
    /\ set' = set \ {dor[t]}
    /\ stores' = [stores EXCEPT ![t] = {"counter", "dormant", "current"}]
    /\ MoveTo(t, "store")
    /\ UNCHANGED <<remaining, current, dormant, cur, dor, deleted, flags, inOrder, history>>

\* Mistake: the counter is reset last.
MayStoreCounterLast(t, s) ==
    /\ s \in stores[t]
    /\ inOrder => \/ s = "dormant"
                  \/ s = "current" /\ "dormant" \notin stores[t]
                  \/ stores[t] = {"counter"}

\* Which of its stores thread t may make next.
MayStore(t, s) ==
    /\ s \in stores[t]
    /\ inOrder => \/ s = "counter"
                  \/ s = "dormant" /\ "counter" \notin stores[t]
                  \/ stores[t] = {"current"}

Store(t, s) ==
    /\ at[t] = "store" /\ MayStore(t, s)
    /\ remaining' = IF s = "counter" THEN N ELSE remaining
    /\ dormant' = IF s = "dormant" THEN cur[t] ELSE dormant
    /\ current' = IF s = "current" THEN dor[t] ELSE current
    /\ stores' = [stores EXCEPT ![t] = @ \ {s}]
    /\ UNCHANGED <<set, at, cur, dor, deleted, flags, inOrder, history>>

\* Mistake: the event that has just become current is set.
SignalCurrent(t) ==
    /\ at[t] = "store" /\ stores[t] = {}
    /\ set' = set \cup {current}
    /\ Return_TRUE(t)
    /\ UNCHANGED <<remaining, current, dormant, locals, deleted, flags, inOrder>>

\* The last thread signals the blocked ones.
Signal(t) ==
    /\ at[t] = "store" /\ stores[t] = {}
    /\ set' = set \cup {cur[t]}
    /\ Return_TRUE(t)
    /\ UNCHANGED <<remaining, current, dormant, locals, deleted, flags, inOrder>>

\* DeleteSynchronizationBarrier by the thread that has joined the others: the
\* loop ends when the counter is back at its initial value.
Delete ==
    /\ ~ deleted
    /\ \A t \in Participants : at[t] = "out" /\ passed[t] = Loops
    /\ remaining = N
    /\ deleted' = TRUE
    /\ UNCHANGED <<barrier, at, locals, flags, inOrder, history>>

EnterStep(t) ==
    \/ ReadCurrent(t) \/ ReadDormant(t) \/ Decrement(t)
    \/ SpinSees(t) \/ SpinGivesUp(t) \/ WaitReturns(t)
    \/ ResetDormant(t) \/ \E s \in {"counter", "dormant", "current"} : Store(t, s)
    \/ Signal(t)

Aborted == \E t \in Participants : at[t] = "assert"

BarrierNext == ~ Aborted /\ (Delete \/ \E t \in Participants : EnterStep(t))

BarrierSpec == BarrierInit /\ [][BarrierNext]_barrierVars

\* Every thread runs: a spinning thread is preempted and does not keep the
\* last one from the processor for ever.
BarrierFairSpec ==
    /\ BarrierSpec
    /\ WF_barrierVars(~ Aborted /\ Delete)
    /\ \A t \in Participants : WF_barrierVars(~ Aborted /\ EnterStep(t))
-----------------------------------------------------------------------------
BarrierTypeOK ==
    /\ remaining \in -1 .. N
    /\ current \in Events /\ dormant \in Events /\ set \subseteq Events
    /\ at \in [Participants -> {"out", "readDormant", "enter", "spin", "block",
                           "last", "store", "assert"}]
    /\ cur \in [Participants -> Events] /\ dor \in [Participants -> Events]
    /\ stores \in [Participants -> SUBSET {"counter", "dormant", "current"}]
    /\ deleted \in BOOLEAN /\ inOrder \in BOOLEAN
    /\ flags \in [Participants -> Flags]
    /\ passed \in [Participants -> 0 .. Loops]
    /\ trues \in [1 .. Loops -> Nat]

\* A thread leaves a barrier only through SetEvent, or sees the stores in
\* their order: otherwise one that spins may see the events switched while the
\* counter still has the value of the last phase.
Sound == inOrder \/ \A t \in Participants : flags[t] = "BLOCK_ONLY"

\* A thread that has decremented the counter has entered its next phase.
Entered(t) ==
    passed[t] + (IF at[t] \in {"out", "readDormant", "enter"} THEN 0 ELSE 1)

\* assert(remainingThreads >= 0) (barrier.c:178) never fails.
AssertionHolds == ~ Aborted

\* What a barrier is for: nobody has passed a phase that somebody has not
\* entered; and assert(remainingThreads >= 0) (barrier.c:178) never fails, which
\* it would for a thread that enters with the counter of the last phase.
Rendezvous ==
    Sound => AssertionHolds /\ \A t, u \in Participants : passed[t] <= Entered(u)

\* One thread gets TRUE in a phase, whoever is late
\* (TestSynchBarrier.c:62: expectedTrueCount = dwLoops).
OneTrue ==
    Sound => \A p \in 1 .. Loops :
        /\ trues[p] <= 1
        /\ (\A t \in Participants : passed[t] >= p) => trues[p] = 1

\* A thread that blocks waits for an event that is, or will be, set for its
\* phase: the event that its phase uses is not the one of the phase it comes
\* from, which slow threads may still be waiting for, and is only set once all
\* have entered.
EventOfPhase ==
    Sound => \A t \in Participants :
        at[t] \in {"spin", "block"} =>
            /\ cur[t] \in set => \A u \in Participants : passed[t] < Entered(u)
            /\ \A u \in Participants :
                 at[u] \in {"spin", "block"} => (cur[t] = cur[u]) = (passed[t] = passed[u])

\* Types, and the alternation of the two events.
BarrierInv == BarrierTypeOK /\ EventOfPhase

\* Every thread gets through all its phases, also when it spins, is overtaken
\* or comes last, and DeleteSynchronizationBarrier returns.
AllPass == Sound => <>deleted
=============================================================================

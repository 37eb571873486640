---------------------------- MODULE Synch_proofs ----------------------------
(***************************************************************************)
(* Proofs about the two synchronization objects of winpr/libwinpr/synch    *)
(* that are built on counters: the CRITICAL_SECTION, for every finite set  *)
(* of threads, every spin count and every nesting depth, and the           *)
(* synchronization barrier, for every number of threads, of phases and of  *)
(* processors, and every choice of flags.                                  *)
(***************************************************************************)
EXTENDS CriticalSection, SynchronizationBarrier, FiniteSetTheorems, TLAPS

-----------------------------------------------------------------------------
(***************************************************************************)
(* The critical section: its types.                                        *)
(***************************************************************************)

\* Every field of the section and every local keeps its type; the semaphore
\* never goes below zero.
THEOREM TypeCorrect == Spec => []TypeOK
<1>1. Init => TypeOK
  BY SpinAssumption DEF Init, TypeOK, PCs
<1>2. TypeOK /\ [Next]_vars => TypeOK'
  <2> SUFFICES ASSUME TypeOK, [Next]_vars PROVE TypeOK'
    OBVIOUS
  <2> USE DEF TypeOK, PCs, Goto, ReturnHeld, section
  <2>1. CASE UNCHANGED vars
    BY <2>1 DEF vars
  <2>2. ASSUME NEW t \in Threads, Call(t) PROVE TypeOK'
    <3>1. CASE SetCriticalSectionSpinCount(t)
      BY <3>1, SpinAssumption DEF SetCriticalSectionSpinCount
    <3>2. CASE EnterCriticalSection(t)
      BY <3>2 DEF EnterCriticalSection
    <3>3. CASE TryEnterCriticalSection(t)
      BY <3>3 DEF TryEnterCriticalSection
    <3> QED
      BY <2>2, <3>1, <3>2, <3>3 DEF Call
  <2>3. ASSUME NEW t \in Threads, LeaveCriticalSection(t) PROVE TypeOK'
    BY <2>3 DEF LeaveCriticalSection
  <2>4. ASSUME NEW t \in Threads, Step(t) PROVE TypeOK'
    <3>1. CASE TryCas(t) \/ TryOwner(t) \/ TryInc(t)
      BY <3>1 DEF TryCas, TryOwner, TryInc
    <3>2. CASE SpinTest(t) \/ SpinCas(t)
      BY <3>2 DEF SpinTest, SpinCas
    <3>3. CASE Inc(t) \/ OwnerTest(t) \/ Wait(t)
      BY <3>3 DEF Inc, OwnerTest, Wait
    <3>4. CASE SetCount(t) \/ SetOwner(t) \/ ClearOwner(t)
      BY <3>4 DEF SetCount, SetOwner, ClearOwner
    <3>5. CASE Unlock(t) \/ Post(t) \/ Dec(t)
      BY <3>5 DEF Unlock, Post, Dec
    <3> QED
      BY <2>4, <3>1, <3>2, <3>3, <3>4, <3>5 DEF Step
  <2> QED
    BY <2>1, <2>2, <2>3, <2>4 DEF Next
<1> QED
  BY <1>1, <1>2, PTL DEF Spec

\* The queue is finite, so that its cardinality is a number; and it is empty
\* exactly when that number is 0.
LEMMA QueueFinite ==
    /\ IsFiniteSet(Queue)
    /\ Cardinality(Queue) \in Nat
    /\ Cardinality(Queue) = 0 <=> Queue = {}
<1>1. IsFiniteSet(Queue)
  BY FS_Subset, ThreadsAssumption DEF Queue
<1> QED
  BY <1>1, FS_CardinalityType, FS_EmptySet

\* A thread that joins or leaves the queue moves its cardinality by one.
LEMMA QueueJoin ==
    ASSUME NEW t, t \notin Queue, Queue' = Queue \cup {t}
    PROVE  Cardinality(Queue') = Cardinality(Queue) + 1
BY QueueFinite, FS_AddElement

LEMMA QueueLeave ==
    ASSUME NEW t, t \in Queue, Queue' = Queue \ {t}
    PROVE  Cardinality(Queue') = Cardinality(Queue) - 1
BY QueueFinite, FS_RemoveElement

\* LockCount = -1 means free and unclaimed: the two interlocked compares and
\* the increment from -1 win the section only then.
LEMMA FreeSection ==
    ASSUME TypeOK, HandoverInv, LockCount = -1
    PROVE  /\ \A t \in Threads : ~Holding(t)
           /\ ~Handing
           /\ Queue = {}
<1>1. \A t \in Threads : Holding(t) => Claims(t) >= 1
  BY DEF TypeOK, Holding, Claims
<1>2. \A t \in Threads : ~Holding(t)
  <2> SUFFICES ASSUME NEW t \in Threads, Holding(t) PROVE FALSE
    OBVIOUS
  <2>1. LockCount = Cardinality(Queue) - 1 + Claims(t)
    BY DEF HandoverInv, CountInv
  <2>2. Claims(t) \in Int
    BY DEF TypeOK, Claims
  <2> QED
    BY <1>1, <2>1, <2>2, QueueFinite
<1>3. Cardinality(Queue) = 0
  BY <1>2, QueueFinite DEF HandoverInv, CountInv
<1> QED
  BY <1>2, <1>3, QueueFinite DEF HandoverInv, QueueInv

\* Winning the section, by any of the three interlocked paths.
LEMMA WinStep ==
    ASSUME TypeOK, HandoverInv, TypeOK',
           NEW t \in Threads,
           pc[t] \in {"tryCas", "spinCas", "inc"},
           LockCount = -1, LockCount' = 0, Goto(t, "setCount"),
           UNCHANGED <<RecursionCount, OwningThread, LockSemaphore, SpinCount,
                       spin, caller, depth>>
    PROVE  HandoverInv'
<1>1. /\ \A u \in Threads : ~Holding(u)
      /\ ~Handing
      /\ Queue = {}
  BY FreeSection
<1>2. Queue' = {}
  BY <1>1 DEF Queue, Goto, TypeOK
<1>3. /\ ~Handing'
      /\ Holding(t)'
      /\ \A u \in Threads \ {t} : ~Holding(u)'
  BY <1>1 DEF Handing, Holding, Goto, TypeOK
<1>4. depth[t] = 0
  BY <1>1 DEF Holding, TypeOK
<1>5. CountInv'
  <2>1. Claims(t)' = 1
    BY <1>4 DEF Claims, Goto, TypeOK
  <2>2. Cardinality(Queue)' = 0
    BY <1>2, FS_EmptySet
  <2> QED
    BY <1>3, <2>1, <2>2 DEF CountInv
<1>6. Places' /\ MutualExclusion' /\ OwnerInv' /\ TokenInv' /\ QueueInv'
  BY <1>1, <1>3, <1>4 DEF HandoverInv, Places, MutualExclusion, OwnerInv,
     TokenInv, QueueInv, Goto, TypeOK, Handing, Holding
<1>7. RecursionInv'
  BY <1>1, <1>3, <1>4 DEF HandoverInv, RecursionInv, Goto, TypeOK, Holding
<1> QED
  BY <1>5, <1>6, <1>7 DEF HandoverInv

\* A step inside a call that only moves pc, between places that mean the
\* same to the invariant.
LEMMA IdleStep ==
    ASSUME TypeOK, HandoverInv, TypeOK',
           NEW t \in Threads, NEW to,
           Goto(t, to),
           UNCHANGED <<LockCount, RecursionCount, OwningThread, LockSemaphore,
                       depth>>,
           pc[t] \in {"out", "tryCas", "tryOwner", "spinTest", "spinCas"},
           to \in {"out", "tryCas", "tryOwner", "spinTest", "spinCas", "inc"},
           to \in {"spinTest", "spinCas"} => depth[t] = 0
    PROVE  HandoverInv'
<1>1. Queue' = Queue
  BY DEF Queue, Goto, TypeOK
<1>2. /\ Handing' = Handing
      /\ \A u \in Threads : /\ Holding(u)' = Holding(u)
                            /\ Claims(u)' = Claims(u)
  BY DEF Handing, Holding, Claims, Goto, TypeOK
<1>3. CountInv' /\ QueueInv'
  BY <1>1, <1>2 DEF HandoverInv, CountInv, QueueInv
<1>4. Places' /\ MutualExclusion' /\ OwnerInv' /\ TokenInv'
  BY <1>2 DEF HandoverInv, Places, MutualExclusion, OwnerInv,
     TokenInv, Goto, TypeOK
<1>5. RecursionInv'
  BY <1>2 DEF HandoverInv, RecursionInv, Goto, TypeOK
<1> QED
  BY <1>3, <1>4, <1>5 DEF HandoverInv

\* A step of the holder: nobody else holds the section before or after it,
\* no wakeup is in flight, and the queue stays as it is.
LEMMA HolderStep ==
    ASSUME TypeOK, HandoverInv, TypeOK',
           NEW t \in Threads, NEW to, Goto(t, to), to # "post",
           Holding(t), Holding(t)',
           \A u \in Threads \ {t} : depth'[u] = depth[u],
           UNCHANGED LockSemaphore,
           (t \in Queue)' <=> t \in Queue,
           LockCount' = LockCount + Claims(t)' - Claims(t)
    PROVE  /\ MutualExclusion' /\ TokenInv' /\ QueueInv' /\ CountInv'
           /\ \A u \in Threads \ {t} : ~Holding(u) /\ ~Holding(u)'
<1>1. \A u \in Threads \ {t} : ~Holding(u) /\ ~Holding(u)'
  BY DEF HandoverInv, MutualExclusion, Holding, Goto, TypeOK
<1>2. Queue' = Queue
  BY DEF Queue, Goto, TypeOK
<1>3. Claims(t) \in Int /\ Claims(t)' \in Int
  BY DEF Claims, TypeOK
<1>4. CountInv'
  <2>1. LockCount = Cardinality(Queue) - 1 + Claims(t)
    BY DEF HandoverInv, CountInv
  <2>2. LockCount' = Cardinality(Queue)' - 1 + Claims(t)'
    BY <1>2, <1>3, <2>1, QueueFinite
  <2> QED
    BY <1>1, <2>2 DEF CountInv
<1>5. ~Handing /\ ~Handing'
  BY DEF HandoverInv, TokenInv, Handing, Goto, TypeOK
<1>6. TokenInv' /\ QueueInv' /\ MutualExclusion'
  BY <1>1, <1>5 DEF HandoverInv, TokenInv, QueueInv, MutualExclusion,
     Handing, TypeOK
<1> QED
  BY <1>1, <1>4, <1>6

\* The calls: only pc and the locals change.
LEMMA CallStep ==
    ASSUME TypeOK, HandoverInv, TypeOK', NEW t \in Threads, Call(t)
    PROVE  HandoverInv'
<1>1. CASE SetCriticalSectionSpinCount(t)
  <2>1. Goto(t, "out")
    BY <1>1 DEF SetCriticalSectionSpinCount, Goto, TypeOK
  <2> QED
    BY <1>1, <2>1, IdleStep DEF SetCriticalSectionSpinCount
<1>2. CASE EnterCriticalSection(t)
  <2>1. CASE SpinCount > 0
    BY <1>2, <2>1, IdleStep DEF EnterCriticalSection, section
  <2>2. CASE ~(SpinCount > 0)
    BY <1>2, <2>2, IdleStep DEF EnterCriticalSection, section
  <2> QED
    BY <2>1, <2>2
<1>3. CASE TryEnterCriticalSection(t)
  BY <1>3, IdleStep DEF TryEnterCriticalSection, section
<1> QED
  BY <1>1, <1>2, <1>3 DEF Call

\* TryEnterCriticalSection: the compare, the owner test and the increment.
LEMMA TryStep ==
    ASSUME TypeOK, HandoverInv, TypeOK', NEW t \in Threads,
           TryCas(t) \/ TryOwner(t) \/ TryInc(t)
    PROVE  HandoverInv'
<1>1. CASE TryCas(t)
  <2>1. CASE LockCount = -1
    BY <1>1, <2>1, WinStep DEF TryCas
  <2>2. CASE LockCount # -1
    BY <1>1, <2>2, IdleStep DEF TryCas
  <2> QED
    BY <2>1, <2>2
<1>2. CASE TryOwner(t)
  <2>1. CASE OwningThread # t
    <3>1. depth[t] = 0
      BY <2>1 DEF HandoverInv, OwnerInv, TypeOK
    <3>2. CASE caller[t] = "enter"
      BY <1>2, <2>1, <3>1, <3>2, IdleStep DEF TryOwner
    <3>3. CASE caller[t] # "enter"
      BY <1>2, <2>1, <3>1, <3>3, IdleStep DEF TryOwner
    <3> QED
      BY <3>2, <3>3
  <2>2. CASE OwningThread = t
    <3>1. depth[t] > 0
      BY <1>2, <2>2 DEF HandoverInv, OwnerInv, TryOwner
    <3>2. /\ Goto(t, "tryInc")
          /\ RecursionCount' = RecursionCount + 1
          /\ UNCHANGED <<LockCount, OwningThread, LockSemaphore, depth>>
      BY <1>2, <2>2 DEF TryOwner
    <3>3. /\ Holding(t) /\ Holding(t)'
          /\ (t \in Queue)' <=> t \in Queue
          /\ Claims(t)' = Claims(t)
      BY <1>2, <3>1, <3>2 DEF Holding, Queue, Claims, TryOwner, Goto, TypeOK
    <3>4. Claims(t) \in Int
      BY DEF Claims, TypeOK
    <3>5. /\ MutualExclusion' /\ TokenInv' /\ QueueInv' /\ CountInv'
          /\ \A u \in Threads \ {t} : ~Holding(u) /\ ~Holding(u)'
      BY <3>2, <3>3, <3>4, HolderStep DEF TypeOK
    <3>6. Places' /\ OwnerInv'
      BY <1>2, <3>1, <3>2 DEF HandoverInv, Places, OwnerInv, TryOwner, Goto,
         TypeOK
    <3>7. RecursionInv'
      BY <1>2, <3>1, <3>2, <3>3, <3>5 DEF HandoverInv, RecursionInv, TryOwner,
         Goto, TypeOK, Holding
    <3> QED
      BY <3>5, <3>6, <3>7 DEF HandoverInv
  <2> QED
    BY <2>1, <2>2
<1>3. CASE TryInc(t)
  <2>1. depth[t] > 0
    BY <1>3 DEF HandoverInv, Places, TryInc
  <2>2. /\ Goto(t, "out")
        /\ depth' = [depth EXCEPT ![t] = @ + 1]
        /\ LockCount' = LockCount + 1
        /\ UNCHANGED <<RecursionCount, OwningThread, LockSemaphore>>
    BY <1>3 DEF TryInc, ReturnHeld
  <2>3. /\ Holding(t) /\ Holding(t)'
        /\ (t \in Queue)' <=> t \in Queue
        /\ Claims(t)' = Claims(t) + 1
        /\ Claims(t) \in Int
    BY <1>3, <2>1, <2>2 DEF Holding, Queue, Claims, TryInc, Goto, TypeOK
  <2>4. /\ MutualExclusion' /\ TokenInv' /\ QueueInv' /\ CountInv'
        /\ \A u \in Threads \ {t} : ~Holding(u) /\ ~Holding(u)'
    BY <2>2, <2>3, HolderStep DEF TypeOK
  <2>5. Places' /\ OwnerInv'
    BY <1>3, <2>1, <2>2 DEF HandoverInv, Places, OwnerInv, TryInc, Goto,
       TypeOK
  <2>6. RecursionInv'
    BY <1>3, <2>1, <2>2, <2>3, <2>4 DEF HandoverInv, RecursionInv, TryInc,
       Goto, TypeOK, Holding
  <2> QED
    BY <2>4, <2>5, <2>6 DEF HandoverInv
<1> QED
  BY <1>1, <1>2, <1>3

\* The spin loop: a test of LockCount and a compare.
LEMMA SpinStep ==
    ASSUME TypeOK, HandoverInv, TypeOK', NEW t \in Threads,
           SpinTest(t) \/ SpinCas(t)
    PROVE  HandoverInv'
<1>1. depth[t] = 0
  BY DEF HandoverInv, Places, SpinTest, SpinCas, TypeOK
<1>2. CASE SpinTest(t)
  <2>1. CASE spin[t] > 0 /\ LockCount < 1
    BY <1>1, <1>2, <2>1, IdleStep DEF SpinTest, section
  <2>2. CASE ~(spin[t] > 0 /\ LockCount < 1)
    BY <1>1, <1>2, <2>2, IdleStep DEF SpinTest, section
  <2> QED
    BY <2>1, <2>2
<1>3. CASE SpinCas(t)
  <2>1. CASE LockCount = -1
    BY <1>3, <2>1, WinStep DEF SpinCas
  <2>2. CASE LockCount # -1
    BY <1>1, <1>3, <2>2, IdleStep DEF SpinCas
  <2> QED
    BY <2>1, <2>2
<1> QED
  BY <1>2, <1>3

\* The interlocked increment: it wins a free section, adds a claim of the
\* holder, or queues the thread.
LEMMA IncStep ==
    ASSUME TypeOK, HandoverInv, TypeOK', NEW t \in Threads, Inc(t)
    PROVE  HandoverInv'
<1>1. CASE LockCount = -1
  BY <1>1, WinStep DEF Inc
<1>2. CASE LockCount # -1
  <2>1. /\ Goto(t, "ownerTest")
        /\ LockCount' = LockCount + 1
        /\ UNCHANGED <<RecursionCount, OwningThread, LockSemaphore, depth>>
    BY <1>2 DEF Inc, TypeOK
  <2>2. CASE depth[t] > 0
    <3>1. /\ Holding(t) /\ Holding(t)'
          /\ (t \in Queue)' <=> t \in Queue
          /\ Claims(t)' = Claims(t) + 1
          /\ Claims(t) \in Int
      BY <2>1, <2>2 DEF Holding, Queue, Claims, Inc, Goto, TypeOK
    <3>2. /\ MutualExclusion' /\ TokenInv' /\ QueueInv' /\ CountInv'
          /\ \A u \in Threads \ {t} : ~Holding(u) /\ ~Holding(u)'
      BY <2>1, <3>1, HolderStep DEF TypeOK
    <3>3. Places' /\ OwnerInv'
      BY <2>1, <2>2 DEF HandoverInv, Places, OwnerInv, Inc, Goto, TypeOK
    <3>4. RecursionInv'
      BY <2>1, <2>2, <3>1, <3>2 DEF HandoverInv, RecursionInv, Inc, Goto,
         TypeOK, Holding
    <3> QED
      BY <3>2, <3>3, <3>4 DEF HandoverInv
  <2>3. CASE depth[t] = 0
    <3>1. t \notin Queue /\ Queue' = Queue \cup {t}
      BY <2>1, <2>3 DEF Queue, Inc, Goto, TypeOK
    <3>2. Cardinality(Queue') = Cardinality(Queue) + 1
      BY <3>1, QueueJoin
    <3>3. /\ Handing' = Handing
          /\ \A u \in Threads : Holding(u)' = Holding(u)
      BY <2>1, <2>3 DEF Handing, Holding, Inc, Goto, TypeOK
    <3>4. \A u \in Threads : Holding(u) => /\ Claims(u)' = Claims(u)
                                           /\ Claims(u) \in Int
      BY <2>1, <2>3 DEF Holding, Claims, Inc, Goto, TypeOK
    <3>5. CountInv'
      BY <2>1, <3>2, <3>3, <3>4, QueueFinite DEF HandoverInv, CountInv, TypeOK
    <3>6. QueueInv'
      <4> SUFFICES ASSUME \A u \in Threads : ~Holding(u) PROVE Handing
        BY <3>1, <3>3 DEF QueueInv
      <4>1. Cardinality(Queue) # 0
        BY <1>2, QueueFinite DEF HandoverInv, CountInv
      <4> QED
        BY <4>1, QueueFinite DEF HandoverInv, QueueInv
    <3>7. Places' /\ OwnerInv' /\ MutualExclusion' /\ TokenInv'
      BY <2>1, <2>3, <3>3 DEF HandoverInv, Places, OwnerInv, MutualExclusion,
         TokenInv, Inc, Goto, TypeOK
    <3>8. RecursionInv'
      BY <2>1, <2>3, <3>3 DEF HandoverInv, RecursionInv, Inc, Goto, TypeOK
    <3> QED
      BY <3>5, <3>6, <3>7, <3>8 DEF HandoverInv
  <2> QED
    BY <2>2, <2>3 DEF TypeOK
<1> QED
  BY <1>1, <1>2

\* The owner test after the increment: the holder returns, another thread
\* goes to sleep.
LEMMA OwnerTestStep ==
    ASSUME TypeOK, HandoverInv, TypeOK', NEW t \in Threads, OwnerTest(t)
    PROVE  HandoverInv'
<1>1. CASE OwningThread = t
  <2>1. depth[t] > 0
    BY <1>1 DEF HandoverInv, OwnerInv, OwnerTest
  <2>2. /\ Goto(t, "out")
        /\ depth' = [depth EXCEPT ![t] = @ + 1]
        /\ RecursionCount' = RecursionCount + 1
        /\ UNCHANGED <<LockCount, OwningThread, LockSemaphore>>
    BY <1>1 DEF OwnerTest, ReturnHeld
  <2>3. /\ Holding(t) /\ Holding(t)'
        /\ (t \in Queue)' <=> t \in Queue
        /\ Claims(t)' = Claims(t)
        /\ Claims(t) \in Int
    BY <2>1, <2>2 DEF Holding, Queue, Claims, OwnerTest, Goto, TypeOK
  <2>4. /\ MutualExclusion' /\ TokenInv' /\ QueueInv' /\ CountInv'
        /\ \A u \in Threads \ {t} : ~Holding(u) /\ ~Holding(u)'
    BY <2>2, <2>3, HolderStep DEF TypeOK
  <2>5. Places' /\ OwnerInv'
    BY <2>1, <2>2 DEF HandoverInv, Places, OwnerInv, OwnerTest, Goto, TypeOK
  <2>6. RecursionInv'
    BY <2>1, <2>2, <2>3, <2>4 DEF HandoverInv, RecursionInv, OwnerTest, Goto,
       TypeOK, Holding
  <2> QED
    BY <2>4, <2>5, <2>6 DEF HandoverInv
<1>2. CASE OwningThread # t
  <2>1. depth[t] = 0
    BY <1>2 DEF HandoverInv, OwnerInv, TypeOK
  <2>2. /\ Goto(t, "wait")
        /\ UNCHANGED <<LockCount, RecursionCount, OwningThread, LockSemaphore,
                       depth>>
    BY <1>2 DEF OwnerTest
  <2>3. Queue' = Queue
    BY <2>1, <2>2 DEF Queue, OwnerTest, Goto, TypeOK
  <2>4. /\ Handing' = Handing
        /\ \A u \in Threads : Holding(u)' = Holding(u)
        /\ \A u \in Threads : Holding(u) => Claims(u)' = Claims(u)
    BY <2>1, <2>2 DEF Handing, Holding, Claims, OwnerTest, Goto, TypeOK
  <2>5. CountInv' /\ QueueInv'
    BY <2>2, <2>3, <2>4 DEF HandoverInv, CountInv, QueueInv
  <2>6. Places' /\ OwnerInv' /\ MutualExclusion' /\ TokenInv'
    BY <2>1, <2>2, <2>4 DEF HandoverInv, Places, OwnerInv, MutualExclusion,
       TokenInv, OwnerTest, Goto, TypeOK
  <2>7. RecursionInv'
    BY <2>1, <2>2, <2>4 DEF HandoverInv, RecursionInv, OwnerTest, Goto, TypeOK
  <2> QED
    BY <2>5, <2>6, <2>7 DEF HandoverInv
<1> QED
  BY <1>1, <1>2

\* sem_wait returns: the thread leaves the queue and takes over the claim
\* its own increment made.
LEMMA WaitStep ==
    ASSUME TypeOK, HandoverInv, TypeOK', NEW t \in Threads, Wait(t)
    PROVE  HandoverInv'
<1>1. /\ Goto(t, "setCount")
      /\ LockSemaphore = 1 /\ LockSemaphore' = 0
      /\ UNCHANGED <<LockCount, RecursionCount, OwningThread, depth>>
  BY DEF HandoverInv, TokenInv, Wait
<1>2. \A u \in Threads : ~Holding(u) /\ pc[u] # "post"
  BY <1>1 DEF HandoverInv, TokenInv, Handing
<1>3. depth[t] = 0
  BY <1>2 DEF Holding, TypeOK
<1>4. t \in Queue /\ Queue' = Queue \ {t}
  BY <1>1, <1>3 DEF Queue, Wait, Goto, TypeOK
<1>5. Cardinality(Queue') = Cardinality(Queue) - 1
  BY <1>4, QueueLeave
<1>6. /\ ~Handing'
      /\ Holding(t)'
      /\ \A u \in Threads \ {t} : ~Holding(u)'
  BY <1>1, <1>2 DEF Handing, Holding, Goto, TypeOK
<1>7. CountInv'
  <2>1. Claims(t)' = 1
    BY <1>1, <1>3 DEF Claims, Goto, TypeOK
  <2>2. LockCount = Cardinality(Queue) - 1
    BY <1>2 DEF HandoverInv, CountInv
  <2>3. LockCount' = Cardinality(Queue)' - 1 + Claims(t)'
    BY <1>1, <1>5, <2>1, <2>2, QueueFinite
  <2> QED
    BY <1>6, <2>3 DEF CountInv
<1>8. Places' /\ MutualExclusion' /\ OwnerInv' /\ TokenInv' /\ QueueInv'
  BY <1>1, <1>2, <1>3, <1>6 DEF HandoverInv, Places, MutualExclusion, OwnerInv,
     TokenInv, QueueInv, Wait, Goto, TypeOK, Handing, Holding
<1>9. RecursionInv'
  BY <1>1, <1>2, <1>3, <1>6 DEF HandoverInv, RecursionInv, Goto, TypeOK, Holding
<1> QED
  BY <1>7, <1>8, <1>9 DEF HandoverInv

\* The two assignments of a new owner.
LEMMA OwnStep ==
    ASSUME TypeOK, HandoverInv, TypeOK', NEW t \in Threads,
           SetCount(t) \/ SetOwner(t)
    PROVE  HandoverInv'
<1>1. depth[t] = 0
  BY DEF HandoverInv, Places, SetCount, SetOwner, TypeOK
<1>2. CASE SetCount(t)
  <2>1. /\ Goto(t, "setOwner")
        /\ RecursionCount' = 1
        /\ UNCHANGED <<LockCount, OwningThread, LockSemaphore, depth>>
    BY <1>2 DEF SetCount
  <2>2. /\ Holding(t) /\ Holding(t)'
        /\ (t \in Queue)' <=> t \in Queue
        /\ Claims(t)' = Claims(t)
        /\ Claims(t) \in Int
    BY <1>1, <1>2, <2>1 DEF Holding, Queue, Claims, SetCount, Goto, TypeOK
  <2>3. /\ MutualExclusion' /\ TokenInv' /\ QueueInv' /\ CountInv'
        /\ \A u \in Threads \ {t} : ~Holding(u) /\ ~Holding(u)'
    BY <2>1, <2>2, HolderStep DEF TypeOK
  <2>4. Places' /\ OwnerInv'
    BY <1>1, <1>2, <2>1 DEF HandoverInv, Places, OwnerInv, SetCount, Goto,
       TypeOK
  <2>5. RecursionInv'
    BY <1>1, <2>1, <2>2, <2>3 DEF HandoverInv, RecursionInv, Goto, TypeOK,
       Holding
  <2> QED
    BY <2>3, <2>4, <2>5 DEF HandoverInv
<1>3. CASE SetOwner(t)
  <2>1. /\ Goto(t, "out")
        /\ depth' = [depth EXCEPT ![t] = @ + 1]
        /\ OwningThread' = t
        /\ UNCHANGED <<LockCount, RecursionCount, LockSemaphore>>
    BY <1>3 DEF SetOwner, ReturnHeld
  <2>2. /\ Holding(t) /\ Holding(t)'
        /\ (t \in Queue)' <=> t \in Queue
        /\ Claims(t)' = Claims(t)
        /\ Claims(t) \in Int
    BY <1>1, <1>3, <2>1 DEF Holding, Queue, Claims, SetOwner, Goto, TypeOK
  <2>3. /\ MutualExclusion' /\ TokenInv' /\ QueueInv' /\ CountInv'
        /\ \A u \in Threads \ {t} : ~Holding(u) /\ ~Holding(u)'
    BY <2>1, <2>2, HolderStep DEF TypeOK
  <2>4. Places' /\ OwnerInv'
    BY <1>1, <1>3, <2>1, <2>3 DEF HandoverInv, Places, OwnerInv, Holding,
       Goto, TypeOK
  <2>5. RecursionInv'
    BY <1>1, <1>3, <2>1, <2>2, <2>3 DEF HandoverInv, RecursionInv, SetOwner,
       Goto, TypeOK, Holding
  <2> QED
    BY <2>3, <2>4, <2>5 DEF HandoverInv
<1> QED
  BY <1>2, <1>3

\* LeaveCriticalSection up to the decrement of LockCount, and the decrement
\* of an inner leave.
LEMMA LeaveStep ==
    ASSUME TypeOK, HandoverInv, TypeOK', NEW t \in Threads,
           LeaveCriticalSection(t) \/ ClearOwner(t) \/ Dec(t)
    PROVE  HandoverInv'
<1>1. CASE LeaveCriticalSection(t)
  <2>1. RecursionCount = depth[t] /\ depth[t] > 0
    BY <1>1 DEF HandoverInv, RecursionInv, LeaveCriticalSection, TypeOK
  <2> DEFINE to == IF depth[t] = 1 THEN "clearOwner" ELSE "dec"
  <2>2. /\ Goto(t, to)
        /\ depth' = [depth EXCEPT ![t] = @ - 1]
        /\ RecursionCount' = RecursionCount - 1
        /\ UNCHANGED <<LockCount, OwningThread, LockSemaphore>>
    <3>1. (RecursionCount - 1 < 1) <=> (depth[t] = 1)
      BY <2>1 DEF TypeOK
    <3>2. CASE depth[t] = 1
      BY <1>1, <3>1, <3>2 DEF LeaveCriticalSection
    <3>3. CASE depth[t] # 1
      BY <1>1, <3>1, <3>3 DEF LeaveCriticalSection
    <3> QED
      BY <3>2, <3>3
  <2>3. /\ Holding(t) /\ Holding(t)'
        /\ (t \in Queue)' <=> t \in Queue
        /\ Claims(t)' = Claims(t)
        /\ Claims(t) \in Int
    BY <1>1, <2>1, <2>2 DEF Holding, Queue, Claims, LeaveCriticalSection,
       Goto, TypeOK
  <2>4. to # "post"
    OBVIOUS
  <2>5. /\ MutualExclusion' /\ TokenInv' /\ QueueInv' /\ CountInv'
        /\ \A u \in Threads \ {t} : ~Holding(u) /\ ~Holding(u)'
    <3> HIDE DEF to
    <3> QED
      BY <2>2, <2>3, <2>4, HolderStep DEF TypeOK
  <2>6. Places' /\ OwnerInv'
    BY <1>1, <2>1, <2>2 DEF HandoverInv, Places, OwnerInv,
       LeaveCriticalSection, Goto, TypeOK
  <2>7. RecursionInv'
    BY <2>1, <2>2, <2>3, <2>5 DEF RecursionInv, Goto, TypeOK, Holding
  <2> QED
    BY <2>5, <2>6, <2>7 DEF HandoverInv
<1>2. CASE ClearOwner(t)
  <2>1. depth[t] = 0
    BY <1>2 DEF HandoverInv, Places, ClearOwner, TypeOK
  <2>2. /\ Goto(t, "unlock")
        /\ OwningThread' = NoThread
        /\ UNCHANGED <<LockCount, RecursionCount, LockSemaphore, depth>>
    BY <1>2 DEF ClearOwner
  <2>3. /\ Holding(t) /\ Holding(t)'
        /\ (t \in Queue)' <=> t \in Queue
        /\ Claims(t)' = Claims(t)
        /\ Claims(t) \in Int
    BY <1>2, <2>1, <2>2 DEF Holding, Queue, Claims, ClearOwner, Goto, TypeOK
  <2>4. /\ MutualExclusion' /\ TokenInv' /\ QueueInv' /\ CountInv'
        /\ \A u \in Threads \ {t} : ~Holding(u) /\ ~Holding(u)'
    BY <2>2, <2>3, HolderStep DEF TypeOK
  <2>5. Places' /\ OwnerInv'
    BY <1>2, <2>1, <2>2, <2>4, ThreadsAssumption DEF HandoverInv, Places,
       OwnerInv, Holding, Goto, TypeOK
  <2>6. RecursionInv'
    BY <1>2, <2>1, <2>2, <2>3, <2>4 DEF HandoverInv, RecursionInv, ClearOwner,
       Goto, TypeOK, Holding
  <2> QED
    BY <2>4, <2>5, <2>6 DEF HandoverInv
<1>3. CASE Dec(t)
  <2>1. depth[t] > 0
    BY <1>3 DEF HandoverInv, Places, Dec
  <2>2. /\ Goto(t, "out")
        /\ LockCount' = LockCount - 1
        /\ UNCHANGED <<RecursionCount, OwningThread, LockSemaphore, depth>>
    BY <1>3 DEF Dec
  <2>3. /\ Holding(t) /\ Holding(t)'
        /\ (t \in Queue)' <=> t \in Queue
        /\ Claims(t)' = Claims(t) - 1
        /\ Claims(t) \in Int
    BY <1>3, <2>1, <2>2 DEF Holding, Queue, Claims, Dec, Goto, TypeOK
  <2>4. /\ MutualExclusion' /\ TokenInv' /\ QueueInv' /\ CountInv'
        /\ \A u \in Threads \ {t} : ~Holding(u) /\ ~Holding(u)'
    BY <2>2, <2>3, HolderStep DEF TypeOK
  <2>5. Places' /\ OwnerInv'
    BY <1>3, <2>1, <2>2 DEF HandoverInv, Places, OwnerInv, Dec, Goto, TypeOK
  <2>6. RecursionInv'
    BY <1>3, <2>1, <2>2, <2>3, <2>4 DEF HandoverInv, RecursionInv, Dec, Goto,
       TypeOK, Holding
  <2> QED
    BY <2>4, <2>5, <2>6 DEF HandoverInv
<1> QED
  BY <1>1, <1>2, <1>3

\* The outermost decrement: the section becomes free, or is handed on when
\* a thread is queued.
LEMMA UnlockStep ==
    ASSUME TypeOK, HandoverInv, TypeOK', NEW t \in Threads, Unlock(t)
    PROVE  HandoverInv'
<1>1. depth[t] = 0 /\ Holding(t)
  BY DEF HandoverInv, Places, Holding, Unlock, TypeOK
<1>2. \A u \in Threads \ {t} : ~Holding(u)
  BY <1>1 DEF HandoverInv, MutualExclusion
<1>3. ~Handing
  BY <1>1 DEF HandoverInv, TokenInv
<1>4. LockCount = Cardinality(Queue)
  <2>1. Claims(t) = 1
    BY <1>1 DEF Claims, Unlock
  <2> QED
    BY <1>1, <2>1, QueueFinite DEF HandoverInv, CountInv
<1> DEFINE to == IF Queue # {} THEN "post" ELSE "out"
<1>5. /\ Goto(t, to)
      /\ LockCount' = LockCount - 1
      /\ UNCHANGED <<RecursionCount, OwningThread, LockSemaphore, depth>>
  <2>1. (LockCount - 1 >= 0) <=> Queue # {}
    BY <1>4, QueueFinite
  <2>2. CASE Queue # {}
    BY <2>1, <2>2 DEF Unlock
  <2>3. CASE Queue = {}
    BY <2>1, <2>3 DEF Unlock
  <2> QED
    BY <2>2, <2>3
<1>6. Queue' = Queue
  BY <1>5 DEF Queue, Unlock, Goto, TypeOK
<1>7. \A u \in Threads : ~Holding(u)'
  BY <1>1, <1>2, <1>5 DEF Holding, Goto, TypeOK
<1>8. Handing' <=> Queue # {}
  BY <1>3, <1>5 DEF Handing, Goto, TypeOK
<1>9. CountInv' /\ QueueInv'
  BY <1>4, <1>5, <1>6, <1>7, <1>8 DEF CountInv, QueueInv
<1>10. Places' /\ MutualExclusion' /\ OwnerInv'
  BY <1>1, <1>5, <1>7 DEF HandoverInv, Places, MutualExclusion, OwnerInv,
     Unlock, Goto, TypeOK
<1>11. TokenInv'
  BY <1>3, <1>5, <1>7 DEF HandoverInv, TokenInv, Handing, Goto, TypeOK
<1>12. RecursionInv'
  BY <1>1, <1>5, <1>7 DEF HandoverInv, RecursionInv, Holding, Unlock, Goto,
     TypeOK
<1> QED
  BY <1>9, <1>10, <1>11, <1>12 DEF HandoverInv

\* sem_post.
LEMMA PostStep ==
    ASSUME TypeOK, HandoverInv, TypeOK', NEW t \in Threads, Post(t)
    PROVE  HandoverInv'
<1>1. /\ Goto(t, "out")
      /\ LockSemaphore = 0 /\ LockSemaphore' = 1
      /\ UNCHANGED <<LockCount, RecursionCount, OwningThread, depth>>
  BY DEF HandoverInv, TokenInv, Post
<1>2. \A u \in Threads : ~Holding(u)
  BY DEF HandoverInv, TokenInv, Handing, Post
<1>3. Queue' = Queue
  BY <1>1 DEF Queue, Post, Goto, TypeOK
<1>4. /\ Handing /\ Handing'
      /\ \A u \in Threads : ~Holding(u)'
      /\ \A u \in Threads : pc'[u] # "post"
  BY <1>1, <1>2 DEF HandoverInv, TokenInv, Handing, Holding, Post, Goto, TypeOK
<1>5. CountInv' /\ QueueInv'
  BY <1>1, <1>2, <1>3, <1>4 DEF HandoverInv, CountInv, QueueInv
<1>6. Places' /\ MutualExclusion' /\ OwnerInv' /\ TokenInv'
  BY <1>1, <1>2, <1>4 DEF HandoverInv, Places, MutualExclusion, OwnerInv,
     TokenInv, Post, Goto, TypeOK
<1>7. RecursionInv'
  BY <1>1, <1>2, <1>4 DEF HandoverInv, RecursionInv, Holding, Goto, TypeOK
<1> QED
  BY <1>5, <1>6, <1>7 DEF HandoverInv

\* The accounting of LockCount, the semaphore and the owner fields holds in
\* every reachable state.
THEOREM Handover == Spec => []HandoverInv
<1>1. Init => HandoverInv
  <2> SUFFICES ASSUME Init PROVE HandoverInv
    OBVIOUS
  <2>1. Queue = {} /\ ~Handing /\ \A t \in Threads : ~Holding(t)
    BY DEF Init, Queue, Handing, Holding
  <2>2. Cardinality(Queue) = 0
    BY <2>1, FS_EmptySet
  <2> QED
    BY <2>1, <2>2, ThreadsAssumption DEF Init, HandoverInv, Places,
       MutualExclusion, OwnerInv, RecursionInv, TokenInv, QueueInv, CountInv
<1>2. TypeOK /\ TypeOK' /\ HandoverInv /\ [Next]_vars => HandoverInv'
  <2> SUFFICES ASSUME TypeOK, TypeOK', HandoverInv, [Next]_vars
               PROVE  HandoverInv'
    OBVIOUS
  <2>1. CASE UNCHANGED vars
    <3>1. Queue' = Queue /\ Handing' = Handing
      BY <2>1 DEF vars, Queue, Handing
    <3>2. \A t \in Threads : Holding(t)' = Holding(t) /\ Claims(t)' = Claims(t)
      BY <2>1 DEF vars, Holding, Claims
    <3> QED
      BY <2>1, <3>1, <3>2 DEF vars, HandoverInv, Places, MutualExclusion,
         OwnerInv, RecursionInv, TokenInv, QueueInv, CountInv
  <2>2. ASSUME NEW t \in Threads, Call(t) \/ LeaveCriticalSection(t) \/ Step(t)
        PROVE  HandoverInv'
    BY <2>2, CallStep, TryStep, SpinStep, IncStep, OwnerTestStep, WaitStep,
       OwnStep, LeaveStep, UnlockStep, PostStep DEF Step
  <2> QED
    BY <2>1, <2>2 DEF Next
<1> QED
  BY <1>1, <1>2, TypeCorrect, PTL DEF Spec

\* No two threads ever have the section at the same time.
THEOREM Exclusion == Spec => []MutualExclusion
<1>1. HandoverInv => MutualExclusion
  BY DEF HandoverInv
<1> QED
  BY <1>1, Handover, PTL

\* OwningThread and RecursionCount are right whenever a thread is between
\* calls.
THEOREM OwnerFieldsCorrect == Spec => []OwnerFields
<1>1. TypeOK /\ HandoverInv => OwnerFields
  BY DEF HandoverInv, OwnerInv, RecursionInv, OwnerFields, TypeOK
<1> QED
  BY <1>1, TypeCorrect, Handover, PTL

\* With no call in progress, no wakeup is left over and LockCount has the
\* value its documentation gives.
THEOREM Quiescence == Spec => []QuiescentCounts
<1>1. ASSUME TypeOK, HandoverInv, \A t \in Threads : pc[t] = "out"
      PROVE  /\ LockSemaphore = 0
             /\ LockCount = RecursionCount - 1
             /\ (LockCount = -1) <=> (\A t \in Threads : depth[t] = 0)
  <2>1. Queue = {} /\ Cardinality(Queue) = 0
    <3>1. Queue = {}
      BY <1>1 DEF Queue
    <3> QED
      BY <3>1, QueueFinite
  <2>2. CASE \A t \in Threads : ~Holding(t)
    <3>1. LockCount = -1 /\ RecursionCount = 0
      BY <1>1, <2>1, <2>2 DEF HandoverInv, CountInv, RecursionInv
    <3>2. ~Handing
      BY <1>1, <2>1, <2>2 DEF HandoverInv, QueueInv
    <3>3. \A t \in Threads : depth[t] = 0
      BY <1>1, <2>2 DEF Holding, TypeOK
    <3> QED
      BY <1>1, <3>1, <3>2, <3>3 DEF Handing, TypeOK
  <2>3. ASSUME NEW t \in Threads, Holding(t)
        PROVE  /\ LockSemaphore = 0
               /\ LockCount = RecursionCount - 1
               /\ LockCount # -1
               /\ depth[t] # 0
    <3>1. depth[t] > 0 /\ Claims(t) = depth[t]
      BY <1>1, <2>3 DEF Holding, Claims, TypeOK
    <3>2. LockCount = depth[t] - 1
      BY <1>1, <2>1, <2>3, <3>1 DEF HandoverInv, CountInv, TypeOK
    <3>3. RecursionCount = depth[t]
      BY <1>1, <3>1 DEF HandoverInv, RecursionInv, TypeOK
    <3>4. LockSemaphore = 0
      BY <1>1, <2>3 DEF HandoverInv, TokenInv, Handing
    <3> QED
      BY <3>1, <3>2, <3>3, <3>4 DEF TypeOK
  <2> QED
    BY <2>2, <2>3
<1> QED
  BY <1>1, TypeCorrect, Handover, PTL DEF QuiescentCounts

-----------------------------------------------------------------------------
(***************************************************************************)
(* The section implements a recursive lock.                                *)
(***************************************************************************)

\* The refinement mapping, where it is easy to read: the holder is the
\* thread that holds, if there is one.
LEMMA HolderValue ==
    ASSUME MutualExclusion
    PROVE  /\ \A t \in Threads : Holding(t) => Holder = t /\ HeldCount = Level(t)
           /\ (\A t \in Threads : ~Holding(t)) => Holder = NoThread /\ HeldCount = 0
<1>1. \A t \in Threads : Holding(t) => Holder = t
  BY DEF Holder, MutualExclusion
<1> QED
  BY <1>1, ThreadsAssumption DEF HeldCount, Holder

\* The level of a holder is a positive number.
LEMMA LevelPositive ==
    ASSUME TypeOK, HandoverInv, NEW t \in Threads
    PROVE  Level(t) \in Nat /\ (Holding(t) => Level(t) >= 1)
BY DEF TypeOK, HandoverInv, Places, Level, Holding

\* What a step of one thread may do to its level, as steps of the lock.
LEMMA LockStep ==
    ASSUME TypeOK, HandoverInv, HandoverInv', NEW t \in Threads,
           \A u \in Threads \ {t} : /\ Holding(u)' = Holding(u)
                                    /\ Level(u)' = Level(u),
           \/ Holding(t)' = Holding(t) /\ Level(t)' = Level(t)
           \/ ~Holding(t) /\ ~Holding(t)'
           \/ ~Holding(t) /\ Holding(t)' /\ Level(t)' = 1
           \/ Holding(t) /\ Holding(t)' /\ Level(t)' = Level(t) + 1
           \/ Holding(t) /\ Holding(t)' /\ Level(t)' = Level(t) - 1
              /\ Level(t) > 1
           \/ Holding(t) /\ ~Holding(t)' /\ Level(t) = 1
    PROVE  [Lock!LockNext]_(Lock!lockVars)
<1> USE DEF Lock!LockNext, Lock!lockVars, Lock!Acquire, Lock!Release
<1>1. MutualExclusion /\ MutualExclusion'
  BY DEF HandoverInv
<1>2. /\ \A u \in Threads : Holding(u) => Holder = u /\ HeldCount = Level(u)
      /\ (\A u \in Threads : ~Holding(u)) => Holder = NoThread /\ HeldCount = 0
  BY <1>1, HolderValue
<1>3. /\ \A u \in Threads : Holding(u)' => Holder' = u /\ HeldCount' = Level(u)'
      /\ (\A u \in Threads : ~Holding(u)') => Holder' = NoThread /\ HeldCount' = 0
  <2>1. ASSUME MutualExclusion'
        PROVE  /\ \A u \in Threads : Holding(u)' => Holder' = u
               /\ (\A u \in Threads : ~Holding(u)') => Holder' = NoThread
    BY <2>1 DEF Holder, MutualExclusion
  <2> QED
    BY <1>1, <2>1, ThreadsAssumption DEF HeldCount
<1>4. CASE \/ Holding(t)' = Holding(t) /\ Level(t)' = Level(t)
           \/ ~Holding(t) /\ ~Holding(t)'
  <2>1. CASE \E u \in Threads : Holding(u)
    BY <1>2, <1>3, <1>4, <2>1
  <2>2. CASE ~\E u \in Threads : Holding(u)
    BY <1>2, <1>3, <1>4, <2>2
  <2> QED
    BY <2>1, <2>2
<1>5. CASE ~Holding(t) /\ Holding(t)' /\ Level(t)' = 1
  <2>1. \A u \in Threads : ~Holding(u)
    BY <1>1, <1>5 DEF MutualExclusion
  <2> QED
    BY <1>2, <1>3, <1>5, <2>1
<1>6. CASE Holding(t) /\ Holding(t)' /\ Level(t)' = Level(t) + 1
  BY <1>2, <1>3, <1>6
<1>7. CASE Holding(t) /\ Holding(t)' /\ Level(t)' = Level(t) - 1 /\ Level(t) > 1
  BY <1>2, <1>3, <1>7, LevelPositive
<1>8. CASE Holding(t) /\ ~Holding(t)' /\ Level(t) = 1
  <2>1. \A u \in Threads : ~Holding(u)'
    BY <1>1, <1>8 DEF MutualExclusion
  <2> QED
    BY <1>2, <1>3, <1>8, <2>1
<1> QED
  BY <1>4, <1>5, <1>6, <1>7, <1>8

\* Whatever the interleaving of its users, the critical section behaves as a
\* recursive lock: Enter and a successful TryEnter acquire it once, Leave
\* releases it once.
THEOREM Refinement == Spec => ImplementsRecursiveLock
<1>1. Init => Lock!LockInit
  <2> SUFFICES ASSUME Init PROVE Lock!LockInit
    OBVIOUS
  <2>1. \A t \in Threads : ~Holding(t)
    BY DEF Init, Holding
  <2> QED
    BY <2>1 DEF Lock!LockInit, Holder, HeldCount
<1>2. TypeOK /\ TypeOK' /\ HandoverInv /\ HandoverInv' /\ [Next]_vars
        => [Lock!LockNext]_(Lock!lockVars)
  <2> SUFFICES ASSUME TypeOK, TypeOK', HandoverInv, HandoverInv', [Next]_vars
               PROVE  [Lock!LockNext]_(Lock!lockVars)
    OBVIOUS
  <2>1. CASE UNCHANGED vars
    BY <2>1 DEF vars, Lock!lockVars, Holder, HeldCount, Level, Holding
  <2>2. ASSUME NEW t \in Threads, Call(t) \/ LeaveCriticalSection(t) \/ Step(t)
        PROVE  [Lock!LockNext]_(Lock!lockVars)
    <3>1. \A u \in Threads \ {t} : pc'[u] = pc[u] /\ depth'[u] = depth[u]
      BY <2>2 DEF Call, LeaveCriticalSection, Step,
         SetCriticalSectionSpinCount, EnterCriticalSection,
         TryEnterCriticalSection, TryCas, TryOwner, TryInc, SpinTest, SpinCas,
         Inc, OwnerTest, Wait, SetCount, SetOwner, ClearOwner, Unlock, Post,
         Dec, Goto, ReturnHeld, section, TypeOK
    <3>2. \A u \in Threads \ {t} : /\ Holding(u)' = Holding(u)
                                   /\ Level(u)' = Level(u)
      BY <3>1 DEF Holding, Level
    <3>3. /\ depth[t] > 0 => pc[t] \in {"out", "tryCas", "tryOwner", "tryInc",
                                        "inc", "ownerTest", "dec"}
          /\ depth[t] = 0 => pc[t] \notin {"tryInc", "dec"}
          /\ depth[t] \in Nat
          /\ OwningThread = t <=> depth[t] > 0 \/ pc[t] = "clearOwner"
          /\ pc[t] = "out" /\ depth[t] > 0 => RecursionCount = depth[t]
      BY DEF HandoverInv, Places, OwnerInv, RecursionInv, TypeOK
    <3>4. CASE Call(t)
      <4>1. Holding(t)' = Holding(t) /\ Level(t)' = Level(t)
        BY <3>4 DEF Call, SetCriticalSectionSpinCount, EnterCriticalSection,
           TryEnterCriticalSection, Holding, Level, Goto, TypeOK
      <4> QED
        BY <3>2, <4>1, LockStep
    <3>5. CASE LeaveCriticalSection(t)
      <4>1. \/ Holding(t)' = Holding(t) /\ Level(t)' = Level(t)
            \/ Holding(t) /\ Holding(t)' /\ Level(t)' = Level(t) - 1
               /\ Level(t) > 1
        BY <3>3, <3>5 DEF LeaveCriticalSection, Holding, Level, Goto, TypeOK
      <4> QED
        BY <3>2, <4>1, LockStep
    <3>6. CASE TryCas(t) \/ SpinCas(t) \/ Inc(t)
      <4>1. LockCount = -1 => ~Holding(t)
        BY FreeSection
      <4>2. \/ Holding(t)' = Holding(t) /\ Level(t)' = Level(t)
            \/ ~Holding(t) /\ Holding(t)' /\ Level(t)' = 1
        BY <3>3, <3>6, <4>1 DEF TryCas, SpinCas, Inc, Holding, Level, Goto,
           TypeOK
      <4> QED
        BY <3>2, <4>2, LockStep
    <3>7. CASE TryOwner(t) \/ OwnerTest(t)
      <4>1. \/ ~Holding(t) /\ ~Holding(t)'
            \/ Holding(t) /\ Holding(t)' /\ Level(t)' = Level(t) + 1
        BY <3>3, <3>7 DEF TryOwner, OwnerTest, Holding, Level, Goto,
           ReturnHeld, TypeOK
      <4> QED
        BY <3>2, <4>1, LockStep
    <3>8. CASE TryInc(t) \/ SpinTest(t) \/ SetCount(t) \/ SetOwner(t)
               \/ ClearOwner(t) \/ Post(t) \/ Dec(t)
      <4>1. Holding(t)' = Holding(t) /\ Level(t)' = Level(t)
        BY <3>3, <3>8 DEF TryInc, SpinTest, SetCount, SetOwner, ClearOwner,
           Post, Dec, Holding, Level, Goto, ReturnHeld, TypeOK
      <4> QED
        BY <3>2, <4>1, LockStep
    <3>9. CASE Wait(t)
      <4>1. ~Holding(t) /\ Holding(t)' /\ Level(t)' = 1
        BY <3>3, <3>9 DEF Wait, Holding, Level, Goto, TypeOK
      <4> QED
        BY <3>2, <4>1, LockStep
    <3>10. CASE Unlock(t)
      <4>1. Holding(t) /\ ~Holding(t)' /\ Level(t) = 1
        BY <3>3, <3>10 DEF Unlock, Holding, Level, Goto, TypeOK
      <4> QED
        BY <3>2, <4>1, LockStep
    <3> QED
      BY <2>2, <3>4, <3>5, <3>6, <3>7, <3>8, <3>9, <3>10 DEF Step
  <2> QED
    BY <2>1, <2>2 DEF Next
<1> QED
  BY <1>1, <1>2, TypeCorrect, Handover, PTL
     DEF Spec, ImplementsRecursiveLock, Lock!LockSpec

\* For every set of threads and nesting depth, every access of
\* EnterCriticalSection, TryEnterCriticalSection and LeaveCriticalSection to the
\* section's fields keeps their types and the accounting of the handover.
THEOREM Invariance == Spec => []Inv
  BY TypeCorrect, Handover, PTL DEF Inv

-----------------------------------------------------------------------------
(***************************************************************************)
(* The synchronization barrier.  It is a rendezvous, one thread gets TRUE  *)
(* in each phase, and the two events take turns.                           *)
(*                                                                         *)
(* The invariant names the phase the barrier is in.  Either the threads    *)
(* gather for phase p, some of them still waking up from the phase before, *)
(* one of them perhaps about to signal it; or all have entered and the     *)
(* last one is switching the barrier to phase p + 1.                       *)
(***************************************************************************)

\* Which of its fields a thread has set by the time it is somewhere.  A thread
\* in the function has a phase to go to, only threads that may spin do, and
\* after a failed assertion nothing happens.
LocalInv ==
    /\ \A t \in Participants :
         /\ at[t] # "out" => passed[t] < Loops
         /\ at[t] = "spin" => flags[t] # "BLOCK_ONLY"
    /\ remaining < 0 => Aborted

\* The event the threads of phase p wait for: the two take turns.
Ev(p) == IF p % 2 = 1 THEN "event0" ELSE "event1"

Outside == {"out", "readDormant", "enter"}
Waiting == {"spin", "block"}

\* Thread t has still to enter phase p, and knows the events of the phase as
\* far as it has read them;
Comes(t, p) ==
    /\ at[t] \in Outside /\ passed[t] = p - 1
    /\ at[t] \in {"readDormant", "enter"} => cur[t] = Ev(p)
    /\ at[t] = "enter" => dor[t] = Ev(p + 1)

\* it has entered and waits for the others;
Waits(t, p) == at[t] \in Waiting /\ passed[t] = p - 1 /\ cur[t] = Ev(p)

\* it has not woken up yet from the phase before;
Late(t, p) == at[t] \in Waiting /\ passed[t] = p - 2 /\ cur[t] = Ev(p + 1)

\* it was the last of the phase before and has still to signal.
Signals(t, p) ==
    /\ at[t] = "store" /\ stores[t] = {}
    /\ passed[t] = p - 2 /\ cur[t] = Ev(p + 1)

Arrived(p) == {t \in Participants : at[t] \notin Outside /\ passed[t] = p - 1}

\* Phases before p - 1 had their TRUE, phase p and later ones have not; phase
\* p - 1 has it once its last thread has signalled.
TruesBut(p, last) ==
    \A q \in 1 .. Loops :
        trues[q] = IF q < p - 1 \/ (q = p - 1 /\ ~ last) THEN 1 ELSE 0

\* The threads gather for phase p.
Gathering(p) ==
    /\ current = Ev(p) /\ dormant = Ev(p + 1) /\ Ev(p) \notin set
    /\ remaining = N - Cardinality(Arrived(p)) /\ remaining > 0
    /\ \A t \in Participants :
         Comes(t, p) \/ Waits(t, p) \/ Late(t, p) \/ Signals(t, p)
    /\ \A t, u \in Participants : Signals(t, p) /\ Signals(u, p) => t = u
    /\ TruesBut(p, \E t \in Participants : Signals(t, p))

\* The last thread of phase p, l, switches the barrier to phase p + 1: what is
\* still to store has the values of phase p.  The threads that spin see the
\* switch only when it is complete.
Switching(l) ==
    /\ at[l] = "store" /\ stores[l] # {}
    /\ inOrder => "current" \in stores[l]

Closing(p, l) ==
    /\ passed[l] = p - 1 /\ cur[l] = Ev(p) /\ dor[l] = Ev(p + 1)
    /\ \A t \in Participants \ {l} : Waits(t, p)
    /\ Ev(p) \notin set
    /\ \/ /\ at[l] = "last"
          /\ remaining = 0 /\ current = Ev(p) /\ dormant = Ev(p + 1)
       \/ /\ Switching(l)
          /\ remaining = IF "counter" \in stores[l] THEN 0 ELSE N
          /\ current = IF "current" \in stores[l] THEN Ev(p) ELSE Ev(p + 1)
          /\ dormant = IF "dormant" \in stores[l] THEN Ev(p + 1) ELSE Ev(p)
          /\ Ev(p + 1) \notin set
    /\ TruesBut(p, FALSE)

PhaseInv ==
    \E p \in 1 .. Loops + 1 :
        Gathering(p) \/ \E l \in Participants : Closing(p, l)

PhasesInv == BarrierTypeOK /\ LocalInv /\ (Sound => PhaseInv)

-----------------------------------------------------------------------------
(***************************************************************************)
(* Lemmas on the events, the number of threads and what a step leaves      *)
(* alone.                                                                  *)
(***************************************************************************)

\* The two events take turns.
LEMMA EvTurns ==
    ASSUME NEW p \in Int
    PROVE  /\ Ev(p) \in Events /\ Ev(p + 1) \in Events
           /\ Ev(p) # Ev(p + 1) /\ Ev(p + 2) = Ev(p)
BY DEF Ev, Events

\* There is a thread, and no more have arrived than there are.
LEMMA Counting ==
    ASSUME NEW S \in SUBSET Participants
    PROVE  /\ N \in Nat /\ N > 0
           /\ Cardinality(S) \in Nat /\ Cardinality(S) <= N
           /\ Cardinality(S) = N => S = Participants
           /\ \A t \in Participants \ S : Cardinality(S \cup {t}) = Cardinality(S) + 1
<1>1. IsFiniteSet(S) /\ IsFiniteSet(Participants)
  BY BarrierAssumption, FS_Subset
<1>2. Cardinality(Participants) \in Nat /\ Cardinality(Participants) # 0
  BY BarrierAssumption, FS_CardinalityType, FS_EmptySet
<1>3. Cardinality(S) \in Nat
  BY <1>1, FS_CardinalityType
<1>4. Cardinality(S) <= Cardinality(Participants)
      /\ (Cardinality(S) = Cardinality(Participants) => S = Participants)
  BY <1>1, FS_Subset
<1>5. \A t \in Participants \ S : Cardinality(S \cup {t}) = Cardinality(S) + 1
  BY <1>1, FS_AddElement
<1> QED BY <1>2, <1>3, <1>4, <1>5 DEF N

\* A step of one thread leaves the locals of the others alone, and nobody
\* changes its flags or the order of the stores.
LEMMA OthersAlone ==
    ASSUME BarrierTypeOK, NEW t \in Participants, EnterStep(t)
    PROVE  /\ \A u \in Participants \ {t} :
                /\ at'[u] = at[u] /\ passed'[u] = passed[u]
                /\ cur'[u] = cur[u] /\ dor'[u] = dor[u] /\ stores'[u] = stores[u]
           /\ UNCHANGED <<flags, inOrder>>
<1> USE DEF BarrierTypeOK, barrier, locals, history, MoveTo
<1>1. CASE ReadCurrent(t)
  BY <1>1 DEF ReadCurrent
<1>2. CASE ReadDormant(t)
  BY <1>2 DEF ReadDormant
<1>3. CASE Decrement(t)
  BY <1>3 DEF Decrement
<1>4. CASE SpinSees(t)
  BY <1>4 DEF SpinSees, Return_FALSE, Return
<1>5. CASE SpinGivesUp(t)
  BY <1>5 DEF SpinGivesUp
<1>6. CASE WaitReturns(t)
  BY <1>6 DEF WaitReturns, Return_FALSE, Return
<1>7. CASE ResetDormant(t)
  BY <1>7 DEF ResetDormant
<1>8. CASE \E s \in {"counter", "dormant", "current"} : Store(t, s)
  BY <1>8 DEF Store
<1>9. CASE Signal(t)
  BY <1>9 DEF Signal, Return_TRUE, Return
<1> QED BY <1>1, <1>2, <1>3, <1>4, <1>5, <1>6, <1>7, <1>8, <1>9 DEF EnterStep

\* A thread whose locals do not change stays what it is to phase p.
LEMMA SameRole ==
    ASSUME NEW p, NEW u \in Participants,
           at'[u] = at[u], passed'[u] = passed[u], cur'[u] = cur[u],
           dor'[u] = dor[u], stores'[u] = stores[u]
    PROVE  /\ Comes(u, p)' <=> Comes(u, p)
           /\ Waits(u, p)' <=> Waits(u, p)
           /\ Late(u, p)' <=> Late(u, p)
           /\ Signals(u, p)' <=> Signals(u, p)
           /\ u \in Arrived(p)' <=> u \in Arrived(p)
BY DEF Comes, Waits, Late, Signals, Arrived

-----------------------------------------------------------------------------
(***************************************************************************)
(* Types and local facts, whatever the order of the stores.                *)
(***************************************************************************)

\* Every step keeps them.
LEMMA LocalStep ==
    ASSUME BarrierTypeOK, LocalInv, [BarrierNext]_barrierVars
    PROVE  BarrierTypeOK' /\ LocalInv'
<1>0. N \in Nat /\ N > 0 /\ Loops \in Nat
  BY BarrierAssumption, Counting
<1>1. CASE UNCHANGED barrierVars
  BY <1>1 DEF BarrierTypeOK, LocalInv, Aborted, barrierVars, barrier, locals, history
<1>2. CASE BarrierNext
  <2>0. ~ Aborted
    BY <1>2 DEF BarrierNext
  <2> USE <1>0, <2>0 DEF BarrierTypeOK, LocalInv, Aborted, barrier, locals, history, MoveTo
  <2>1. CASE Delete
    BY <2>1 DEF Delete
  <2>2. ASSUME NEW t \in Participants, EnterStep(t) PROVE BarrierTypeOK' /\ LocalInv'
    <3>1. CASE ReadCurrent(t)
      BY <3>1 DEF ReadCurrent
    <3>2. CASE ReadDormant(t)
      BY <3>2 DEF ReadDormant
    <3>3. CASE Decrement(t)
      <4>1. /\ remaining' = remaining - 1 /\ remaining' \in -1 .. N
            /\ UNCHANGED <<current, dormant, set, locals, deleted, flags,
                           inOrder, history>>
        BY <3>3 DEF Decrement
      <4>2. at' \in [Participants -> {"spin", "block", "last", "assert", "out",
                                 "readDormant", "enter", "store"}]
        BY <3>3 DEF Decrement
      <4>3. remaining' < 0 => at'[t] = "assert"
        BY <3>3 DEF Decrement
      <4>4. at'[t] = "spin" => flags[t] # "BLOCK_ONLY"
        BY <3>3 DEF Decrement, Spins
      <4>5. passed[t] < Loops
        BY <3>3 DEF Decrement
      <4>6. \A u \in Participants \ {t} : at'[u] = at[u]
        BY <3>3 DEF Decrement
      <4> QED BY <4>1, <4>2, <4>3, <4>4, <4>5, <4>6
    <3>4. CASE SpinSees(t)
      BY <3>4 DEF SpinSees, Return_FALSE, Return
    <3>5. CASE SpinGivesUp(t)
      BY <3>5 DEF SpinGivesUp
    <3>6. CASE WaitReturns(t)
      BY <3>6 DEF WaitReturns, Return_FALSE, Return
    <3>7. CASE ResetDormant(t)
      BY <3>7 DEF ResetDormant
    <3>8. ASSUME NEW s \in {"counter", "dormant", "current"}, Store(t, s)
          PROVE  BarrierTypeOK' /\ LocalInv'
      BY <3>8 DEF Store
    <3>9. CASE Signal(t)
      <4>1. /\ set' \subseteq Events /\ at' = [at EXCEPT ![t] = "out"]
            /\ passed' = [passed EXCEPT ![t] = @ + 1]
            /\ UNCHANGED <<remaining, current, dormant, locals, deleted, flags,
                           inOrder>>
        BY <3>9 DEF Signal, Return_TRUE, Return
      <4>3. passed[t] < Loops
        BY <3>9 DEF Signal
      <4>2. trues' \in [1 .. Loops -> Nat]
        <5> DEFINE q == passed[t] + 1
        <5>1. q \in 1 .. Loops
          BY <4>3
        <5>2. trues' = [trues EXCEPT ![q] = @ + 1]
          BY <3>9 DEF Signal, Return_TRUE
        <5> HIDE DEF q
        <5> QED BY <5>1, <5>2
      <4> QED BY <4>1, <4>2, <4>3
    <3> QED
      BY <2>2, <3>1, <3>2, <3>3, <3>4, <3>5, <3>6, <3>7, <3>8, <3>9 DEF EnterStep
  <2> QED BY <1>2, <2>1, <2>2 DEF BarrierNext
<1> QED BY <1>1, <1>2

-----------------------------------------------------------------------------
(***************************************************************************)
(* The threads gather for phase p.                                         *)
(***************************************************************************)

\* A step of thread t that leaves the counter, the events' roles and the
\* history of TRUEs alone keeps the threads gathering, if it leaves t a part
\* to play and neither brings it to the barrier nor makes it one to signal.
LEMMA GatheringKept ==
    ASSUME BarrierTypeOK, NEW p \in 1 .. Loops + 1, Gathering(p),
           NEW t \in Participants, EnterStep(t), ~ Signals(t, p),
           UNCHANGED <<remaining, current, dormant, set, trues>>,
           Comes(t, p)' \/ Waits(t, p)', ~ Signals(t, p)',
           t \in Arrived(p)' <=> t \in Arrived(p)
    PROVE  Gathering(p)'
<1>1. \A u \in Participants \ {t} :
        /\ Comes(u, p)' <=> Comes(u, p)
        /\ Waits(u, p)' <=> Waits(u, p)
        /\ Late(u, p)' <=> Late(u, p)
        /\ Signals(u, p)' <=> Signals(u, p)
        /\ u \in Arrived(p)' <=> u \in Arrived(p)
  BY OthersAlone, SameRole
<1>2. Arrived(p)' = Arrived(p)
  <2>1. Arrived(p)' \subseteq Participants /\ Arrived(p) \subseteq Participants
    BY DEF Arrived
  <2> QED BY <1>1, <2>1
<1>3. Ev(p)' = Ev(p) /\ Ev(p + 1)' = Ev(p + 1) /\ N' = N
  BY DEF Ev, N
<1>4. \A u \in Participants : (Comes(u, p) \/ Waits(u, p) \/ Late(u, p) \/ Signals(u, p))'
  BY <1>1 DEF Gathering
<1>5. \A u \in Participants : Signals(u, p)' <=> Signals(u, p)
  BY <1>1
<1>6. \A u, v \in Participants : (Signals(u, p) /\ Signals(v, p) => u = v)'
  BY <1>5 DEF Gathering
<1>7. TruesBut(p, \E u \in Participants : Signals(u, p))'
  <2>1. (\E u \in Participants : Signals(u, p))' <=> (\E u \in Participants : Signals(u, p))
    BY <1>5
  <2> QED BY <2>1 DEF Gathering, TruesBut
<1> QED BY <1>2, <1>3, <1>4, <1>6, <1>7 DEF Gathering

\* A thread that enters: the others are as before, one more has arrived.
LEMMA GatheringEnter ==
    ASSUME BarrierTypeOK, LocalInv, NEW p \in 1 .. Loops + 1, Gathering(p),
           NEW t \in Participants, Decrement(t)
    PROVE  Gathering(p)' \/ Closing(p, t)'
<1>1. EnterStep(t)
  BY DEF EnterStep
<1>2. /\ at[t] = "enter" /\ passed[t] = p - 1
      /\ cur[t] = Ev(p) /\ dor[t] = Ev(p + 1)
  BY DEF Decrement, Gathering, Comes, Waits, Late, Signals, Waiting, Outside
<1>3. /\ remaining' = remaining - 1 /\ remaining \in 1 .. N
      /\ UNCHANGED <<current, dormant, set, cur, dor, stores, passed, trues>>
  BY DEF Decrement, Gathering, BarrierTypeOK, locals, history
<1>4. /\ at'[t] \in {"last", "spin", "block"}
      /\ at'[t] = "last" <=> remaining = 1
  BY <1>3 DEF Decrement, MoveTo, BarrierTypeOK
<1>5. \A u \in Participants \ {t} :
        /\ Comes(u, p)' <=> Comes(u, p)
        /\ Waits(u, p)' <=> Waits(u, p)
        /\ Late(u, p)' <=> Late(u, p)
        /\ Signals(u, p)' <=> Signals(u, p)
        /\ u \in Arrived(p)' <=> u \in Arrived(p)
  BY <1>1, OthersAlone, SameRole
<1>6. Arrived(p) \subseteq Participants /\ t \notin Arrived(p)
  BY <1>2 DEF Arrived, Outside
<1>7. Arrived(p)' = Arrived(p) \cup {t}
  <2>1. t \in Arrived(p)' /\ Arrived(p)' \subseteq Participants
    BY <1>2, <1>3, <1>4 DEF Arrived, Outside
  <2> QED BY <1>5, <1>6, <2>1
<1>8. Cardinality(Arrived(p)') = Cardinality(Arrived(p)) + 1
  BY <1>6, <1>7, Counting
<1>9. Cardinality(Arrived(p)) \in Nat /\ N \in Nat
      /\ remaining = N - Cardinality(Arrived(p))
  BY <1>6, Counting DEF Gathering
<1>10. ~ Signals(t, p) /\ ~ Signals(t, p)'
  BY <1>2, <1>4 DEF Signals
<1>11. Ev(p)' = Ev(p) /\ Ev(p + 1)' = Ev(p + 1) /\ N' = N
  BY DEF Ev, N
<1>12. CASE remaining # 1
  <2>1. Waits(t, p)'
    BY <1>2, <1>3, <1>4, <1>11, <1>12 DEF Waits, Waiting
  <2>2. \A u \in Participants : (Comes(u, p) \/ Waits(u, p) \/ Late(u, p) \/ Signals(u, p))'
    BY <1>5, <2>1 DEF Gathering
  <2>3. \A u \in Participants : Signals(u, p)' <=> Signals(u, p)
    BY <1>5, <1>10
  <2>4. \A u, v \in Participants : (Signals(u, p) /\ Signals(v, p) => u = v)'
    BY <2>3 DEF Gathering
  <2>5. TruesBut(p, \E u \in Participants : Signals(u, p))'
    <3>1. (\E u \in Participants : Signals(u, p))' <=> (\E u \in Participants : Signals(u, p))
      BY <2>3
    <3> QED BY <1>3, <3>1 DEF Gathering, TruesBut
  <2>6. (remaining = N - Cardinality(Arrived(p)) /\ remaining > 0)'
    BY <1>3, <1>8, <1>9, <1>11, <1>12
  <2>7. (current = Ev(p) /\ dormant = Ev(p + 1) /\ Ev(p) \notin set)'
    BY <1>3, <1>11 DEF Gathering
  <2> QED BY <2>2, <2>4, <2>5, <2>6, <2>7 DEF Gathering
<1>13. CASE remaining = 1
  <2>1. Arrived(p)' = Participants
    <3>1. Cardinality(Arrived(p) \cup {t}) = N
      BY <1>7, <1>8, <1>9, <1>13
    <3>2. Arrived(p) \cup {t} \in SUBSET Participants
      BY <1>6
    <3> QED BY <1>7, <3>1, <3>2, Counting
  <2>2. \A u \in Participants \ {t} : Waits(u, p)
    BY <1>7, <2>1 DEF Gathering, Comes, Late, Signals, Arrived, Outside, BarrierTypeOK
  <2>3. \A u \in Participants \ {t} : Waits(u, p)'
    BY <1>5, <2>2
  <2>4. \A u \in Participants : ~ Signals(u, p)
    BY <1>10, <2>2 DEF Waits, Signals, Waiting
  <2>5. TruesBut(p, FALSE)
    BY <2>4 DEF Gathering, TruesBut
  <2>6. TruesBut(p, FALSE)'
    BY <1>3, <2>5 DEF TruesBut
  <2>7. at'[t] = "last" /\ remaining' = 0
    BY <1>3, <1>4, <1>13
  <2> QED
    BY <1>2, <1>3, <1>11, <2>3, <2>6, <2>7 DEF Closing, Gathering
<1> QED BY <1>12, <1>13

\* The last thread of the phase before signals: nobody is left to do so, and
\* that phase has had its TRUE.
LEMMA GatheringSignal ==
    ASSUME BarrierTypeOK, LocalInv, NEW p \in 1 .. Loops + 1, Gathering(p),
           NEW t \in Participants, Signal(t)
    PROVE  Gathering(p)'
<1>1. EnterStep(t)
  BY DEF EnterStep
<1>2. Signals(t, p)
  BY DEF Signal, Gathering, Comes, Waits, Late, Waiting, Outside
<1>3. \A u \in Participants \ {t} :
        /\ Comes(u, p)' <=> Comes(u, p)
        /\ Waits(u, p)' <=> Waits(u, p)
        /\ Late(u, p)' <=> Late(u, p)
        /\ Signals(u, p)' <=> Signals(u, p)
        /\ u \in Arrived(p)' <=> u \in Arrived(p)
  BY <1>1, OthersAlone, SameRole
<1>4. /\ at'[t] = "out" /\ passed'[t] = p - 1
      /\ set' = set \cup {Ev(p + 1)}
      /\ UNCHANGED <<remaining, current, dormant, locals>>
  BY <1>2 DEF Signal, Signals, Return_TRUE, Return, MoveTo, BarrierTypeOK
<1>5. Comes(t, p)' /\ ~ Signals(t, p)'
  BY <1>4 DEF Comes, Signals, Outside
<1>6. \A u \in Participants : ~ Signals(u, p)'
  BY <1>2, <1>3, <1>5 DEF Gathering
<1>7. Arrived(p)' = Arrived(p)
  <2>1. Arrived(p)' \subseteq Participants /\ Arrived(p) \subseteq Participants
    BY DEF Arrived
  <2>2. t \notin Arrived(p)'
    BY <1>4 DEF Arrived, Outside
  <2>3. t \notin Arrived(p)
    BY <1>2 DEF Arrived, Signals
  <2> QED BY <1>3, <2>1, <2>2, <2>3
<1>8. Ev(p)' = Ev(p) /\ Ev(p + 1)' = Ev(p + 1) /\ N' = N
  BY DEF Ev, N
<1>9. (current = Ev(p) /\ dormant = Ev(p + 1) /\ Ev(p) \notin set)'
  BY <1>4, <1>8, EvTurns DEF Gathering
<1>10. TruesBut(p, \E u \in Participants : Signals(u, p))'
  <2> DEFINE q == p - 1
  <2>1. q \in 1 .. Loops
    BY <1>2, BarrierAssumption DEF Signals, BarrierTypeOK
  <2>2. passed[t] + 1 = q
    BY <1>2 DEF Signals
  <2>3. trues' = [trues EXCEPT ![q] = trues[q] + 1]
    BY <2>2 DEF Signal, Return_TRUE
  <2>4. TruesBut(p, TRUE)
    BY <1>2 DEF Gathering, TruesBut
  <2>5. \A r \in 1 .. Loops : trues[r] = IF r < q THEN 1 ELSE 0
    BY <2>4 DEF TruesBut
  <2> HIDE DEF q
  <2>6. \A r \in 1 .. Loops :
          trues'[r] = IF r < q \/ r = q THEN 1 ELSE 0
    BY <2>1, <2>3, <2>5 DEF BarrierTypeOK
  <2>7. TruesBut(p, FALSE)'
    BY <2>6 DEF TruesBut, q
  <2> QED BY <1>6, <2>7 DEF TruesBut
<1>11. \A u \in Participants : (Comes(u, p) \/ Waits(u, p) \/ Late(u, p) \/ Signals(u, p))'
  BY <1>3, <1>5 DEF Gathering
<1>12. (remaining = N - Cardinality(Arrived(p)) /\ remaining > 0)'
  BY <1>4, <1>7, <1>8 DEF Gathering
<1> QED BY <1>6, <1>9, <1>10, <1>11, <1>12 DEF Gathering

\* Every step while the threads gather.
LEMMA GatheringStep ==
    ASSUME BarrierTypeOK, LocalInv, NEW p \in 1 .. Loops + 1, Gathering(p),
           NEW t \in Participants, EnterStep(t)
    PROVE  Gathering(p)' \/ Closing(p, t)'
<1> USE DEF barrier, locals, history, MoveTo, Outside, Waiting
<1>0. /\ Ev(p)' = Ev(p) /\ Ev(p + 1)' = Ev(p + 1)
      /\ Ev(p) # Ev(p + 1) /\ current = Ev(p) /\ dormant = Ev(p + 1)
      /\ Ev(p) \notin set
  BY EvTurns DEF Ev, Gathering
<1>1. Comes(t, p) \/ Waits(t, p) \/ Late(t, p) \/ Signals(t, p)
  BY DEF Gathering
<1>2. CASE ReadCurrent(t)
  <2>1. Comes(t, p) /\ at[t] = "out"
    BY <1>1, <1>2 DEF ReadCurrent, Waits, Late, Signals
  <2>2. Comes(t, p)' /\ ~ Signals(t, p) /\ ~ Signals(t, p)'
    BY <1>0, <1>2, <2>1 DEF ReadCurrent, Comes, Signals, BarrierTypeOK
  <2>3. t \notin Arrived(p) /\ t \notin Arrived(p)'
    BY <2>1, <2>2 DEF Arrived, Comes
  <2> QED BY <1>2, <2>2, <2>3, GatheringKept DEF ReadCurrent
<1>3. CASE ReadDormant(t)
  <2>1. Comes(t, p) /\ at[t] = "readDormant"
    BY <1>1, <1>3 DEF ReadDormant, Waits, Late, Signals
  <2>2. Comes(t, p)' /\ ~ Signals(t, p) /\ ~ Signals(t, p)'
    BY <1>0, <1>3, <2>1 DEF ReadDormant, Comes, Signals, BarrierTypeOK
  <2>3. t \notin Arrived(p) /\ t \notin Arrived(p)'
    BY <2>1, <2>2 DEF Arrived, Comes
  <2> QED BY <1>3, <2>2, <2>3, GatheringKept DEF ReadDormant
<1>4. CASE Decrement(t)
  BY <1>4, GatheringEnter
<1>5. CASE SpinSees(t) \/ WaitReturns(t)
  <2>1. Late(t, p)
    BY <1>0, <1>1, <1>5 DEF SpinSees, WaitReturns, Comes, Waits, Signals
  <2>2. /\ at'[t] = "out" /\ passed'[t] = p - 1
        /\ UNCHANGED <<remaining, current, dormant, set, trues, cur, dor, stores>>
    BY <1>5, <2>1 DEF SpinSees, WaitReturns, Return_FALSE, Return, Late, BarrierTypeOK
  <2>3. Comes(t, p)' /\ ~ Signals(t, p) /\ ~ Signals(t, p)'
    BY <2>1, <2>2 DEF Comes, Late, Signals
  <2>4. t \notin Arrived(p) /\ t \notin Arrived(p)'
    BY <2>1, <2>2 DEF Arrived, Late
  <2> QED BY <2>2, <2>3, <2>4, GatheringKept
<1>6. CASE SpinGivesUp(t)
  <2>1. Waits(t, p)
    BY <1>0, <1>1, <1>6 DEF SpinGivesUp, Comes, Late, Signals
  <2>2. Waits(t, p)' /\ ~ Signals(t, p) /\ ~ Signals(t, p)'
    BY <1>0, <1>6, <2>1 DEF SpinGivesUp, Waits, Signals, BarrierTypeOK
  <2>3. t \in Arrived(p) /\ t \in Arrived(p)'
    BY <2>1, <2>2 DEF Arrived, Waits
  <2> QED BY <1>6, <2>2, <2>3, GatheringKept DEF SpinGivesUp
<1>7. CASE ResetDormant(t)
  BY <1>1, <1>7 DEF ResetDormant, Comes, Waits, Late, Signals
<1>8. CASE \E s \in {"counter", "dormant", "current"} : Store(t, s)
  BY <1>1, <1>8 DEF Store, MayStore, Comes, Waits, Late, Signals
<1>9. CASE Signal(t)
  BY <1>9, GatheringSignal
<1> QED BY <1>2, <1>3, <1>4, <1>5, <1>6, <1>7, <1>8, <1>9 DEF EnterStep

-----------------------------------------------------------------------------
(***************************************************************************)
(* The last thread of phase p, l, switches the barrier.                    *)
(***************************************************************************)

\* Meanwhile no other thread can leave: the event of the phase is not set, and
\* one that spins has not seen the switch.
LEMMA ClosingOther ==
    ASSUME BarrierTypeOK, LocalInv, Sound, NEW p \in 1 .. Loops + 1, NEW l \in Participants,
           Closing(p, l), NEW t \in Participants \ {l}, EnterStep(t)
    PROVE  Closing(p, l)'
<1> USE DEF barrier, locals, history, MoveTo, Waiting
<1>1. Waits(t, p) /\ Ev(p) \notin set
  BY DEF Closing
<1>2. at[t] = "spin" => current = Ev(p)
  <2>1. at[t] = "spin" => inOrder
    BY DEF Sound, LocalInv
  <2> QED BY <2>1 DEF Closing, Switching
<1>3. SpinGivesUp(t)
  BY <1>1, <1>2
  DEF EnterStep, Waits, ReadCurrent, ReadDormant, Decrement, SpinSees, WaitReturns,
      ResetDormant, Store, Signal
<1>4. /\ at'[t] = "block"
      /\ UNCHANGED <<remaining, current, dormant, set, cur, dor, stores, passed,
                     trues, inOrder>>
  BY <1>3 DEF SpinGivesUp, BarrierTypeOK
<1>5. Ev(p)' = Ev(p) /\ Ev(p + 1)' = Ev(p + 1) /\ N' = N
  BY DEF Ev, N
<1>6. \A u \in Participants \ {l} : Waits(u, p)'
  <2>1. Waits(t, p)'
    BY <1>1, <1>4, <1>5 DEF Waits
  <2>2. \A u \in Participants \ {l, t} : Waits(u, p)'
    BY OthersAlone, SameRole DEF Closing
  <2> QED BY <2>1, <2>2
<1>7. at'[l] = at[l]
  BY OthersAlone
<1>8. TruesBut(p, FALSE)'
  BY <1>4 DEF Closing, TruesBut
<1> QED BY <1>4, <1>5, <1>6, <1>7, <1>8 DEF Closing, Switching

\* The last thread resets the dormant event and then makes its stores.  After
\* the last of them the threads gather for phase p + 1.
LEMMA ClosingLast ==
    ASSUME BarrierTypeOK, LocalInv, NEW p \in 1 .. Loops + 1, NEW l \in Participants,
           Closing(p, l), EnterStep(l)
    PROVE  Closing(p, l)' \/ (p + 1 \in 1 .. Loops + 1 /\ Gathering(p + 1)')
<1> USE DEF barrier, locals, history, MoveTo
<1>1. Ev(p)' = Ev(p) /\ Ev(p + 1)' = Ev(p + 1) /\ N' = N
  BY DEF Ev, N
<1>2. /\ Ev(p) # Ev(p + 1) /\ Ev(p + 2) = Ev(p)
  BY EvTurns
<1>3. \A u \in Participants \ {l} : Waits(u, p)'
  BY OthersAlone, SameRole DEF Closing
<1>4. CASE ResetDormant(l)
  <2>1. /\ at[l] = "last" /\ at'[l] = "store"
        /\ stores'[l] = {"counter", "dormant", "current"}
        /\ set' = set \ {Ev(p + 1)}
        /\ UNCHANGED <<remaining, current, dormant, cur, dor, passed, trues,
                       inOrder>>
    BY <1>4 DEF ResetDormant, Closing, BarrierTypeOK
  <2>2. /\ remaining = 0 /\ current = Ev(p) /\ dormant = Ev(p + 1)
        /\ Ev(p) \notin set
        /\ passed[l] = p - 1 /\ cur[l] = Ev(p) /\ dor[l] = Ev(p + 1)
    BY <2>1 DEF Closing, Switching
  <2>3. TruesBut(p, FALSE)'
    BY <2>1 DEF Closing, TruesBut
  <2>4. Switching(l)'
    BY <2>1 DEF Switching
  <2>5. /\ (remaining = IF "counter" \in stores[l] THEN 0 ELSE N)'
        /\ (current = IF "current" \in stores[l] THEN Ev(p) ELSE Ev(p + 1))'
        /\ (dormant = IF "dormant" \in stores[l] THEN Ev(p + 1) ELSE Ev(p))'
        /\ (Ev(p + 1) \notin set /\ Ev(p) \notin set)'
        /\ (passed[l] = p - 1 /\ cur[l] = Ev(p) /\ dor[l] = Ev(p + 1))'
    BY <1>1, <1>2, <2>1, <2>2
  <2> QED BY <1>3, <2>3, <2>4, <2>5 DEF Closing
<1>5. ASSUME NEW s \in {"counter", "dormant", "current"}, Store(l, s)
      PROVE  Closing(p, l)' \/ (p + 1 \in 1 .. Loops + 1 /\ Gathering(p + 1)')
  <2>1. /\ at[l] = "store" /\ at'[l] = "store" /\ s \in stores[l]
        /\ stores'[l] = stores[l] \ {s}
        /\ remaining' = IF s = "counter" THEN N ELSE remaining
        /\ current' = IF s = "current" THEN dor[l] ELSE current
        /\ dormant' = IF s = "dormant" THEN cur[l] ELSE dormant
        /\ UNCHANGED <<set, cur, dor, passed, trues, inOrder>>
    BY <1>5 DEF Store, MayStore, BarrierTypeOK
  <2>2. /\ Switching(l)
        /\ remaining = IF "counter" \in stores[l] THEN 0 ELSE N
        /\ current = IF "current" \in stores[l] THEN Ev(p) ELSE Ev(p + 1)
        /\ dormant = IF "dormant" \in stores[l] THEN Ev(p + 1) ELSE Ev(p)
        /\ Ev(p + 1) \notin set /\ Ev(p) \notin set
        /\ passed[l] = p - 1 /\ cur[l] = Ev(p) /\ dor[l] = Ev(p + 1)
        /\ TruesBut(p, FALSE)
    BY <2>1 DEF Closing
  <2>3. /\ (remaining = IF "counter" \in stores[l] THEN 0 ELSE N)'
        /\ (current = IF "current" \in stores[l] THEN Ev(p) ELSE Ev(p + 1))'
        /\ (dormant = IF "dormant" \in stores[l] THEN Ev(p + 1) ELSE Ev(p))'
        /\ (Ev(p + 1) \notin set /\ Ev(p) \notin set)'
        /\ (passed[l] = p - 1 /\ cur[l] = Ev(p) /\ dor[l] = Ev(p + 1))'
    BY <1>1, <2>1, <2>2
  <2>4. TruesBut(p, FALSE)'
    BY <2>1, <2>2 DEF TruesBut
  <2>5. CASE stores'[l] # {}
    <3>1. inOrder /\ s = "current" => stores[l] = {"current"}
      BY <1>5 DEF Store, MayStore
    <3>2. Switching(l)'
      BY <2>1, <2>2, <2>5, <3>1 DEF Switching
    <3> QED BY <1>3, <2>3, <2>4, <3>2 DEF Closing
  <2>6. CASE stores'[l] = {}
    <3> DEFINE n == p + 1
    <3>1. n \in 1 .. Loops + 1 /\ p \in Int /\ n - 1 = p /\ n - 2 = p - 1
      BY <2>1, <2>2, BarrierAssumption DEF LocalInv
    <3>2. Ev(n) = Ev(p + 1) /\ Ev(n + 1) = Ev(p)
      BY <1>2, <3>1 DEF Ev
    <3>3. Ev(n)' = Ev(n) /\ Ev(n + 1)' = Ev(n + 1)
      BY DEF Ev
    <3> HIDE DEF n
    <3>4. remaining' = N /\ current' = Ev(n) /\ dormant' = Ev(n + 1) /\ Ev(n) \notin set'
      BY <1>1, <2>3, <2>6, <3>2
    <3>5. Signals(l, n)'
      BY <2>1, <2>3, <2>6, <3>1, <3>2, <3>3, <1>1 DEF Signals
    <3>6. \A u \in Participants \ {l} : Late(u, n)' /\ ~ Signals(u, n)'
      BY <1>1, <1>3, <3>1, <3>2, <3>3 DEF Waits, Late, Signals, Waiting
    <3>7. Arrived(n)' = {}
      <4>1. \A u \in Participants : passed'[u] # n - 1
        BY <1>3, <2>3, <3>1 DEF Waits
      <4> QED BY <4>1 DEF Arrived
    <3>8. Cardinality(Arrived(n)') = 0 /\ N \in Nat /\ N > 0
      BY <3>7, FS_EmptySet, Counting
    <3>9. TruesBut(n, \E u \in Participants : Signals(u, n))'
      <4>1. TruesBut(n, TRUE)'
        BY <2>4, <3>1 DEF TruesBut
      <4> QED BY <3>5, <4>1 DEF TruesBut
    <3>10. (remaining = N - Cardinality(Arrived(n)) /\ remaining > 0)'
      BY <1>1, <3>4, <3>8
    <3>11. Gathering(n)'
      BY <3>3, <3>4, <3>5, <3>6, <3>9, <3>10 DEF Gathering
    <3> QED BY <3>1, <3>11 DEF n
  <2> QED BY <2>5, <2>6
<1> QED
  BY <1>4, <1>5
  DEF EnterStep, Closing, Switching, ReadCurrent, ReadDormant, Decrement, SpinSees,
      SpinGivesUp, WaitReturns, Signal

-----------------------------------------------------------------------------
(***************************************************************************)
(* The invariant and the theorems.                                         *)
(***************************************************************************)

\* A step that leaves the barrier and the threads alone leaves the phase alone.
LEMMA PhaseSame ==
    ASSUME PhaseInv,
           UNCHANGED <<remaining, current, dormant, set, at, cur, dor, stores,
                       inOrder, passed, trues>>
    PROVE  PhaseInv'
<1>1. PICK p \in 1 .. Loops + 1 : Gathering(p) \/ \E l \in Participants : Closing(p, l)
  BY DEF PhaseInv
<1>2. Ev(p)' = Ev(p) /\ Ev(p + 1)' = Ev(p + 1) /\ N' = N /\ Arrived(p)' = Arrived(p)
  BY DEF Ev, N, Arrived
<1>3. \A t \in Participants :
        /\ Comes(t, p)' <=> Comes(t, p)
        /\ Waits(t, p)' <=> Waits(t, p)
        /\ Late(t, p)' <=> Late(t, p)
        /\ Signals(t, p)' <=> Signals(t, p)
        /\ Switching(t)' <=> Switching(t)
  BY SameRole DEF Switching
<1>4. CASE Gathering(p)
  <2>1. TruesBut(p, \E u \in Participants : Signals(u, p))'
    <3>1. (\E u \in Participants : Signals(u, p))' <=> (\E u \in Participants : Signals(u, p))
      BY <1>3
    <3> QED BY <1>4, <3>1 DEF Gathering, TruesBut
  <2>2. Gathering(p)'
    BY <1>2, <1>3, <1>4, <2>1 DEF Gathering
  <2> QED BY <2>2 DEF PhaseInv
<1>5. ASSUME NEW l \in Participants, Closing(p, l) PROVE PhaseInv'
  <2>1. TruesBut(p, FALSE)'
    BY <1>5 DEF Closing, TruesBut
  <2>2. Closing(p, l)'
    BY <1>2, <1>3, <1>5, <2>1 DEF Closing
  <2> QED BY <2>2 DEF PhaseInv
<1> QED BY <1>1, <1>4, <1>5

\* The barrier is in a phase at every moment.
LEMMA PhaseStep ==
    ASSUME BarrierTypeOK, LocalInv, Sound, PhaseInv, [BarrierNext]_barrierVars
    PROVE  PhaseInv'
<1>1. CASE UNCHANGED barrierVars
  BY <1>1, PhaseSame DEF barrierVars, barrier, locals, history
<1>2. CASE Delete
  BY <1>2, PhaseSame DEF Delete, barrier, locals, history
<1>3. ASSUME NEW t \in Participants, EnterStep(t) PROVE PhaseInv'
  <2>1. PICK p \in 1 .. Loops + 1 : Gathering(p) \/ \E l \in Participants : Closing(p, l)
    BY DEF PhaseInv
  <2>2. CASE Gathering(p)
    <3>1. Gathering(p)' \/ Closing(p, t)'
      BY <1>3, <2>2, GatheringStep
    <3> QED BY <3>1 DEF PhaseInv
  <2>3. ASSUME NEW l \in Participants, Closing(p, l) PROVE PhaseInv'
    <3>1. CASE t = l
      <4>1. Closing(p, l)' \/ (p + 1 \in 1 .. Loops + 1 /\ Gathering(p + 1)')
        BY <1>3, <2>3, <3>1, ClosingLast
      <4> DEFINE n == p + 1
      <4>2. Closing(p, l)' \/ (n \in 1 .. Loops + 1 /\ Gathering(n)')
        BY <4>1
      <4> HIDE DEF n
      <4> QED BY <4>2 DEF PhaseInv
    <3>2. CASE t # l
      <4>1. Closing(p, l)'
        BY <1>3, <2>3, <3>2, ClosingOther
      <4> QED BY <4>1 DEF PhaseInv
    <3> QED BY <3>1, <3>2
  <2> QED BY <2>1, <2>2, <2>3
<1> QED BY <1>1, <1>2, <1>3 DEF BarrierNext

\* Nobody changes whether the build keeps the order of the stores, nor the
\* flags of a thread.
LEMMA SoundKept ==
    ASSUME BarrierTypeOK, [BarrierNext]_barrierVars
    PROVE  Sound' <=> Sound
<1>1. UNCHANGED <<flags, inOrder>>
  <2>1. CASE UNCHANGED barrierVars
    BY <2>1 DEF barrierVars
  <2>2. CASE Delete
    BY <2>2 DEF Delete
  <2>3. ASSUME NEW t \in Participants, EnterStep(t) PROVE UNCHANGED <<flags, inOrder>>
    BY <2>3, OthersAlone
  <2> QED BY <2>1, <2>2, <2>3 DEF BarrierNext
<1> QED BY <1>1 DEF Sound

\* The whole invariant holds at first and after every step.
LEMMA PhasesInvariant == BarrierSpec => []PhasesInv
<1>1. BarrierInit => PhasesInv
  <2> SUFFICES ASSUME BarrierInit PROVE PhasesInv
    OBVIOUS
  <2>0. N \in Nat /\ N > 0 /\ Loops \in Nat
    BY BarrierAssumption, Counting
  <2>1. BarrierTypeOK
    <3>1. remaining \in -1 .. N /\ passed \in [Participants -> 0 .. Loops]
      BY <2>0 DEF BarrierInit
    <3>2. trues \in [1 .. Loops -> Nat]
      BY DEF BarrierInit
    <3>3. stores \in [Participants -> SUBSET {"counter", "dormant", "current"}]
      BY DEF BarrierInit
    <3> QED BY <3>1, <3>2, <3>3 DEF BarrierInit, BarrierTypeOK, Events
  <2>2. LocalInv
    BY <2>0 DEF BarrierInit, LocalInv
  <2>3. Gathering(1)
    <3>1. Ev(1) = "event0" /\ Ev(2) = "event1" /\ 1 + 1 = 2 /\ 1 - 1 = 0
      BY DEF Ev
    <3>2. Arrived(1) = {}
      BY DEF BarrierInit, Arrived, Outside
    <3>3. Cardinality(Arrived(1)) = 0
      BY <3>2, FS_EmptySet
    <3>4. \A t \in Participants : Comes(t, 1) /\ ~ Signals(t, 1)
      BY <3>1 DEF BarrierInit, Comes, Signals, Outside
    <3>5. TruesBut(1, \E t \in Participants : Signals(t, 1))
      BY <3>1, <3>4 DEF BarrierInit, TruesBut
    <3>6. current = Ev(1) /\ dormant = Ev(1 + 1) /\ Ev(1) \notin set
      BY <3>1 DEF BarrierInit
    <3>7. remaining = N - Cardinality(Arrived(1)) /\ remaining > 0
      BY <2>0, <3>3 DEF BarrierInit
    <3> QED BY <3>4, <3>5, <3>6, <3>7 DEF Gathering
  <2>4. PhaseInv
    <3>1. 1 \in 1 .. Loops + 1
      BY <2>0
    <3> QED BY <2>3, <3>1 DEF PhaseInv
  <2> QED BY <2>1, <2>2, <2>4 DEF PhasesInv
<1>2. PhasesInv /\ [BarrierNext]_barrierVars => PhasesInv'
  BY LocalStep, PhaseStep, SoundKept DEF PhasesInv
<1> QED BY <1>1, <1>2, PTL DEF BarrierSpec

\* What each thread may be, in either half of a phase.
LEMMA PhaseRoles ==
    ASSUME BarrierTypeOK, NEW p \in 1 .. Loops + 1,
           Gathering(p) \/ \E l \in Participants : Closing(p, l)
    PROVE  /\ \A t \in Participants :
                /\ passed[t] \in {p - 2, p - 1} /\ Entered(t) \in {p - 1, p}
                /\ at[t] # "assert"
                /\ at[t] \in Waiting =>
                     (passed[t] = p - 1 /\ cur[t] = Ev(p)) \/ Late(t, p)
           /\ Ev(p) \notin set
<1> USE DEF Entered, Waiting, Outside, Comes, Waits, Late, Signals, BarrierTypeOK
<1>1. ASSUME Gathering(p), NEW t \in Participants
      PROVE  /\ passed[t] \in {p - 2, p - 1} /\ Entered(t) \in {p - 1, p}
             /\ at[t] # "assert"
             /\ at[t] \in Waiting =>
                  (passed[t] = p - 1 /\ cur[t] = Ev(p)) \/ Late(t, p)
  <2>1. Comes(t, p) \/ Waits(t, p) \/ Late(t, p) \/ Signals(t, p)
    BY <1>1 DEF Gathering
  <2> HIDE DEF BarrierTypeOK
  <2>2. CASE Comes(t, p)
    BY <2>2
  <2>3. CASE Waits(t, p)
    BY <2>3
  <2>4. CASE Late(t, p)
    BY <2>4
  <2>5. CASE Signals(t, p)
    BY <2>5
  <2> QED BY <2>1, <2>2, <2>3, <2>4, <2>5
<1>2. ASSUME NEW l \in Participants, Closing(p, l)
      PROVE  /\ \A t \in Participants :
                  /\ passed[t] = p - 1 /\ Entered(t) = p
                  /\ at[t] # "assert"
                  /\ at[t] \in Waiting => cur[t] = Ev(p)
             /\ Ev(p) \notin set
  BY <1>2 DEF Closing, Switching
<1>3. Gathering(p) => Ev(p) \notin set
  BY DEF Gathering
<1> QED BY <1>1, <1>2, <1>3

\* Types; and of the threads that wait, those of one phase wait for one event
\* and those of two phases for two, and the event of a phase is set only once
\* all threads have entered it.
THEOREM BarrierInvHolds == BarrierSpec => []BarrierInv
<1>1. PhasesInv => BarrierInv
  <2> SUFFICES ASSUME PhasesInv PROVE BarrierInv
    OBVIOUS
  <2>1. BarrierTypeOK
    BY DEF PhasesInv
  <2>2. ASSUME Sound,
               NEW t \in Participants, at[t] \in {"spin", "block"}
        PROVE  /\ cur[t] \in set => \A u \in Participants : passed[t] < Entered(u)
               /\ \A u \in Participants :
                    at[u] \in {"spin", "block"} =>
                        (cur[t] = cur[u]) = (passed[t] = passed[u])
    <3>1. PICK p \in 1 .. Loops + 1 :
            Gathering(p) \/ \E l \in Participants : Closing(p, l)
      BY <2>2 DEF PhasesInv, PhaseInv
    <3>2. Ev(p) # Ev(p + 1)
      BY EvTurns
    <3> QED BY <2>1, <2>2, <3>1, <3>2, PhaseRoles DEF Waiting, Late
  <2> QED BY <2>1, <2>2 DEF BarrierInv, EventOfPhase
<1> QED BY PhasesInvariant, <1>1, PTL

\* EnterSynchronizationBarrier is a barrier: no thread returns from a phase
\* that another has not entered, and its assertion never fails.
THEOREM RendezvousHolds == BarrierSpec => []Rendezvous
<1>1. PhasesInv => Rendezvous
  <2> SUFFICES ASSUME PhasesInv, Sound
               PROVE  AssertionHolds /\ \A t, u \in Participants : passed[t] <= Entered(u)
    BY DEF Rendezvous
  <2>1. PICK p \in 1 .. Loops + 1 :
          Gathering(p) \/ \E l \in Participants : Closing(p, l)
    BY DEF PhasesInv, PhaseInv
  <2> QED BY <2>1, PhaseRoles DEF PhasesInv, AssertionHolds, Aborted
<1> QED BY PhasesInvariant, <1>1, PTL

\* EnterSynchronizationBarrier returns TRUE to exactly one thread per phase.
THEOREM OneTrueHolds == BarrierSpec => []OneTrue
<1>1. PhasesInv => OneTrue
  <2> SUFFICES ASSUME PhasesInv, Sound, NEW q \in 1 .. Loops
               PROVE  /\ trues[q] <= 1
                      /\ (\A t \in Participants : passed[t] >= q) => trues[q] = 1
    BY DEF OneTrue
  <2>1. PICK p \in 1 .. Loops + 1 :
          Gathering(p) \/ \E l \in Participants : Closing(p, l)
    BY DEF PhasesInv, PhaseInv
  <2>2. trues[q] \in {0, 1}
    BY <2>1 DEF Gathering, Closing, TruesBut
  <2>3. ASSUME \A t \in Participants : passed[t] >= q PROVE trues[q] = 1
    <3>1. PICK t \in Participants : TRUE
      BY BarrierAssumption
    <3>2. q <= p - 1
      <4>1. passed[t] \in {p - 2, p - 1} /\ passed[t] >= q
        BY <2>1, <2>3, PhaseRoles DEF PhasesInv
      <4> QED BY <4>1, BarrierAssumption
    <3>3. CASE q < p - 1
      BY <2>1, <3>3 DEF Gathering, Closing, TruesBut
    <3>4. CASE q = p - 1
      <4>1. \A u \in Participants : ~ Signals(u, p)
        BY <2>3, <3>4 DEF Signals
      <4> QED BY <2>1, <3>4, <4>1 DEF Gathering, Closing, TruesBut
    <3> QED BY <3>2, <3>3, <3>4
  <2> QED BY <2>2, <2>3
<1> QED BY PhasesInvariant, <1>1, PTL
=============================================================================

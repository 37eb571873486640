-------------------------- MODULE ThreadPool_proofs --------------------------
(***************************************************************************)
(* For every number of clients, workers, tiles and frames: the countdown   *)
(* event counts the work under way, no work is freed or its result used    *)
(* before its callback has run, and neither the queue nor a worker holds a *)
(* freed work.                                                             *)
(*                                                                         *)
(* That a wait for the event of the whole pool is enough for the work of   *)
(* one client rests on the count, on no work getting lost on its way       *)
(* through the queue, and on the count going up before the work is queued. *)
(***************************************************************************)
EXTENDS ThreadPool, FiniteSetTheorems, TLAPS

-----------------------------------------------------------------------------
(***************************************************************************)
(* The inductive invariant.                                                *)
(***************************************************************************)

\* Client c is at its frame number k + 1: while it submits, the works of k
\* frames are closed; while it waits, the frame is full and not all closed.
FrameAt(c, k) ==
    /\ client[c] # "wait" =>
         /\ closed[c] = k * Tiles
         /\ closed[c] <= submitted[c] /\ submitted[c] <= closed[c] + Tiles
         /\ submitted[c] > closed[c] => k < Frames[c]
    /\ client[c] = "enqueue" => k < Frames[c] /\ submitted[c] < closed[c] + Tiles
    /\ client[c] = "wait" =>
         /\ k < Frames[c] /\ submitted[c] = k * Tiles + Tiles
         /\ k * Tiles <= closed[c] /\ closed[c] < submitted[c]

FrameInv == \A c \in Clients : \E k \in 0 .. Frames[c] : FrameAt(c, k)

\* The owner closes the pool after the clients, and frees it after the workers.
OwnerInv ==
    /\ pool # "open" => \A c \in Clients : client[c] = "done"
    /\ pool = "freed" => Joined

\* A busy worker has a work object, whose callback has returned before the
\* worker signals; whatever is queued or running was submitted; and only closed
\* works are freed.
HeldInv ==
    /\ \A w \in Busy : work[w] \in Works
    /\ \A w \in Workers : worker[w] = "signal" => work[w] \in ran
    /\ \A x \in Held : x[2] <= submitted[x[1]]
    /\ \A x \in freed : x[2] <= closed[x[1]]

\* The works that have to run: those a client will wait for, and those of the
\* frames it has given up.
Owed == {x \in Works : closed[x[1]] < x[2] /\ x[2] <= submitted[x[1]]} \cup failed

\* None of them gets lost before the pool is freed.
OwedInv == pool # "freed" => Owed \subseteq Held \cup ran

PoolInv ==
    /\ TypeOK /\ FrameInv /\ OwnerInv /\ HeldInv /\ CountInv /\ OwedInv
    /\ WorkSafe

-----------------------------------------------------------------------------
(***************************************************************************)
(* Lemmas on frames, works and sequences.                                  *)
(***************************************************************************)

\* The works of k frames, and of one more.
LEMMA FrameArith ==
    ASSUME NEW k \in Nat, NEW F \in Nat, NEW T \in Nat \ {0}
    PROVE  /\ k * T \in Nat /\ T * F \in Nat /\ (k + 1) * T = k * T + T
           /\ k < F => k * T + T <= T * F
           /\ k <= F => k * T <= T * F
           /\ k <= F /\ k * T < T * F => k < F
<1>1. k * T \in Nat /\ T * F \in Nat /\ (k + 1) * T = k * T + T
  OBVIOUS
<1>2. ASSUME k <= F PROVE k * T <= T * F
  <2>1. PICK d \in Nat : F = k + d
    <3>1. F - k \in Nat /\ F = k + (F - k)
      BY <1>2
    <3> QED BY <3>1
  <2>2. T * F = k * T + T * d /\ T * d \in Nat
    BY <2>1
  <2> QED BY <1>1, <2>2
<1>3. ASSUME k < F PROVE k * T + T <= T * F
  <2>1. PICK d \in Nat : F = (k + 1) + d
    <3>1. F - (k + 1) \in Nat /\ F = (k + 1) + (F - (k + 1))
      BY <1>3
    <3> QED BY <3>1
  <2>2. T * F = (k + 1) * T + T * d /\ T * d \in Nat
    BY <2>1
  <2> QED BY <1>1, <2>2
<1>4. ASSUME k <= F, k * T < T * F PROVE k < F
  <2>1. CASE k = F
    <3>1. k * T = T * F
      BY <2>1
    <3> QED BY <1>1, <1>4, <3>1
  <2> QED BY <1>4, <2>1
<1> QED BY <1>1, <1>2, <1>3, <1>4

\* A work is a client and a number.
LEMMA WorkParts ==
    ASSUME NEW x \in Works
    PROVE  /\ x[1] \in Clients /\ x[2] \in 1 .. Tiles * Frames[x[1]]
           /\ x = <<x[1], x[2]>>
BY DEF Works

LEMMA WorkMade ==
    ASSUME NEW c \in Clients, NEW n \in 1 .. Tiles * Frames[c]
    PROVE  <<c, n>> \in Works /\ <<c, n>>[1] = c /\ <<c, n>>[2] = n
BY DEF Works

\* What is in the queue after Queue_Enqueue and before Queue_Dequeue.
LEMMA InQueue ==
    ASSUME NEW s \in Seq(Works)
    PROVE  /\ Len(s) \in Nat /\ ToSet(s) \subseteq Works
           /\ Len(s) = 0 => s = <<>> /\ ToSet(s) = {}
           /\ \A x \in Works :
                /\ Append(s, x) \in Seq(Works) /\ Len(Append(s, x)) = Len(s) + 1
                /\ ToSet(Append(s, x)) = ToSet(s) \cup {x}
           /\ s # <<>> =>
                /\ Head(s) \in Works /\ Tail(s) \in Seq(Works)
                /\ Len(Tail(s)) = Len(s) - 1
                /\ ToSet(s) = ToSet(Tail(s)) \cup {Head(s)}
<1> USE DEF ToSet
<1>1. Len(s) \in Nat /\ DOMAIN s = 1 .. Len(s) /\ ToSet(s) \subseteq Works
  OBVIOUS
<1>2. Len(s) = 0 => s = <<>> /\ ToSet(s) = {}
  BY <1>1
<1>3. ASSUME NEW x \in Works
      PROVE  /\ Append(s, x) \in Seq(Works) /\ Len(Append(s, x)) = Len(s) + 1
             /\ ToSet(Append(s, x)) = ToSet(s) \cup {x}
  <2> DEFINE a == Append(s, x)
  <2>1. /\ a \in Seq(Works) /\ Len(a) = Len(s) + 1
        /\ \A i \in 1 .. Len(s) : a[i] = s[i]
        /\ a[Len(s) + 1] = x
    OBVIOUS
  <2>2. DOMAIN a = 1 .. Len(s) + 1
    BY <2>1
  <2>3. \A y : y \in ToSet(a) <=> y \in ToSet(s) \/ y = x
    <3> HIDE DEF a
    <3> QED BY <1>1, <2>1, <2>2
  <2> QED BY <2>1, <2>3
<1>4. ASSUME s # <<>>
      PROVE  /\ Head(s) \in Works /\ Tail(s) \in Seq(Works)
             /\ Len(Tail(s)) = Len(s) - 1
             /\ ToSet(s) = ToSet(Tail(s)) \cup {Head(s)}
  <2> DEFINE a == Tail(s)
  <2>1. /\ a \in Seq(Works) /\ Len(a) = Len(s) - 1 /\ Len(s) > 0
        /\ \A i \in 1 .. Len(s) - 1 : a[i] = s[i + 1]
        /\ Head(s) = s[1]
    BY <1>4
  <2>2. DOMAIN a = 1 .. Len(s) - 1
    BY <2>1
  <2>3. \A y : y \in ToSet(s) <=> y \in ToSet(a) \/ y = s[1]
    <3> HIDE DEF a
    <3>2. ASSUME NEW i \in 1 .. Len(s) PROVE s[i] = s[1] \/ s[i] \in ToSet(a)
      <4> DEFINE j == i - 1
      <4>1. CASE i = 1
        BY <4>1
      <4>2. CASE i # 1
        <5>1. j \in 1 .. Len(s) - 1 /\ j + 1 = i
          BY <4>2, <1>1
        <5> HIDE DEF j
        <5>2. s[i] = a[j] /\ j \in DOMAIN a
          BY <2>1, <2>2, <5>1
        <5> QED BY <5>2
      <4> QED BY <4>1, <4>2
    <3>3. ASSUME NEW i \in 1 .. Len(s) - 1 PROVE a[i] \in ToSet(s)
      <4> DEFINE j == i + 1
      <4>1. a[i] = s[j] /\ j \in 1 .. Len(s)
        BY <1>1, <2>1
      <4> HIDE DEF j
      <4> QED BY <1>1, <4>1
    <3>4. s[1] \in ToSet(s)
      BY <1>1, <2>1
    <3> QED BY <1>1, <2>2, <3>2, <3>3, <3>4
  <2> HIDE DEF ToSet
  <2>4. ToSet(s) = ToSet(a) \cup {s[1]}
    BY <2>3
  <2>5. s[1] \in Works
    BY <1>1, <2>1
  <2> QED BY <2>1, <2>4, <2>5
<1> QED BY <1>1, <1>2, <1>3, <1>4

\* Cardinalities of Busy and of Counted.
LEMMA BusyFinite ==
    /\ IsFiniteSet(Busy) /\ Cardinality(Busy) \in Nat
    /\ IsFiniteSet(Counted) /\ Cardinality(Counted) \in Nat
    /\ Cardinality(Busy) = 0 <=> Busy = {}
<1>1. Busy \subseteq Workers /\ Counted \subseteq Clients
  BY DEF Busy, Counted
<1>2. IsFiniteSet(Busy) /\ IsFiniteSet(Counted)
  BY <1>1, FS_Subset, ThreadPoolAssumption
<1> QED BY <1>2, FS_CardinalityType, FS_EmptySet

LEMMA OneMore ==
    ASSUME NEW S, IsFiniteSet(S), NEW x, x \notin S
    PROVE  Cardinality(S \cup {x}) = Cardinality(S) + 1
BY FS_AddElement

LEMMA OneLess ==
    ASSUME NEW S, IsFiniteSet(S), NEW x \in S
    PROVE  Cardinality(S) \in Nat /\ Cardinality(S) > 0
           /\ Cardinality(S \ {x}) = Cardinality(S) - 1
<1>1. Cardinality(S) \in Nat /\ Cardinality(S \ {x}) \in Nat /\ IsFiniteSet(S \ {x})
  BY FS_CardinalityType, FS_RemoveElement
<1>2. Cardinality(S \ {x}) = Cardinality(S) - 1
  BY FS_RemoveElement
<1> QED BY <1>1, <1>2

-----------------------------------------------------------------------------
(***************************************************************************)
(* Frames: what a client has submitted and closed.                         *)
(***************************************************************************)

\* The bounds that follow from the frame a client is at.
LEMMA FrameBounds ==
    ASSUME TypeOK, NEW c \in Clients, NEW k \in 0 .. Frames[c], FrameAt(c, k)
    PROVE  /\ closed[c] <= submitted[c] /\ submitted[c] <= Tiles * Frames[c]
           /\ client[c] = "enqueue" => submitted[c] + 1 <= Tiles * Frames[c]
<1> DEFINE F == Frames[c]  a == k * Tiles  b == Tiles * F
<1>1. /\ a \in Nat /\ b \in Nat /\ Tiles \in Nat \ {0} /\ F \in Nat /\ k \in Nat
      /\ k < F => a + Tiles <= b
      /\ a <= b
  BY FrameArith, ThreadPoolAssumption
<1>2. submitted[c] \in Nat /\ closed[c] \in Nat
  BY DEF TypeOK
<1>3. /\ client[c] # "wait" =>
           /\ closed[c] = a
           /\ closed[c] <= submitted[c] /\ submitted[c] <= closed[c] + Tiles
           /\ submitted[c] > closed[c] => k < F
      /\ client[c] = "enqueue" => k < F /\ submitted[c] < closed[c] + Tiles
      /\ client[c] = "wait" =>
           /\ k < F /\ submitted[c] = a + Tiles
           /\ a <= closed[c] /\ closed[c] < submitted[c]
  BY DEF FrameAt
<1> HIDE DEF F, a, b
<1>4. /\ closed[c] <= submitted[c] /\ submitted[c] <= b
      /\ client[c] = "enqueue" => submitted[c] + 1 <= b
  BY <1>1, <1>2, <1>3
<1> QED BY <1>4 DEF b, F

\* A client whose numbers and place do not change stays at its frame.
LEMMA FrameSame ==
    ASSUME NEW c \in Clients, NEW k, FrameAt(c, k), client'[c] = client[c],
           submitted'[c] = submitted[c], closed'[c] = closed[c]
    PROVE  FrameAt(c, k)'
BY DEF FrameAt

\* A step of client c takes it to the same frame or to the next one.
LEMMA FrameClient ==
    ASSUME TypeOK, FrameInv, NEW c \in Clients, ClientStep(c) \/ GiveUp(c)
    PROVE  \E k \in 0 .. Frames[c] : FrameAt(c, k)'
<1>1. PICK k \in 0 .. Frames[c] : FrameAt(c, k)
  BY DEF FrameInv
<1> DEFINE F == Frames[c]  a == k * Tiles  b == Tiles * F  n == k + 1
<1>2. /\ a \in Nat /\ b \in Nat /\ Tiles \in Nat \ {0} /\ F \in Nat /\ k \in Nat
      /\ k < F => a + Tiles <= b
      /\ k <= F /\ a <= b
      /\ a < b => k < F
      /\ n * Tiles = a + Tiles
      /\ k < F => n \in 0 .. Frames[c]
  BY FrameArith, ThreadPoolAssumption
<1>3. submitted[c] \in Nat /\ closed[c] \in Nat
  BY DEF TypeOK
<1>4. /\ client[c] # "wait" =>
           /\ closed[c] = a
           /\ closed[c] <= submitted[c] /\ submitted[c] <= closed[c] + Tiles
           /\ submitted[c] > closed[c] => k < F
      /\ client[c] = "enqueue" => k < F /\ submitted[c] < closed[c] + Tiles
      /\ client[c] = "wait" =>
           /\ k < F /\ submitted[c] = a + Tiles
           /\ a <= closed[c] /\ closed[c] < submitted[c]
  BY <1>1 DEF FrameAt
<1>5. CASE SubmitCount(c)
  <2>1. /\ client[c] = "submit" /\ submitted[c] # closed[c] + Tiles
        /\ submitted[c] < b
        /\ client'[c] = "enqueue"
        /\ submitted'[c] = submitted[c] /\ closed'[c] = closed[c]
    BY <1>5 DEF SubmitCount, FrameFull, TypeOK
  <2>2. k < F /\ submitted[c] < closed[c] + Tiles
    <3> HIDE DEF F, a, b
    <3> QED BY <1>2, <1>3, <1>4, <2>1
  <2>3. FrameAt(c, k)'
    BY <1>1, <2>1, <2>2 DEF FrameAt
  <2> QED BY <2>3
<1>6. CASE SubmitEnqueue(c)
  <2>1. /\ client[c] = "enqueue" /\ client'[c] = "submit"
        /\ submitted'[c] = submitted[c] + 1 /\ closed'[c] = closed[c]
    BY <1>6 DEF SubmitEnqueue, TypeOK
  <2>2. /\ closed[c] = a /\ closed[c] <= submitted[c] + 1 /\ k < F
        /\ submitted[c] + 1 <= closed[c] + Tiles
    <3> HIDE DEF F, a, b
    <3> QED BY <1>2, <1>3, <1>4, <2>1
  <2>3. FrameAt(c, k)'
    BY <2>1, <2>2 DEF FrameAt
  <2> QED BY <2>3
<1>7. CASE BeginWait(c)
  <2>1. /\ client[c] = "submit" /\ client'[c] = "wait"
        /\ submitted[c] = closed[c] + Tiles
        /\ submitted'[c] = submitted[c] /\ closed'[c] = closed[c]
    BY <1>7 DEF BeginWait, FrameFull, TypeOK
  <2>2. /\ k < F /\ submitted[c] = a + Tiles
        /\ a <= closed[c] /\ closed[c] < submitted[c]
    <3> HIDE DEF F, a, b
    <3> QED BY <1>2, <1>3, <1>4, <2>1
  <2>3. FrameAt(c, k)'
    BY <2>1, <2>2 DEF FrameAt
  <2> QED BY <2>3
<1>8. CASE GiveUp(c)
  <2>1. /\ client[c] = "submit" /\ client'[c] = "submit" /\ submitted[c] > closed[c]
        /\ submitted'[c] = closed[c] + Tiles /\ closed'[c] = closed[c] + Tiles
    BY <1>8 DEF GiveUp, TypeOK
  <2>2. /\ n \in 0 .. Frames[c] /\ closed[c] + Tiles = n * Tiles
        /\ closed[c] + Tiles \in Nat
    <3> HIDE DEF F, a, b, n
    <3> QED BY <1>2, <1>3, <1>4, <2>1
  <2>3. FrameAt(c, n)'
    <3> HIDE DEF n
    <3> QED BY <2>1, <2>2, ThreadPoolAssumption DEF FrameAt
  <2> QED BY <2>2, <2>3
<1>9. CASE WaitAndClose(c)
  <2>1. /\ client[c] = "wait" /\ submitted'[c] = submitted[c]
        /\ closed'[c] = closed[c] + 1
        /\ client'[c] = IF closed[c] + 1 = submitted[c] THEN "submit" ELSE "wait"
    BY <1>9 DEF WaitAndClose, TypeOK
  <2>2. CASE closed[c] + 1 = submitted[c]
    <3>1. /\ n \in 0 .. Frames[c] /\ closed[c] + 1 = n * Tiles
          /\ closed[c] + 1 \in Nat
      <4> HIDE DEF F, a, b, n
      <4> QED BY <1>2, <1>3, <1>4, <2>1, <2>2
    <3>2. FrameAt(c, n)'
      <4> HIDE DEF n
      <4> QED BY <2>1, <2>2, <3>1, ThreadPoolAssumption DEF FrameAt
    <3> QED BY <3>1, <3>2
  <2>3. CASE closed[c] + 1 # submitted[c]
    <3>1. /\ k < F /\ submitted[c] = a + Tiles
          /\ a <= closed[c] + 1 /\ closed[c] + 1 < submitted[c]
      <4> HIDE DEF F, a, b
      <4> QED BY <1>2, <1>3, <1>4, <2>1, <2>3
    <3>2. FrameAt(c, k)'
      BY <2>1, <2>3, <3>1 DEF FrameAt
    <3> QED BY <3>2
  <2> QED BY <2>2, <2>3
<1>10. CASE Leave(c)
  <2>1. /\ client[c] = "submit" /\ client'[c] = "done"
        /\ submitted'[c] = submitted[c] /\ closed'[c] = closed[c]
    BY <1>10 DEF Leave, TypeOK
  <2>2. FrameAt(c, k)'
    BY <1>1, <2>1 DEF FrameAt
  <2> QED BY <2>2
<1> QED BY <1>5, <1>6, <1>7, <1>8, <1>9, <1>10 DEF ClientStep

\* What a step of one client leaves to the others, and what no worker and no
\* owner touches.
LEMMA ClientAlone ==
    ASSUME TypeOK, NEW c \in Clients, ClientStep(c) \/ GiveUp(c)
    PROVE  /\ \A d \in Clients \ {c} :
                /\ client'[d] = client[d]
                /\ submitted'[d] = submitted[d] /\ closed'[d] = closed[d]
           /\ UNCHANGED <<terminate, pool, workers>>
<1> USE DEF TypeOK
<1>1. CASE SubmitCount(c)
  BY <1>1 DEF SubmitCount
<1>2. CASE SubmitEnqueue(c)
  BY <1>2 DEF SubmitEnqueue
<1>3. CASE BeginWait(c)
  BY <1>3 DEF BeginWait
<1>4. CASE GiveUp(c)
  BY <1>4 DEF GiveUp
<1>5. CASE WaitAndClose(c)
  BY <1>5 DEF WaitAndClose
<1>6. CASE Leave(c)
  BY <1>6 DEF Leave
<1> QED BY <1>1, <1>2, <1>3, <1>4, <1>5, <1>6 DEF ClientStep

LEMMA WorkerAlone ==
    ASSUME (\E w \in Workers : WorkerStep(w) \/ AddWorker(w))
               \/ CloseThreadpool \/ FreePool \/ UNCHANGED vars
    PROVE  UNCHANGED clients
BY DEF WorkerStep, Wake, Dequeue, Callback, Signal, AddWorker, CloseThreadpool,
       FreePool, vars, clients

\* Every step keeps every client at a frame.
LEMMA FrameStep ==
    ASSUME TypeOK, FrameInv, [Next]_vars
    PROVE  FrameInv'
<1>1. ASSUME NEW c \in Clients, ClientStep(c) \/ GiveUp(c) PROVE FrameInv'
  <2>1. \E k \in 0 .. Frames[c] : FrameAt(c, k)'
    BY <1>1, FrameClient
  <2>2. \A d \in Clients \ {c} : \E k \in 0 .. Frames[d] : FrameAt(d, k)'
    BY <1>1, ClientAlone, FrameSame DEF FrameInv
  <2> QED BY <2>1, <2>2 DEF FrameInv
<1>2. CASE UNCHANGED clients
  <2>1. \A d \in Clients : \E k \in 0 .. Frames[d] : FrameAt(d, k)'
    BY <1>2, FrameSame DEF FrameInv, clients
  <2> QED BY <2>1 DEF FrameInv
<1> QED BY <1>1, <1>2, WorkerAlone DEF Next

-----------------------------------------------------------------------------
(***************************************************************************)
(* Types, and the order in which the pool is closed.                       *)
(***************************************************************************)

\* Every step keeps the types; the bounds on what a client has submitted are
\* those of its frame.
LEMMA TypeStep ==
    ASSUME TypeOK, FrameInv, HeldInv, [Next]_vars
    PROVE  TypeOK'
<1>1. \A c \in Clients : /\ closed[c] <= submitted[c]
                         /\ submitted[c] <= Tiles * Frames[c]
                         /\ client[c] = "enqueue" => submitted[c] + 1 <= Tiles * Frames[c]
  BY FrameBounds DEF FrameInv
<1> DEFINE Plain ==
      /\ count \in Nat /\ complete \in BOOLEAN /\ pending \in Seq(Works)
      /\ terminate \in BOOLEAN /\ pool \in {"open", "closing", "freed"}
      /\ worker \in [Workers -> WorkerStates]
      /\ work \in [Workers -> Works \cup {NoWork}]
      /\ client \in [Clients -> {"submit", "enqueue", "wait", "done"}]
      /\ submitted \in [Clients -> Nat] /\ closed \in [Clients -> Nat]
      /\ freed \subseteq Works /\ ran \subseteq Works /\ failed \subseteq Works
<1>2. Plain /\ Tiles \in Nat \ {0}
  BY ThreadPoolAssumption DEF TypeOK
<1>3. Plain'
  <2> USE <1>2 DEF workers, clients
  <2>1. ASSUME NEW c \in Clients, SubmitCount(c) PROVE Plain'
    <3>1. count' \in Nat
      BY <2>1 DEF SubmitCount
    <3>0. complete' \in BOOLEAN
      BY <2>1 DEF SubmitCount
    <3>2. client' \in [Clients -> {"submit", "enqueue", "wait", "done"}]
      BY <2>1 DEF SubmitCount
    <3> QED BY <2>1, <3>0, <3>1, <3>2 DEF SubmitCount
  <2>2. ASSUME NEW c \in Clients, SubmitEnqueue(c) PROVE Plain'
    <3> DEFINE x == <<c, submitted[c] + 1>>
    <3>1. x \in Works
      BY <1>1, <2>2, WorkMade DEF SubmitEnqueue
    <3>2. pending' = Append(pending, x)
      BY <2>2 DEF SubmitEnqueue
    <3> HIDE DEF x
    <3>3. pending' \in Seq(Works)
      BY <3>1, <3>2
    <3> QED BY <2>2, <3>3 DEF SubmitEnqueue
  <2>3. ASSUME NEW c \in Clients, BeginWait(c) PROVE Plain'
    BY <2>3 DEF BeginWait
  <2>4. ASSUME NEW c \in Clients, GiveUp(c) PROVE Plain'
    <3>1. {c} \X (closed[c] + 1 .. submitted[c]) \subseteq Works
      <4>1. \A n \in closed[c] + 1 .. submitted[c] : n \in 1 .. Tiles * Frames[c]
        BY <1>1, ThreadPoolAssumption
      <4> QED BY <4>1 DEF Works
    <3>2. failed' \subseteq Works
      BY <2>4, <3>1 DEF GiveUp
    <3>3. submitted' \in [Clients -> Nat] /\ closed' \in [Clients -> Nat]
      BY <2>4 DEF GiveUp
    <3> QED BY <2>4, <3>2, <3>3 DEF GiveUp
  <2>5. ASSUME NEW c \in Clients, WaitAndClose(c), FrameInv PROVE Plain'
    <3>1. closed[c] + 1 \in 1 .. Tiles * Frames[c]
      <4>1. PICK k \in 0 .. Frames[c] : FrameAt(c, k)
        BY <2>5 DEF FrameInv
      <4>2. closed[c] < submitted[c]
        BY <2>5, <4>1 DEF WaitAndClose, FrameAt
      <4> QED BY <1>1, <4>2, ThreadPoolAssumption
    <3>2. <<c, closed[c] + 1>> \in Works
      BY <3>1, WorkMade
    <3>3. freed' \subseteq Works
      BY <2>5, <3>2 DEF WaitAndClose
    <3>4. client' \in [Clients -> {"submit", "enqueue", "wait", "done"}]
      BY <2>5 DEF WaitAndClose
    <3>5. closed' \in [Clients -> Nat]
      BY <2>5 DEF WaitAndClose
    <3> QED BY <2>5, <3>3, <3>4, <3>5 DEF WaitAndClose
  <2>6. ASSUME NEW c \in Clients, Leave(c) PROVE Plain'
    BY <2>6 DEF Leave
  <2>7. ASSUME NEW w \in Workers, Wake(w) PROVE Plain'
    BY <2>7 DEF Wake, WorkerStates
  <2>8. ASSUME NEW w \in Workers, Dequeue(w) PROVE Plain'
    <3>1. pending # <<>> => Head(pending) \in Works /\ Tail(pending) \in Seq(Works)
      BY InQueue
    <3> QED BY <2>8, <3>1 DEF Dequeue, WorkerStates
  <2>9. ASSUME NEW w \in Workers, Callback(w) PROVE Plain'
    <3>1. work[w] \in Works
      BY <2>9 DEF Callback, HeldInv, Busy
    <3> QED BY <2>9, <3>1 DEF Callback, WorkerStates
  <2>10. ASSUME NEW w \in Workers, Signal(w) PROVE Plain'
    <3>1. count' \in Nat /\ complete' \in BOOLEAN
      BY <2>10 DEF Signal, Completes
    <3> QED BY <2>10, <3>1 DEF Signal, WorkerStates
  <2>11. ASSUME NEW w \in Workers, AddWorker(w) PROVE Plain'
    BY <2>11 DEF AddWorker, WorkerStates
  <2>12. CASE CloseThreadpool
    BY <2>12 DEF CloseThreadpool
  <2>13. CASE FreePool
    BY <2>13 DEF FreePool
  <2>14. CASE UNCHANGED vars
    BY <2>14 DEF vars
  <2> QED
    BY <2>1, <2>2, <2>3, <2>4, <2>5, <2>6, <2>7, <2>8, <2>9, <2>10, <2>11,
       <2>12, <2>13, <2>14
    DEF Next, ClientStep, WorkerStep
<1>4. \A c \in Clients : closed'[c] <= submitted'[c]
                         /\ submitted'[c] <= Tiles * Frames[c]
  <2>1. FrameInv'
    BY FrameStep
  <2>2. SUFFICES ASSUME NEW c \in Clients
                 PROVE  closed'[c] <= submitted'[c] /\ submitted'[c] <= Tiles * Frames[c]
    OBVIOUS
  <2>3. PICK k \in 0 .. Frames[c] : FrameAt(c, k)'
    BY <2>1 DEF FrameInv
  <2> DEFINE F == Frames[c]  a == k * Tiles  b == Tiles * F
             s == submitted'[c]  l == closed'[c]
  <2>4. /\ a \in Nat /\ b \in Nat /\ Tiles \in Nat \ {0} /\ F \in Nat /\ k \in Nat
        /\ k < F => a + Tiles <= b
        /\ a <= b
    BY FrameArith, ThreadPoolAssumption
  <2>5. s \in Nat /\ l \in Nat
    BY <1>3
  <2>6. \/ l = a /\ l <= s /\ s <= l + Tiles /\ (s > l => k < F)
        \/ k < F /\ s = a + Tiles /\ a <= l /\ l < s
    BY <2>3 DEF FrameAt
  <2>7. l <= s /\ s <= b
    <3> HIDE DEF F, a, b, s, l
    <3> QED BY <2>4, <2>5, <2>6
  <2> QED BY <2>7
<1> QED BY <1>3, <1>4 DEF TypeOK

\* The pool is closed after the clients have left it, and freed after the
\* workers have.
LEMMA OwnerStep ==
    ASSUME TypeOK, OwnerInv, [Next]_vars
    PROVE  OwnerInv'
<1> USE DEF TypeOK, OwnerInv, Joined
<1>1. ASSUME NEW c \in Clients, ClientStep(c) \/ GiveUp(c) PROVE OwnerInv'
  <2>1. client[c] # "done" /\ UNCHANGED <<pool, worker>>
    BY <1>1, ClientAlone
    DEF ClientStep, SubmitCount, SubmitEnqueue, BeginWait, WaitAndClose, Leave,
        GiveUp, workers
  <2> QED BY <2>1
<1>2. ASSUME NEW w \in Workers, WorkerStep(w) PROVE OwnerInv'
  BY <1>2 DEF WorkerStep, Wake, Dequeue, Callback, Signal, clients
<1>3. ASSUME NEW w \in Workers, AddWorker(w) PROVE OwnerInv'
  BY <1>3 DEF AddWorker, clients
<1>4. CASE CloseThreadpool
  BY <1>4 DEF CloseThreadpool, clients, workers
<1>5. CASE FreePool
  BY <1>5 DEF FreePool, clients, workers
<1>6. CASE UNCHANGED vars
  BY <1>6 DEF vars
<1> QED BY <1>1, <1>2, <1>3, <1>4, <1>5, <1>6 DEF Next

-----------------------------------------------------------------------------
(***************************************************************************)
(* The way of a work from the queue to a worker.                           *)
(***************************************************************************)

\* What the queue and the workers hold after a step of a client.
LEMMA HeldClient ==
    ASSUME TypeOK, FrameInv, NEW c \in Clients, ClientStep(c) \/ GiveUp(c)
    PROVE  /\ Busy' = Busy /\ UNCHANGED <<worker, work, ran, pool>>
           /\ ~ SubmitEnqueue(c) => Held' = Held
           /\ SubmitEnqueue(c) => Held' = Held \cup {<<c, submitted[c] + 1>>}
<1>1. UNCHANGED <<worker, work, ran, pool>>
  BY ClientAlone DEF workers
<1>2. Busy' = Busy
  BY <1>1 DEF Busy
<1>3. CASE SubmitEnqueue(c)
  <2> DEFINE x == <<c, submitted[c] + 1>>
  <2>1. x \in Works
    <3>1. PICK k \in 0 .. Frames[c] : FrameAt(c, k)
      BY DEF FrameInv
    <3>2. submitted[c] + 1 \in 1 .. Tiles * Frames[c]
      BY <1>3, <3>1, FrameBounds, ThreadPoolAssumption DEF SubmitEnqueue, TypeOK
    <3> QED BY <3>2, WorkMade
  <2>2. pending' = Append(pending, x)
    BY <1>3 DEF SubmitEnqueue
  <2> HIDE DEF x
  <2>3. ToSet(pending') = ToSet(pending) \cup {x}
    BY <2>1, <2>2, InQueue DEF TypeOK
  <2>4. Held' = Held \cup {x}
    BY <1>1, <1>2, <2>3 DEF Held
  <2> QED BY <1>1, <1>2, <1>3, <2>4 DEF x
<1>4. CASE ~ SubmitEnqueue(c)
  <2>1. pending' = pending
    BY <1>4 DEF ClientStep, SubmitCount, BeginWait, WaitAndClose, Leave, GiveUp
  <2> QED BY <1>1, <1>2, <1>4, <2>1 DEF Held
<1> QED BY <1>3, <1>4

\* And after a step of a worker or of the owner: nothing new, and only a work
\* whose callback has returned, or that is left when the pool is freed, goes.
LEMMA HeldWorker ==
    ASSUME TypeOK, HeldInv,
           (\E w \in Workers : WorkerStep(w) \/ AddWorker(w))
               \/ CloseThreadpool \/ FreePool \/ UNCHANGED vars
    PROVE  /\ Held' \subseteq Held /\ ran \subseteq ran'
           /\ pool' # "freed" => Held \subseteq Held' \cup ran
           /\ \A w \in Busy' : work'[w] \in Works
           /\ \A w \in Workers : worker'[w] = "signal" => work'[w] \in ran'
           /\ pool' # "freed" => pool # "freed"
<1> USE DEF TypeOK, HeldInv
<1> DEFINE Goal ==
           /\ Held' \subseteq Held /\ ran \subseteq ran'
           /\ pool' # "freed" => Held \subseteq Held' \cup ran
           /\ \A w \in Busy' : work'[w] \in Works
           /\ \A w \in Workers : worker'[w] = "signal" => work'[w] \in ran'
           /\ pool' # "freed" => pool # "freed"
<1>1. ASSUME NEW w \in Workers, Wake(w) \/ AddWorker(w) PROVE Goal
  <2>1. Busy' = Busy /\ UNCHANGED <<pending, work, ran, pool>>
    BY <1>1 DEF Wake, AddWorker, Busy
  <2>2. Held' = Held
    BY <2>1 DEF Held
  <2>3. \A v \in Workers : worker'[v] = "signal" => worker[v] = "signal"
    BY <1>1 DEF Wake, AddWorker
  <2> QED BY <2>1, <2>2, <2>3
<1>2. ASSUME NEW w \in Workers, Dequeue(w) PROVE Goal
  <2>1. CASE pending = <<>>
    <3>1. Busy' = Busy /\ UNCHANGED <<pending, work, ran, pool>>
      BY <1>2, <2>1 DEF Dequeue, Busy
    <3>2. Held' = Held
      BY <3>1 DEF Held
    <3>3. \A v \in Workers : worker'[v] = "signal" => worker[v] = "signal"
      BY <1>2, <2>1 DEF Dequeue
    <3> QED BY <3>1, <3>2, <3>3
  <2>2. CASE pending # <<>>
    <3>1. /\ Head(pending) \in Works
          /\ ToSet(pending) = ToSet(Tail(pending)) \cup {Head(pending)}
      BY <2>2, InQueue
    <3>2. /\ worker[w] = "woken" /\ worker' = [worker EXCEPT ![w] = "running"]
          /\ work' = [work EXCEPT ![w] = Head(pending)]
          /\ pending' = Tail(pending) /\ UNCHANGED <<ran, pool>>
      BY <1>2, <2>2 DEF Dequeue
    <3>3. Busy' = Busy \cup {w} /\ w \notin Busy
      BY <3>2 DEF Busy
    <3>4. /\ work'[w] = Head(pending)
          /\ \A v \in Busy : work'[v] = work[v]
      BY <3>2, <3>3 DEF Busy
    <3>5. {work'[v] : v \in Busy'} = {work[v] : v \in Busy} \cup {Head(pending)}
      BY <3>3, <3>4
    <3>6. Held' = Held
      BY <3>1, <3>2, <3>5 DEF Held
    <3>7. \A v \in Busy' : work'[v] \in Works
      BY <3>1, <3>3, <3>4
    <3>8. \A v \in Workers : worker'[v] = "signal" => work'[v] \in ran'
      BY <3>2
    <3> QED BY <3>2, <3>6, <3>7, <3>8
  <2> QED BY <2>1, <2>2
<1>3. ASSUME NEW w \in Workers, Callback(w) PROVE Goal
  <2>1. /\ Busy' = Busy /\ UNCHANGED <<pending, work, pool>>
        /\ ran' = ran \cup {work[w]}
        /\ worker' = [worker EXCEPT ![w] = "signal"]
    BY <1>3 DEF Callback, Busy
  <2>2. Held' = Held
    BY <2>1 DEF Held
  <2> QED BY <2>1, <2>2
<1>4. ASSUME NEW w \in Workers, Signal(w) PROVE Goal
  <2>1. /\ worker[w] = "signal" /\ worker' = [worker EXCEPT ![w] = "waiting"]
        /\ work' = [work EXCEPT ![w] = NoWork]
        /\ UNCHANGED <<pending, ran, pool>>
    BY <1>4 DEF Signal
  <2>2. Busy' = Busy \ {w} /\ work[w] \in ran
    BY <2>1 DEF Busy
  <2>3. \A v \in Busy' : work'[v] = work[v]
    BY <2>1, <2>2 DEF Busy
  <2>4. Held' \subseteq Held /\ Held \subseteq Held' \cup {work[w]}
    BY <2>1, <2>2, <2>3 DEF Held
  <2>5. \A v \in Workers : worker'[v] = "signal" => v # w /\ worker[v] = "signal"
    BY <2>1
  <2> QED BY <2>1, <2>2, <2>3, <2>4, <2>5
<1>5. CASE CloseThreadpool
  <2>1. Held' = Held /\ Busy' = Busy /\ UNCHANGED <<worker, work, ran>> /\ pool = "open"
    BY <1>5 DEF CloseThreadpool, Held, Busy, workers
  <2> QED BY <2>1
<1>6. CASE FreePool
  <2>1. Busy' = Busy /\ UNCHANGED <<worker, work, ran>> /\ pool' = "freed" /\ pending' = <<>>
    BY <1>6 DEF FreePool, Busy, workers
  <2>2. ToSet(pending') = {}
    BY <2>1 DEF ToSet
  <2>3. Held' \subseteq Held
    BY <2>1, <2>2 DEF Held
  <2> QED BY <2>1, <2>3
<1>7. CASE UNCHANGED vars
  <2>1. Held' = Held /\ Busy' = Busy /\ UNCHANGED <<worker, work, ran, pool>>
    BY <1>7 DEF vars, Held, Busy
  <2> QED BY <2>1
<1> QED BY <1>1, <1>2, <1>3, <1>4, <1>5, <1>6, <1>7 DEF WorkerStep

\* Every step keeps the queue and the workers within what was submitted, and
\* what is freed within what is closed.
LEMMA HeldStep ==
    ASSUME TypeOK, TypeOK', FrameInv, HeldInv, [Next]_vars
    PROVE  HeldInv'
<1>0. Held \subseteq Works
  <2>1. ToSet(pending) \subseteq Works
    BY InQueue DEF TypeOK
  <2> QED BY <2>1 DEF Held, HeldInv
<1>1. ASSUME NEW c \in Clients, ClientStep(c) \/ GiveUp(c) PROVE HeldInv'
  <2>1. /\ submitted[c] \in Nat /\ closed[c] \in Nat /\ closed[c] <= submitted[c]
        /\ submitted'[c] \in Nat /\ closed'[c] \in Nat
    BY DEF TypeOK
  <2>2. submitted'[c] >= submitted[c] /\ closed'[c] >= closed[c]
    <3>1. CASE GiveUp(c)
      <4>1. submitted[c] <= closed[c] + Tiles
        <5>1. PICK k \in 0 .. Frames[c] : FrameAt(c, k)
          BY DEF FrameInv
        <5> QED BY <3>1, <5>1 DEF GiveUp, FrameAt
      <4> QED BY <2>1, <3>1, <4>1, ThreadPoolAssumption DEF GiveUp, TypeOK
    <3>2. CASE ClientStep(c)
      BY <2>1, <3>2
      DEF ClientStep, SubmitCount, SubmitEnqueue, BeginWait, WaitAndClose, Leave,
          TypeOK
    <3> QED BY <1>1, <3>1, <3>2
  <2>3. \A x \in Works : /\ x[2] \in Nat /\ x[1] \in Clients
                         /\ submitted[x[1]] \in Nat /\ submitted'[x[1]] \in Nat
                         /\ closed[x[1]] \in Nat /\ closed'[x[1]] \in Nat
                         /\ submitted'[x[1]] >= submitted[x[1]]
                         /\ closed'[x[1]] >= closed[x[1]]
    <3>1. \A d \in Clients :
            /\ submitted[d] \in Nat /\ submitted'[d] \in Nat
            /\ closed[d] \in Nat /\ closed'[d] \in Nat
            /\ submitted'[d] >= submitted[d] /\ closed'[d] >= closed[d]
      <4>1. \A d \in Clients : /\ submitted[d] \in Nat /\ submitted'[d] \in Nat
                               /\ closed[d] \in Nat /\ closed'[d] \in Nat
        BY DEF TypeOK
      <4>2. \A d \in Clients \ {c} :
              submitted'[d] = submitted[d] /\ closed'[d] = closed[d]
        BY <1>1, ClientAlone
      <4> QED BY <2>2, <4>1, <4>2
    <3> QED BY <3>1, WorkParts
  <2>4. \A x \in Held : x[2] <= submitted'[x[1]]
    BY <1>0, <2>3 DEF HeldInv
  <2>5. \A x \in Held' : x[2] <= submitted'[x[1]]
    <3>1. CASE SubmitEnqueue(c)
      <4> DEFINE x == <<c, submitted[c] + 1>>
      <4>1. Held' = Held \cup {x}
        BY <1>1, <3>1, HeldClient
      <4>2. x[1] = c /\ x[2] = submitted[c] + 1 /\ submitted'[c] = submitted[c] + 1
        BY <3>1 DEF SubmitEnqueue, TypeOK
      <4>3. x[2] <= submitted'[x[1]]
        BY <2>1, <4>2
      <4> HIDE DEF x
      <4> QED BY <2>4, <4>1, <4>3
    <3>2. CASE ~ SubmitEnqueue(c)
      BY <1>1, <2>4, <3>2, HeldClient
    <3> QED BY <3>1, <3>2
  <2>6. \A x \in freed' : x[2] <= closed'[x[1]]
    <3>1. \A x \in freed : x[2] <= closed'[x[1]]
      BY <2>3 DEF HeldInv, TypeOK
    <3>2. CASE WaitAndClose(c)
      <4> DEFINE x == <<c, closed[c] + 1>>
      <4>1. freed' = freed \cup {x}
        BY <3>2 DEF WaitAndClose
      <4>2. x[1] = c /\ x[2] = closed[c] + 1 /\ closed'[c] = closed[c] + 1
        BY <3>2 DEF WaitAndClose, TypeOK
      <4>3. x[2] <= closed'[x[1]]
        BY <2>1, <4>2
      <4> HIDE DEF x
      <4> QED BY <3>1, <4>1, <4>3
    <3>3. CASE ~ WaitAndClose(c)
      <4>1. freed' = freed
        BY <1>1, <3>3
        DEF ClientStep, SubmitCount, SubmitEnqueue, BeginWait, Leave, GiveUp
      <4> QED BY <3>1, <4>1
    <3> QED BY <3>2, <3>3
  <2>7. Busy' = Busy /\ UNCHANGED <<worker, work, ran>>
    BY <1>1, HeldClient
  <2> QED BY <2>5, <2>6, <2>7 DEF HeldInv
<1>2. CASE (\E w \in Workers : WorkerStep(w) \/ AddWorker(w))
               \/ CloseThreadpool \/ FreePool \/ UNCHANGED vars
  <2>1. UNCHANGED <<submitted, closed, freed>>
    BY <1>2, WorkerAlone DEF clients
  <2>2. /\ Held' \subseteq Held
        /\ \A w \in Busy' : work'[w] \in Works
        /\ \A w \in Workers : worker'[w] = "signal" => work'[w] \in ran'
    BY <1>2, HeldWorker
  <2> QED BY <2>1, <2>2 DEF HeldInv
<1> QED BY <1>1, <1>2 DEF Next

-----------------------------------------------------------------------------
(***************************************************************************)
(* The countdown event.                                                    *)
(***************************************************************************)

\* Every step keeps the count at the number of works counted, queued and
\* running, and the event set exactly at 0.
LEMMA CountStep ==
    ASSUME TypeOK, FrameInv, OwnerInv, HeldInv, CountInv, [Next]_vars
    PROVE  CountInv'
<1>0. /\ Len(pending) \in Nat /\ count \in Nat
      /\ Cardinality(Busy) \in Nat /\ Cardinality(Counted) \in Nat
      /\ IsFiniteSet(Busy) /\ IsFiniteSet(Counted)
      /\ complete = (count = 0)
      /\ pool # "freed" =>
           count = Len(pending) + Cardinality(Busy) + Cardinality(Counted)
  BY BusyFinite, InQueue DEF TypeOK, CountInv
<1>1. ASSUME NEW c \in Clients, ClientStep(c) \/ GiveUp(c) PROVE CountInv'
  <2>1. Busy' = Busy /\ pool' = pool
    BY <1>1, HeldClient
  <2>2. CASE SubmitCount(c)
    <3>1. Counted' = Counted \cup {c} /\ c \notin Counted
      BY <2>2 DEF SubmitCount, Counted, TypeOK
    <3>2. Cardinality(Counted') = Cardinality(Counted) + 1
      BY <1>0, <3>1, OneMore
    <3>3. count' = count + 1 /\ complete' = FALSE /\ pending' = pending
      BY <2>2 DEF SubmitCount
    <3>4. pool' # "freed" =>
            count' = Len(pending') + Cardinality(Busy') + Cardinality(Counted')
      BY <1>0, <2>1, <3>2, <3>3
    <3>5. (count' = 0) = FALSE
      BY <1>0, <3>3
    <3>6. complete' = (count' = 0)
      BY <3>3, <3>5
    <3> QED BY <3>4, <3>6 DEF CountInv
  <2>3. CASE SubmitEnqueue(c)
    <3>1. Counted' = Counted \ {c} /\ c \in Counted
      BY <2>3 DEF SubmitEnqueue, Counted, TypeOK
    <3>2. Cardinality(Counted') = Cardinality(Counted) - 1
      BY <1>0, <3>1, OneLess
    <3>3. Len(pending') = Len(pending) + 1
      <4> DEFINE x == <<c, submitted[c] + 1>>
      <4>1. pending' = Append(pending, x)
        BY <2>3 DEF SubmitEnqueue
      <4>2. pending \in Seq(Works)
        BY DEF TypeOK
      <4> HIDE DEF x
      <4> QED BY <4>1, <4>2
    <3>4. UNCHANGED <<count, complete>>
      BY <2>3 DEF SubmitEnqueue
    <3>5. pool' # "freed" =>
            count' = Len(pending') + Cardinality(Busy') + Cardinality(Counted')
      BY <1>0, <2>1, <3>2, <3>3, <3>4
    <3> QED BY <1>0, <3>4, <3>5 DEF CountInv
  <2>4. CASE BeginWait(c) \/ WaitAndClose(c) \/ Leave(c) \/ GiveUp(c)
    <3>1. UNCHANGED <<count, complete, pending>>
      BY <2>4 DEF BeginWait, WaitAndClose, Leave, GiveUp
    <3>2. Counted' = Counted
      BY <2>4 DEF BeginWait, WaitAndClose, Leave, GiveUp, Counted, TypeOK
    <3> QED BY <2>1, <3>1, <3>2 DEF CountInv
  <2> QED BY <1>1, <2>2, <2>3, <2>4 DEF ClientStep
<1>2. ASSUME NEW w \in Workers, Wake(w) \/ AddWorker(w) PROVE CountInv'
  <2>1. Busy' = Busy /\ UNCHANGED <<pending, count, complete, pool, client>>
    BY <1>2 DEF Wake, AddWorker, Busy, TypeOK, clients
  <2>2. Counted' = Counted
    BY <2>1 DEF Counted
  <2> QED BY <2>1, <2>2 DEF CountInv
<1>3. ASSUME NEW w \in Workers, Dequeue(w) PROVE CountInv'
  <2>1. UNCHANGED <<count, complete, pool, client>>
    BY <1>3 DEF Dequeue, clients
  <2>2. Counted' = Counted
    BY <2>1 DEF Counted
  <2>3. CASE pending = <<>>
    <3>1. Busy' = Busy /\ pending' = pending
      BY <1>3, <2>3 DEF Dequeue, Busy, TypeOK
    <3> QED BY <2>1, <2>2, <3>1 DEF CountInv
  <2>4. CASE pending # <<>>
    <3>1. Busy' = Busy \cup {w} /\ w \notin Busy /\ pending' = Tail(pending)
      BY <1>3, <2>4 DEF Dequeue, Busy, TypeOK
    <3>2. Cardinality(Busy') = Cardinality(Busy) + 1
      BY <1>0, <3>1, OneMore
    <3>3. Len(pending') = Len(pending) - 1
      BY <2>4, <3>1, InQueue DEF TypeOK
    <3>4. pool' # "freed" =>
            count' = Len(pending') + Cardinality(Busy') + Cardinality(Counted')
      BY <1>0, <2>1, <2>2, <3>2, <3>3
    <3> QED BY <1>0, <2>1, <3>4 DEF CountInv
  <2> QED BY <2>3, <2>4
<1>4. ASSUME NEW w \in Workers, Callback(w) PROVE CountInv'
  <2>1. Busy' = Busy /\ UNCHANGED <<pending, count, complete, pool, client>>
    BY <1>4 DEF Callback, Busy, TypeOK, clients
  <2>2. Counted' = Counted
    BY <2>1 DEF Counted
  <2> QED BY <2>1, <2>2 DEF CountInv
<1>5. ASSUME NEW w \in Workers, Signal(w) PROVE CountInv'
  <2>1. Busy' = Busy \ {w} /\ w \in Busy /\ UNCHANGED <<pending, pool, client>>
    BY <1>5 DEF Signal, Busy, TypeOK, clients
  <2>2. Cardinality(Busy) > 0 /\ Cardinality(Busy') = Cardinality(Busy) - 1
    BY <1>0, <2>1, OneLess
  <2>3. Counted' = Counted
    BY <2>1 DEF Counted
  <2>4. pool # "freed"
    BY <1>5 DEF Signal, OwnerInv, Joined
  <2>5. count > 0
    BY <1>0, <2>2, <2>4
  <2>6. count' = count - 1
    BY <1>5, <2>5 DEF Signal
  <2>7. (count = 0) = FALSE
    BY <2>5
  <2>8. complete' = (count' = 0)
    <3>1. complete' = (complete \/ count' = 0)
      BY <1>5 DEF Signal, Completes
    <3> QED BY <1>0, <2>7, <3>1
  <2>9. pool' # "freed" =>
          count' = Len(pending') + Cardinality(Busy') + Cardinality(Counted')
    BY <1>0, <2>1, <2>2, <2>3, <2>4, <2>6
  <2> QED BY <2>8, <2>9 DEF CountInv
<1>6. CASE CloseThreadpool
  <2>1. Busy' = Busy /\ UNCHANGED <<pending, count, complete, client>> /\ pool = "open"
    BY <1>6 DEF CloseThreadpool, Busy, clients, workers
  <2>2. Counted' = Counted
    BY <2>1 DEF Counted
  <2> QED BY <2>1, <2>2 DEF CountInv
<1>7. CASE FreePool
  <2>1. UNCHANGED <<count, complete>> /\ pool' = "freed"
    BY <1>7 DEF FreePool
  <2> QED BY <2>1 DEF CountInv
<1>8. CASE UNCHANGED vars
  <2>1. Busy' = Busy /\ Counted' = Counted /\ UNCHANGED <<pending, count, complete, pool>>
    BY <1>8 DEF vars, Busy, Counted
  <2> QED BY <2>1 DEF CountInv
<1> QED BY <1>1, <1>2, <1>3, <1>4, <1>5, <1>6, <1>7, <1>8 DEF Next, WorkerStep

\* When a client finds the event set, nothing is queued or running.
LEMMA CompleteMeansIdle ==
    ASSUME TypeOK, OwnerInv, CountInv, complete, NEW c \in Clients, client[c] # "done"
    PROVE  Held = {} /\ pool # "freed"
<1>1. pool # "freed"
  BY DEF OwnerInv
<1>2. count = 0
  BY DEF CountInv
<1>3. /\ Len(pending) \in Nat /\ Cardinality(Busy) \in Nat
      /\ Cardinality(Counted) \in Nat
      /\ count = Len(pending) + Cardinality(Busy) + Cardinality(Counted)
  BY <1>1, BusyFinite, InQueue DEF TypeOK, CountInv
<1>4. Len(pending) = 0 /\ Cardinality(Busy) = 0
  BY <1>2, <1>3
<1>5. ToSet(pending) = {} /\ Busy = {}
  BY <1>4, InQueue, BusyFinite DEF TypeOK
<1> QED BY <1>1, <1>5 DEF Held

-----------------------------------------------------------------------------
(***************************************************************************)
(* No work is lost, and none is freed too early.                           *)
(***************************************************************************)

\* Every step keeps the works that have to run in the queue, with a worker, or
\* among those that have run.
LEMMA OwedStep ==
    ASSUME TypeOK, TypeOK', FrameInv, HeldInv, OwedInv, [Next]_vars
    PROVE  OwedInv'
<1>1. ASSUME NEW c \in Clients, ClientStep(c) \/ GiveUp(c), pool' # "freed",
             NEW y \in Owed'
      PROVE  y \in (Held \cup ran)'
  <2>0. /\ ran' = ran /\ pool' = pool /\ Held \subseteq Held'
        /\ \A x \in Owed : x \in Held \cup ran
    BY <1>1, HeldClient DEF OwedInv
  <2>1. y \in Works
    BY DEF Owed, TypeOK
  <2>2. /\ y[1] \in Clients /\ y[2] \in Nat /\ y = <<y[1], y[2]>>
        /\ submitted[c] \in Nat /\ closed[c] \in Nat
    BY <2>1, WorkParts DEF TypeOK
  <2>3. CASE y \in Owed
    BY <2>0, <2>3
  <2>4. CASE y \notin Owed
    <3>1. y[1] = c
      <4>1. ASSUME y[1] # c PROVE FALSE
        <5>1. submitted'[y[1]] = submitted[y[1]] /\ closed'[y[1]] = closed[y[1]]
          BY <1>1, <2>2, <4>1, ClientAlone
        <5>2. y \in failed' => y \in failed
          BY <1>1, <4>1
          DEF ClientStep, SubmitCount, SubmitEnqueue, BeginWait, WaitAndClose,
              Leave, GiveUp
        <5> QED BY <2>1, <2>4, <5>1, <5>2 DEF Owed
      <4> QED BY <4>1
    <3>2. CASE SubmitEnqueue(c)
      <4> DEFINE x == <<c, submitted[c] + 1>>
      <4>1. /\ submitted'[c] = submitted[c] + 1 /\ closed'[c] = closed[c]
            /\ failed' = failed
        BY <3>2 DEF SubmitEnqueue, TypeOK
      <4>2. y[2] = submitted[c] + 1
        BY <2>1, <2>2, <2>4, <3>1, <4>1 DEF Owed
      <4>3. y = x
        BY <2>2, <3>1, <4>2
      <4>4. x \in Held'
        BY <1>1, <3>2, HeldClient
      <4> QED BY <4>3, <4>4
    <3>3. CASE GiveUp(c)
      <4>1. /\ submitted'[c] = closed'[c] /\ closed'[c] \in Nat
            /\ failed' = failed \cup ({c} \X (closed[c] + 1 .. submitted[c]))
        BY <3>3 DEF GiveUp, TypeOK
      <4>2. y \in failed'
        BY <2>2, <3>1, <4>1 DEF Owed
      <4>3. y \in failed \/ y[2] \in closed[c] + 1 .. submitted[c]
        BY <2>2, <4>1, <4>2
      <4> QED BY <2>1, <2>2, <2>4, <3>1, <4>3 DEF Owed
    <3>4. CASE WaitAndClose(c)
      <4>1. /\ submitted'[c] = submitted[c] /\ closed'[c] = closed[c] + 1
            /\ failed' = failed
        BY <3>4 DEF WaitAndClose, TypeOK
      <4> QED BY <2>1, <2>2, <2>4, <3>1, <4>1 DEF Owed
    <3>5. CASE SubmitCount(c) \/ BeginWait(c) \/ Leave(c)
      <4>1. UNCHANGED <<submitted, closed, failed>>
        BY <3>5 DEF SubmitCount, BeginWait, Leave
      <4> QED BY <2>4, <4>1 DEF Owed
    <3> QED BY <1>1, <3>2, <3>3, <3>4, <3>5 DEF ClientStep
  <2> QED BY <2>3, <2>4
<1>2. CASE (\E w \in Workers : WorkerStep(w) \/ AddWorker(w))
               \/ CloseThreadpool \/ FreePool \/ UNCHANGED vars
  <2>1. UNCHANGED <<submitted, closed, failed>>
    BY <1>2, WorkerAlone DEF clients
  <2>2. Owed' = Owed
    BY <2>1 DEF Owed
  <2>3. /\ ran \subseteq ran'
        /\ pool' # "freed" => Held \subseteq Held' \cup ran /\ pool # "freed"
    BY <1>2, HeldWorker
  <2> QED BY <2>2, <2>3 DEF OwedInv
<1> QED BY <1>1, <1>2 DEF Next, OwedInv

\* Every step keeps works from being freed or used before they have run.
LEMMA SafeStep ==
    ASSUME TypeOK, TypeOK', FrameInv, OwnerInv, HeldInv, CountInv, OwedInv,
           WorkSafe, [Next]_vars
    PROVE  WorkSafe'
<1>0. /\ freed \subseteq ran
      /\ \A x \in freed, y \in failed : y[1] = x[1] /\ y[2] < x[2] => y \in ran
      /\ Held \cap freed = {}
      /\ \A x \in Held : x[2] <= closed[x[1]] => x \in failed
  BY DEF WorkSafe, WaitMeansDone, NoFreedWork
<1>01. Held \subseteq Works /\ freed \subseteq Works /\ failed \subseteq Works
  <2>1. ToSet(pending) \subseteq Works
    BY InQueue DEF TypeOK
  <2> QED BY <2>1 DEF Held, HeldInv, TypeOK
<1>1. ASSUME NEW c \in Clients, WaitAndClose(c) PROVE WorkSafe'
  <2> DEFINE z == <<c, closed[c] + 1>>
  <2>1. Held = {} /\ pool # "freed"
    BY <1>1, CompleteMeansIdle DEF WaitAndClose, WaitOver
  <2>2. Held' = {} /\ ran' = ran
    BY <1>1, <2>1, HeldClient DEF ClientStep, WaitAndClose, SubmitEnqueue
  <2>3. freed' = freed \cup {z} /\ failed' = failed
    BY <1>1 DEF WaitAndClose
  <2>4. Owed \subseteq ran
    BY <2>1 DEF OwedInv
  <2>5. z \in ran
    <3>1. PICK k \in 0 .. Frames[c] : FrameAt(c, k)
      BY DEF FrameInv
    <3>2. closed[c] < submitted[c]
      BY <1>1, <3>1 DEF WaitAndClose, FrameAt
    <3>3. /\ closed[c] + 1 \in 1 .. Tiles * Frames[c]
          /\ closed[c] < closed[c] + 1 /\ closed[c] + 1 <= submitted[c]
      BY <3>1, <3>2, FrameBounds, ThreadPoolAssumption DEF TypeOK
    <3>4. z \in Works /\ z[1] = c /\ z[2] = closed[c] + 1
      BY <3>3, WorkMade
    <3> HIDE DEF z
    <3>5. z \in Owed
      BY <3>3, <3>4 DEF Owed
    <3> QED BY <2>4, <3>5
  <2>6. failed \subseteq ran
    BY <2>4 DEF Owed
  <2> HIDE DEF z
  <2>7. WaitMeansDone'
    BY <1>0, <2>2, <2>3, <2>5, <2>6 DEF WaitMeansDone
  <2>8. NoFreedWork'
    BY <2>2 DEF NoFreedWork
  <2> QED BY <2>7, <2>8 DEF WorkSafe
<1>2. ASSUME NEW c \in Clients, GiveUp(c) PROVE WorkSafe'
  <2> DEFINE new == {c} \X (closed[c] + 1 .. submitted[c])
  <2>1. Held' = Held /\ ran' = ran
    BY <1>2, HeldClient DEF GiveUp, SubmitEnqueue
  <2>2. /\ freed' = freed /\ failed' = failed \cup new
        /\ \A d \in Clients \ {c} : closed'[d] = closed[d]
    BY <1>2 DEF GiveUp, TypeOK
  <2>3. closed[c] \in Nat /\ submitted[c] \in Nat
    BY DEF TypeOK
  <2>4. \A y \in new : y[1] = c /\ y[2] \in Nat /\ y[2] > closed[c]
    BY <2>3
  <2>5. \A x \in freed : x[2] \in Nat /\ x[2] <= closed[x[1]]
    BY <1>01, WorkParts DEF HeldInv
  <2>6. \A x \in freed, y \in new : ~ (y[1] = x[1] /\ y[2] < x[2])
    <3> HIDE DEF new
    <3> QED BY <2>3, <2>4, <2>5
  <2>7. WaitMeansDone'
    <3> HIDE DEF new
    <3> QED BY <1>0, <2>1, <2>2, <2>6 DEF WaitMeansDone
  <2>8. ASSUME NEW x \in Held, x[2] <= closed'[x[1]] PROVE x \in failed'
    <3>1. /\ x[1] \in Clients /\ x[2] \in Nat /\ x = <<x[1], x[2]>>
          /\ x[2] <= submitted[x[1]]
      BY <1>01, WorkParts DEF HeldInv
    <3>2. CASE x[1] # c \/ x[2] <= closed[c]
      <4>1. x[2] <= closed[x[1]]
        BY <2>2, <2>8, <3>1, <3>2
      <4> QED BY <1>0, <2>2, <4>1
    <3>3. CASE x[1] = c /\ ~ (x[2] <= closed[c])
      <4>1. x[2] \in closed[c] + 1 .. submitted[c]
        BY <2>3, <3>1, <3>3
      <4>2. x \in new
        BY <3>1, <3>3, <4>1
      <4> QED BY <2>2, <4>2
    <3> QED BY <3>2, <3>3
  <2>9. NoFreedWork'
    <3> HIDE DEF new
    <3> QED BY <1>0, <2>1, <2>2, <2>8 DEF NoFreedWork
  <2> QED BY <2>7, <2>9 DEF WorkSafe
<1>3. ASSUME NEW c \in Clients, SubmitEnqueue(c) PROVE WorkSafe'
  <2> DEFINE z == <<c, submitted[c] + 1>>
  <2>1. Held' = Held \cup {z} /\ ran' = ran
    BY <1>3, HeldClient DEF ClientStep
  <2>2. UNCHANGED <<closed, freed, failed>>
    BY <1>3 DEF SubmitEnqueue
  <2>3. /\ z[1] = c /\ z[2] = submitted[c] + 1
        /\ closed[c] \in Nat /\ submitted[c] \in Nat /\ closed[c] <= submitted[c]
    BY DEF TypeOK
  <2> HIDE DEF z
  <2>4. ~ (z[2] <= closed[z[1]])
    BY <2>3
  <2>5. z \notin freed
    BY <2>4 DEF HeldInv
  <2>6. NoFreedWork'
    BY <1>0, <2>1, <2>2, <2>4, <2>5 DEF NoFreedWork
  <2>7. WaitMeansDone'
    BY <1>0, <2>1, <2>2 DEF WaitMeansDone
  <2> QED BY <2>6, <2>7 DEF WorkSafe
<1>4. ASSUME NEW c \in Clients, SubmitCount(c) \/ BeginWait(c) \/ Leave(c)
      PROVE  WorkSafe'
  <2>1. Held' = Held /\ ran' = ran
    BY <1>4, HeldClient DEF ClientStep, SubmitEnqueue, SubmitCount, BeginWait, Leave
  <2>2. UNCHANGED <<closed, freed, failed>>
    BY <1>4 DEF SubmitCount, BeginWait, Leave
  <2> QED BY <1>0, <2>1, <2>2 DEF WorkSafe, WaitMeansDone, NoFreedWork
<1>5. CASE (\E w \in Workers : WorkerStep(w) \/ AddWorker(w))
               \/ CloseThreadpool \/ FreePool \/ UNCHANGED vars
  <2>1. UNCHANGED <<closed, freed, failed>>
    BY <1>5, WorkerAlone DEF clients
  <2>2. Held' \subseteq Held /\ ran \subseteq ran'
    BY <1>5, HeldWorker
  <2> QED BY <1>0, <2>1, <2>2 DEF WorkSafe, WaitMeansDone, NoFreedWork
<1> QED BY <1>1, <1>2, <1>3, <1>4, <1>5 DEF Next, ClientStep

-----------------------------------------------------------------------------
(***************************************************************************)
(* The theorems.                                                           *)
(***************************************************************************)

\* The whole invariant holds at first and after every step.
LEMMA PoolInvariant == Spec => []PoolInv
<1>1. Init => PoolInv
  <2> SUFFICES ASSUME Init PROVE PoolInv
    OBVIOUS
  <2>0. Tiles \in Nat \ {0} /\ Frames \in [Clients -> Nat]
    BY ThreadPoolAssumption
  <2>1. FrameInv
    <3>1. ASSUME NEW c \in Clients PROVE FrameAt(c, 0) /\ 0 \in 0 .. Frames[c]
      BY <2>0 DEF Init, FrameAt
    <3> QED BY <3>1 DEF FrameInv
  <2>2. TypeOK
    <3>1. \A c \in Clients : Tiles * Frames[c] \in Nat
      BY <2>0
    <3>2. \A c \in Clients : closed[c] <= submitted[c]
                             /\ submitted[c] <= Tiles * Frames[c]
      BY <3>1 DEF Init
    <3>3. pending \in Seq(Works) /\ count \in Nat /\ complete \in BOOLEAN
      BY DEF Init
    <3>4. worker \in [Workers -> WorkerStates] /\ work \in [Workers -> Works \cup {NoWork}]
      BY DEF Init, WorkerStates
    <3>5. submitted \in [Clients -> Nat] /\ closed \in [Clients -> Nat]
      BY DEF Init
    <3> QED BY <3>2, <3>3, <3>4, <3>5 DEF Init, TypeOK
  <2>3. Busy = {} /\ Counted = {} /\ ToSet(pending) = {} /\ Held = {} /\ Len(pending) = 0
    BY DEF Init, Busy, Counted, Held, ToSet
  <2>4. Cardinality(Busy) = 0 /\ Cardinality(Counted) = 0
    BY <2>3, FS_EmptySet
  <2>5. CountInv
    <3>1. count = 0 /\ complete = TRUE
      BY DEF Init
    <3>2. count = Len(pending) + Cardinality(Busy) + Cardinality(Counted)
      BY <2>3, <2>4, <3>1
    <3>3. complete = (count = 0)
      BY <3>1
    <3> QED BY <3>2, <3>3 DEF CountInv
  <2>6. OwnerInv
    BY DEF Init, OwnerInv
  <2>7. HeldInv
    BY <2>3 DEF Init, HeldInv
  <2>8. Owed = {}
    <3>1. \A x \in Works : ~ (closed[x[1]] < x[2] /\ x[2] <= submitted[x[1]])
      BY WorkParts, <2>0 DEF Init
    <3> QED BY <3>1 DEF Owed, Init
  <2>9. WorkSafe
    BY <2>3 DEF Init, WorkSafe, WaitMeansDone, NoFreedWork
  <2> QED BY <2>1, <2>2, <2>5, <2>6, <2>7, <2>8, <2>9 DEF PoolInv, OwedInv
<1>2. PoolInv /\ [Next]_vars => PoolInv'
  BY TypeStep, FrameStep, OwnerStep, HeldStep, CountStep, OwedStep, SafeStep
  DEF PoolInv
<1> QED BY <1>1, <1>2, PTL DEF Spec

\* WorkComplete counts exactly the work that is about to be queued, queued or
\* running, and its event is set exactly when there is none.
THEOREM InvHolds == Spec => []Inv
<1>1. PoolInv => Inv
  BY DEF PoolInv, Inv
<1> QED BY PoolInvariant, <1>1, PTL

\* No work object is closed, and no tile used, before its callback has run, and
\* neither the queue nor a worker holds a work object that was closed.
THEOREM WorkSafeHolds == Spec => []WorkSafe
<1>1. PoolInv => WorkSafe
  BY DEF PoolInv
<1> QED BY PoolInvariant, <1>1, PTL
=============================================================================

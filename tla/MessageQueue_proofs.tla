------------------------ MODULE MessageQueue_proofs ------------------------
(***************************************************************************)
(* Proofs that wMessageQueue is a first-in first-out queue for every       *)
(* initial capacity above one, every number of messages and of readers.    *)
(***************************************************************************)
EXTENDS MessageQueue, SequenceTheorems, TLAPS

\* The remainder, for an index that has run over the end of the ring at most
\* once.
LEMMA Wrap ==
    ASSUME NEW c \in Nat, c > 0, NEW i \in Nat, i < 2 * c
    PROVE  i % c = IF i < c THEN i ELSE i - c
<1>1. CASE i < c
  BY <1>1
<1>2. CASE i >= c
  BY <1>2
<1> QED
  BY <1>1, <1>2

LEMMA NoWrap == \A c, i \in Nat : i < c => i % c = i
  BY Wrap

Ensured == EnsureCapacity(array, capacity, head, tail, size)

\* What MessageQueue_EnsureCapacity leaves behind: room for one more message,
\* and the messages in the same order, wherever the ring had wrapped.
LEMMA EnsureCapacityKeeps ==
    ASSUME TypeOK, RingInv
    PROVE  /\ Ensured.capacity \in Nat /\ Ensured.capacity >= capacity
           /\ size + 1 < Ensured.capacity
           /\ Ensured.array \in [0 .. Ensured.capacity - 1 -> Message \cup {Zero}]
           /\ Ensured.tail = (head + size) % Ensured.capacity
           /\ \A k \in 1 .. size :
                Ensured.array[(head + k - 1) % Ensured.capacity] = array[(head + k - 1) % capacity]
<1> USE MessageQueueAssumption DEF TypeOK
<1>1. CASE size + 1 < capacity
  <2>1. Ensured = [array |-> array, capacity |-> capacity, tail |-> tail]
    BY <1>1 DEF Ensured, EnsureCapacity
  <2> QED
    BY <1>1, <2>1 DEF RingInv
<1>2. CASE size + 1 >= capacity
  <2>1. Ensured = Grow(array, capacity, head, tail, size)
    BY <1>2 DEF Ensured, EnsureCapacity
  <2>2. /\ Ensured.capacity = 2 * capacity
        /\ Ensured.tail = IF tail <= head THEN tail + capacity ELSE tail
        /\ Ensured.array = [i \in 0 .. 2 * capacity - 1 |->
                        IF i < capacity THEN array[i]
                        ELSE IF tail <= head /\ i < capacity + tail
                             THEN array[i - capacity] ELSE Zero]
    BY <2>1 DEF Grow
  <2>3. size = capacity - 1 /\ size > 0
    BY <1>2
  <2>4. tail = IF head + size < capacity THEN head + size ELSE head + size - capacity
    <3> DEFINE i == head + size
    <3>0. head \in Nat /\ size \in Nat
      OBVIOUS
    <3>1. capacity \in Nat /\ capacity > 0 /\ i \in Nat /\ i < 2 * capacity
      OBVIOUS
    <3>2. tail = i % capacity
      BY DEF RingInv
    <3> HIDE DEF TypeOK, i
    <3>3. i % capacity = IF i < capacity THEN i ELSE i - capacity
      BY <3>1, Wrap
    <3>4. tail = IF i < capacity THEN i ELSE i - capacity
      BY <3>2, <3>3
    <3> QED
      BY ONLY <3>0, <3>1, <3>4 DEF i
  <2>5. tail <= head <=> head + size >= capacity
    BY <2>3, <2>4
  <2>6. Ensured.tail = head + size /\ (head + size) % (2 * capacity) = head + size
    <3>1. Ensured.tail = head + size
      BY <2>2, <2>4, <2>5
    <3>2. 2 * capacity \in Nat /\ head + size \in Nat /\ head + size < 2 * capacity
      OBVIOUS
    <3> HIDE DEF TypeOK
    <3> QED
      BY <3>1, <3>2, NoWrap
  <2>7. Ensured.array \in [0 .. Ensured.capacity - 1 -> Message \cup {Zero}]
    BY <2>2
  <2>8. ASSUME NEW k \in 1 .. size
        PROVE  Ensured.array[(head + k - 1) % Ensured.capacity] = array[(head + k - 1) % capacity]
    <3> DEFINE i == head + k - 1
    <3>1. i \in Nat /\ i < head + size /\ i < 2 * capacity
      OBVIOUS
    <3>2. i % (2 * capacity) = i
      <4>1. 2 * capacity \in Nat
        OBVIOUS
      <4> HIDE DEF TypeOK, i
      <4> QED
        BY <3>1, <4>1, NoWrap
    <3>3. i % capacity = IF i < capacity THEN i ELSE i - capacity
      BY <3>1, Wrap
    <3>4. i >= capacity => tail <= head /\ i < capacity + tail
      BY <2>4, <2>5, <3>1
    <3>5. Ensured.array[i] = IF i < capacity THEN array[i] ELSE array[i - capacity]
      BY <2>2, <3>1, <3>4
    <3> QED
      BY <2>2, <3>2, <3>3, <3>5
  <2>9. Ensured.capacity \in Nat /\ Ensured.capacity >= capacity
        /\ size + 1 < Ensured.capacity
    BY <2>2, <2>3
  <2>10. Ensured.tail = (head + size) % Ensured.capacity
    BY <2>2, <2>6
  <2> HIDE DEF TypeOK
  <2> QED
    BY <2>7, <2>8, <2>9, <2>10
<1>3. size + 1 < capacity \/ size + 1 >= capacity
  OBVIOUS
<1> HIDE DEF TypeOK
<1> QED
  BY <1>1, <1>2, <1>3, Zenon

\* Two places in use are different entries of the ring.
LEMMA PlacesDiffer ==
    ASSUME NEW c \in Nat, c > 0, NEW h \in 0 .. c - 1,
           NEW j \in 0 .. c - 1, NEW k \in 0 .. c - 1,
           (h + j) % c = (h + k) % c
    PROVE  j = k
<1>1. (h + j) % c = IF h + j < c THEN h + j ELSE h + j - c
  BY Wrap
<1>2. (h + k) % c = IF h + k < c THEN h + k ELSE h + k - c
  BY Wrap
<1> QED
  BY <1>1, <1>2

\* Taking one step around the ring and then k is taking k + 1.
LEMMA NextPlace ==
    ASSUME NEW c \in Nat, c > 0, NEW h \in 0 .. c - 1, NEW k \in 0 .. c - 1
    PROVE  (((h + k) % c) + 1) % c = (h + k + 1) % c
<1>1. (h + k) % c = IF h + k < c THEN h + k ELSE h + k - c
  BY Wrap
<1>2. CASE h + k + 1 < c
  BY <1>1, <1>2
<1>3. CASE h + k + 1 >= c /\ h + k < c
  BY <1>1, <1>3
<1>4. CASE h + k >= c
  <2>1. ((h + k) % c) + 1 = h + k + 1 - c
    BY <1>1, <1>4
  <2>2. h + k + 1 - c \in Nat /\ h + k + 1 - c < c
    BY <1>4
  <2>3. (h + k + 1 - c) % c = h + k + 1 - c
    BY <2>2, Wrap
  <2>4. (h + k + 1) % c = h + k + 1 - c
    BY <1>4, Wrap
  <2> QED
    BY <2>1, <2>3, <2>4
<1> QED
  BY <1>2, <1>3, <1>4

LEMMA ShiftedPlace ==
    ASSUME NEW c \in Nat, c > 0, NEW h \in 0 .. c - 1, NEW k \in 0 .. c - 1
    PROVE  (((h + 1) % c) + k) % c = (h + k + 1) % c
<1>1. CASE h + 1 < c
  <2>1. (h + 1) % c = h + 1
    BY <1>1, Wrap
  <2> QED
    BY <2>1
<1>2. CASE h + 1 = c
  <2>1. (h + 1) % c = 0
    BY <1>2, Wrap
  <2>2. k % c = k /\ (h + k + 1) % c = k
    <3>1. h + k + 1 = c + k
      BY <1>2
    <3> QED
      BY <3>1, Wrap
  <2> QED
    BY <2>1, <2>2
<1> QED
  BY <1>1, <1>2

\* The messages between head and tail after a Dispatch: the old ones and the
\* new one behind them.
LEMMA DispatchRing ==
    ASSUME TypeOK, RingInv, NEW m \in Message, Dispatch(m)
    PROVE  /\ TypeOK'
           /\ tail' = (head' + size') % capacity'
           /\ \A k \in 1 .. size :
                array'[(head' + k - 1) % capacity'] = array[(head + k - 1) % capacity]
           /\ array'[(head' + size' - 1) % capacity'] = m
<1> DEFINE q == Ensured
           c == Ensured.capacity
           t == Ensured.tail
<1>1. /\ c \in Nat /\ c >= capacity
      /\ size + 1 < c
      /\ q.array \in [0 .. c - 1 -> Message \cup {Zero}]
      /\ t = (head + size) % c
      /\ \A k \in 1 .. size :
           q.array[(head + k - 1) % c] = array[(head + k - 1) % capacity]
  BY EnsureCapacityKeeps
<1>2. /\ array' = [q.array EXCEPT ![t] = m]
      /\ capacity' = c
      /\ tail' = (t + 1) % c
      /\ head' = head /\ size' = size + 1
  BY DEF Dispatch, Ensured
<1> HIDE DEF c, t
<1>3. /\ c \in Nat /\ c > 0 /\ size \in 0 .. c - 1
      /\ head \in 0 .. c - 1 /\ size + 1 \in 0 .. c - 1
      /\ c >= InitialCapacity
  <2>1. /\ capacity \in Nat /\ capacity > 0 /\ capacity >= InitialCapacity
        /\ size \in 0 .. capacity - 1 /\ head \in 0 .. capacity - 1
        /\ InitialCapacity \in Nat
    BY MessageQueueAssumption DEF TypeOK
  <2> QED
    BY <1>1, <2>1
<1>4. t \in 0 .. c - 1
  BY <1>1, <1>3
<1>5. tail' = (head' + size') % capacity'
  <2>1. (((head + size) % c) + 1) % c = (head + size + 1) % c
    BY <1>3, NextPlace
  <2>2. head + (size + 1) = head + size + 1
    BY <1>3
  <2> QED
    BY <1>1, <1>2, <2>1, <2>2
<1>6. array' \in [0 .. c - 1 -> Message \cup {Zero}]
  BY <1>1, <1>2, <1>4
<1>7. ASSUME NEW k \in 1 .. size
      PROVE  array'[(head' + k - 1) % capacity'] = array[(head + k - 1) % capacity]
  <2>1. k - 1 \in 0 .. c - 1 /\ k - 1 # size /\ head + (k - 1) = head + k - 1
    BY <1>3
  <2>2. (head + k - 1) % c # t
    <3>1. (head + (k - 1)) % c # (head + size) % c
      BY <1>3, <2>1, PlacesDiffer
    <3> QED
      BY <1>1, <2>1, <3>1
  <2>3. (head + k - 1) % c \in 0 .. c - 1
    BY <1>3
  <2> QED
    BY <1>1, <1>2, <2>2, <2>3
<1>8. array'[(head' + size' - 1) % capacity'] = m
  <2>1. head + (size + 1) - 1 = head + size
    BY <1>3
  <2> QED
    BY <1>1, <1>2, <1>4, <2>1
<1>9. TypeOK'
  <2>1. (t + 1) % c \in 0 .. c - 1
    BY <1>3, <1>4
  <2>2. /\ event' \in BOOLEAN /\ closed' \in BOOLEAN /\ posted' \in 0 .. MaxPosts
        /\ reader' = reader /\ taken' = taken /\ cleared' = cleared
    BY MessageQueueAssumption DEF Dispatch, TypeOK
  <2> QED
    BY <1>2, <1>3, <1>6, <2>1, <2>2 DEF TypeOK
<1> QED
  BY <1>5, <1>7, <1>8, <1>9

\* The ring after a message was taken: the others, one place further on.
LEMMA PeekRing ==
    ASSUME TypeOK, RingInv, NEW r \in Readers, Peek(r)
    PROVE  /\ TypeOK'
           /\ tail' = (head' + size') % capacity'
           /\ \A k \in 1 .. size' :
                array'[(head' + k - 1) % capacity'] = array[(head + k) % capacity]
           /\ array[head] \in Message /\ array[head].n = posted - size + 1
           /\ array[head] = array[(head + 1 - 1) % capacity]
<1>1. /\ array' = [array EXCEPT ![head] = Zero]
      /\ head' = (head + 1) % capacity /\ size' = size - 1
      /\ capacity' = capacity /\ tail' = tail /\ size > 0
      /\ taken' = Append(taken, array[head])
  BY DEF Peek
<1>2. capacity \in Nat /\ capacity > 0 /\ size \in 0 .. capacity - 1
      /\ head \in 0 .. capacity - 1 /\ head' \in 0 .. capacity - 1
  BY <1>1, MessageQueueAssumption DEF TypeOK
<1>3. head + 1 - 1 = head /\ head % capacity = head
  BY <1>2, NoWrap
<1>4. array[head] \in Message /\ array[head].n = posted - size + 1
  <2>1. 1 \in 1 .. size
    BY <1>1, <1>2
  <2> QED
    BY <1>3, <2>1 DEF RingInv
<1>5. tail' = (head' + size') % capacity'
  <2>1. size - 1 \in 0 .. capacity - 1 /\ head + (size - 1) + 1 = head + size
    BY <1>1, <1>2
  <2>2. (((head + 1) % capacity) + (size - 1)) % capacity = (head + (size - 1) + 1) % capacity
    BY <1>2, <2>1, ShiftedPlace
  <2> QED
    BY <1>1, <2>1, <2>2 DEF RingInv
<1>6. ASSUME NEW k \in 1 .. size'
      PROVE  array'[(head' + k - 1) % capacity'] = array[(head + k) % capacity]
  <2>1. /\ k - 1 \in 0 .. capacity - 1 /\ k \in 0 .. capacity - 1 /\ k # 0
        /\ head' + (k - 1) = head' + k - 1 /\ head + (k - 1) + 1 = head + k
    BY <1>1, <1>2
  <2>2. (((head + 1) % capacity) + (k - 1)) % capacity = (head + (k - 1) + 1) % capacity
    BY <1>2, <2>1, ShiftedPlace
  <2>3. (head' + k - 1) % capacity' = (head + k) % capacity
    BY <1>1, <2>1, <2>2
  <2>4. (head + 0) % capacity = head /\ 0 \in 0 .. capacity - 1
    BY <1>2, NoWrap
  <2>5. (head + k) % capacity # head
    BY <1>2, <2>1, <2>4, PlacesDiffer
  <2>6. (head + k) % capacity \in 0 .. capacity - 1
    BY <1>2, <2>1
  <2> QED
    BY <1>1, <2>3, <2>5, <2>6 DEF TypeOK
<1>7. TypeOK'
  <2>1. array' \in [0 .. capacity' - 1 -> Message \cup {Zero}]
    BY <1>1 DEF TypeOK
  <2>2. taken' \in Seq(Message)
    BY <1>1, <1>4, AppendProperties DEF TypeOK
  <2>3. size' \in 0 .. capacity' - 1
    BY <1>1, <1>2
  <2>4. event' \in BOOLEAN /\ reader' \in [Readers -> {"idle", "woken", "done"}]
    BY DEF Peek, EventAfterTake, TypeOK
  <2>5. closed' = closed /\ posted' = posted /\ cleared' = cleared
    BY DEF Peek
  <2> QED
    BY <1>1, <1>2, <2>1, <2>2, <2>3, <2>4, <2>5 DEF TypeOK
<1> QED
  BY <1>3, <1>4, <1>5, <1>6, <1>7

\* Clear leaves an empty ring whose ends meet where tail was.
LEMMA ClearRing ==
    ASSUME TypeOK, RingInv, Clear
    PROVE  TypeOK' /\ tail' = (head' + size') % capacity'
<1>1. /\ capacity \in Nat /\ capacity > 0 /\ tail \in 0 .. capacity - 1
      /\ head \in 0 .. capacity - 1 /\ size \in 0 .. capacity - 1
  BY MessageQueueAssumption DEF TypeOK
<1>2. head' = tail /\ size' = 0 /\ capacity' = capacity /\ tail' = tail
  BY DEF Clear, RingInv
<1>3. (tail + 0) % capacity = tail
  BY <1>1, NoWrap
<1>4. array' \in [0 .. capacity - 1 -> Message \cup {Zero}]
  BY DEF Clear, TypeOK
<1>5. cleared' \subseteq Message
  <2>1. \A k \in 1 .. size : Items[k] \in Message
    BY DEF Items, RingInv
  <2> QED
    BY <2>1 DEF Clear, TypeOK
<1>6. TypeOK'
  <2>1. /\ event' = FALSE /\ closed' = FALSE
        /\ reader' = reader /\ posted' = posted /\ taken' = taken
    BY DEF Clear
  <2>2. 0 \in 0 .. capacity - 1
    BY <1>1
  <2> QED
    BY <1>1, <1>2, <1>4, <1>5, <2>1, <2>2 DEF TypeOK
<1> QED
  BY <1>2, <1>3, <1>6

\* A step that leaves the ring alone.
LEMMA IdleStep ==
    ASSUME TypeOK, UNCHANGED vars \/ \E r \in Readers : Wait(r) \/ PeekEmpty(r)
    PROVE  TypeOK' /\ UNCHANGED <<ring, event, closed, posted, taken, cleared>>
<1>1. UNCHANGED <<ring, event, closed, posted, taken, cleared>>
  BY DEF vars, Wait, PeekEmpty
<1>2. reader' \in [Readers -> {"idle", "woken", "done"}]
  BY DEF vars, Wait, PeekEmpty, TypeOK
<1> QED
  BY <1>1, <1>2 DEF TypeOK, ring

\* Every step is one of these.
LEMMA Steps ==
    ASSUME [Next]_vars
    PROVE  \/ \E m \in Message : Dispatch(m)
           \/ \E r \in Readers : Peek(r)
           \/ Clear
           \/ UNCHANGED vars \/ \E r \in Readers : Wait(r) \/ PeekEmpty(r)
  BY DEF Next

LEMMA InvInit == Init => Inv
<1> SUFFICES ASSUME Init PROVE Inv
  OBVIOUS
<1>1. TypeOK
  <2>1. <<>> \in Seq(Message)
    BY EmptySeq
  <2>2. /\ array \in [0 .. capacity - 1 -> Message \cup {Zero}]
        /\ reader \in [Readers -> {"idle", "woken", "done"}]
    BY DEF Init
  <2>3. /\ capacity \in Nat /\ capacity >= InitialCapacity
        /\ head \in 0 .. capacity - 1 /\ tail \in 0 .. capacity - 1
        /\ size \in 0 .. capacity - 1 /\ posted \in 0 .. MaxPosts
    BY MessageQueueAssumption DEF Init
  <2>4. event = FALSE /\ closed = FALSE /\ taken = <<>> /\ cleared = {}
    BY DEF Init
  <2> QED
    BY <2>1, <2>2, <2>3, <2>4, Zenon DEF TypeOK
<1>2. RingInv
  <2>1. (0 + 0) % capacity = 0
    BY MessageQueueAssumption DEF Init
  <2> QED
    BY <2>1 DEF Init, RingInv
<1>3. EventInv
  <2>1. event = FALSE /\ (size > 0) = FALSE
    BY DEF Init
  <2> QED
    BY <2>1, Zenon DEF EventInv
<1> QED
  BY <1>1, <1>2, <1>3 DEF Inv

LEMMA InvStep == Inv /\ [Next]_vars => Inv'
<1> SUFFICES ASSUME Inv, [Next]_vars PROVE Inv'
  OBVIOUS
<1>0. TypeOK /\ RingInv /\ EventInv
  BY DEF Inv
<1>1. ASSUME NEW m \in Message, Dispatch(m) PROVE Inv'
  <2>1. /\ TypeOK'
        /\ tail' = (head' + size') % capacity'
        /\ \A k \in 1 .. size :
             array'[(head' + k - 1) % capacity'] = array[(head + k - 1) % capacity]
        /\ array'[(head' + size' - 1) % capacity'] = m
    BY <1>0, <1>1, DispatchRing
  <2>2. /\ size' = size + 1 /\ posted' = posted + 1 /\ m.n = posted + 1
        /\ event' = TRUE /\ size \in Nat /\ posted \in Nat
    BY <1>0, <1>1, MessageQueueAssumption DEF Dispatch, TypeOK
  <2>3. RingInv'
    <3>1. ASSUME NEW k \in 1 .. size'
          PROVE  /\ array'[(head' + k - 1) % capacity'] \in Message
                 /\ array'[(head' + k - 1) % capacity'].n = posted' - size' + k
      <4>1. CASE k \in 1 .. size
        <5>1. posted' - size' + k = posted - size + k
          BY <2>2, <4>1
        <5> QED
          BY <1>0, <2>1, <4>1, <5>1 DEF RingInv
      <4>2. CASE k = size'
        <5>1. posted' - size' + k = posted + 1
          BY <2>2, <4>2
        <5> QED
          BY <2>1, <2>2, <4>2, <5>1
      <4>3. k \in 1 .. size \/ k = size'
        BY <2>2
      <4> QED
        BY <4>1, <4>2, <4>3
    <3> QED
      BY <2>1, <3>1 DEF RingInv
  <2>4. EventInv'
    <3>1. size' > 0
      BY <2>2
    <3> QED
      BY <2>2, <3>1, Zenon DEF EventInv
  <2> QED
    BY <2>1, <2>3, <2>4 DEF Inv
<1>2. ASSUME NEW r \in Readers, Peek(r) PROVE Inv'
  <2>1. /\ TypeOK'
        /\ tail' = (head' + size') % capacity'
        /\ \A k \in 1 .. size' :
             array'[(head' + k - 1) % capacity'] = array[(head + k) % capacity]
    BY <1>0, <1>2, PeekRing
  <2>2. /\ size' = size - 1 /\ posted' = posted /\ size > 0
        /\ event' = (event /\ size - 1 > 0)
        /\ size \in Nat /\ posted \in Nat /\ head \in Nat
    BY <1>0, <1>2, MessageQueueAssumption DEF Peek, EventAfterTake, TypeOK
  <2>3. RingInv'
    <3>1. ASSUME NEW k \in 1 .. size'
          PROVE  /\ array'[(head' + k - 1) % capacity'] \in Message
                 /\ array'[(head' + k - 1) % capacity'].n = posted' - size' + k
      <4>1. /\ k + 1 \in 1 .. size /\ head + (k + 1) - 1 = head + k
            /\ posted' - size' + k = posted - size + (k + 1)
        BY <2>2
      <4> QED
        BY <1>0, <2>1, <4>1 DEF RingInv
    <3> QED
      BY <2>1, <3>1 DEF RingInv
  <2>4. EventInv'
    <3>1. event' = (event /\ size' > 0)
      BY <2>2, Zenon
    <3>2. event = TRUE
      BY <1>0, <2>2, Zenon DEF EventInv
    <3>3. CASE size' > 0
      BY <3>1, <3>2, <3>3, Zenon DEF EventInv
    <3>4. CASE ~ (size' > 0)
      <4>1. event' = FALSE
        BY <3>1, <3>4, Zenon
      <4>2. (size' > 0) = FALSE
        BY <2>2, <3>4
      <4> QED
        BY <4>1, <4>2, Zenon DEF EventInv
    <3> QED
      BY <3>3, <3>4
  <2> QED
    BY <2>1, <2>3, <2>4 DEF Inv
<1>3. CASE Clear
  <2>1. TypeOK' /\ tail' = (head' + size') % capacity'
    BY <1>0, <1>3, ClearRing
  <2>2. size' = 0 /\ event' = FALSE
    BY <1>3 DEF Clear
  <2>3. RingInv'
    BY <2>1, <2>2 DEF RingInv
  <2>4. EventInv'
    <3>1. (size' > 0) = FALSE
      BY <2>2
    <3> QED
      BY <2>2, <3>1, Zenon DEF EventInv
  <2> QED
    BY <2>1, <2>3, <2>4 DEF Inv
<1>4. CASE UNCHANGED vars \/ \E r \in Readers : Wait(r) \/ PeekEmpty(r)
  <2>1. TypeOK' /\ UNCHANGED <<ring, event, closed, posted, taken, cleared>>
    BY <1>0, <1>4, IdleStep
  <2> QED
    BY <1>0, <2>1 DEF Inv, RingInv, EventInv, ring
<1> QED
  BY <1>1, <1>2, <1>3, <1>4, Steps

\* Every operation, in whatever order posts, quits, takes and clears come, keeps
\* the ring and its event right (MessageQueue_Dispatch, _Peek, _Clear).
THEOREM Invariance == Spec => []Inv
  BY InvInit, InvStep, PTL DEF Spec

\* For every initial capacity the ring keeps its type and always has a free
\* entry.
THEOREM TypeCorrect == Spec => []TypeOK
  BY Invariance, PTL DEF Inv

\* However the ring grows, wraps and is cleared, tail is size entries behind
\* head and the messages between them are consecutive.
THEOREM RingCorrect == Spec => []RingInv
  BY Invariance, PTL DEF Inv

\* The event is set exactly while the queue has messages.
THEOREM EventCorrect == Spec => []EventInv
  BY Invariance, PTL DEF Inv
-----------------------------------------------------------------------------
ItemsOK ==
    /\ Items \in Seq(Message) /\ Len(Items) = size
    /\ \A k \in 1 .. size : Items[k] = array[(head + k - 1) % capacity]

\* The messages in the queue, as a sequence.
LEMMA ItemsSeq == Inv => ItemsOK
<1> SUFFICES ASSUME Inv PROVE ItemsOK
  OBVIOUS
<1>1. size \in Nat
  BY MessageQueueAssumption DEF Inv, TypeOK
<1>2. Items \in [1 .. size -> Message]
  BY DEF Items, Inv, RingInv
<1>3. Items \in Seq(Message)
  BY <1>1, <1>2, SeqDef
<1>4. Len(Items) = size
  BY <1>1, <1>2, <1>3, LenProperties
<1> QED
  BY <1>3, <1>4 DEF Items, ItemsOK

\* Dispatch posts its message behind the others.
LEMMA DispatchItems ==
    ASSUME Inv, Inv', NEW m \in Message, Dispatch(m)
    PROVE  Items' = Append(Items, m)
<1>1. /\ \A k \in 1 .. size :
           array'[(head' + k - 1) % capacity'] = array[(head + k - 1) % capacity]
      /\ array'[(head' + size' - 1) % capacity'] = m
  BY DispatchRing DEF Inv
<1>2. size' = size + 1 /\ size \in Nat
  BY MessageQueueAssumption DEF Dispatch, Inv, TypeOK
<1>3. /\ Items \in Seq(Message) /\ Len(Items) = size
      /\ \A k \in 1 .. size : Items[k] = array[(head + k - 1) % capacity]
  BY ItemsSeq DEF ItemsOK
<1>4. /\ Items' \in Seq(Message) /\ Len(Items') = size'
      /\ \A k \in 1 .. size' : Items'[k] = array'[(head' + k - 1) % capacity']
  <2>1. ItemsOK'
    BY ItemsSeq, PTL
  <2> QED
    BY <2>1 DEF ItemsOK
<1>5. /\ Append(Items, m) \in Seq(Message)
      /\ Len(Append(Items, m)) = size + 1
      /\ \A k \in 1 .. size : Append(Items, m)[k] = Items[k]
      /\ Append(Items, m)[size + 1] = m
  BY <1>3, AppendProperties
<1>6. \A k \in 1 .. size + 1 : Items'[k] = Append(Items, m)[k]
  <2> TAKE k \in 1 .. size + 1
  <2>1. CASE k \in 1 .. size
    BY <1>1, <1>2, <1>3, <1>4, <1>5, <2>1
  <2>2. CASE k = size + 1
    <3>1. size + 1 \in 1 .. size + 1
      BY <1>2
    <3>2. size' \in 1 .. size' /\ size' = k
      BY <1>2, <2>2, <3>1
    <3>3. Items'[size'] = array'[(head' + size' - 1) % capacity']
      BY <1>4, <3>2
    <3> QED
      BY <1>1, <1>5, <2>2, <3>2, <3>3
  <2>3. k \in 1 .. size \/ k = size + 1
    BY <1>2
  <2> QED
    BY <2>1, <2>2, <2>3, Zenon
<1> QED
  BY <1>2, <1>4, <1>5, <1>6, SeqEqual

\* Peek takes the oldest message.
LEMMA PeekItems ==
    ASSUME Inv, Inv', NEW r \in Readers, Peek(r)
    PROVE  Items # <<>> /\ Items' = Tail(Items) /\ Head(Items) = array[head]
<1>1. /\ \A k \in 1 .. size' :
           array'[(head' + k - 1) % capacity'] = array[(head + k) % capacity]
      /\ array[head] = array[(head + 1 - 1) % capacity]
  BY PeekRing DEF Inv
<1>2. size' = size - 1 /\ size \in Nat /\ size > 0 /\ head \in Nat
  BY MessageQueueAssumption DEF Peek, Inv, TypeOK
<1>3. /\ Items \in Seq(Message) /\ Len(Items) = size
      /\ \A k \in 1 .. size : Items[k] = array[(head + k - 1) % capacity]
  BY ItemsSeq DEF ItemsOK
<1>4. /\ Items' \in Seq(Message) /\ Len(Items') = size'
      /\ \A k \in 1 .. size' : Items'[k] = array'[(head' + k - 1) % capacity']
  <2>1. ItemsOK'
    BY ItemsSeq, PTL
  <2> QED
    BY <2>1 DEF ItemsOK
<1>5. Items # <<>>
  BY <1>2, <1>3, EmptySeq
<1>6. /\ Tail(Items) \in Seq(Message) /\ Len(Tail(Items)) = size - 1
      /\ \A k \in 1 .. size - 1 : Tail(Items)[k] = Items[k + 1]
  BY <1>2, <1>3, <1>5, HeadTailProperties
<1>7. \A k \in 1 .. size - 1 : Items'[k] = Tail(Items)[k]
  <2> TAKE k \in 1 .. size - 1
  <2>1. k + 1 \in 1 .. size /\ head + (k + 1) - 1 = head + k
    BY <1>2
  <2>2. k \in 1 .. size'
    BY <1>2
  <2>3. Items'[k] = array[(head + k) % capacity]
    BY <1>1, <1>4, <2>2
  <2>4. Items[k + 1] = array[(head + (k + 1) - 1) % capacity]
    BY <1>3, <2>1
  <2> QED
    BY <1>6, <2>1, <2>3, <2>4
<1>8. Head(Items) = Items[1] /\ 1 \in 1 .. size
  BY <1>2, <1>3, <1>5
<1> QED
  BY <1>1, <1>2, <1>3, <1>4, <1>5, <1>6, <1>7, <1>8, SeqEqual

\* An empty queue.
LEMMA NoItems == Inv /\ size = 0 => Items = <<>>
<1> SUFFICES ASSUME Inv, size = 0 PROVE Items = <<>>
  OBVIOUS
<1>1. Items \in Seq(Message) /\ Len(Items) = 0
  BY ItemsSeq DEF ItemsOK
<1> QED
  BY <1>1, EmptySeq

\* The ring, with its growing and wrapping, implements a first-in first-out
\* queue for every capacity, every number of messages and of readers.
THEOREM Refinement == Spec => IsFifo
<1>1. Init => Queue!Init
  <2> SUFFICES ASSUME Init PROVE Queue!Init
    OBVIOUS
  <2>1. Inv /\ size = 0
    BY InvInit DEF Init
  <2> QED
    BY <2>1, NoItems DEF Queue!Init, Init
<1>2. Inv /\ Inv' /\ [Next]_vars => [Queue!Next]_<<Items, closed, taken>>
  <2> SUFFICES ASSUME Inv, Inv', [Next]_vars
               PROVE  [Queue!Next]_<<Items, closed, taken>>
    OBVIOUS
  <2>1. ASSUME NEW m \in Message, Dispatch(m) PROVE Queue!Next
    <3>1. Items' = Append(Items, m)
      BY <2>1, DispatchItems
    <3>2. ~ closed /\ closed' = (m \in Quit) /\ taken' = taken
      BY <2>1, Zenon DEF Dispatch
    <3> QED
      BY <3>1, <3>2, Zenon DEF Queue!Next, Queue!Post
  <2>2. ASSUME NEW r \in Readers, Peek(r) PROVE Queue!Next
    <3>1. Items # <<>> /\ Items' = Tail(Items) /\ Head(Items) = array[head]
      BY <2>2, PeekItems
    <3>2. taken' = Append(taken, array[head]) /\ closed' = closed
      BY <2>2 DEF Peek
    <3> QED
      BY <3>1, <3>2, Zenon DEF Queue!Next, Queue!Take
  <2>3. CASE Clear
    <3>1. size' = 0 /\ closed' = FALSE /\ taken' = taken
      BY <2>3 DEF Clear
    <3>2. Items' = <<>>
      <4>1. (size = 0)'
        BY <3>1
      <4>2. (Items = <<>>)'
        BY <4>1, NoItems, PTL
      <4> QED
        BY <4>2
    <3> QED
      BY <3>1, <3>2, Zenon DEF Queue!Next, Queue!Clear
  <2>4. CASE UNCHANGED vars \/ \E r \in Readers : Wait(r) \/ PeekEmpty(r)
    <3>1. UNCHANGED <<ring, event, closed, posted, taken, cleared>>
      BY <2>4, IdleStep DEF Inv
    <3> QED
      BY <3>1 DEF ring, Items
  <2> QED
    BY <2>1, <2>2, <2>3, <2>4, Steps
<1> QED
  BY <1>1, <1>2, Invariance, PTL DEF Spec, IsFifo, Queue!Spec
-----------------------------------------------------------------------------
TakenOrCleared(n) ==
    \/ \E k \in 1 .. Len(taken) : taken[k].n = n
    \/ \E m \in cleared : m.n = n

\* The inductive form of NoneLost: the messages before those in the queue were
\* handed out, in their order, or cleared.
Accounted ==
    /\ \A n \in 1 .. posted - size : TakenOrCleared(n)
    /\ \A k \in 1 .. Len(taken) : taken[k].n <= posted - size
    /\ \A j, k \in 1 .. Len(taken) : j < k => taken[j].n < taken[k].n

LEMMA AccountedInit == Init => Accounted
<1> SUFFICES ASSUME Init PROVE Accounted
  OBVIOUS
<1>1. taken = <<>> /\ posted = 0 /\ size = 0 /\ Len(taken) = 0
  BY EmptySeq DEF Init
<1> QED
  BY <1>1 DEF Accounted

\* A message is taken: it is the next one.
LEMMA AccountedPeek ==
    ASSUME Inv, Accounted, NEW r \in Readers, Peek(r)
    PROVE  Accounted'
<1> DEFINE x == array[head]
           d == posted - size
           ts == Append(taken, x)
           n0 == Len(taken)
<1>1. /\ taken' = ts /\ cleared' = cleared /\ posted' = posted /\ size' = size - 1
  BY DEF Peek
<1>2. x \in Message /\ x.n = d + 1
  BY PeekRing DEF Inv
<1>3. /\ d \in Int /\ n0 \in Nat /\ posted' - size' = d + 1
  <2>1. posted \in Int /\ size \in Int /\ taken \in Seq(Message)
    BY MessageQueueAssumption DEF Inv, TypeOK
  <2> QED
    BY <1>1, <2>1
<1>4. /\ Len(ts) = n0 + 1 /\ ts[n0 + 1] = x
      /\ \A k \in 1 .. n0 : ts[k] = taken[k] /\ taken[k].n \in Int
  <2>1. taken \in Seq(Message)
    BY DEF Inv, TypeOK
  <2>2. \A k \in 1 .. n0 : taken[k] \in Message
    BY <2>1, ElementOfSeq
  <2>3. \A m \in Message : m.n \in Int
    BY MessageQueueAssumption DEF Message
  <2> QED
    BY <1>2, <2>1, <2>2, <2>3, AppendProperties
<1>5. /\ \A n \in 1 .. d : TakenOrCleared(n)
      /\ \A k \in 1 .. n0 : taken[k].n <= d
      /\ \A j, k \in 1 .. n0 : j < k => taken[j].n < taken[k].n
  BY DEF Accounted
<1> HIDE DEF x, d, ts, n0
<1>6. ASSUME NEW n \in 1 .. d + 1
      PROVE  \/ \E k \in 1 .. n0 + 1 : ts[k].n = n
             \/ \E m \in cleared : m.n = n
  <2>1. CASE n = d + 1
    <3>1. n0 + 1 \in 1 .. n0 + 1
      BY <1>3
    <3> QED
      BY <1>2, <1>4, <2>1, <3>1
  <2>2. CASE n \in 1 .. d
    <3>1. CASE \E k \in 1 .. n0 : taken[k].n = n
      <4>1. PICK k \in 1 .. n0 : taken[k].n = n
        BY <3>1
      <4>2. k \in 1 .. n0 + 1
        BY <1>3
      <4> QED
        BY <1>4, <4>1, <4>2
    <3>2. TakenOrCleared(n)
      BY <1>5, <2>2
    <3> QED
      BY <3>1, <3>2 DEF TakenOrCleared, n0
  <2> QED
    BY <1>3, <2>1, <2>2
<1>7. \A k \in 1 .. n0 + 1 : ts[k].n <= d + 1
  BY <1>2, <1>3, <1>4, <1>5
<1>8. \A j, k \in 1 .. n0 + 1 : j < k => ts[j].n < ts[k].n
  <2> SUFFICES ASSUME NEW j \in 1 .. n0 + 1, NEW k \in 1 .. n0 + 1, j < k
               PROVE  ts[j].n < ts[k].n
    OBVIOUS
  <2>1. j \in 1 .. n0 /\ ts[j] = taken[j] /\ taken[j].n \in Int /\ taken[j].n <= d
    BY <1>3, <1>4, <1>5
  <2>2. CASE k = n0 + 1
    BY <1>2, <1>3, <1>4, <2>1, <2>2
  <2>3. CASE k \in 1 .. n0
    BY <1>4, <1>5, <2>1, <2>3
  <2> QED
    BY <1>3, <2>2, <2>3
<1> QED
  BY <1>1, <1>3, <1>4, <1>6, <1>7, <1>8 DEF Accounted, TakenOrCleared

\* Clear counts what it removes.
LEMMA AccountedClear ==
    ASSUME Inv, Accounted, Clear
    PROVE  Accounted'
<1>1. /\ taken' = taken /\ posted' = posted /\ size' = 0
      /\ cleared' = cleared \cup {Items[k] : k \in 1 .. size}
  BY DEF Clear
<1>2. posted \in Nat /\ size \in Nat /\ posted' - size' = posted
  BY <1>1, MessageQueueAssumption DEF Inv, TypeOK
<1>3. \A k \in 1 .. size : Items[k].n = posted - size + k
  BY ItemsSeq DEF ItemsOK, Inv, RingInv
<1>4. ASSUME NEW n \in 1 .. posted
      PROVE  \/ \E k \in 1 .. Len(taken) : taken[k].n = n
             \/ \E m \in cleared' : m.n = n
  <2>1. CASE n \in 1 .. posted - size
    BY <1>1, <2>1 DEF Accounted, TakenOrCleared
  <2>2. CASE n \notin 1 .. posted - size
    <3>1. n - (posted - size) \in 1 .. size /\ posted - size + (n - (posted - size)) = n
      BY <1>2, <2>2
    <3> QED
      BY <1>1, <1>3, <3>1
  <2> QED
    BY <2>1, <2>2
<1>5. \A k \in 1 .. Len(taken) : taken[k].n <= posted
  <2>1. \A k \in 1 .. Len(taken) : taken[k] \in Message
    BY ElementOfSeq DEF Inv, TypeOK
  <2>2. \A m \in Message : m.n \in Int
    BY MessageQueueAssumption DEF Message
  <2>3. \A k \in 1 .. Len(taken) : taken[k].n \in Int /\ taken[k].n <= posted - size
    BY <2>1, <2>2 DEF Accounted
  <2> QED
    BY <1>2, <2>3
<1> QED
  BY <1>1, <1>2, <1>4, <1>5 DEF Accounted, TakenOrCleared

LEMMA AccountedStep == Inv /\ Accounted /\ [Next]_vars => Accounted'
<1> SUFFICES ASSUME Inv, Accounted, [Next]_vars PROVE Accounted'
  OBVIOUS
<1>1. ASSUME NEW m \in Message, Dispatch(m) PROVE Accounted'
  <2>1. posted' - size' = posted - size /\ taken' = taken /\ cleared' = cleared
    BY <1>1, MessageQueueAssumption DEF Dispatch, Inv, TypeOK
  <2> QED
    BY <2>1 DEF Accounted, TakenOrCleared
<1>2. CASE UNCHANGED vars \/ \E r \in Readers : Wait(r) \/ PeekEmpty(r)
  <2>1. UNCHANGED <<ring, event, closed, posted, taken, cleared>>
    BY <1>2, IdleStep DEF Inv
  <2> QED
    BY <2>1 DEF Accounted, TakenOrCleared, ring
<1> QED
  BY <1>1, <1>2, AccountedPeek, AccountedClear, Steps

LEMMA AccountedMeansNoneLost == Inv /\ Accounted => NoneLost
<1> SUFFICES ASSUME Inv, Accounted PROVE NoneLost
  OBVIOUS
<1>1. posted \in Nat /\ size \in Nat
  BY MessageQueueAssumption DEF Inv, TypeOK
<1>2. \A k \in 1 .. size : Items[k] \in Message /\ Items[k].n = posted - size + k
  BY ItemsSeq DEF ItemsOK, Inv, RingInv
<1>3. ASSUME NEW n \in 1 .. posted, n \notin 1 .. posted - size
      PROVE  \E k \in 1 .. size : Items[k] \in Message /\ Items[k].n = n
  <2>1. n - (posted - size) \in 1 .. size /\ posted - size + (n - (posted - size)) = n
    BY <1>1, <1>3
  <2> QED
    BY <1>2, <2>1
<1> QED
  BY <1>3 DEF Accounted, TakenOrCleared, NoneLost

\* No message is lost or handed out twice, whatever the ring does.
THEOREM NothingLost == Spec => []NoneLost
  BY Invariance, AccountedInit, AccountedStep, AccountedMeansNoneLost, PTL DEF Spec
=============================================================================

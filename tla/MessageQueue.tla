---------------------------- MODULE MessageQueue ----------------------------
(***************************************************************************)
(* wMessageQueue, the queue through which the threads of FreeRDP pass      *)
(* their work (winpr/libwinpr/utils/collections/MessageQueue.c): a ring    *)
(* that grows when it is nearly full, a lock around every operation        *)
(* (CriticalSection.tla shows that it excludes), and a manual-reset event  *)
(* that readers wait for before they enter the lock.                       *)
(*                                                                         *)
(* A step under the lock is one action.  A reader is a thread that calls   *)
(* MessageQueue_Wait and MessageQueue_Peek with remove in turns, or        *)
(* MessageQueue_Get, which is the same two steps, and ends on WMQ_QUIT.    *)
(* Fifo.tla says what the queue promises.  That an allocation fails (the   *)
(* message is refused and nothing changes) is left out.                    *)
(***************************************************************************)
EXTENDS Integers, Sequences

CONSTANTS
    Readers,          \* threads that take messages
    InitialCapacity,  \* 32 in MessageQueue_New
    MaxPosts,         \* how many messages are posted
    Zero              \* an entry after ZeroMemory

Message == [n : 1 .. MaxPosts, id : {"DATA", "WMQ_QUIT"}]
Quit == {m \in Message : m.id = "WMQ_QUIT"}

\* A ring of one entry would lose its place when it grows: see Grow.
ASSUME MessageQueueAssumption ==
    /\ InitialCapacity \in Nat /\ InitialCapacity > 1
    /\ MaxPosts \in Nat
    /\ Zero \notin Message

VARIABLES
    array, capacity, head, tail, size,  \* the ring
    event,            \* queue->event is set
    closed,           \* queue->closed
    reader,           \* each reader: "idle", "woken", "done"
    posted,           \* history: how many messages were accepted
    taken,            \* history: the messages handed out, in order
    cleared           \* history: the messages removed by Clear

ring == <<array, capacity, head, tail, size>>
vars == <<ring, event, closed, reader, posted, taken, cleared>>

\* MessageQueue_New, after the EnsureCapacity of an empty queue.
Init ==
    /\ capacity = InitialCapacity
    /\ array = [i \in 0 .. InitialCapacity - 1 |-> Zero]
    /\ head = 0 /\ tail = 0 /\ size = 0
    /\ event = FALSE
    /\ closed = FALSE
    /\ reader = [r \in Readers |-> "idle"]
    /\ posted = 0
    /\ taken = <<>>
    /\ cleared = {}
-----------------------------------------------------------------------------
\* Mistake: the entries that had wrapped stay where they were.
GrowKeeps(arr, cap, hd, tl, n) ==
    [array |-> [i \in 0 .. 2 * cap - 1 |-> IF i < cap THEN arr[i] ELSE Zero],
     capacity |-> 2 * cap,
     tail |-> IF tl <= hd THEN tl + cap ELSE tl]

\* The ring doubles; the entries before tail, if they had wrapped, are copied
\* behind the old end (and stay where they were, out of use).
Grow(arr, cap, hd, tl, n) ==
    LET wrapped == tl <= hd
    IN  [array |-> [i \in 0 .. 2 * cap - 1 |->
                      IF i < cap THEN arr[i]
                      ELSE IF wrapped /\ i < cap + tl THEN arr[i - cap] ELSE Zero],
         capacity |-> 2 * cap,
         tail |-> IF wrapped THEN tl + cap ELSE tl]

\* MessageQueue_EnsureCapacity(queue, 1).
EnsureCapacity(arr, cap, hd, tl, n) ==
    IF n + 1 >= cap THEN Grow(arr, cap, hd, tl, n)
    ELSE [array |-> arr, capacity |-> cap, tail |-> tl]

\* MessageQueue_Dispatch, MessageQueue_Post and MessageQueue_PostQuit.  A
\* message for a closed queue is refused.
Dispatch(m) ==
    LET q == EnsureCapacity(array, capacity, head, tail, size)
    IN  /\ ~ closed
        /\ posted < MaxPosts /\ m.n = posted + 1
        /\ array' = [q.array EXCEPT ![q.tail] = m]
        /\ capacity' = q.capacity
        /\ tail' = (q.tail + 1) % q.capacity
        /\ size' = size + 1
        /\ event' = TRUE
        /\ closed' = (m \in Quit)
        /\ posted' = posted + 1
        /\ UNCHANGED <<head, reader, taken, cleared>>

\* MessageQueue_Wait returns.
Wait(r) ==
    /\ reader[r] = "idle" /\ event
    /\ reader' = [reader EXCEPT ![r] = "woken"]
    /\ UNCHANGED <<ring, event, closed, posted, taken, cleared>>

\* Mistake: the event is reset although messages are left.
EventAfterTakeResets(n) == FALSE

EventAfterTake(n) == event /\ n > 0

\* MessageQueue_Peek with remove, or the rest of MessageQueue_Get.
Peek(r) ==
    /\ reader[r] = "woken" /\ size > 0
    /\ array' = [array EXCEPT ![head] = Zero]
    /\ head' = (head + 1) % capacity
    /\ size' = size - 1
    /\ event' = EventAfterTake(size - 1)
    /\ taken' = Append(taken, array[head])
    /\ reader' = [reader EXCEPT ![r] =
                    IF array[head] \in Quit THEN "done" ELSE "idle"]
    /\ UNCHANGED <<capacity, tail, closed, posted, cleared>>

\* Another reader, or Clear, was faster.
PeekEmpty(r) ==
    /\ reader[r] = "woken" /\ size = 0
    /\ reader' = [reader EXCEPT ![r] = "idle"]
    /\ UNCHANGED <<ring, event, closed, posted, taken, cleared>>

\* The messages in the queue, oldest first.
Items == [k \in 1 .. size |-> array[(head + k - 1) % capacity]]

\* Mistake: Clear starts the ring afresh and forgets tail.
ClearToZero ==
    /\ size > 0 \/ closed
    /\ array' = [i \in 0 .. capacity - 1 |-> Zero]
    /\ head' = 0 /\ size' = 0
    /\ event' = FALSE
    /\ closed' = FALSE
    /\ cleared' = cleared \cup {Items[k] : k \in 1 .. size}
    /\ UNCHANGED <<capacity, tail, reader, posted, taken>>

\* MessageQueue_Clear: also opens the queue again.
Clear ==
    /\ size > 0 \/ closed
    /\ array' = [i \in 0 .. capacity - 1 |->
                   IF \E k \in 1 .. size : i = (head + k - 1) % capacity
                   THEN Zero ELSE array[i]]
    /\ head' = (head + size) % capacity
    /\ size' = 0
    /\ event' = FALSE
    /\ closed' = FALSE
    /\ cleared' = cleared \cup {Items[k] : k \in 1 .. size}
    /\ UNCHANGED <<capacity, tail, reader, posted, taken>>

Next ==
    \/ \E m \in Message : Dispatch(m)
    \/ \E r \in Readers : Wait(r) \/ Peek(r) \/ PeekEmpty(r)
    \/ Clear

Spec == Init /\ [][Next]_vars

\* Readers are threads that run until they get WMQ_QUIT.
FairSpec ==
    Spec /\ \A r \in Readers : WF_vars(Wait(r) \/ Peek(r) \/ PeekEmpty(r))
-----------------------------------------------------------------------------
TypeOK ==
    /\ capacity \in Nat /\ capacity >= InitialCapacity
    /\ array \in [0 .. capacity - 1 -> Message \cup {Zero}]
    /\ head \in 0 .. capacity - 1 /\ tail \in 0 .. capacity - 1
    /\ size \in 0 .. capacity - 1
    /\ event \in BOOLEAN /\ closed \in BOOLEAN
    /\ reader \in [Readers -> {"idle", "woken", "done"}]
    /\ posted \in 0 .. MaxPosts
    /\ taken \in Seq(Message)
    /\ cleared \subseteq Message

\* The ring through growing, wrapping and clearing: tail is size entries
\* behind head, the entries between them hold messages that were posted one
\* after the other, the last one posted at the end.
RingInv ==
    /\ tail = (head + size) % capacity
    /\ \A k \in 1 .. size :
         /\ array[(head + k - 1) % capacity] \in Message
         /\ array[(head + k - 1) % capacity].n = posted - size + k

\* "Gets an event which is set when the queue is non-empty"
\* (MessageQueue.c:60): a reader never sleeps beside a message, and is never
\* kept awake by an empty queue.
EventInv == event = (size > 0)

\* What every operation keeps: types, ring and event.
Inv == TypeOK /\ RingInv /\ EventInv

\* What was accepted is in the queue, was handed out or was cleared: no
\* message is lost or handed out twice when the ring grows or wraps.
NoneLost ==
    /\ \A n \in 1 .. posted :
         \/ \E k \in 1 .. size : Items[k] \in Message /\ Items[k].n = n
         \/ \E k \in 1 .. Len(taken) : taken[k].n = n
         \/ \E m \in cleared : m.n = n
    /\ \A j, k \in 1 .. Len(taken) : j < k => taken[j].n < taken[k].n

\* The ring implements a first-in first-out queue.
Queue == INSTANCE Fifo WITH items <- Items
IsFifo == Queue!Spec

\* A message in the queue does not stay there while some reader goes on.
Drained ==
    \A n \in 1 .. MaxPosts :
        (\E k \in 1 .. size : Items[k].n = n)
            ~> \/ \A k \in 1 .. size : Items[k].n # n
               \/ \A r \in Readers : reader[r] = "done"
=============================================================================

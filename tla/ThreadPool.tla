----------------------------- MODULE ThreadPool -----------------------------
(***************************************************************************)
(* The WinPR thread pool (winpr/libwinpr/pool/pool.c and work.c) with the  *)
(* countdown event that counts the work under way                          *)
(* (utils/collections/CountdownEvent.c), as the RemoteFX, progressive and  *)
(* YUV codecs use it: a client thread submits a work object for every tile *)
(* of a frame, then waits for and closes one after the other, and only     *)
(* then goes on to use the tiles and to the next frame.                    *)
(*                                                                         *)
(* The queue of pending work has a lock and an event that is set while it  *)
(* is not empty (utils/collections/Queue.c, the ring of MessageQueue.tla): *)
(* here it is a sequence.  A wait is for the event of the whole pool, so   *)
(* the clients of a pool wait for each other.  rfx_encode_message does not *)
(* wait when the frame has failed half-way (GiveUp).  Work objects are     *)
(* numbered by client; a work and the tile it is for are freed apart.      *)
(***************************************************************************)
EXTENDS Integers, Sequences, FiniteSets, SequencesExt

CONSTANTS
    Clients,       \* threads that submit work to the pool
    Workers,       \* threads the pool may have
    Initial,       \* those InitializeThreadpool creates (4 in the code)
    Tiles,         \* work objects of a frame
    Frames         \* how many frames each client has

ASSUME ThreadPoolAssumption ==
    /\ Initial \subseteq Workers /\ IsFiniteSet(Workers) /\ IsFiniteSet(Clients)
    /\ Tiles \in Nat \ {0} /\ Frames \in [Clients -> Nat]

Works == UNION {{c} \X (1 .. Tiles * Frames[c]) : c \in Clients}
NoWork == <<>>

VARIABLES
    count,         \* WorkComplete->count
    complete,      \* WorkComplete->event is set
    pending,       \* PendingQueue
    terminate,     \* TerminateEvent is set
    pool,          \* "open", "closing" (the workers are joined), "freed"
    worker,        \* where each worker is, see WorkerStates
    work,          \* what it has dequeued
    client,        \* "submit", "enqueue" (counted, not yet queued), "wait", "done"
    submitted,     \* works each client has submitted
    closed,        \* works each client has closed, or left behind
    freed,         \* works given to CloseThreadpoolWork
    ran,           \* history: works whose callback has returned
    failed         \* history: works of frames given up

vars == <<count, complete, pending, terminate, pool, worker, work,
          client, submitted, closed, freed, ran, failed>>
clients == <<client, submitted, closed, freed, failed>>
workers == <<worker, work, ran>>

WorkerStates == {"absent", "waiting", "woken", "running", "signal", "exited"}

\* InitializeThreadpool; CountdownEvent_New(0) sets its event.
Init ==
    /\ count = 0 /\ complete = TRUE
    /\ pending = <<>>
    /\ terminate = FALSE
    /\ pool = "open"
    /\ worker = [w \in Workers |-> IF w \in Initial THEN "waiting" ELSE "absent"]
    /\ work = [w \in Workers |-> NoWork]
    /\ client = [c \in Clients |-> "submit"]
    /\ submitted = [c \in Clients |-> 0]
    /\ closed = [c \in Clients |-> 0]
    /\ freed = {} /\ ran = {} /\ failed = {}
-----------------------------------------------------------------------------
(***************************************************************************)
(* The clients.                                                            *)
(***************************************************************************)

\* The frame a client is at is full.
FrameFull(c) == submitted[c] = closed[c] + Tiles

\* Mistake: the work is queued and never counted.
SubmitUncounted(c) ==
    /\ client[c] = "submit" /\ ~ FrameFull(c) /\ submitted[c] < Tiles * Frames[c]
    /\ client' = [client EXCEPT ![c] = "enqueue"]
    /\ UNCHANGED <<count, complete, pending, terminate, pool, workers,
                   submitted, closed, freed, failed>>

\* SubmitThreadpoolWork: CountdownEvent_AddCount,
SubmitCount(c) ==
    /\ client[c] = "submit" /\ ~ FrameFull(c) /\ submitted[c] < Tiles * Frames[c]
    /\ count' = count + 1
    /\ complete' = FALSE
    /\ client' = [client EXCEPT ![c] = "enqueue"]
    /\ UNCHANGED <<pending, terminate, pool, workers, submitted, closed, freed,
                   failed>>

\* then Queue_Enqueue.
SubmitEnqueue(c) ==
    /\ client[c] = "enqueue"
    /\ pending' = Append(pending, <<c, submitted[c] + 1>>)
    /\ submitted' = [submitted EXCEPT ![c] = @ + 1]
    /\ client' = [client EXCEPT ![c] = "submit"]
    /\ UNCHANGED <<count, complete, terminate, pool, workers, closed, freed,
                   failed>>

\* The frame is complete: the client begins to wait.
BeginWait(c) ==
    /\ client[c] = "submit" /\ FrameFull(c)
    /\ client' = [client EXCEPT ![c] = "wait"]
    /\ UNCHANGED <<count, complete, pending, terminate, pool, workers,
                   submitted, closed, freed, failed>>

\* rfx_encode_message after a failure: no wait, the work objects are left
\* behind, the tiles go back to their pool.  The rest of the frame is skipped.
GiveUp(c) ==
    /\ client[c] = "submit" /\ submitted[c] > closed[c]
    /\ LET end == closed[c] + Tiles
       IN  /\ failed' = failed \cup ({c} \X (closed[c] + 1 .. submitted[c]))
           /\ submitted' = [submitted EXCEPT ![c] = end]
           /\ closed' = [closed EXCEPT ![c] = end]
    /\ UNCHANGED <<count, complete, pending, terminate, pool, workers, client,
                   freed>>

\* Mistake: the wait is for the queue to be empty.
WaitOverEmptyQueue == pending = <<>>

\* WaitForSingleObject(WorkComplete->event) returns.
WaitOver == complete

\* WaitForThreadpoolWorkCallbacks and CloseThreadpoolWork for the next work.
WaitAndClose(c) ==
    /\ client[c] = "wait" /\ WaitOver
    /\ closed' = [closed EXCEPT ![c] = @ + 1]
    /\ freed' = freed \cup {<<c, closed[c] + 1>>}
    /\ client' = [client EXCEPT ![c] =
                    IF closed[c] + 1 = submitted[c] THEN "submit" ELSE "wait"]
    /\ UNCHANGED <<count, complete, pending, terminate, pool, workers,
                   submitted, failed>>

\* The client has no more frames.
Leave(c) ==
    /\ client[c] = "submit" /\ closed[c] = Tiles * Frames[c]
    /\ client' = [client EXCEPT ![c] = "done"]
    /\ UNCHANGED <<count, complete, pending, terminate, pool, workers,
                   submitted, closed, freed, failed>>
-----------------------------------------------------------------------------
(***************************************************************************)
(* The workers: thread_pool_work_func.                                     *)
(***************************************************************************)

\* WaitForMultipleObjects: TerminateEvent comes first.
Wake(w) ==
    /\ worker[w] = "waiting"
    /\ \/ terminate /\ worker' = [worker EXCEPT ![w] = "exited"]
       \/ ~ terminate /\ pending # <<>>
          /\ worker' = [worker EXCEPT ![w] = "woken"]
    /\ UNCHANGED <<count, complete, pending, terminate, pool, work, ran, clients>>

\* Queue_Dequeue, which finds nothing if another worker was faster.
Dequeue(w) ==
    /\ worker[w] = "woken"
    /\ IF pending = <<>>
       THEN /\ worker' = [worker EXCEPT ![w] = "waiting"]
            /\ UNCHANGED <<pending, work>>
       ELSE /\ worker' = [worker EXCEPT ![w] = "running"]
            /\ work' = [work EXCEPT ![w] = Head(pending)]
            /\ pending' = Tail(pending)
    /\ UNCHANGED <<count, complete, terminate, pool, ran, clients>>

\* work->WorkCallback returns.
Callback(w) ==
    /\ worker[w] = "running"
    /\ ran' = ran \cup {work[w]}
    /\ worker' = [worker EXCEPT ![w] = "signal"]
    /\ UNCHANGED <<count, complete, pending, terminate, pool, work, clients>>

\* Mistake: off by one.
CompletesNever(n) == complete \/ n < 0

Completes(n) == complete \/ n = 0

\* CountdownEvent_Signal(WorkComplete, 1), which does not go below 0.
Signal(w) ==
    /\ worker[w] = "signal"
    /\ count' = IF count > 0 THEN count - 1 ELSE 0
    /\ complete' = Completes(count')
    /\ worker' = [worker EXCEPT ![w] = "waiting"]
    /\ work' = [work EXCEPT ![w] = NoWork]
    /\ UNCHANGED <<pending, terminate, pool, ran, clients>>
-----------------------------------------------------------------------------
(***************************************************************************)
(* The owner of the pool.                                                  *)
(***************************************************************************)

\* SetThreadpoolThreadMinimum.
AddWorker(w) ==
    /\ pool = "open" /\ worker[w] = "absent"
    /\ \E c \in Clients : client[c] # "done"
    /\ worker' = [worker EXCEPT ![w] = "waiting"]
    /\ UNCHANGED <<count, complete, pending, terminate, pool, work, ran, clients>>

\* CloseThreadpool, by the codec when its last frame is done: the event,
CloseThreadpool ==
    /\ pool = "open" /\ \A c \in Clients : client[c] = "done"
    /\ terminate' = TRUE
    /\ pool' = "closing"
    /\ UNCHANGED <<count, complete, pending, workers, clients>>

\* then ArrayList_Free joins every thread (threads_close) before the rest of
\* the pool is freed.
Joined == \A w \in Workers : worker[w] \in {"absent", "exited"}

FreePool ==
    /\ pool = "closing" /\ Joined
    /\ pool' = "freed"
    /\ pending' = <<>>
    /\ UNCHANGED <<count, complete, terminate, workers, clients>>

WorkerStep(w) == Wake(w) \/ Dequeue(w) \/ Callback(w) \/ Signal(w)
ClientStep(c) ==
    SubmitCount(c) \/ SubmitEnqueue(c) \/ BeginWait(c) \/ WaitAndClose(c)
        \/ Leave(c)

Next ==
    \/ \E c \in Clients : ClientStep(c) \/ GiveUp(c)
    \/ \E w \in Workers : WorkerStep(w) \/ AddWorker(w)
    \/ CloseThreadpool \/ FreePool

Spec == Init /\ [][Next]_vars

\* Every thread runs and every callback returns.
FairSpec ==
    /\ Spec
    /\ \A c \in Clients : WF_vars(ClientStep(c))
    /\ \A w \in Workers : WF_vars(WorkerStep(w))
    /\ WF_vars(CloseThreadpool \/ FreePool)
-----------------------------------------------------------------------------
TypeOK ==
    /\ count \in Nat
    /\ complete \in BOOLEAN
    /\ pending \in Seq(Works)
    /\ terminate \in BOOLEAN
    /\ pool \in {"open", "closing", "freed"}
    /\ worker \in [Workers -> WorkerStates]
    /\ work \in [Workers -> Works \cup {NoWork}]
    /\ client \in [Clients -> {"submit", "enqueue", "wait", "done"}]
    /\ submitted \in [Clients -> Nat] /\ closed \in [Clients -> Nat]
    /\ \A c \in Clients : closed[c] <= submitted[c]
                          /\ submitted[c] <= Tiles * Frames[c]
    /\ freed \subseteq Works /\ ran \subseteq Works /\ failed \subseteq Works

Busy == {w \in Workers : worker[w] \in {"running", "signal"}}
Counted == {c \in Clients : client[c] = "enqueue"}
Held == ToSet(pending) \cup {work[w] : w \in Busy}

\* The countdown event counts exactly the work that is queued, running or
\* about to be queued, and is set exactly when there is none.
CountInv ==
    /\ pool # "freed" =>
         count = Len(pending) + Cardinality(Busy) + Cardinality(Counted)
    /\ complete = (count = 0)

\* Types, and the count on which every wait relies.
Inv == TypeOK /\ CountInv

\* When the wait for one work returns, all work the client has submitted has
\* run, work it had left behind included: the tiles may be used.
WaitMeansDone ==
    /\ freed \subseteq ran
    /\ \A x \in freed, y \in failed : y[1] = x[1] /\ y[2] < x[2] => y \in ran

\* No worker holds, and the queue does not hold, a work object that was
\* freed; and one whose client has gone on belongs to a frame given up,
\* whose tiles a callback may then still write.
NoFreedWork ==
    /\ Held \cap freed = {}
    /\ \A x \in Held : x[2] <= closed[x[1]] => x \in failed

\* The two ends of a work object's life: its results are not used before its
\* callback has run, and the object is not freed before that.
WorkSafe == WaitMeansDone /\ NoFreedWork

\* A wait ends, although it is for the work of all clients.
WaitsEnd == \A c \in Clients : client[c] = "wait" ~> client[c] = "submit"

\* The pool can always be closed: every worker leaves its loop.
CloseEnds == pool = "closing" ~> pool = "freed"

\* Nobody stays in the pool's functions for ever: neither a client in
\* WaitForThreadpoolWorkCallbacks nor the owner in CloseThreadpool.
PoolProgress == WaitsEnd /\ CloseEnds
=============================================================================

# A TLA+ verification project for RDP (FreeRDP and the RSCC Android client)

The repository is an Android remote desktop client (RSCC, Java, under
`src/RSСС`) on top of a complete FreeRDP tree (C, under `src/FreeRDP`): the
protocol library `libfreerdp`, the portability layer WinPR, channel plugins,
desktop clients, and the shadow, sample and proxy servers. This project models
the parts in which several actors interact: threads over shared memory, and a
client against a server over a network.

Paths below are relative to `src/FreeRDP` unless they begin with `src/`.
`PROJECT.json` has, for every definition of a module, the lines it models.

## 1. Inventory

| Component | State | Operations | Interacts with | Hard behaviour | What makes it correct |
|---|---|---|---|---|---|
| WinPR critical section (`winpr/libwinpr/synch/critical.c`) | LockCount, RecursionCount, OwningThread, semaphore, SpinCount | Enter, TryEnter, Leave, SetSpinCount | everything that has threads | lock-free fast paths, hand-over through a semaphore, recursion | mutual exclusion, no lost wakeup, idle section has its initial counts |
| Shadow frame rendezvous (`server/shadow/shadow_mcevent.c`) | three manual-reset events, two counters, subscriber list | publish and wait, consume, subscribe, release | capture thread of a subsystem, one thread per client | clients that join or leave in the middle of a frame, barrier without generation | surface is stable while it is sent, all asked clients before the next frame, nobody stuck |
| RDP connection sequence (`libfreerdp/core/connection.c`, `rdp.c`, `peer.c`, `activation.c`, `freerdp.c`) | `rdp->state` of both sides, joined channels, finalization flags, reactivation flag, callback state | one handler per PDU, resize, reconnect, abort | negotiation before, channels and updates after | deactivation and reactivation against input in flight, nested event loop in `rdp_recv_deactivate_all`, reconnects | sides agree on the share that is active, no PDU refused, PostConnect once, progress |
| Security negotiation (`libfreerdp/core/nego.c`, `gcc.c`) | `nego->state`, enabled and selected protocols, settings that outlive a connection | attempts with fallback, accept on the server, security data blocks | TCP, TLS, NLA below; connection sequence after | state left by a failed attempt or an earlier connection | strongest common protocol, layers agree, chain ends |
| NLA (`nla.c`), licensing (`license.c`), redirection (`redirection.c`) | a state each | message handlers | connection sequence | second negotiation, errors in the middle | sides agree, errors end the connection |
| Transport (`transport.c`, `tcp.c`) | layer, blocking mode, two locks | read, write, attach, disconnect | everything | writes from several threads | PDUs are not interleaved |
| Static and dynamic channels (`core/client.c`, `core/server.c`, `channels/drdynvc`) | open state and reassembly buffer per channel, PDU queues, write locks | open, write in fragments, receive, close, disconnect | plugins' and applications' threads | fragments of several writers, close against data and answers in flight, join of the thread at the disconnect | messages arrive whole and in order, both ends agree on what is open, a disconnect ends |
| Fast-path (`fastpath.c`) | fragmentation state, buffer | receive update | update callbacks | FIRST/NEXT/LAST out of order | reassembled PDU equals the sent one |
| WinPR message queue (`utils/collections/MessageQueue.c`) | ring, head, tail, size, event | post, quit, wait, peek, get, clear | every plugin thread | growth of a ring that has wrapped, several readers | a FIFO, nothing lost, event set while not empty |
| WinPR thread pool and countdown event (`pool/pool.c`, `pool/work.c`, `CountdownEvent.c`) | count, event, queue of work, workers | submit, wait, close, add workers | RemoteFX, progressive and YUV codecs | waits for the whole pool, frames given up | waited-for work is done, no freed work is run, waits end |
| WinPR barrier (`synch/barrier.c`) | counter, two alternating events | enter, delete | threads of an application | no lock, plain stores, spinning readers | nobody passes early, one TRUE per phase, all pass |
| WinPR InitOnce, timer queue, events, mutexes | flags, timers | - | all threads | publication, clock | section 8 |
| RSCC sessions (`src/RSСС`: `SessionActivity`, `RDPSessionConfig`, `LibFreeRDP`; `client/Android`) | configuration (of the list or of a PIN), activity, posted runnables, `mInstanceState`, native thread | connect, retry, leave, come back, re-creation, exit, disconnect, clear all, callbacks | the connection sequence, Android | UI thread against native threads, timeouts, lost events, connections nobody holds | one thread per instance, outcome shown, disconnect honoured |
| Graphics pipeline (`channels/rdpgfx`, `gdi/gfx.c`) | surfaces, cache slots, unacknowledged frames | create, delete, map, frame ack | DVC | reset in the middle of a frame | slots belong to live surfaces |
| Proxy (`server/proxy`) | a peer and a client per session | forward, resize | two connection sequences in two threads | the client thread reactivates the peer | both ends stay in step |
| RD gateway (`core/gateway`) | tunnel and channel states | RPC and HTTP messages | transport | two HTTP channels | tunnel before channel before data |
| Codecs, primitives, crypto, TLS wrapper, device and audio channels, desktop UIs, the rest of RSCC's user interface, VNC, vendored libraries | - | - | - | numerical or I/O | not modelled, section 8 |

## 2. Modules

| Module | Role |
|---|---|
| `CriticalSection` | the critical section, one step per access to shared memory |
| `RecursiveLock` | abstract specification: a recursive lock with a holder and a count |
| `MultiClientEvent` | the rendezvous of the shadow server with capture thread and clients |
| `MultiClientEvent_proofs` | proofs for every finite set of clients |
| `RdpConnection` | client and server from the MCS Connect Initial on |
| `RdpConnection_proofs` | PostConnect is called once, the two machines fit, agree on the active share and tell of every activation, for every list of channels |
| `SecurityNego` | negotiation and the security data of client and server |
| `SecurityNego_proofs` | the strongest common protocol, layers that agree, no needless failure, for every set of hosts and clients |
| `DynamicChannels` | dynamic virtual channels, server API and drdynvc plugin end to end |
| `DynamicChannels_proofs` | whole messages in order, agreement on open channels, no needless drop, for every number of channels, writers and messages |
| `AndroidSession` | a session of the Android client, from the list entry to the native thread |
| `AndroidSession_proofs` | proofs for every number of instances and native threads |
| `MessageQueue` | the message queue with its growing ring |
| `Fifo` | abstract specification: a first-in first-out queue |
| `MessageQueue_proofs` | invariant, refinement of `Fifo`, nothing lost, for every capacity |
| `ThreadPool` | thread pool and countdown event as the codecs use them |
| `ThreadPool_proofs` | proofs for every number of clients, workers, tiles and frames |
| `SynchronizationBarrier` | the barrier, one step per access to shared memory |
| `Synch_proofs` | proofs about `CriticalSection`, for every finite set of threads, refinement included, and about `SynchronizationBarrier`, for every number of threads and phases |
| `MC_*` | values for the constants in TLC's runs |

Beside some definitions stands a variant marked `Mistake:`, the same step with
a plausible slip (a forgotten reset, a wrong comparison). It is not part of any
specification; putting it in the place of the original must violate the
property that guards against the slip, which shows that the property looks at
the code. `PROJECT.json` lists the pairs under `mutants`.

### CriticalSection

The variables are the fields of `CRITICAL_SECTION`, the value of the semaphore,
and per thread its place in the code (`pc`), the local spin count, and how often
it has entered (`depth`). Every read or write of `LockCount`, `OwningThread` and
the semaphore is an action; `RecursionCount` is touched only by the owner and
shares a step with its neighbour. `EnterCriticalSection` and
`TryEnterCriticalSection` meet in the same labels, as the spinning path of the
code repeats the test of the other. A thread may call any of the functions at
any time, leaves only what it holds, and nests up to `MaxDepth`.

`RecursiveLock` knows a holder and a count. The refinement mapping takes the
thread that has won the section but not yet written the owner field as the
holder already (`Holding`), and counts the call in progress once it cannot fail
any more (`Level`).

### MultiClientEvent

What happens under `event->lock` is one action; the wait for an event, the
return from it and the re-entry into the lock are actions of their own, so
others may run between them. The capture thread goes capture, publish, wait,
resume (`x11_shadow.c`, `shadow_multiclient_publish_and_wait`); a client thread
subscribes, sees the event, sends, consumes, waits at the barrier, and may leave
its loop at any moment (`shadow_client.c`). History variables `asked` and `sent`
record who was counted for the frame and who has sent it.

All subsystems of the repository use the combined call
`shadow_multiclient_publish_and_wait`, which is what the model has.

### RdpConnection

One variable per field that steers the sequence (`rdp->state`,
`finalize_sc_pdus`, `deactivation_reactivation`, `ConnectionCallbackState`,
`AwaitCapabilities`, `peer->connected`, `peer->activated`), two FIFO channels of
PDUs, and `frames`, the stack of pending `rdp_recv_deactivate_all` calls: that
function runs an event loop of its own inside the callback, and what happens
when it returns depends on the state in which it was entered. Each handler is
one action that takes a PDU and appends its answers. `TransportFailure` is what
`freerdp_connect` and `client_auto_reconnect` make of a negative
`rdp_check_fds`. Two kinds of server application are in the model
(`resizeOnInput`, chosen in `Init`): the shadow server resizes only an activated
client, the sample server in its keyboard handler, whatever the state. The Demand Actives of
a connection are numbered (`sGen`, `cGen`) so that agreement can be stated.

### SecurityNego

`nego_connect` with its attempts and their fallbacks, the settings
`UseRdpSecurityLayer` and `EncryptionMethods`, which the connections write and
the next one finds, and against it `rdp_server_accept_nego`,
`nego_send_negotiation_response` and the two security data blocks of `gcc.c`.
The server is one of this repository (`kind = "freerdp"`) or another one, of
which only what the client's code presumes is modelled (external). An error code
and a protocol share their bits in `SelectedProtocol`, which the server tests
after a failure (`Layer`).

### DynamicChannels

The server's channel manager with one application thread per channel and the
peer thread that reads; the client's main thread, the drdynvc thread, and plugin
threads that write. A message is a sequence of numbered units, cut into
`DATA_FIRST` and `DATA` PDUs of `Chunk` units and put together again at the
other end, so that a unit that is lost, doubled or put into another message is
seen. Each PDU of a write is a step; `channel->lock` of the client is
`LockFree`. Channels are opened by the server (the CREATE response and the
opening on the client are separate steps), closed by the server, by a plugin or
by the disconnect, each at any moment. `Disconnect` posts the QUIT, `MainJoin`
waits for the thread, which closes what is left open. The queues in a row in
each direction are one FIFO: each is emptied in order by a single thread.
A DATA PDU for a channel whose queue is closed makes the server drop the peer
(`peer = "dropped"`), as `wts_queue_receive_data` and `peer.c:426` do.

### AndroidSession

Per instance: the activity (`life`, what it shows, its posted runnables
START_CONNECTION, PROGRESS and CLOSER), `_cState`, `mInstanceState`, and the
native thread with its abort event and event queue. `holder` says whose
`_connection` the instance is: an entry of the session list, which can end it;
a configuration in no list (`"loose"`: loaded for its PIN by `Main`, or deleted
by "clear all" or an import, neither of which calls `disconnect()`, `ListClear`);
or nobody's, after `disconnect()`. A stopped activity may be destroyed to be
made anew (`OnDestroy`, which removes CLOSER), and `beginConnection` may return
`STATE_FAILED` (`BeginConnectionFails`: `jni_freerdp_connect` has started no
thread), for which `START_CONNECTION` has no case. User, Android, posted runnables and native thread interleave;
a callback is split where Java code runs between two writes (the listener is
told before `mInstanceState` is changed; `_cState` is assigned after
`beginConnection` has returned). The unlocked event queue of `android_event.c`
may lose a DISCONNECT. Two native threads on one instance are undefined
behaviour: the model records that (`undefined`) and stops for that instance.
History variables record why something unusual may have happened: `hasty` (left,
or 30 seconds passed), `ignored` (a disconnect before `mInstanceState` was set),
`revived` (an activity connected again after the configuration had let go),
`refused` (no thread was started), `recreated` (destroyed while CLOSER counted).

### MessageQueue and Fifo

Ring, `head`, `tail`, `size` and `capacity` as in the code; what is done under
the queue's critical section is one action, which `CriticalSection` justifies,
and the wait for the event is one of its own, so that a second reader or a Clear
may come between. Messages carry the number of their post. `Items` reads the
ring from head on and is the refinement mapping to `Fifo`, which knows only
Append, Head/Tail and Clear.

### ThreadPool

`SubmitThreadpoolWork` in two steps (count, then queue), a worker in four
(wake, dequeue, call back, signal), `WaitForThreadpoolWorkCallbacks` on the
event of the whole pool, `CloseThreadpoolWork`, more workers, and
`CloseThreadpool` with the joins. The clients are `rfx_encode_message`: one work
per tile, then wait and close one after the other; `GiveUp` is the failure path,
which neither waits nor closes.

### SynchronizationBarrier

Each read, interlocked decrement, event operation and plain store of
`EnterSynchronizationBarrier` is a step. The flags of each thread and `inOrder`,
whether the build keeps the order of the plain stores, are chosen in `Init`.

### The definition `Inv`

Each module has, beside the properties named for what the system is for, one
definition `Inv` (`BarrierInv` in `SynchronizationBarrier`, whose names begin
with `Barrier` where `CriticalSection` has the plain ones, as `Synch_proofs`
extends both): type correctness together with the bookkeeping on which the rest
relies, as a conjunction of named parts. In `CriticalSection`,
`MultiClientEvent`, `MessageQueue` and `SecurityNego` it is inductive. In
`RdpConnection`, `DynamicChannels`, `AndroidSession`, `ThreadPool` and
`SynchronizationBarrier` it is a consequence of a stronger inductive invariant, which the proof module
defines (section 5).

## 3. Runs

| Run | Instance | Distinct states | Shows |
|---|---|---|---|
| `critical_section` | 3 threads, nested 2, with and without spinning | 98,939 | `MutualExclusion`; `Inv` (types, `HandoverInv`); the section implements `RecursiveLock`; `WaiterIsServed`: no lost wakeup |
| `multiclient_event` | 4 clients | 94,240 | `SurfaceStable`, `FrameComplete`; `Inv` (types, `RendezvousInv`); `NobodyStuck`: capture thread and barrier go on |
| `rdp_connection` | two channels, message channel, key list, shadow and sample server, 3 input PDUs in flight | 11,768 | `NoRefusal` and `ActiveAgrees`: the two machines fit and agree on the active share; `ActivationsTold`; `Inv` (types, `PostConnectInv`); `ConnectCompletes`, `ResizeCompletes` |
| `rdp_connection_keylist` | no channels | violation | finding 1 |
| `security_nego` | every client protocol set (with and without methods of its own), 15 hosts, any number of connections | 125,617 | `HighestCommon`, `GivesUpOnlyIfIncompatible`, `LayersAgree`; `Inv` (types, `NegoInv`); `NegoEnds` |
| `security_nego_stale`, `security_nego_failure` | one client, one or two hosts | violation | findings 2 and 3 |
| `dynamic_channels` | 2 channels, chunks of 2 units, messages of 1 and 3 units, 2 messages, 2 plugin threads | 487,056 | `GetsWritten`: whole messages in order in both directions; `DroppedOnlyAfterClose`; `Inv` (types, agreement on open channels, each closed once and in time); `OpenAnswered`, `WrittenArrives`, `DisconnectEnds` |
| `android_session` | 1 instance, 3 native threads, 30 seconds as 2 ticks | 47,681 | `OneThreadUnlessHasty`, `OrphanHasCause`; `Inv` (types, `StateTracksThread`); `ExitHonoured`, `OutcomeShown` |
| `message_queue` | 2 readers, initial capacity 2, 6 posts | 63,098 | `IsFifo`: the ring implements `Fifo`; `Inv` (types, `RingInv`, `EventInv`); `Drained` |
| `thread_pool` | 2 clients with 2 frames and 1, 2 tiles, 2 workers, one of them added later | 142,612 | `WorkSafe`: waited-for work is done and no freed work is run; `Inv` (types, `CountInv`); `PoolProgress` |
| `synch_barrier` | 3 threads, 3 phases, every combination of flags, stores in and out of order | 81,660 | `Rendezvous`, `OneTrue`; `BarrierInv` (types, `EventOfPhase`); `AllPass` |

Deadlock is checked in the runs of the first four modules: a connection, a
negotiation, a thread and the capture loop can always be started again. The
other five systems come to an end (disconnected, all sessions over, all messages
posted, pool freed, barrier deleted), so `CHECK_DEADLOCK` is off there and the
liveness properties say that the end is the right one.

### Bounds

* Three threads: the holder, one that is being handed the section, and one that
  overtakes it on the fast path. Nesting two deep separates the first entry, the
  inner ones and the last leave. The proofs remove the bound on threads and
  depth.
* Four clients: one that sends, one at the barrier, one that leaves and one that
  joins. Removed by the proofs for the safety properties.
* `InputWindow` (3, and 2 in `rdp_connection_keylist`): input PDUs in flight. Two
  are needed for the second of two resize keys to reach a server that has begun
  a reactivation. The same guard bounds the unread PDUs of the server.
* Demand Actives are numbered modulo 3. Only a client that lags by exactly three
  would be overlooked, and one that lags by one or two would be met before.
* Channels: two static ones, beside user, global and message channel; the join
  order matters only as an order, and the proved theorems hold for every list
  of distinct channels and every `InputWindow`.
* `SecurityNego`: every subset of the protocols on the client, every subset a
  server of this repository can have, the encryption levels that select a
  method differently, a local peer. Connections follow one another without bound
  because the settings have finitely many values. The proofs are for every set
  of clients and hosts.
* `DynamicChannels`: two channels and two writers, so that two threads meet on
  one channel and fragments of two channels mix; a message of three units takes
  a first and a following PDU, one of a single unit none; two messages are
  needed for one to follow, or overtake, another. The proofs remove these bounds
  for the safety properties, that on the size of a PDU included.
* `AndroidSession`: two native threads suffice for a retry and for two threads
  on one instance; a third allows a retry after a reconnection. One instance:
  sessions share nothing but the UI thread and the screen, and two of them with
  the liveness properties take TLC more than five minutes. The number of runs of
  PROGRESS in 30 seconds matters only as "some left" and "none left". The proofs
  remove these bounds, that on the instances included, for the safety properties.
* `MessageQueue`: with initial capacity 2 six posts make the ring grow twice,
  wrapped and not, with every fill level in between. The proofs remove all
  three bounds.
* `ThreadPool`: two tiles, so that one may run while the other is queued; two
  frames of one client, so that work given up meets the next frame. Removed by
  the proofs for the safety properties.
* `SynchronizationBarrier`: three threads, so that beside the last one a fast
  and a slow one exist; the events alternate with period two, three phases
  bring the first event round again. `Processors` 2 leaves both spinning and
  blocking possible for a thread without flags. Removed by the proofs for the
  safety properties.

### Fairness

* `critical_section`: a thread inside a call is scheduled, and who holds the
  section leaves it at last. Calling is not fair.
* `multiclient_event`: capture thread and client threads run; the waits are
  `INFINITE`, so a thread runs on exactly when its event is set. A client
  reacts to the event and consumes because its loop does nothing else with it.
  Subscribing and leaving are not fair.
* `rdp_connection`: both event loops run (`rdp_check_fds` in a loop on the
  client, the peer's thread on the server), and a read on a closed connection
  ends. The fairness is on the loops, not on single handlers. Failures, resizes
  and input are never forced.
* `security_nego`: both sides run, and a read ends when the server has closed.
* `dynamic_channels`: peer thread, main thread and drdynvc thread handle what
  comes, and a write of the server goes on to its end. Nobody has to open,
  write, close or disconnect; not even a plugin's write has to go on, so the
  disconnect ends without the plugins' help.
* `android_session`: PROGRESS and CLOSER, the return of `beginConnection` and the
  native threads run. Neither the user nor the network has to do anything, nor
  has START_CONNECTION, which may wait for the login dialog.
* `message_queue`: readers run until they get the quit message; posts are free.
* `thread_pool`: workers and clients run, callbacks return, the owner closes the
  pool when all clients are done. Giving up is not forced.
* `synch_barrier`: all threads run; a spinning thread is preempted.

## 4. Findings

Three runs show a line of the repository at odds with the code.

1. `connection.c:1114`: the persistent key list is sent although a
   reactivation is in progress, when a second Deactivate All arrives in
   FINALIZATION (`KeyListOnlyFirst`).
2. `nego.c:1260`: TLS is selected although it is disabled. A confirm without
   `rdpNegData` leaves the protocol of a refused attempt in `SelectedProtocol`
   (`DisabledNeverSelected`).
3. `connection.c:1259`: after a failure packet the server goes on to accept TLS
   or NLA, because the status of the failure branch is overwritten
   (`FailureEndsNegotiation`).

Other things met while modelling; the properties are stated so as to leave these
cases out where the code does not keep them, and say so.

* `shadow_mcevent.c:155`: publish and wait as the two exported functions, which
  nobody in the repository uses, would break the assertion there: the wait may
  return while clients are still at the barrier.
* `nego.c:136`, `176`: without negotiation and without a preconnection PDU the
  only call that makes the TCP connection is skipped.
  `GivesUpOnlyIfIncompatible` is about negotiated connections.
* `nego.c:211`: a reconnect with RDP security after one with TLS advertises all
  encryption methods, because the server's answer has been written over the
  setting.
* `nego.c:245`: `PROTOCOL_HYBRID_EX` is accepted as an answer, but
  `nego_security_connect` has no branch for it.
* `core/server.c:1269`: a channel closed by the server before the client has
  answered its CREATE stays open on the client (`"ABANDONED"`).
* `core/server.c:231`: a plugin that closes a channel while another thread is in
  the middle of a message on it makes the server end the whole connection.
* `LibFreeRDP.java:158`, `android_freerdp.c:821`: a disconnect while the
  connection is being made does nothing, and a second native thread can be
  started on an instance; `OneThreadUnlessHasty` says which two things it takes
  (the activity was stopped, or the 30 seconds passed).
* `SessionList.java:245`, `289`: "clear all" and an import delete the entries
  without `disconnect()`, which the deletion of one entry calls (line 93), and a
  configuration loaded for its PIN (`Main.java:38`) is in no list at all. Its
  connection goes on when the activity is gone, and nothing can end it.
  `OrphanHasCause` names all causes the model has of such a connection: an ignored
  disconnect, a connect after one, and these.
* `SessionActivity.java:114`: `START_CONNECTION` has no case for the
  `STATE_FAILED` of `RDPActivity.java:165`. When no native thread can be started
  the locker says "connecting" and nobody is asked; `OutcomeShown` excepts it.
* `SessionActivity.java:582`: an activity destroyed within the 3 seconds of CLOSER
  to be made anew (a new screen size: the manifest handles `orientation|keyboard`
  only) forgets the exit, and its `onStart` connects again. `ExitHonoured`
  excepts it.
* `android_event.c:165`: a thread that leaves its loop because of the abort
  event leaves the DISCONNECT in the queue, and a later connection of the
  instance would take it. `android_freerdp.c:606`: a session ended by the server
  may be reported as a failure, and is then not shown as ended.
* `barrier.c:221`: what is proved and checked of the barrier supposes `Sound`
  (program order of the stores kept, or all threads blocking). Without it a
  spinning thread may see the events switched before the counter is reset, and
  the assertion at line 178 fails (`AssertionHolds`, two threads and two phases
  suffice). `Rendezvous` and `AllPass` fail in the instance of `synch_barrier`.
  `OneTrue` fails only from four phases on: an attempt to prove it without the
  condition did not go through, and TLC then found the behaviour.
* `work.c:182`: a client that never stops submitting can keep another one
  waiting; `PoolProgress` is for finitely many frames.
* A message queue of initial capacity 1 would lose its place when it grows; the
  code always begins with 32 (`MessageQueueAssumption`).

## 5. Proofs

Assumptions, each a named `ASSUME` of the module that declares the constants:

* the sets of threads, clients and workers are finite, and `NoThread`,
  `NoInstance` are none of their kind;
* the types of the constants: bounds are natural numbers, and positive where
  zero would leave nothing to do (`Tiles`, `Ticks`, `MaxThreads`);
* `NegoAssumption`: a server of this repository has no `PROTOCOL_HYBRID_EX`;
* `JoinAssumption`: the channels to join are distinct. The server counts
  `mcs->baseChannelId` up for each (`gcc.c:1595`), and the client refuses a
  second channel of a name (`core/client.c:905`);
* `MessageQueueAssumption`: the initial capacity of a queue is above one;
* `DynamicChannelsAssumption`: a PDU has room for data beside the length of the
  message (`CHANNEL_CHUNK_LENGTH` bytes less the header), and no message is
  empty: on the client such a write closes the channel (`drdynvc_main.c:839`,
  `PluginClose`) and the server sends nothing for it (the loop of `FreeRDP_WTSVirtualChannelWrite`).

* **`Synch_proofs`**, the critical section: `TypeCorrect`, `Handover`, `Exclusion`,
  `OwnerFieldsCorrect`, `Quiescence`, `Refinement`, `Invariance`. Exclusion alone is not
  inductive: the right to enter passes from a leaver to a waiter through the
  semaphore, with no holder in between. `HandoverInv` says that a wakeup exists
  (posted, or about to be posted) exactly when nobody holds the section and
  somebody is queued, that it is at most one, and that `LockCount` is the number
  of those queued plus what the holder has added, minus one. Each action
  preserves it conjunct by conjunct; cardinality facts about the queue are the
  lemmas. The refinement follows: the steps that win or free the section are the
  abstract lock's, all others stutter.
* **`Synch_proofs`**, the barrier: `BarrierInvHolds`, `RendezvousHolds`,
  `OneTrueHolds`, for any number of threads, phases and processors and every
  choice of flags, under `Sound`. The barrier keeps no phase number; `PhaseInv`
  names one: either the threads gather for phase p, some still waking
  up from p - 1 and one perhaps about to signal it (`Gathering`), or all have
  entered and the last one is switching the barrier to p + 1, as far as its
  remaining stores tell (`Closing`). Counter and events are functions of the
  phase and of who has entered.
* **`MultiClientEvent_proofs`**: `Rendezvous` (with `TypeCorrect` and
  `Invariance`), `AssertionsNeverFail`, `SurfaceIsStable`, `FramesComplete`,
  `FramesSentOnce`. `RendezvousInv` ties the
  counters to sets of threads (`consuming` counts the active subscribers while
  the event is set, `waiting` those at the barrier) and makes the events
  functions of the counters. Without it nothing excludes that a share is consumed
  on behalf of a client that has left, since `pleaseHandle` is never cleared.
* **`RdpConnection_proofs`**: `PostConnectInvariant`, `PostConnectCalledOnce`;
  `ConnectionInvariant`, `InvHolds`, `NoRefusalHolds`, `ActiveAgreesHolds`,
  `ActivationsToldHolds`. They hold for both kinds of server, every list of
  distinct channels, with and without a message channel and a persistent cache,
  through any number of reactivations, failures and reconnects.
  `PostConnectInv` relates the number of calls to `ConnectionCallbackState` and
  `connected` in each call the application can be in. That no PDU is refused is
  a statement about the head of a channel, so the invariant (`Core`) has to say
  what may be in either channel in every phase. `Handshake` and `Joining`
  enumerate the one PDU on its way up to the license, the joins by their place
  in the order of the list. In a session `Pairing` says that a Deactivate All is
  followed by its Demand Active and that the client waits for the latter
  exactly when it is at the head; `Shares` that the last Demand Active on its
  way, or else the one answered, is the server's latest; `FontMaps` that no
  Font Map of that share exists before the server is active. These hold
  also for the sample server, which may begin a reactivation within another.
  With the shadow server (`~resizeOnInput`) `OneActivation` and `Finalizing` say
  that only one activation is under way, with the order of its PDUs, and `Told`
  that the flag `deactivation_reactivation` tells the first from the others.
* **`SecurityNego_proofs`**: `TypeCorrect`, `NegotiationInvariant`, `Invariance`,
  `NegotiatesHighest`; `SidesInvariant`, `LayersAgreeHolds`,
  `GivesUpOnlyIfIncompatibleHolds`. `NegoInv` says
  that the protocol being tried is one of the client's, that everything stronger
  is known not to be common, and that the answer on its way is the one to
  this attempt, although the connection is dropped and made anew between
  attempts. Type correctness carries the fact that an error code is never
  taken for a selected protocol by the client. The other two properties are about both
  sides: `SidesInv` says in which state of the server each message can be on its
  way (`Turns`), that the server uses the RDP layer only after it has selected
  it (`ServerLayer`), that the block on its way is what the server has taken up
  (`Blocks`), and that each attempt meets a server of its own (`Attempted`),
  without which an answer to an earlier attempt could end the chain early.
* **`DynamicChannels_proofs`**: `DvcInvariant`, `InvHolds`, `GetsWrittenHolds`,
  `DroppedOnlyAfterCloseHolds`, for any number of channels, plugin threads and
  messages, any size of a PDU and any lengths of messages. What a receiver gets
  depends on every PDU ahead of it in a FIFO that carries all channels, so neither
  invariant is inductive; `DroppedOnlyAfterClose` is an action property about the
  channel of the PDU that ends the connection, and follows from `DvcInv` in the
  state before. `DvcInv` says of each channel and
  direction that the PDUs with data under way are pieces of the messages
  written (`Pieces`), each of which begins where an earlier one ends, the first
  one where the receiver goes on (`Chain`), and the last one where the writer
  goes on (`EndsAt`). Positions only grow along a chain, so it is enough that
  each piece follows *some* earlier one: a PDU appended for one channel and one
  taken for another do not disturb it, and no induction over the queue is
  needed. Towards the client the chain is there while the channel is open or its
  CREATE is still to come (`Live`); afterwards its data is dropped. Towards the
  server it is there for the channels still in the server's list.
  `Requests` says that a channel is requested once and before its data,
  `Answered` that an answer has taken the place of its request and that a
  refused or closed channel is not open, `Ending` in which order the two ends
  stop, and `Unused` that the next number is untouched. `ClientSide` says that a
  channel has one write at a time, in the middle of the last message begun
  (`Midway`): the lock of the channel keeps the fragments of two plugin threads
  apart. The lemmas on parts of a message (`PartConcat`, `FragmentPiece`,
  `ReceiveFirst`, `ReceiveWhole`, `ReceiveMore`) say that cutting with `Chunk` and putting together are inverse.
* **`AndroidSession_proofs`**: `InvHolds`, `OneThread`, `NoOtherOrphans`, for any
  number of instances, native threads and ticks. `TallyInv` counts the callbacks
  and threads outstanding per instance against the threads started, so that one that
  ends takes back only its own note; `PatientInv` says what an activity
  that has not been hasty waits for before it may connect, and that it finishes
  only after its thread has ended or its configuration has let go (so a loose one
  leaves no thread behind); `FreshInv` that CLOSER runs only then, too; `NotedInv` that
  `mInstanceState` is not set while a thread is connecting, so that a disconnect
  that was accepted (`LetGoInv`) comes after the `ResetEvent` of
  `freerdp_connect` and is not lost.
* **`ThreadPool_proofs`**: `InvHolds`, `WorkSafeHolds`, for any number of
  clients, workers, tiles and frames. The wait is for the count of the whole
  pool, so `WorkSafe` needs `CountInv` (the count is what is queued, running or about
  to be queued), `OwedInv` (what a client has submitted and not closed is held
  by the queue or a worker, or has run) and `FrameInv` (how far a client is in
  its frames); `HeldInv` keeps what is freed apart from what is held.
* **`MessageQueue_proofs`**: `Invariance` (with `TypeCorrect`, `RingCorrect`,
  `EventCorrect`), `Refinement`, `NothingLost`, for every initial capacity above
  one and any number of messages and readers. `RingInv` says that tail is
  size entries behind head modulo the capacity and that the entries between them
  carry consecutive numbers. The heart is `EnsureCapacityKeeps`: what
  `MessageQueue_EnsureCapacity` leaves behind has the same messages in the same
  order from head on, although the modulus has changed, because the ring grows
  exactly when all but one entry are in use. The refinement follows
  operation by operation from the sequence `Items`. `NothingLost` needs
  a further invariant (`Accounted`) over what was taken and cleared.

Each inductive invariant has been checked by TLC on the instances of section 3
before it was proved; those that are part of an `Inv` are checked in the runs,
the stronger ones are defined in the proof modules, which TLC does not load.

## 6. Model-checked only

Liveness under fairness (`WaiterIsServed`, `NobodyStuck`, `ConnectCompletes`,
`ResizeCompletes`, `NegoEnds`, `OpenAnswered`, `WrittenArrives`,
`DisconnectEnds`, `ExitHonoured`, `OutcomeShown`, `Drained`, `PoolProgress`,
`AllPass`) is beyond the prover. Every invariant and both refinements that the
runs check are proved as well.

## 7. Plan

In this order; each step with its runs, its mistakes and, where named, proofs.

1. *Done*: the lock, the rendezvous, the connection sequence, the negotiation;
   message queue, thread pool and barrier of WinPR; dynamic channels; sessions of
   the Android client.
2. *Done*: proofs of all safety properties of the lock, the rendezvous, the
   connection sequence, the negotiation, the dynamic channels, the message
   queue, the thread pool, the barrier and the Android sessions. Left: action
   properties of `RdpConnection` (an activation is ended only by the server or
   a failure).
3. The rest of the connection sequence: licensing (`license.c`), NLA and the
   second negotiation with VmConnect (`rdp.c:1512-1572`), redirection. A
   composition of `SecurityNego` and `RdpConnection` in which the settings of
   the one steer the other, and of `DynamicChannels` with reconnects.
4. Transport, fast-path reassembly, shadow encoder (frame rate,
   acknowledgement), graphics pipeline, proxy as two instances of
   `RdpConnection` in two threads, RD gateway.

## 8. Not modelled, and why

* In `RdpConnection`: redirection, NLA as a state of its own, multitransport,
  auto-detection and licensing beyond the Valid Client message (planned);
  `freerdp_peer_close`, whose effect on the client is that of `ServerLeaves`
  after a Deactivate All; a failing PostConnect or Activate callback, which
  appears as the call followed by `Disconnect` or `ServerLeaves`; a data PDU
  handled twice in CAPABILITIES_EXCHANGE, which changes nothing for the PDUs of
  the model.
* In `SecurityNego`: routing token and cookie, an unknown `rdpNegData` type, a
  server without an RDP key (`nego.c:1116`), the FIPS override
  (`connection.c:253-257`), restricted administration, and the other GCC blocks.
* In `CriticalSection`: an interrupted `sem_wait` (its result is ignored) is
  left out of the base model, because it needs a signal handler without
  SA_RESTART; `WaitInterrupted` is its effect.
* In `DynamicChannels`: opening of static channels, compression, the plugins' own
  protocols, and a second connection (PDUs written late may reach it,
  `core/client.c:269`). Memory: a channel that is freed while a thread leaves
  its lock (`drdynvc_main.c:460`) or while the server handles a PDU of it
  (`core/server.c:278`) is undefined behaviour the model does not show. The
  server's applications write each channel from one thread (its write takes no
  lock, `core/server.c:1388`), and a plugin closes only channels whose CREATE has
  been answered; `libusb_udevice.c:1137` (urbdrc) closes one from another thread
  and could do it earlier. A channel that is accepted and then closed because
  `OnChannelConnected` fails (`drdynvc_main.c:531`) does not occur:
  `freerdp_drdynvc_on_channel_connected` always returns `CHANNEL_RC_OK`
  (`core/client.c:191-204`).
* In `AndroidSession`: input, drawing, clipboard, certificate and credential
  dialogs; the pool of key events, one static array for all instances
  (`android_event.c:331`); the release of an instance, since
  `RDPSessionState.finalize` never runs. `LibFreeRDP.connect` looks at
  `mInstanceState` a second time, after `beginConnection` has: the two are one
  here (should a connection be noted in between, no thread is started, and
  PROGRESS asks after 30 seconds). The list
  and the PIN are used only while no activity of a session is on the screen or
  behind it.
* In `MessageQueue`, `ThreadPool`: failing allocations; the initialization of the
  default pool without a lock (`pool.c:112`), as the codecs make pools of
  their own; cleanup groups; the tiles of a frame given up, which are data of
  the codec (`rfx.c:1650`): `WorkSafe` excepts their callbacks.
* In `SynchronizationBarrier`: a deletion while threads are inside
  (`barrier.c:249`); the only user joins them first.
* InitOnce (`init.c:53-105`): one compare-and-exchange and plain reads, whose
  correctness is a matter of the memory model only. Timer queue (`timer.c`): its
  order is one of clock readings. Events, mutexes and wait functions: wrappers of
  kernel objects, taken as Booleans and guards by the models above them.
* NLA, licensing, redirection, transport, fast-path, graphics pipeline, shadow
  encoder, proxy (whose client side reactivates its server side from another
  thread, `pf_update.c:103`), gateway: left for later, section 7.
* Memory exhaustion and failing creation of events or semaphores, everywhere.
* Capability sets, orders and updates: serialization without protocol state.
* Codecs, primitives and colour conversion: numerical algorithms over pixel data
  beyond any small instance.
* Crypto, certificates, TLS, SSPI and the other Windows API replacements: calls
  into libraries or the operating system.
* Device, audio and smartcard channels, desktop clients, RSCC's user interface
  and VNC part: I/O and user interface. uwac, rdtk and libjpeg are libraries.

--------------------------- MODULE AndroidSession ---------------------------
(***************************************************************************)
(* Sessions of the Android client: a configuration (RDPSessionConfig), in  *)
(* the session list or loaded for its PIN, its RDPSessionState, the        *)
(* activity that shows it (SessionActivity, RDPActivity), the class        *)
(* LibFreeRDP and the native thread that connects                          *)
(* (client/Android/android_freerdp.c).                                     *)
(*                                                                         *)
(* Three kinds of steps interleave: what the user and Android do, which    *)
(* runs on the UI thread; the runnables posted to the UI thread's handler; *)
(* and the steps of the native threads, whose callbacks write _cState and  *)
(* mInstanceState and may finish the activity.  Every RDPSessionState has  *)
(* an activity of its own, because connect() makes a new one whenever the  *)
(* configuration has none, so both are named by the instance.              *)
(*                                                                         *)
(* LibFreeRDP.connect starts a native thread whenever the instance is not  *)
(* connected YET.  Two threads inside freerdp_connect on one instance are  *)
(* undefined behaviour: the model records the instance in "undefined" and  *)
(* says nothing more about its native side.                                *)
(*                                                                         *)
(* RDPSessionState.finalize never runs: Core.SESSIONS refers to every      *)
(* session until finalize itself removes it.  So no instance is freed.     *)
(***************************************************************************)
EXTENDS Naturals, FiniteSets, FiniteSetsExt

CONSTANTS
    Instances,       \* the instances freerdp_new can return
    NoInstance,      \* null
    MaxThreads,      \* how many native threads are started
    Ticks            \* runs of PROGRESS that make up its 30 seconds

ASSUME AndroidSessionAssumption ==
    /\ NoInstance \notin Instances
    /\ MaxThreads \in Nat \ {0}
    /\ Ticks \in Nat \ {0}

VARIABLES
    holder,          \* whose _connection it is: see Holders
    life,            \* the activity: "none", "started", "stopped", "finished"
    handler,         \* the runnables posted for it
    ticks,           \* runs of PROGRESS since _startCon
    cState,          \* SessionActivity._cState
    dialog,          \* the activity asks whether to try again
    screen,          \* what it shows: "connecting" (the locker), "session"
    ui,              \* the instance whose beginConnection is returning
    mInstanceState,  \* LibFreeRDP.mInstanceState
    thread,          \* the native thread: see Phases
    removing,        \* threads that have called the listener for the last
                     \* time and have still to remove mInstanceState
    abortEvent,      \* rdpContext.abortEvent
    queued,          \* a DISCONNECT event is in the event queue
    starts,          \* native threads started
    undefined,       \* instances with two native threads
    revived,         \* history: connected after its holder let go
    refused,         \* history: its last thread could not be started
    accepted,        \* history: a disconnect its native thread must obey
    ignored,         \* history: a disconnect came before mInstanceState
    hasty,           \* history: it was stopped, or its 30 seconds passed
    recreated        \* history: its activity was destroyed while closing

activity == <<life, handler, ticks, cState, dialog, screen, ui>>
native == <<mInstanceState, thread, removing, abortEvent, queued>>
begun == <<starts, undefined, revived, refused>>
ended == <<accepted, ignored>>
left == <<hasty, recreated>>
history == <<begun, ended, left>>
vars == <<holder, activity, native, history>>

\* "entry": an entry of the session list; "loose": a configuration in no
\* list, to which only its activity refers; "none": disconnect() was called.
Holders == {"none", "entry", "loose"}

Runnables == {"START_CONNECTION", "PROGRESS", "CLOSER"}

\* "created": before the ResetEvent of freerdp_connect; "told": the listener
\* has heard of the success, mInstanceState has not; "stopping": out of
\* android_freerdp_run or of a failed freerdp_connect.
Phases == {"none", "created", "connecting", "told", "running", "stopping"}

Init ==
    /\ holder = [i \in Instances |-> "none"]
    /\ life = [i \in Instances |-> "none"]
    /\ handler = [i \in Instances |-> {}]
    /\ ticks = [i \in Instances |-> 0]
    /\ cState = [i \in Instances |-> "CONNECTING"]
    /\ dialog = [i \in Instances |-> FALSE]
    /\ screen = [i \in Instances |-> "connecting"]
    /\ ui = NoInstance
    /\ mInstanceState = [i \in Instances |-> FALSE]
    /\ thread = [i \in Instances |-> "none"]
    /\ removing = [i \in Instances |-> 0]
    /\ abortEvent = [i \in Instances |-> FALSE]
    /\ queued = [i \in Instances |-> FALSE]
    /\ starts = [i \in Instances |-> 0]
    /\ undefined = {} /\ revived = {} /\ refused = {}
    /\ accepted = {} /\ ignored = {}
    /\ hasty = {} /\ recreated = {}

Live(i) == life[i] \in {"started", "stopped"}
-----------------------------------------------------------------------------
(***************************************************************************)
(* The session list and the PIN.  Either is on the screen only when no     *)
(* activity of a session is.                                               *)
(***************************************************************************)

ListShown == ui = NoInstance /\ \A j \in Instances : ~ Live(j)

\* A tap on an entry that has no session, or the PIN of a configuration,
\* which is loaded for it: a new instance and its activity, whose onStart
\* posts START_CONNECTION (or has the login dialog run it).
Connect(i, h) ==
    /\ ListShown /\ life[i] = "none"
    /\ holder' = [holder EXCEPT ![i] = h]
    /\ life' = [life EXCEPT ![i] = "started"]
    /\ handler' = [handler EXCEPT ![i] = {"START_CONNECTION"}]
    /\ UNCHANGED <<ticks, cState, dialog, screen, ui, native, history>>

\* Mistake: without freerdp_abort_connect.
JniDisconnectOnlyQueues(i) ==
    /\ queued' \in {queued, [queued EXCEPT ![i] = TRUE]}
    /\ UNCHANGED abortEvent

\* jni_freerdp_disconnect.  The native thread may be taking an event from
\* the queue, which has no lock: then the new one can be lost.
JniDisconnect(i) ==
    /\ queued' \in {queued, [queued EXCEPT ![i] = TRUE]}
    /\ abortEvent' = [abortEvent EXCEPT ![i] = TRUE]

\* Mistake: the configuration lets go of the instance and never tells it.
DisconnectForgets(i) ==
    /\ holder' = [holder EXCEPT ![i] = "none"]
    /\ UNCHANGED <<abortEvent, queued, ended>>

\* RDPSessionConfig.disconnect: LibFreeRDP.disconnect looks at
\* mInstanceState, and the configuration lets go of the instance in either
\* case.  One that has let go before does nothing.
Disconnect(i) ==
    /\ holder' = [holder EXCEPT ![i] = "none"]
    /\ \/ /\ holder[i] = "none"
          /\ UNCHANGED <<abortEvent, queued, ended>>
       \/ /\ holder[i] # "none" /\ mInstanceState[i]
          /\ JniDisconnect(i)
          /\ accepted' = IF thread[i] = "none" THEN accepted
                                              ELSE accepted \cup {i}
          /\ UNCHANGED ignored
       \/ /\ holder[i] # "none" /\ ~ mInstanceState[i]
          /\ ignored' = ignored \cup {i}
          /\ UNCHANGED <<abortEvent, queued, accepted>>

\* A tap on the entry of a session, or on its "delete".
ListDisconnect(i) ==
    /\ ListShown /\ holder[i] = "entry"
    /\ Disconnect(i)
    /\ UNCHANGED <<activity, mInstanceState, thread, removing, begun, left>>

\* "Clear all", and an import before it adds its entries: every entry is
\* deleted, and no session is told.
ListClear ==
    /\ ListShown
    /\ \E i \in Instances : holder[i] = "entry"
    /\ holder' = [i \in Instances |->
                    IF holder[i] = "entry" THEN "loose" ELSE holder[i]]
    /\ UNCHANGED <<activity, native, history>>
-----------------------------------------------------------------------------
(***************************************************************************)
(* The activity, on the UI thread.                                         *)
(***************************************************************************)

\* What an activity that has just been created shows and remembers.
Fresh(i) ==
    /\ handler' = [handler EXCEPT ![i] = {}]
    /\ dialog' = [dialog EXCEPT ![i] = FALSE]
    /\ ticks' = [ticks EXCEPT ![i] = 0]
    /\ cState' = [cState EXCEPT ![i] = "CONNECTING"]
    /\ screen' = [screen EXCEPT ![i] = "connecting"]

\* finish(): onStop and onDestroy remove the runnables, and the fields of a
\* finished activity, which nobody reads, get their first values.
Finish(i) ==
    /\ life' = [life EXCEPT ![i] = "finished"]
    /\ Fresh(i)

\* setConnectionState, by a callback.
SetConnectionState(i, state) ==
    cState' = IF Live(i) THEN [cState EXCEPT ![i] = state] ELSE cState

\* The user leaves the activity: onStop.
OnStop(i) ==
    /\ ui = NoInstance /\ life[i] = "started"
    /\ life' = [life EXCEPT ![i] = "stopped"]
    /\ handler' = [handler EXCEPT ![i] = @ \ {"START_CONNECTION", "PROGRESS"}]
    /\ hasty' = hasty \cup {i}
    /\ UNCHANGED <<holder, ticks, cState, dialog, screen, ui, native,
                   begun, ended, recreated>>

\* Android destroys a stopped activity to make another one of it, for a new
\* screen size at once and for want of memory when the user comes back:
\* onDestroy removes CLOSER.  (What a callback tells the old activity is
\* lost, but the new one starts with START_CONNECTION.)
OnDestroy(i) ==
    /\ ui = NoInstance /\ life[i] = "stopped"
    /\ Fresh(i)
    /\ recreated' = IF "CLOSER" \in handler[i] THEN recreated \cup {i}
                                               ELSE recreated
    /\ UNCHANGED <<holder, life, ui, native, begun, ended, hasty>>

\* The user comes back: onStart, as after onCreate.
OnStart(i) ==
    /\ ui = NoInstance /\ life[i] = "stopped"
    /\ life' = [life EXCEPT ![i] = "started"]
    /\ handler' = [handler EXCEPT ![i] = @ \cup {"START_CONNECTION"}]
    /\ UNCHANGED <<holder, ticks, cState, dialog, screen, ui, native,
                   history>>

\* The login dialog of onStart is cancelled.
CancelLogin(i) ==
    /\ ui = NoInstance /\ life[i] = "started"
    /\ "START_CONNECTION" \in handler[i]
    /\ Finish(i)
    /\ UNCHANGED <<holder, ui, native, history>>

Started == MapThenSumSet(LAMBDA j : starts[j], Instances)

\* jni_freerdp_connect: a thread, whatever runs already.
JniConnect(i) ==
    /\ Started < MaxThreads
    /\ starts' = [starts EXCEPT ![i] = @ + 1]
    /\ \/ thread[i] # "none" /\ undefined' = undefined \cup {i}
          /\ UNCHANGED thread
       \/ thread[i] = "none" /\ thread' = [thread EXCEPT ![i] = "created"]
          /\ UNCHANGED undefined
    /\ revived' = IF holder[i] = "none" THEN revived \cup {i} ELSE revived

\* It returns JNI_FALSE: freerdp_new had failed, or CreateThread does.  No
\* case of START_CONNECTION.run is for STATE_FAILED: neither the screen nor
\* PROGRESS is touched.
BeginConnectionFails(i) ==
    /\ ~ mInstanceState[i]
    /\ cState' = [cState EXCEPT ![i] = "FAILED"]
    /\ refused' = refused \cup {i}
    /\ UNCHANGED <<screen, ui, thread, starts, undefined, revived>>

\* START_CONNECTION.run, as far as beginConnection returns.
BeginConnection(i) ==
    \/ /\ mInstanceState[i]
       /\ cState' = [cState EXCEPT ![i] = "CONNECTED"]
       /\ screen' = [screen EXCEPT ![i] = "session"]
       /\ refused' = refused \ {i}
       /\ UNCHANGED <<ui, thread, starts, undefined, revived>>
    \/ /\ ~ mInstanceState[i]
       /\ JniConnect(i)
       /\ ui' = i
       /\ refused' = refused \ {i}
       /\ UNCHANGED <<cState, screen>>
    \/ BeginConnectionFails(i)

StartConnection(i) ==
    /\ ui = NoInstance /\ life[i] = "started"
    /\ "START_CONNECTION" \in handler[i]
    /\ handler' = [handler EXCEPT ![i] = @ \ {"START_CONNECTION"}]
    /\ ticks' = [ticks EXCEPT ![i] = 0]
    /\ BeginConnection(i)
    /\ UNCHANGED <<holder, life, dialog, mInstanceState, removing,
                   abortEvent, queued, ended, left>>

\* The answer "try again" to the dialog.
Retry(i) ==
    /\ ui = NoInstance /\ life[i] = "started" /\ dialog[i]
    /\ dialog' = [dialog EXCEPT ![i] = FALSE]
    /\ ticks' = [ticks EXCEPT ![i] = 0]
    /\ BeginConnection(i)
    /\ UNCHANGED <<holder, life, handler, mInstanceState, removing,
                   abortEvent, queued, ended, left>>

\* The other answer.
GiveUp(i) ==
    /\ ui = NoInstance /\ life[i] = "started" /\ dialog[i]
    /\ Finish(i)
    /\ UNCHANGED <<holder, ui, native, history>>

\* The rest of START_CONNECTION.run: _cState is overwritten, whatever the
\* new thread has put there meanwhile, and PROGRESS runs for the first time.
AssignState ==
    /\ ui # NoInstance
    /\ SetConnectionState(ui, "CONNECTING")
    /\ screen' = IF Live(ui) THEN [screen EXCEPT ![ui] = "connecting"] ELSE screen
    /\ handler' = IF Live(ui) THEN [handler EXCEPT ![ui] = @ \cup {"PROGRESS"}]
                              ELSE handler
    /\ ui' = NoInstance
    /\ UNCHANGED <<holder, life, ticks, dialog, native, history>>

\* Mistake: without the 30 seconds.
ProgressStateWaits(i) == cState[i]

ProgressState(i) == IF ticks[i] = Ticks THEN "FAILED" ELSE cState[i]

\* PROGRESS.run: 30 seconds, the outcome, or once more after 150 ms.
Progress(i) ==
    /\ ui = NoInstance /\ life[i] = "started" /\ "PROGRESS" \in handler[i]
    /\ cState' = [cState EXCEPT ![i] = ProgressState(i)]
    /\ IF ProgressState(i) = "CONNECTING"
       THEN /\ ticks' = [ticks EXCEPT ![i] = IF @ < Ticks THEN @ + 1 ELSE @]
            /\ UNCHANGED <<handler, dialog, screen>>
       ELSE /\ handler' = [handler EXCEPT ![i] = @ \ {"PROGRESS"}]
            /\ dialog' = [dialog EXCEPT ![i] = @ \/ ProgressState(i) = "FAILED"]
            /\ screen' = [screen EXCEPT ![i] =
                 IF ProgressState(i) = "FAILED" THEN @ ELSE "session"]
            /\ UNCHANGED ticks
    /\ hasty' = IF ticks[i] = Ticks THEN hasty \cup {i} ELSE hasty
    /\ UNCHANGED <<holder, life, ui, native, begun, ended, recreated>>

\* The user confirms the exit: CLOSER starts, the configuration disconnects.
AskExit(i) ==
    /\ ui = NoInstance /\ life[i] = "started" /\ ~ dialog[i]
    /\ handler' = [handler EXCEPT ![i] = @ \cup {"CLOSER"}]
    /\ Disconnect(i)
    /\ UNCHANGED <<life, ticks, cState, dialog, screen, ui, mInstanceState,
                   thread, removing, begun, left>>

\* The hundredth run of CLOSER.
Closer(i) ==
    /\ ui = NoInstance /\ Live(i) /\ "CLOSER" \in handler[i]
    /\ Finish(i)
    /\ UNCHANGED <<holder, ui, native, history>>
-----------------------------------------------------------------------------
(***************************************************************************)
(* The native thread: android_thread_func.                                 *)
(***************************************************************************)

Defined(i) == i \notin undefined

\* freerdp_connect begins.
ThreadStart(i) ==
    /\ Defined(i) /\ thread[i] = "created"
    /\ thread' = [thread EXCEPT ![i] = "connecting"]
    /\ abortEvent' = [abortEvent EXCEPT ![i] = FALSE]
    /\ UNCHANGED <<holder, activity, mInstanceState, removing, queued,
                   history>>

\* android_post_connect: LibFreeRDP.OnConnectionSuccess calls the listener,
ThreadTellSuccess(i) ==
    /\ Defined(i) /\ thread[i] = "connecting"
    /\ thread' = [thread EXCEPT ![i] = "told"]
    /\ SetConnectionState(i, "CONNECTED")
    /\ UNCHANGED <<holder, life, handler, ticks, dialog, screen, ui,
                   mInstanceState, removing, abortEvent, queued, history>>

\* and then notes the connection.
ThreadNoteSuccess(i) ==
    /\ Defined(i) /\ thread[i] = "told"
    /\ thread' = [thread EXCEPT ![i] = "running"]
    /\ mInstanceState' = [mInstanceState EXCEPT ![i] = TRUE]
    /\ UNCHANGED <<holder, activity, removing, abortEvent, queued, history>>

\* Mistake: the listener hears of the failure before the thread is done.
ThreadConnectFailsEarly(i) ==
    /\ Defined(i) /\ thread[i] \in {"connecting", "running"}
    /\ thread' = [thread EXCEPT ![i] = "stopping"]
    /\ SetConnectionState(i, "FAILED")
    /\ UNCHANGED <<holder, life, handler, ticks, dialog, screen, ui,
                   mInstanceState, removing, abortEvent, queued, history>>

\* freerdp_connect fails: before, or after the success was told, because a
\* channel refuses to start.  A connection lost in android_freerdp_run ends
\* the thread in the same way.
ThreadConnectFails(i) ==
    /\ Defined(i) /\ thread[i] \in {"connecting", "running"}
    /\ thread' = [thread EXCEPT ![i] = "stopping"]
    /\ UNCHANGED <<holder, activity, mInstanceState, removing, abortEvent,
                   queued, history>>

\* android_freerdp_run leaves its loop: the abort event is set,
ThreadAborted(i) ==
    /\ Defined(i) /\ thread[i] = "running" /\ abortEvent[i]
    /\ thread' = [thread EXCEPT ![i] = "stopping"]
    /\ UNCHANGED <<holder, activity, mInstanceState, removing, abortEvent,
                   queued, history>>

\* or a DISCONNECT event is taken from the queue.  A thread that sees the
\* abort event first leaves the DISCONNECT event to the next one.
ThreadTakesDisconnect(i) ==
    /\ Defined(i) /\ thread[i] = "running" /\ queued[i]
    /\ thread' = [thread EXCEPT ![i] = "stopping"]
    /\ queued' = [queued EXCEPT ![i] = FALSE]
    /\ UNCHANGED <<holder, activity, mInstanceState, removing, abortEvent,
                   history>>

\* The end of android_thread_func.  Its status is the number of the handle
\* that ended the last wait, or the last error: the listener hears of a
\* disconnect, which finishes the activity, or of a failure.
ThreadTellEnd(i) ==
    /\ Defined(i) /\ thread[i] = "stopping"
    /\ thread' = [thread EXCEPT ![i] = "none"]
    /\ removing' = [removing EXCEPT ![i] = @ + 1]
    /\ \/ Finish(i)
       \/ /\ SetConnectionState(i, "FAILED")
          /\ UNCHANGED <<life, handler, ticks, dialog, screen>>
    /\ accepted' = accepted \ {i}
    /\ UNCHANGED <<holder, ui, mInstanceState, abortEvent, queued, begun,
                   ignored, left>>

\* Mistake: OnConnectionFailure leaves mInstanceState alone.
ThreadNoteEndNever(i) ==
    /\ Defined(i) /\ removing[i] > 0
    /\ removing' = [removing EXCEPT ![i] = @ - 1]
    /\ UNCHANGED <<holder, activity, mInstanceState, thread, abortEvent,
                   queued, history>>

\* The callback then removes the instance from mInstanceState.
ThreadNoteEnd(i) ==
    /\ Defined(i) /\ removing[i] > 0
    /\ removing' = [removing EXCEPT ![i] = @ - 1]
    /\ mInstanceState' = [mInstanceState EXCEPT ![i] = FALSE]
    /\ UNCHANGED <<holder, activity, thread, abortEvent, queued, history>>

-----------------------------------------------------------------------------
UI(i) ==
    \/ StartConnection(i) \/ Progress(i) \/ Closer(i)

User(i) ==
    \/ Connect(i, "entry") \/ Connect(i, "loose") \/ ListDisconnect(i)
    \/ OnStop(i) \/ OnDestroy(i) \/ OnStart(i) \/ CancelLogin(i)
    \/ Retry(i) \/ GiveUp(i) \/ AskExit(i)

Native(i) ==
    \/ ThreadStart(i) \/ ThreadNoteSuccess(i) \/ ThreadAborted(i)
    \/ ThreadTakesDisconnect(i) \/ ThreadTellEnd(i) \/ ThreadNoteEnd(i)

\* What depends on the server and the network.
Network(i) == ThreadTellSuccess(i) \/ ThreadConnectFails(i)

Next ==
    \/ AssignState \/ ListClear
    \/ \E i \in Instances : UI(i) \/ User(i) \/ Native(i) \/ Network(i)

Spec == Init /\ [][Next]_vars

\* The UI thread and the native threads are scheduled; PROGRESS and CLOSER,
\* posted with a delay, run.  Neither the user, whose login START_CONNECTION
\* may wait for, nor the server has to do anything.
Fairness ==
    /\ WF_vars(AssignState)
    /\ \A i \in Instances :
         WF_vars(Progress(i)) /\ WF_vars(Closer(i)) /\ WF_vars(Native(i))

FairSpec == Spec /\ Fairness
-----------------------------------------------------------------------------
TypeOK ==
    /\ holder \in [Instances -> Holders]
    /\ life \in [Instances -> {"none", "started", "stopped", "finished"}]
    /\ handler \in [Instances -> SUBSET Runnables]
    /\ ticks \in [Instances -> 0 .. Ticks]
    /\ cState \in [Instances -> {"CONNECTING", "CONNECTED", "FAILED"}]
    /\ dialog \in [Instances -> BOOLEAN]
    /\ screen \in [Instances -> {"connecting", "session"}]
    /\ ui \in Instances \cup {NoInstance}
    /\ mInstanceState \in [Instances -> BOOLEAN]
    /\ thread \in [Instances -> Phases]
    /\ removing \in [Instances -> Nat] /\ starts \in [Instances -> Nat]
    /\ \A i \in Instances : removing[i] <= starts[i]
    /\ abortEvent \in [Instances -> BOOLEAN]
    /\ queued \in [Instances -> BOOLEAN]
    /\ undefined \subseteq Instances /\ revived \subseteq Instances
    /\ refused \subseteq Instances
    /\ accepted \subseteq Instances /\ ignored \subseteq Instances
    /\ hasty \subseteq Instances /\ recreated \subseteq Instances

\* mInstanceState follows the native thread: an instance is noted as
\* connected only while a thread serves it or is about to take the note
\* back, and the first connection of an instance is noted while it runs.
\* (On a second one the last callback of the first thread may still come.)
StateTracksThread ==
    \A i \in Instances : Defined(i) =>
        /\ mInstanceState[i] =>
             thread[i] \in {"running", "stopping"} \/ removing[i] > 0
        /\ thread[i] = "running" /\ starts[i] = 1 => mInstanceState[i]

\* The types, and what LibFreeRDP believes of the native threads: its connect
\* and disconnect do nothing where mInstanceState says so.
Inv == TypeOK /\ StateTracksThread

\* A second native thread is started on an instance in use only if the
\* activity was stopped (the user left it, or Android makes a new one of it)
\* or the 30 seconds of PROGRESS passed: an outcome shown in time never leads
\* to two threads.
OneThreadUnlessHasty == undefined \subseteq hasty

\* A connection that nobody can end any more: its configuration has called
\* disconnect, or is in no list and its activity is gone, and no request is
\* under way.
Orphan(i) ==
    /\ Defined(i) /\ thread[i] = "running"
    /\ holder[i] = "none" \/ (holder[i] = "loose" /\ ~ Live(i))
    /\ ~ abortEvent[i] /\ ~ queued[i]

\* Such a connection has one of these causes.  Where disconnect was called:
\* it came before mInstanceState was set, so that LibFreeRDP.disconnect
\* ignored it, or the activity connected again afterwards.  Where it was not
\* (the configuration was loaded for its PIN, or its list was cleared or
\* replaced): the activity finished beside its thread, which it does only
\* after onStop or after the 30 seconds of PROGRESS.
OrphanHasCause ==
    \A i \in Instances : Orphan(i) =>
        \/ holder[i] = "none" /\ i \in ignored \cup revived
        \/ holder[i] = "loose" /\ i \in hasty

\* A disconnect that reached the native side ends the connection, although
\* the event queue may lose the DISCONNECT event: the abort event is there.
DisconnectHonoured ==
    \A i \in Instances : i \in accepted ~> i \notin accepted \/ ~ Defined(i)

\* Once START_CONNECTION has run, an activity on the screen does not say
\* "connecting" for ever, although the outcome in _cState may be overwritten:
\* it shows the session, asks the user, or is left.  The one exception is a
\* native thread that could not be started: START_CONNECTION has no case for
\* STATE_FAILED, so the locker stays and nothing is asked.
OutcomeShown ==
    \A i \in Instances :
        /\ life[i] = "started" /\ screen[i] = "connecting"
        /\ "START_CONNECTION" \notin handler[i]
        ~> \/ life[i] # "started" \/ dialog[i] \/ screen[i] = "session"
           \/ i \in refused

\* An exit the user confirmed finishes the activity, whatever the native
\* thread does and also when the activity is not on the screen, unless
\* Android destroys the activity within the 3 seconds of CLOSER and makes a
\* new one of it.
ExitFinishes ==
    \A i \in Instances :
        "CLOSER" \in handler[i] ~> life[i] = "finished" \/ i \in recreated

\* Once asked to end, a session does so on both sides: the native thread ends
\* the connection, and the activity finishes.
ExitHonoured == DisconnectHonoured /\ ExitFinishes
=============================================================================

------------------------- MODULE MultiClientEvent -------------------------
(***************************************************************************)
(* The frame rendezvous of the shadow server.                              *)
(*                                                                         *)
(* The capture thread of the subsystem (x11_shadow.c) copies the screen    *)
(* into the shared surface and calls shadow_multiclient_publish_and_wait;  *)
(* every client thread (shadow_client.c) sends the surface to its peer and *)
(* calls shadow_multiclient_consume.  shadow_mcevent.c makes the two meet: *)
(* three manual-reset events and two counters, under one critical section. *)
(*                                                                         *)
(* A stretch of code that runs under event->lock is one step here (that    *)
(* the lock excludes is the subject of module CriticalSection); a step     *)
(* ends where the code leaves the lock to wait, and the wait, the return   *)
(* from it and the re-entry into the lock are steps of their own.          *)
(***************************************************************************)
EXTENDS Integers, FiniteSets

CONSTANT Clients   \* the client threads

ASSUME ClientsAssumption == IsFiniteSet(Clients)

VARIABLES
    event,          \* kickoff event, manual reset
    barrierEvent,   \* all shares are consumed, manual reset
    doneEvent,      \* the server may continue, manual reset
    consuming,      \* shares of the frame still to consume
    waiting,        \* clients waiting for barrierEvent
    subscribers,    \* the subscriber list
    pleaseHandle,   \* the flag of each client's subscriber
    pub,            \* where the capture thread is
    pc,             \* where each client thread is
    asked,          \* history: subscribers counted for the current frame
    sent            \* history: clients that have begun to send it

vars == <<event, barrierEvent, doneEvent, consuming, waiting, subscribers,
          pleaseHandle, pub, pc, asked, sent>>
events == <<event, barrierEvent, doneEvent>>

\* "gone": no subscriber; "loop": in the message loop; "sending": has seen
\* the event and reads the surface; "closing": on the way out of the thread;
\* "barrier": waits for barrierEvent; "woken": has seen it, wants the lock.
ClientPCs == {"gone", "loop", "sending", "closing", "barrier", "woken"}

PubPCs == {"capture", "publish", "waitDone", "resume"}

TypeOK ==
    /\ event \in BOOLEAN /\ barrierEvent \in BOOLEAN /\ doneEvent \in BOOLEAN
    /\ consuming \in Nat
    /\ waiting \in Nat
    /\ subscribers \subseteq Clients
    /\ pleaseHandle \in [Clients -> BOOLEAN]
    /\ pub \in PubPCs
    /\ pc \in [Clients -> ClientPCs]
    /\ asked \subseteq Clients
    /\ sent \subseteq Clients

\* shadow_multiclient_new
Init ==
    /\ event = FALSE /\ barrierEvent = FALSE /\ doneEvent = TRUE
    /\ consuming = 0
    /\ waiting = 0
    /\ subscribers = {}
    /\ pleaseHandle = [c \in Clients |-> FALSE]
    /\ pub = "capture"
    /\ pc = [c \in Clients |-> "gone"]
    /\ asked = {}
    /\ sent = {}

-----------------------------------------------------------------------------
(***************************************************************************)
(* The capture thread.                                                     *)
(***************************************************************************)

\* A new frame is copied into the surface.
Capture ==
    /\ pub = "capture"
    /\ pub' = "publish"
    /\ asked' = {}
    /\ sent' = {}
    /\ UNCHANGED <<events, consuming, waiting, subscribers, pleaseHandle, pc>>

\* _Publish: every subscriber is asked for one share.
PublishShares ==
    /\ pleaseHandle' = [c \in Clients |-> pleaseHandle[c] \/ c \in subscribers]
    /\ consuming' = consuming + Cardinality(subscribers)
    /\ asked' = subscribers
    /\ IF consuming' > 0
         THEN doneEvent' = FALSE /\ event' = TRUE
         ELSE UNCHANGED <<doneEvent, event>>

\* shadow_multiclient_publish_and_wait, up to the wait for doneEvent, which
\* _WaitForSubscribers makes only if somebody has a share to consume.
PublishAndWait ==
    /\ pub = "publish"
    /\ PublishShares
    /\ pub' = IF consuming' > 0 THEN "waitDone" ELSE "capture"
    /\ UNCHANGED <<barrierEvent, waiting, subscribers, pc, sent>>

\* Mistake: the wait for doneEvent has a timeout and it is taken for success.
DoneWaitTimeout ==
    /\ pub = "waitDone"
    /\ pub' = "resume"
    /\ UNCHANGED <<events, consuming, waiting, subscribers, pleaseHandle, pc,
                   asked, sent>>

DoneWait ==
    /\ pub = "waitDone"
    /\ doneEvent
    /\ pub' = "resume"
    /\ UNCHANGED <<events, consuming, waiting, subscribers, pleaseHandle, pc,
                   asked, sent>>

\* Back under the lock, past the assertion, and out.
DoneReturn ==
    /\ pub = "resume"
    /\ pub' = "capture"
    /\ UNCHANGED <<events, consuming, waiting, subscribers, pleaseHandle, pc,
                   asked, sent>>

-----------------------------------------------------------------------------
(***************************************************************************)
(* The client threads.                                                     *)
(***************************************************************************)

Goto(c, to) == pc' = [pc EXCEPT ![c] = to]

\* _Consume up to its wait for barrierEvent, for a subscriber whose flag is
\* handle: c goes to "barrier" if it has to wait there and to `to' if not.
ConsumeShare(c, handle, wait, to) ==
    /\ consuming' = IF event /\ handle THEN consuming - 1 ELSE consuming
    /\ \/ /\ consuming' = 0
          /\ event' = FALSE
          /\ IF waiting > 0
               THEN barrierEvent' = TRUE /\ UNCHANGED doneEvent
               ELSE doneEvent' = TRUE /\ UNCHANGED barrierEvent
          /\ Goto(c, to)
          /\ UNCHANGED waiting
       \/ /\ consuming' # 0
          /\ waiting' = IF wait THEN waiting + 1 ELSE waiting
          /\ Goto(c, IF wait THEN "barrier" ELSE to)
          /\ UNCHANGED events

\* Mistake: a new subscriber does not take part in the frame in progress.
GetSubscriberNoWait(c) ==
    /\ pc[c] = "gone"
    /\ subscribers' = subscribers \cup {c}
    /\ pleaseHandle' = [pleaseHandle EXCEPT ![c] = FALSE]
    /\ Goto(c, "loop")
    /\ UNCHANGED <<events, consuming, waiting, pub, asked, sent>>

\* shadow_multiclient_get_subscriber, at the start of the client thread.  (If
\* it fails for want of memory the thread ends: c stays "gone".)
GetSubscriber(c) ==
    /\ pc[c] = "gone"
    /\ subscribers' = subscribers \cup {c}
    /\ pleaseHandle' = [pleaseHandle EXCEPT ![c] = FALSE]
    /\ ConsumeShare(c, FALSE, TRUE, "loop")
    /\ UNCHANGED <<pub, asked, sent>>

\* The message loop finds the event signalled and sends the surface.
SeeUpdate(c) ==
    /\ pc[c] = "loop"
    /\ event
    /\ Goto(c, "sending")
    /\ sent' = sent \cup {c}
    /\ UNCHANGED <<events, consuming, waiting, subscribers, pleaseHandle, pub,
                   asked>>

\* shadow_multiclient_consume, once the surface is sent.
Consume(c) ==
    /\ pc[c] = "sending"
    /\ ConsumeShare(c, pleaseHandle[c], TRUE, "loop")
    /\ UNCHANGED <<subscribers, pleaseHandle, pub, asked, sent>>

BarrierWait(c) ==
    /\ pc[c] = "barrier"
    /\ barrierEvent
    /\ Goto(c, "woken")
    /\ UNCHANGED <<events, consuming, waiting, subscribers, pleaseHandle, pub,
                   asked, sent>>

\* Mistake: the first client through the barrier signals the server.
BarrierReturnFirst(c) ==
    /\ pc[c] = "woken"
    /\ waiting' = waiting - 1
    /\ doneEvent' = TRUE
    /\ barrierEvent' = (waiting' # 0)
    /\ Goto(c, "loop")
    /\ UNCHANGED <<event, consuming, subscribers, pleaseHandle, pub, asked,
                   sent>>

\* The rest of _Consume, back under the lock.
BarrierReturn(c) ==
    /\ pc[c] = "woken"
    /\ waiting' = waiting - 1
    /\ IF waiting' = 0
         THEN barrierEvent' = FALSE /\ doneEvent' = TRUE
         ELSE UNCHANGED <<barrierEvent, doneEvent>>
    /\ Goto(c, "loop")
    /\ UNCHANGED <<event, consuming, subscribers, pleaseHandle, pub, asked,
                   sent>>

\* The loop is left: the peer has gone, or sending the surface failed.
LeaveLoop(c) ==
    /\ pc[c] \in {"loop", "sending"}
    /\ Goto(c, "closing")
    /\ UNCHANGED <<events, consuming, waiting, subscribers, pleaseHandle, pub,
                   asked, sent>>

\* Mistake: a client that goes away keeps its share.
ReleaseNoConsume(c) ==
    /\ pc[c] = "closing"
    /\ Goto(c, "gone")
    /\ subscribers' = subscribers \ {c}
    /\ asked' = asked \ {c}
    /\ UNCHANGED <<events, consuming, waiting, pleaseHandle, pub, sent>>

\* shadow_multiclient_release_subscriber
ReleaseSubscriber(c) ==
    /\ pc[c] = "closing"
    /\ ConsumeShare(c, pleaseHandle[c], FALSE, "gone")
    /\ subscribers' = subscribers \ {c}
    /\ asked' = asked \ {c}
    /\ UNCHANGED <<pleaseHandle, pub, sent>>

-----------------------------------------------------------------------------
Publisher == Capture \/ PublishAndWait \/ DoneWait \/ DoneReturn

\* The steps a client takes without being asked by its peer.
ClientStep(c) ==
    \/ SeeUpdate(c) \/ Consume(c)
    \/ BarrierWait(c) \/ BarrierReturn(c)
    \/ ReleaseSubscriber(c)

Next ==
    \/ Publisher
    \/ \E c \in Clients : GetSubscriber(c) \/ LeaveLoop(c) \/ ClientStep(c)

Spec == Init /\ [][Next]_vars

\* Every thread runs, and sending a frame comes to an end.
FairSpec ==
    /\ Spec
    /\ WF_vars(Publisher)
    /\ \A c \in Clients : WF_vars(ClientStep(c))

-----------------------------------------------------------------------------
(***************************************************************************)
(* Properties.                                                             *)
(***************************************************************************)

\* The assertions of shadow_mcevent.c: nobody owes a share of an old frame
\* when a frame is published, no share is consumed twice, and the event is
\* reset by the time the server continues.
AssertionsHold ==
    /\ pub = "publish" => consuming = 0
    /\ consuming >= 0
    /\ pub = "resume" => ~event

\* While a client sends the surface the capture thread is held: the surface
\* does not change under it (the comment in shadow_client_thread asks for
\* this until the event is reset).
SurfaceStable ==
    \A c \in Clients : pc[c] = "sending" => pub = "waitDone" /\ event

\* The server continues only when every subscriber it asked has sent the
\* frame, or has given its share up by releasing its subscriber; and by then
\* no client is still inside the rendezvous.
FrameComplete ==
    pub = "resume" =>
        /\ asked \subseteq sent
        /\ \A c \in Clients : pc[c] \notin {"barrier", "woken"}

\* No client sends the same frame twice, although the event stays signalled
\* until the last client has consumed it.
SentOnce ==
    [][\A c \in Clients :
         pc[c] # "sending" /\ pc'[c] = "sending" => c \notin sent]_vars

\* A published frame comes to an end: the capture thread is never stuck in
\* the rendezvous, whoever joins or leaves meanwhile.
CaptureContinues == (pub = "waitDone") ~> (pub = "capture")

\* No client is stuck at the barrier.
BarrierOpens ==
    \A c \in Clients : (pc[c] = "barrier") ~> (pc[c] = "loop")

\* Nobody waits for the others for ever: neither the capture thread in
\* _WaitForSubscribers nor a client at the barrier of _Consume.
NobodyStuck == CaptureContinues /\ BarrierOpens

-----------------------------------------------------------------------------
(***************************************************************************)
(* The inductive invariant behind the safety properties.                   *)
(***************************************************************************)

\* The clients that are registered and outside of the rendezvous.
Active == {c \in Clients : pc[c] \in {"loop", "sending", "closing"}}

AtBarrier == {c \in Clients : pc[c] \in {"barrier", "woken"}}

\* The counters count threads: while the event is signalled every active
\* client owes exactly one share, and every thread at the barrier is one of
\* waiting.  The three events are functions of the counters, and the capture
\* thread is outside of its wait only when both are zero.
CountersInv ==
    /\ subscribers = Active \cup AtBarrier
    /\ waiting = Cardinality(AtBarrier)
    /\ consuming = IF event THEN Cardinality(Active) ELSE 0
    /\ event => Active # {} /\ \A c \in Active : pleaseHandle[c] /\ c \in asked
    /\ barrierEvent <=> ~event /\ AtBarrier # {}
    /\ doneEvent <=> ~event /\ AtBarrier = {}
    /\ pub # "waitDone" => doneEvent
    /\ \A c \in Clients : pc[c] = "sending" => event
    /\ \A c \in Clients : pc[c] = "woken" => barrierEvent

\* Which of the clients asked for the frame have sent it.
SentInv ==
    /\ pub = "publish" => sent = {}
    /\ \A c \in Clients : pc[c] = "sending" => c \in sent
    /\ \A c \in Clients : event /\ pc[c] = "loop" => c \notin sent
    /\ pub \in {"waitDone", "resume"} =>
         \A c \in asked : c \in sent \/ (event /\ c \in Active)

\* The rendezvous is accounted for: every thread that takes part in it is
\* counted once, a client that joins in mid-frame waits without being asked,
\* and whoever was asked for the frame has sent it or still owes it.
RendezvousInv == CountersInv /\ SentInv

\* What every step of every thread keeps: the counters and events have their
\* types, and the rendezvous is accounted for.
Inv == TypeOK /\ RendezvousInv
=============================================================================

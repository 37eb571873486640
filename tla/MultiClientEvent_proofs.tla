---------------------- MODULE MultiClientEvent_proofs ----------------------
(***************************************************************************)
(* Proofs about the frame rendezvous of the shadow server, for every       *)
(* finite set of clients.                                                  *)
(***************************************************************************)
EXTENDS MultiClientEvent, FiniteSetTheorems, TLAPS

\* Sets of clients are finite, so that their cardinalities are numbers.
LEMMA SetsFinite ==
    /\ IsFiniteSet(Active) /\ IsFiniteSet(AtBarrier)
    /\ Cardinality(Active) \in Nat /\ Cardinality(AtBarrier) \in Nat
    /\ Cardinality(Active) = 0 <=> Active = {}
    /\ Cardinality(AtBarrier) = 0 <=> AtBarrier = {}
<1>1. IsFiniteSet(Active) /\ IsFiniteSet(AtBarrier)
  BY FS_Subset, ClientsAssumption DEF Active, AtBarrier
<1> QED
  BY <1>1, FS_CardinalityType, FS_EmptySet

\* How one client's move changes a cardinality.
LEMMA SetAdd ==
    ASSUME NEW S, IsFiniteSet(S), NEW c, c \notin S
    PROVE  Cardinality(S \cup {c}) = Cardinality(S) + 1
BY FS_AddElement

LEMMA SetRemove ==
    ASSUME NEW S, IsFiniteSet(S), NEW c, c \in S
    PROVE  Cardinality(S \ {c}) = Cardinality(S) - 1
BY FS_RemoveElement

\* Nobody is on the way between the active clients and the barrier when the
\* counters and the sets stay as they are.
LEMMA FrameStep ==
    ASSUME CountersInv,
           UNCHANGED <<event, barrierEvent, doneEvent, consuming, waiting,
                       subscribers, pleaseHandle>>,
           Active' = Active, AtBarrier' = AtBarrier,
           asked' = asked \/ ~event,
           pub' # "waitDone" => doneEvent,
           \A c \in Clients : pc'[c] = "sending" => event,
           \A c \in Clients : pc'[c] = "woken" => barrierEvent
    PROVE  CountersInv'
BY DEF CountersInv

\* Capture, the wait for doneEvent and the return from it.
LEMMA PublisherStep ==
    ASSUME TypeOK, RendezvousInv, Capture \/ DoneWait \/ DoneReturn
    PROVE  TypeOK' /\ RendezvousInv'
<1>1. TypeOK'
  BY DEF TypeOK, Capture, DoneWait, DoneReturn, PubPCs, events
<1>2. Active' = Active /\ AtBarrier' = AtBarrier
  BY DEF Active, AtBarrier, Capture, DoneWait, DoneReturn
<1>3. pub # "waitDone" => ~event
  BY DEF RendezvousInv, CountersInv
<1>4. CountersInv'
  BY <1>2, <1>3, FrameStep DEF RendezvousInv, CountersInv, Capture, DoneWait,
     DoneReturn, events
<1>5. SentInv'
  BY <1>2, <1>3 DEF RendezvousInv, CountersInv, SentInv, Capture, DoneWait,
     DoneReturn, events, TypeOK
<1> QED
  BY <1>1, <1>4, <1>5 DEF RendezvousInv

\* The publication: the counters are zero before it.
LEMMA PublishStep ==
    ASSUME TypeOK, RendezvousInv, PublishAndWait
    PROVE  TypeOK' /\ RendezvousInv'
<1>1. /\ ~event /\ AtBarrier = {} /\ subscribers = Active
      /\ consuming = 0 /\ waiting = 0 /\ ~barrierEvent /\ doneEvent
      /\ sent = {}
  BY SetsFinite DEF RendezvousInv, CountersInv, SentInv, PublishAndWait
<1>2. Active' = Active /\ AtBarrier' = {}
  BY <1>1 DEF Active, AtBarrier, PublishAndWait
<1>3. /\ consuming' = Cardinality(Active)
      /\ consuming' > 0 <=> Active # {}
      /\ consuming' \in Nat
  BY <1>1, SetsFinite DEF PublishAndWait, PublishShares
<1>4. /\ event' <=> Active # {}
      /\ doneEvent' <=> Active = {}
      /\ pub' = IF Active # {} THEN "waitDone" ELSE "capture"
      /\ asked' = Active
      /\ \A c \in Clients : c \in Active => pleaseHandle'[c]
      /\ UNCHANGED <<barrierEvent, waiting, subscribers, pc, sent>>
  BY <1>1, <1>3 DEF PublishAndWait, PublishShares
<1>5. TypeOK'
  BY <1>1, <1>3, <1>4 DEF TypeOK, PublishAndWait, PublishShares, PubPCs, Active
<1>6. CountersInv'
  <2>1. \A c \in Clients : pc[c] # "sending" /\ pc[c] # "woken"
    BY <1>1 DEF RendezvousInv, CountersInv
  <2>2. Active \subseteq Clients
    BY DEF Active
  <2> QED
    BY <1>1, <1>2, <1>3, <1>4, <2>1, <2>2, SetsFinite, FS_EmptySet
       DEF CountersInv
<1>7. SentInv'
  BY <1>1, <1>2, <1>4 DEF RendezvousInv, SentInv, CountersInv
<1> QED
  BY <1>5, <1>6, <1>7 DEF RendezvousInv

\* A client begins to send, reaches the end of its wait, or leaves its loop.
LEMMA MoveStep ==
    ASSUME TypeOK, RendezvousInv, NEW c \in Clients,
           SeeUpdate(c) \/ BarrierWait(c) \/ LeaveLoop(c)
    PROVE  TypeOK' /\ RendezvousInv'
<1>1. TypeOK'
  BY DEF TypeOK, SeeUpdate, BarrierWait, LeaveLoop, Goto, ClientPCs, events
<1>2. Active' = Active /\ AtBarrier' = AtBarrier
  BY DEF Active, AtBarrier, SeeUpdate, BarrierWait, LeaveLoop, Goto, TypeOK
<1>3. CountersInv'
  BY <1>2, FrameStep DEF RendezvousInv, CountersInv, SeeUpdate, BarrierWait,
     LeaveLoop, events, Goto, TypeOK
<1>4. SentInv'
  <2>1. CASE SeeUpdate(c)
    <3>1. pub = "waitDone"
      BY <2>1 DEF RendezvousInv, CountersInv, SeeUpdate
    <3> QED
      BY <1>2, <2>1, <3>1 DEF RendezvousInv, SentInv, SeeUpdate, events, Goto,
         TypeOK
  <2>2. CASE BarrierWait(c) \/ LeaveLoop(c)
    BY <1>2, <2>2 DEF RendezvousInv, SentInv, BarrierWait, LeaveLoop, events,
       Goto, TypeOK
  <2> QED
    BY <2>1, <2>2
<1> QED
  BY <1>1, <1>3, <1>4 DEF RendezvousInv

\* The last client through the barrier closes it and signals the server.
LEMMA ReturnStep ==
    ASSUME TypeOK, RendezvousInv, NEW c \in Clients, BarrierReturn(c)
    PROVE  TypeOK' /\ RendezvousInv'
<1>1. /\ c \in AtBarrier /\ barrierEvent /\ ~event /\ pub = "waitDone"
      /\ ~doneEvent /\ consuming = 0
  BY DEF RendezvousInv, CountersInv, BarrierReturn, AtBarrier
<1>2. Active' = Active \cup {c} /\ AtBarrier' = AtBarrier \ {c}
  BY DEF Active, AtBarrier, BarrierReturn, Goto, TypeOK
<1>3. /\ waiting' = Cardinality(AtBarrier')
      /\ waiting' = 0 <=> AtBarrier' = {}
      /\ waiting' \in Nat
  <2>1. Cardinality(AtBarrier') = Cardinality(AtBarrier) - 1
    BY <1>1, <1>2, SetsFinite, SetRemove
  <2>2. IsFiniteSet(AtBarrier')
    BY <1>2, SetsFinite, FS_RemoveElement
  <2> QED
    BY <2>1, <2>2, FS_CardinalityType, FS_EmptySet
       DEF RendezvousInv, CountersInv, BarrierReturn
<1>4. /\ barrierEvent' <=> AtBarrier' # {}
      /\ doneEvent' <=> AtBarrier' = {}
      /\ UNCHANGED <<event, consuming, subscribers, pleaseHandle, pub, asked,
                     sent>>
  BY <1>1, <1>3 DEF BarrierReturn
<1>5. TypeOK'
  BY <1>3, <1>4 DEF TypeOK, BarrierReturn, Goto, ClientPCs
<1>6. CountersInv'
  <2>1. \A u \in Clients : /\ pc'[u] = "sending" => pc[u] = "sending"
                           /\ pc'[u] = "woken" => u \in AtBarrier'
    BY DEF BarrierReturn, Goto, TypeOK, AtBarrier
  <2>2. subscribers' = Active' \cup AtBarrier'
    BY <1>1, <1>2, <1>4 DEF RendezvousInv, CountersInv
  <2> QED
    BY <1>1, <1>3, <1>4, <2>1, <2>2 DEF RendezvousInv, CountersInv
<1>7. SentInv'
  BY <1>1, <1>2, <1>4 DEF RendezvousInv, SentInv, BarrierReturn, Goto, TypeOK
<1> QED
  BY <1>5, <1>6, <1>7 DEF RendezvousInv

\* A new subscriber joins: at once when no frame is in progress, behind the
\* barrier when one is.
LEMMA JoinStep ==
    ASSUME TypeOK, RendezvousInv, NEW c \in Clients, GetSubscriber(c)
    PROVE  TypeOK' /\ RendezvousInv'
<1>1. /\ c \notin Active /\ c \notin AtBarrier
      /\ consuming' = consuming
      /\ subscribers' = subscribers \cup {c}
      /\ pleaseHandle' = [pleaseHandle EXCEPT ![c] = FALSE]
      /\ UNCHANGED <<pub, asked, sent>>
  BY DEF GetSubscriber, ConsumeShare, Active, AtBarrier
<1>2. consuming = 0 <=> ~event
  BY SetsFinite DEF RendezvousInv, CountersInv
<1>3. CASE event
  <2>1. waiting' = waiting + 1 /\ Goto(c, "barrier") /\ UNCHANGED events
    BY <1>1, <1>2, <1>3 DEF GetSubscriber, ConsumeShare
  <2>2. Active' = Active /\ AtBarrier' = AtBarrier \cup {c}
    BY <1>1, <2>1 DEF Active, AtBarrier, Goto, TypeOK
  <2>3. waiting' = Cardinality(AtBarrier') /\ waiting' \in Nat
    BY <1>1, <2>1, <2>2, SetsFinite, SetAdd DEF RendezvousInv, CountersInv
  <2>4. TypeOK'
    BY <1>1, <2>1, <2>3 DEF TypeOK, Goto, ClientPCs, events
  <2>5. CountersInv'
    <3>1. \A u \in Clients : /\ pc'[u] = "sending" => pc[u] = "sending"
                             /\ pc'[u] = "woken" => pc[u] = "woken"
      BY <2>1 DEF Goto, TypeOK
    <3>2. \A u \in Active : pleaseHandle'[u] = pleaseHandle[u]
      BY <1>1 DEF Active, TypeOK
    <3> QED
      BY <1>1, <1>3, <2>1, <2>2, <2>3, <3>1, <3>2
         DEF RendezvousInv, CountersInv, events
  <2>6. SentInv'
    BY <1>1, <2>1, <2>2 DEF RendezvousInv, SentInv, Goto, TypeOK, events
  <2> QED
    BY <2>4, <2>5, <2>6 DEF RendezvousInv
<1>4. CASE ~event
  <2>1. /\ Goto(c, "loop") /\ waiting' = waiting /\ ~event'
        /\ barrierEvent' <=> AtBarrier # {}
        /\ doneEvent' <=> AtBarrier = {}
        /\ barrierEvent' \in BOOLEAN /\ doneEvent' \in BOOLEAN
        /\ event' = FALSE
    <3>1. waiting > 0 <=> AtBarrier # {}
      BY SetsFinite DEF RendezvousInv, CountersInv
    <3>2. /\ Goto(c, "loop") /\ waiting' = waiting /\ event' = FALSE
          /\ IF waiting > 0
               THEN barrierEvent' = TRUE /\ doneEvent' = doneEvent
               ELSE doneEvent' = TRUE /\ barrierEvent' = barrierEvent
      BY <1>1, <1>2, <1>4 DEF GetSubscriber, ConsumeShare
    <3>3. /\ barrierEvent <=> AtBarrier # {}
          /\ doneEvent <=> AtBarrier = {}
      BY <1>4 DEF RendezvousInv, CountersInv
    <3>4. CASE waiting > 0
      BY <3>1, <3>2, <3>3, <3>4 DEF TypeOK
    <3>5. CASE ~(waiting > 0)
      BY <3>1, <3>2, <3>3, <3>5 DEF TypeOK
    <3> QED
      BY <3>4, <3>5
  <2>2. Active' = Active \cup {c} /\ AtBarrier' = AtBarrier
    BY <1>1, <2>1 DEF Active, AtBarrier, Goto, TypeOK
  <2>3. TypeOK'
    BY <1>1, <2>1 DEF TypeOK, Goto, ClientPCs
  <2>4. CountersInv'
    <3>1. \A u \in Clients : /\ pc'[u] = "sending" => pc[u] = "sending"
                             /\ pc'[u] = "woken" => pc[u] = "woken"
      BY <2>1 DEF Goto, TypeOK
    <3> QED
      BY <1>1, <1>4, <2>1, <2>2, <3>1 DEF RendezvousInv, CountersInv
  <2>5. SentInv'
    BY <1>1, <1>4, <2>1, <2>2 DEF RendezvousInv, SentInv, Goto, TypeOK
  <2> QED
    BY <2>3, <2>4, <2>5 DEF RendezvousInv
<1> QED
  BY <1>3, <1>4

\* A share is consumed: in Consume by a client that goes on or waits, in
\* ReleaseSubscriber by one that goes away.  The last share resets the event
\* and opens the barrier, or signals the server if nobody waits there.
LEMMA ShareStep ==
    ASSUME TypeOK, RendezvousInv, NEW c \in Active, event,
           NEW wait \in BOOLEAN, NEW to \in {"loop", "gone"},
           ConsumeShare(c, pleaseHandle[c], wait, to)
    PROVE  /\ consuming' = Cardinality(Active) - 1
           /\ consuming' \in Nat
           /\ \/ /\ Active = {c} /\ consuming' = 0
                 /\ event' = FALSE /\ waiting' = waiting /\ Goto(c, to)
                 /\ barrierEvent' = (AtBarrier # {})
                 /\ doneEvent' = (AtBarrier = {})
              \/ /\ Active # {c}
                 /\ event' = TRUE /\ barrierEvent' = FALSE /\ doneEvent' = FALSE
                 /\ waiting' = IF wait THEN waiting + 1 ELSE waiting
                 /\ Goto(c, IF wait THEN "barrier" ELSE to)
<1>1. pleaseHandle[c] /\ consuming = Cardinality(Active)
  BY DEF RendezvousInv, CountersInv
<1>2. consuming' = consuming - 1
  BY <1>1 DEF ConsumeShare
<1>3. /\ IsFiniteSet(Active \ {c})
      /\ Cardinality(Active \ {c}) = Cardinality(Active) - 1
  BY SetsFinite, FS_RemoveElement
<1>4. /\ consuming' \in Nat
      /\ consuming' = 0 <=> Active = {c}
  <2>1. /\ Cardinality(Active \ {c}) \in Nat
        /\ Cardinality(Active \ {c}) = 0 <=> Active \ {c} = {}
    BY <1>3, FS_CardinalityType, FS_EmptySet
  <2> QED
    BY <1>1, <1>2, <1>3, <2>1
<1>5. ~barrierEvent /\ ~doneEvent /\ (waiting > 0 <=> AtBarrier # {})
  BY SetsFinite DEF RendezvousInv, CountersInv
<1>6. CASE Active = {c}
  <2>1. /\ event' = FALSE /\ waiting' = waiting /\ Goto(c, to)
        /\ IF waiting > 0
             THEN barrierEvent' = TRUE /\ doneEvent' = doneEvent
             ELSE doneEvent' = TRUE /\ barrierEvent' = barrierEvent
    BY <1>4, <1>6 DEF ConsumeShare
  <2>2. CASE waiting > 0
    <3>1. barrierEvent' = TRUE /\ doneEvent' = FALSE /\ AtBarrier # {}
      BY <1>5, <2>1, <2>2 DEF TypeOK
    <3> QED
      BY <1>1, <1>2, <1>4, <1>6, <2>1, <3>1
  <2>3. CASE ~(waiting > 0)
    <3>1. barrierEvent' = FALSE /\ doneEvent' = TRUE /\ AtBarrier = {}
      BY <1>5, <2>1, <2>3 DEF TypeOK
    <3> QED
      BY <1>1, <1>2, <1>4, <1>6, <2>1, <3>1
  <2> QED
    BY <2>2, <2>3
<1>7. CASE Active # {c}
  <2>1. /\ waiting' = IF wait THEN waiting + 1 ELSE waiting
        /\ Goto(c, IF wait THEN "barrier" ELSE to)
        /\ UNCHANGED events
    BY <1>4, <1>7 DEF ConsumeShare
  <2>2. event' = TRUE /\ barrierEvent' = FALSE /\ doneEvent' = FALSE
    BY <1>5, <2>1 DEF events, TypeOK
  <2> QED
    BY <1>1, <1>2, <1>4, <1>7, <2>1, <2>2
<1> QED
  BY <1>6, <1>7

\* shadow_multiclient_consume
LEMMA ConsumeStep ==
    ASSUME TypeOK, RendezvousInv, NEW c \in Clients, Consume(c)
    PROVE  TypeOK' /\ RendezvousInv'
<1>1. /\ c \in Active /\ c \notin AtBarrier /\ event /\ c \in sent
      /\ pub = "waitDone"
  BY DEF RendezvousInv, CountersInv, SentInv, Consume, Active, AtBarrier
<1>2. /\ ConsumeShare(c, pleaseHandle[c], TRUE, "loop")
      /\ UNCHANGED <<subscribers, pleaseHandle, pub, asked, sent>>
  BY DEF Consume
<1>3. CASE Active = {c}
  <2>1. /\ consuming' = 0 /\ event' = FALSE /\ waiting' = waiting
        /\ Goto(c, "loop")
        /\ barrierEvent' = (AtBarrier # {}) /\ doneEvent' = (AtBarrier = {})
    BY <1>1, <1>2, <1>3, ShareStep
  <2>2. Active' = Active /\ AtBarrier' = AtBarrier
    BY <1>1, <2>1 DEF Active, AtBarrier, Goto, TypeOK
  <2>3. TypeOK'
    <3>1. barrierEvent' \in BOOLEAN /\ doneEvent' \in BOOLEAN
      BY <2>1
    <3>2. consuming' = 0 /\ event' = FALSE /\ waiting' = waiting
      BY <2>1
    <3>3. pc' \in [Clients -> ClientPCs]
      BY <2>1 DEF TypeOK, Goto, ClientPCs
    <3> QED
      BY <1>2, <3>1, <3>2, <3>3 DEF TypeOK
  <2>4. \A u \in Clients : /\ pc'[u] # "sending"
                           /\ pc'[u] = "woken" => u \in AtBarrier
    BY <1>3, <2>1 DEF Active, AtBarrier, Goto, TypeOK
  <2>5. CountersInv'
    BY <1>1, <1>2, <2>1, <2>2, <2>4 DEF RendezvousInv, CountersInv
  <2>6. SentInv'
    BY <1>1, <1>2, <1>3, <2>1, <2>2, <2>4 DEF RendezvousInv, SentInv
  <2> QED
    BY <2>3, <2>5, <2>6 DEF RendezvousInv
<1>4. CASE Active # {c}
  <2>1. /\ consuming' = Cardinality(Active) - 1 /\ consuming' \in Nat
        /\ event' = TRUE /\ barrierEvent' = FALSE /\ doneEvent' = FALSE
        /\ waiting' = waiting + 1
        /\ Goto(c, "barrier")
    BY <1>1, <1>2, <1>4, ShareStep
  <2>2. Active' = Active \ {c} /\ AtBarrier' = AtBarrier \cup {c}
    BY <1>1, <2>1 DEF Active, AtBarrier, Goto, TypeOK
  <2>3. /\ consuming' = Cardinality(Active')
        /\ waiting' = Cardinality(AtBarrier')
        /\ Active' # {} /\ AtBarrier' # {}
    BY <1>1, <1>4, <2>1, <2>2, SetsFinite, SetAdd, SetRemove
       DEF RendezvousInv, CountersInv
  <2>4. TypeOK'
    <3>1. /\ event' \in BOOLEAN /\ barrierEvent' \in BOOLEAN
          /\ doneEvent' \in BOOLEAN
      BY <2>1
    <3>2. consuming' \in Nat /\ waiting' \in Nat
      BY <2>1 DEF TypeOK
    <3>3. pc' \in [Clients -> ClientPCs]
      BY <2>1 DEF TypeOK, Goto, ClientPCs
    <3> QED
      BY <1>2, <3>1, <3>2, <3>3 DEF TypeOK
  <2>5. \A u \in Clients : /\ pc'[u] = "loop" => pc[u] = "loop"
                           /\ pc'[u] = "sending" => pc[u] = "sending"
                           /\ pc'[u] # "woken"
    BY <1>1, <2>1 DEF RendezvousInv, CountersInv, Goto, TypeOK
  <2>6. CountersInv'
    BY <1>1, <1>2, <2>1, <2>2, <2>3, <2>5 DEF RendezvousInv, CountersInv
  <2>7. SentInv'
    BY <1>1, <1>2, <2>1, <2>2, <2>5 DEF RendezvousInv, SentInv
  <2> QED
    BY <2>4, <2>6, <2>7 DEF RendezvousInv
<1> QED
  BY <1>3, <1>4

\* shadow_multiclient_release_subscriber, during a frame and between frames.
LEMMA ReleaseStep ==
    ASSUME TypeOK, RendezvousInv, NEW c \in Clients, ReleaseSubscriber(c)
    PROVE  TypeOK' /\ RendezvousInv'
<1>1. c \in Active /\ c \notin AtBarrier
  BY DEF ReleaseSubscriber, Active, AtBarrier
<1>2. /\ ConsumeShare(c, pleaseHandle[c], FALSE, "gone")
      /\ subscribers' = subscribers \ {c} /\ asked' = asked \ {c}
      /\ UNCHANGED <<pleaseHandle, pub, sent>>
  BY DEF ReleaseSubscriber
<1>3. /\ consuming' \in Nat /\ waiting' = waiting /\ Goto(c, "gone")
      /\ \/ /\ event /\ Active # {c} /\ consuming' = Cardinality(Active) - 1
            /\ event' = TRUE /\ barrierEvent' = FALSE /\ doneEvent' = FALSE
         \/ /\ ~event \/ Active = {c}
            /\ consuming' = 0 /\ event' = FALSE
            /\ barrierEvent' = (AtBarrier # {}) /\ doneEvent' = (AtBarrier = {})
  <2>1. CASE event
    BY <1>1, <1>2, <2>1, ShareStep
  <2>2. CASE ~event
    <3>1. consuming = 0 /\ (waiting > 0 <=> AtBarrier # {})
      BY <2>2, SetsFinite DEF RendezvousInv, CountersInv
    <3>2. /\ consuming' = 0
          /\ event' = FALSE /\ waiting' = waiting /\ Goto(c, "gone")
          /\ IF waiting > 0
               THEN barrierEvent' = TRUE /\ doneEvent' = doneEvent
               ELSE doneEvent' = TRUE /\ barrierEvent' = barrierEvent
      BY <1>2, <2>2, <3>1 DEF ConsumeShare
    <3>3. barrierEvent' = (AtBarrier # {}) /\ doneEvent' = (AtBarrier = {})
      <4>1. barrierEvent <=> AtBarrier # {}
        BY <2>2 DEF RendezvousInv, CountersInv
      <4>2. doneEvent <=> AtBarrier = {}
        BY <2>2 DEF RendezvousInv, CountersInv
      <4>3. CASE waiting > 0
        <5>1. barrierEvent' = TRUE /\ doneEvent' = FALSE /\ AtBarrier # {}
          BY <3>1, <3>2, <4>2, <4>3 DEF TypeOK
        <5> QED
          BY <5>1
      <4>4. CASE ~(waiting > 0)
        <5>1. barrierEvent' = FALSE /\ doneEvent' = TRUE /\ AtBarrier = {}
          BY <3>1, <3>2, <4>1, <4>4 DEF TypeOK
        <5> QED
          BY <5>1
      <4> QED
        BY <4>3, <4>4
    <3> QED
      BY <2>2, <3>2, <3>3
  <2> QED
    BY <2>1, <2>2
<1>4. Active' = Active \ {c} /\ AtBarrier' = AtBarrier
  BY <1>1, <1>3 DEF Active, AtBarrier, Goto, TypeOK
<1>5. TypeOK'
  <2>1. /\ barrierEvent' \in BOOLEAN /\ doneEvent' \in BOOLEAN
        /\ event' \in BOOLEAN
    BY <1>3
  <2>2. consuming' \in Nat /\ waiting' = waiting
    BY <1>3
  <2>3. pc' \in [Clients -> ClientPCs]
    BY <1>3 DEF TypeOK, Goto, ClientPCs
  <2> QED
    BY <1>2, <2>1, <2>2, <2>3 DEF TypeOK
<1>6. \A u \in Clients : /\ pc'[u] = "sending" => pc[u] = "sending" /\ u # c
                         /\ pc'[u] = "woken" => pc[u] = "woken"
                         /\ pc'[u] = "loop" => pc[u] = "loop"
  BY <1>3 DEF Goto, TypeOK
<1>7. subscribers' = Active' \cup AtBarrier'
  BY <1>1, <1>2, <1>4 DEF RendezvousInv, CountersInv
<1>8. CASE event /\ Active # {c}
  <2>1. /\ consuming' = Cardinality(Active) - 1
        /\ event' = TRUE /\ barrierEvent' = FALSE /\ doneEvent' = FALSE
    BY <1>3, <1>8
  <2>2. consuming' = Cardinality(Active') /\ Active' # {}
    BY <1>1, <1>4, <1>8, <2>1, SetsFinite, SetRemove
  <2>3. CountersInv'
    BY <1>2, <1>3, <1>4, <1>6, <1>7, <1>8, <2>1, <2>2
       DEF RendezvousInv, CountersInv
  <2>4. SentInv'
    BY <1>2, <1>4, <1>6, <1>8, <2>1 DEF RendezvousInv, SentInv, CountersInv
  <2> QED
    BY <1>5, <2>3, <2>4 DEF RendezvousInv
<1>9. CASE ~(event /\ Active # {c})
  <2>1. /\ consuming' = 0 /\ event' = FALSE
        /\ barrierEvent' = (AtBarrier # {}) /\ doneEvent' = (AtBarrier = {})
    BY <1>3, <1>9
  <2>2. \A u \in Clients : pc'[u] # "sending"
    <3>1. CASE ~event
      BY <1>6, <3>1 DEF RendezvousInv, CountersInv
    <3>2. CASE event
      BY <1>6, <1>9, <3>2 DEF Active
    <3> QED
      BY <3>1, <3>2
  <2>3. \A u \in Clients : pc'[u] = "woken" => AtBarrier # {}
    BY <1>6 DEF AtBarrier
  <2>4. pub # "waitDone" => AtBarrier = {}
    BY DEF RendezvousInv, CountersInv
  <2>5. CountersInv'
    BY <1>2, <1>3, <1>4, <1>7, <2>1, <2>2, <2>3, <2>4
       DEF RendezvousInv, CountersInv
  <2>6. SentInv'
    BY <1>2, <1>4, <1>9, <2>1, <2>2 DEF RendezvousInv, SentInv
  <2> QED
    BY <1>5, <2>5, <2>6 DEF RendezvousInv
<1> QED
  BY <1>8, <1>9

\* The types and the accounting of the rendezvous hold in every reachable
\* state.
THEOREM Rendezvous == Spec => [](TypeOK /\ RendezvousInv)
<1>1. Init => TypeOK /\ RendezvousInv
  <2> SUFFICES ASSUME Init PROVE TypeOK /\ RendezvousInv
    OBVIOUS
  <2>1. Active = {} /\ AtBarrier = {}
    BY DEF Init, Active, AtBarrier
  <2>2. TypeOK
    BY DEF Init, TypeOK, PubPCs, ClientPCs
  <2> QED
    BY <2>1, <2>2, FS_EmptySet DEF Init, RendezvousInv, CountersInv, SentInv
<1>2. TypeOK /\ RendezvousInv /\ [Next]_vars => TypeOK' /\ RendezvousInv'
  <2> SUFFICES ASSUME TypeOK, RendezvousInv, [Next]_vars
               PROVE  TypeOK' /\ RendezvousInv'
    OBVIOUS
  <2>1. CASE UNCHANGED vars
    <3>1. Active' = Active /\ AtBarrier' = AtBarrier
      BY <2>1 DEF vars, Active, AtBarrier
    <3>2. TypeOK'
      BY <2>1 DEF vars, TypeOK
    <3>3. CountersInv' /\ SentInv'
      BY <2>1, <3>1 DEF vars, RendezvousInv, CountersInv, SentInv
    <3> QED
      BY <3>2, <3>3 DEF RendezvousInv
  <2>2. CASE Publisher
    BY <2>2, PublisherStep, PublishStep DEF Publisher
  <2>3. ASSUME NEW c \in Clients,
               GetSubscriber(c) \/ LeaveLoop(c) \/ ClientStep(c)
        PROVE  TypeOK' /\ RendezvousInv'
    BY <2>3, MoveStep, ReturnStep, JoinStep, ConsumeStep, ReleaseStep
       DEF ClientStep
  <2> QED
    BY <2>1, <2>2, <2>3 DEF Next
<1> QED
  BY <1>1, <1>2, PTL DEF Spec

\* The counters, events and places of shadow_mcevent.c keep their types.
THEOREM TypeCorrect == Spec => []TypeOK
  BY Rendezvous, PTL

\* No assertion of shadow_mcevent.c can fail.
THEOREM AssertionsNeverFail == Spec => []AssertionsHold
<1>1. TypeOK /\ RendezvousInv => AssertionsHold
  BY DEF TypeOK, RendezvousInv, CountersInv, AssertionsHold
<1> QED
  BY <1>1, Rendezvous, PTL

\* The surface does not change while a client reads it.
THEOREM SurfaceIsStable == Spec => []SurfaceStable
<1>1. RendezvousInv => SurfaceStable
  BY DEF RendezvousInv, CountersInv, SurfaceStable
<1> QED
  BY <1>1, Rendezvous, PTL

\* The server continues only with the frame sent by everyone it asked.
THEOREM FramesComplete == Spec => []FrameComplete
<1>1. TypeOK /\ RendezvousInv => FrameComplete
  BY DEF TypeOK, RendezvousInv, CountersInv, SentInv, FrameComplete, AtBarrier
<1> QED
  BY <1>1, Rendezvous, PTL

\* No client sends a frame twice.
THEOREM FramesSentOnce == Spec => SentOnce
<1>1. TypeOK /\ RendezvousInv /\ [Next]_vars =>
        [\A c \in Clients :
           pc[c] # "sending" /\ pc'[c] = "sending" => c \notin sent]_vars
  <2> SUFFICES ASSUME TypeOK, RendezvousInv, Next, NEW c \in Clients,
                      pc[c] # "sending", pc'[c] = "sending"
               PROVE  c \notin sent
    BY DEF vars
  <2>1. event /\ pc[c] = "loop"
    BY DEF Next, Publisher, Capture, PublishAndWait, PublishShares, DoneWait,
       DoneReturn, GetSubscriber, LeaveLoop, ClientStep, SeeUpdate, Consume,
       BarrierWait, BarrierReturn, ReleaseSubscriber, ConsumeShare, Goto,
       TypeOK
  <2> QED
    BY <2>1 DEF RendezvousInv, SentInv
<1> QED
  BY <1>1, Rendezvous, PTL DEF Spec, SentOnce

\* For every finite set of clients, each step of the capture thread and of a
\* client thread keeps the accounting of shadow_mcevent.c.
THEOREM Invariance == Spec => []Inv
  BY Rendezvous, PTL DEF Inv
=============================================================================

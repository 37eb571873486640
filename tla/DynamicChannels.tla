-------------------------- MODULE DynamicChannels --------------------------
(***************************************************************************)
(* Dynamic virtual channels: the server API (libfreerdp/core/server.c),    *)
(* the client's drdynvc plugin (channels/drdynvc/client/drdynvc_main.c)    *)
(* and the static channel they share (libfreerdp/core/client.c).           *)
(*                                                                         *)
(* On the server the peer thread reads PDUs and one application thread per *)
(* channel opens, writes and closes it.  On the client the main thread     *)
(* hands every PDU to the queue of the drdynvc thread, which runs all      *)
(* handlers; plugin threads write.  A message longer than a chunk is sent  *)
(* as DATA_FIRST and DATA PDUs and put together again at the other end.    *)
(*                                                                         *)
(* A message is a sequence of units <<number, index>>, so that a unit lost,*)
(* doubled or put into another message shows.  The queues in a row in each *)
(* direction (vcm->queue, the socket and drdynvc->queue; channels->queue   *)
(* and the socket), each emptied in order by one thread, are one FIFO; a   *)
(* disconnect loses what the last thread has not got yet.  One connection  *)
(* is modelled, from the join of the static channel to the end of          *)
(* freerdp_channels_disconnect.                                            *)
(***************************************************************************)
EXTENDS Integers, Sequences, FiniteSets, SequencesExt

CONSTANTS
    MaxChannels,     \* how many channels the server opens
    Chunk,           \* units in a PDU; the length of a message takes one
    Lengths,         \* lengths of messages
    MaxMessages,     \* messages both sides write, over all channels
    Writers          \* plugin threads of the client

ASSUME DynamicChannelsAssumption ==
    /\ MaxChannels \in Nat \ {0}
    /\ Chunk \in Nat /\ Chunk > 1
    /\ Lengths \subseteq Nat \ {0}
    /\ MaxMessages \in Nat

VARIABLES
    drdynvc_state,   \* server: "NONE", "INITIALIZED", "READY"
    dvc_open_state,  \* server: state of each channel, see OpenStates
    dvc_channel_id_seq, \* server: the last identifier given
    sending,         \* server: what each channel's thread has still to write
    total_length,    \* server: dvc_total_length of each channel
    receiveData,     \* server: the message being put together
    inbox,           \* server: messages queued for each channel's reader
    peer,            \* server: "up", "eof" or "dropped"
    queue,           \* PDUs on their way to the drdynvc thread
    toServer,        \* PDUs on their way to the server's peer thread
    state,           \* client: "CAPABILITIES", "READY"
    thread,          \* client: where the drdynvc thread is
    main,            \* client: where the main thread is
    open,            \* client: the channels of dvcman->channels
    dvc_data,        \* client: the message being put together per channel
    got,             \* client: messages passed to OnDataReceived
    writing,         \* client: what each plugin thread has still to write
    swritten,        \* history: messages written to each server channel
    cwritten,        \* history: messages written to each client channel
    closes           \* history: calls of OnClose for each client channel

server == <<drdynvc_state, dvc_open_state, dvc_channel_id_seq, sending,
            total_length, receiveData, inbox, peer, swritten>>
client == <<state, thread, main, open, dvc_data, got, writing,
            cwritten, closes>>
vars == <<server, queue, toServer, client>>

Channels == 1..MaxChannels

\* "UNUSED": not opened yet; "FREED": closed by its thread after SUCCEEDED,
\* FAILED or CLOSED; "ABANDONED": closed before the client has answered.
OpenStates ==
    {"UNUSED", "NONE", "SUCCEEDED", "FAILED", "CLOSED", "FREED", "ABANDONED"}

\* The channels in vcm->dynamicVirtualChannels.
Listed ==
    {ch \in Channels : dvc_open_state[ch] \in
                         {"NONE", "SUCCEEDED", "FAILED", "CLOSED"}}

Message(n, len) == [i \in 1..len |-> <<n, i>>]
Units == Nat \X Nat

\* A write in progress: on which channel, the rest of the message, and
\* whether its first PDU has still to be sent.
Idle == [ch |-> 0, rest |-> <<>>, first |-> FALSE]
Writes == [ch : 0..MaxChannels, rest : Seq(Units), first : BOOLEAN]

\* dvc_data is NULL
NoData == [length |-> 0, data |-> <<>>]

Pdu(cmd, ch) == [cmd |-> cmd, ch |-> ch, total |-> 0, data |-> <<>>]
Quit == Pdu("WMQ_QUIT", 0)
Cmds == {"CAPABILITY", "CREATE", "CREATE_OK", "CREATE_FAILED", "CLOSE",
         "DATA_FIRST", "DATA", "WMQ_QUIT"}
Pdus == [cmd : Cmds, ch : 0..MaxChannels, total : Nat, data : Seq(Units)]

TypeOK ==
    /\ drdynvc_state \in {"NONE", "INITIALIZED", "READY"}
    /\ dvc_open_state \in [Channels -> OpenStates]
    /\ dvc_channel_id_seq \in 0..MaxChannels
    /\ peer \in {"up", "eof", "dropped"}
    /\ state \in {"CAPABILITIES", "READY"}
    /\ thread \in {"loop", "respond", "closing", "ended"}
    /\ main \in {"run", "join", "closed"}
    /\ open \subseteq Channels
    /\ sending \in [Channels -> Writes] /\ writing \in [Writers -> Writes]
    /\ {queue, toServer} \subseteq Seq(Pdus)
    /\ total_length \in [Channels -> {0} \cup Lengths]
    /\ receiveData \in [Channels -> Seq(Units)]
    /\ dvc_data \in [Channels -> [length : {0} \cup Lengths, data : Seq(Units)]]
    /\ \A ch \in Channels : Len(dvc_data[ch].data) <= dvc_data[ch].length
    /\ {inbox, got, swritten, cwritten} \subseteq [Channels -> Seq(Seq(Units))]
    /\ closes \in [Channels -> Nat]

Init ==
    /\ drdynvc_state = "NONE"
    /\ dvc_open_state = [ch \in Channels |-> "UNUSED"]
    /\ dvc_channel_id_seq = 0
    /\ sending = [ch \in Channels |-> Idle]
    /\ total_length = [ch \in Channels |-> 0]
    /\ receiveData = [ch \in Channels |-> <<>>]
    /\ inbox = [ch \in Channels |-> <<>>]
    /\ peer = "up"
    /\ toServer = <<>>
    /\ queue = <<>>
    /\ state = "CAPABILITIES"
    /\ thread = "loop"
    /\ main = "run"
    /\ open = {}
    /\ dvc_data = [ch \in Channels |-> NoData]
    /\ got = [ch \in Channels |-> <<>>]
    /\ writing = [w \in Writers |-> Idle]
    /\ swritten = [ch \in Channels |-> <<>>]
    /\ cwritten = [ch \in Channels |-> <<>>]
    /\ closes = [ch \in Channels |-> 0]

\* How many messages are written, over all channels in both directions.
Written ==
    MapThenSumSet(LAMBDA ch : Len(swritten[ch]) + Len(cwritten[ch]), Channels)

-----------------------------------------------------------------------------
(***************************************************************************)
(* Fragments, cut in the same way by WTSVirtualChannelWrite and            *)
(* drdynvc_write_data.                                                     *)
(***************************************************************************)

\* The message is sent as one PDU if it fits; the length in DATA_FIRST takes
\* room that DATA has for a unit.
Fragmented(w) == w.first /\ Len(w.rest) > Chunk
Room(w) == IF Fragmented(w) THEN Chunk - 1 ELSE Chunk
FragmentLength(w) == IF Len(w.rest) > Room(w) THEN Room(w) ELSE Len(w.rest)

\* The next PDU of the write w.
Fragment(w) ==
    [cmd   |-> IF Fragmented(w) THEN "DATA_FIRST" ELSE "DATA",
     ch    |-> w.ch,
     total |-> IF Fragmented(w) THEN Len(w.rest) ELSE 0,
     data  |-> SubSeq(w.rest, 1, FragmentLength(w))]

\* What is left of the write w when that PDU is sent.
AfterFragment(w) ==
    IF FragmentLength(w) = Len(w.rest)
      THEN Idle
      ELSE [w EXCEPT !.rest = SubSeq(w.rest, FragmentLength(w) + 1,
                                     Len(w.rest)),
                     !.first = FALSE]

-----------------------------------------------------------------------------
(***************************************************************************)
(* The server.  It stops when its peer loop has ended.                     *)
(***************************************************************************)

\* WTSVirtualChannelManagerOpen, "once and only once".
ManagerOpen ==
    /\ peer = "up"
    /\ drdynvc_state = "NONE"
    /\ drdynvc_state' = "INITIALIZED"
    /\ queue' = Append(queue, Pdu("CAPABILITY", 0))
    /\ UNCHANGED <<dvc_open_state, dvc_channel_id_seq, sending, total_length,
                   receiveData, inbox, peer, swritten, toServer, client>>

\* FreeRDP_WTSVirtualChannelOpenEx
ServerOpen ==
    /\ peer = "up"
    /\ drdynvc_state = "READY"
    /\ dvc_channel_id_seq < MaxChannels
    /\ dvc_channel_id_seq' = dvc_channel_id_seq + 1
    /\ dvc_open_state' = [dvc_open_state EXCEPT ![dvc_channel_id_seq'] = "NONE"]
    /\ queue' = Append(queue, Pdu("CREATE", dvc_channel_id_seq'))
    /\ UNCHANGED <<drdynvc_state, sending, total_length, receiveData, inbox,
                   peer, swritten, toServer, client>>

\* One PDU of FreeRDP_WTSVirtualChannelWrite.
ServerSend(ch, w) ==
    /\ queue' = Append(queue, Fragment(w))
    /\ sending' = [sending EXCEPT ![ch] = AfterFragment(w)]
    /\ UNCHANGED <<drdynvc_state, dvc_open_state, dvc_channel_id_seq,
                   total_length, receiveData, inbox, peer, toServer, client>>

\* A call of FreeRDP_WTSVirtualChannelWrite, which does not look at
\* dvc_open_state, and its first PDU ...
ServerWrite(ch) ==
    /\ peer = "up"
    /\ ch \in Listed
    /\ drdynvc_state = "READY"
    /\ sending[ch] = Idle
    /\ Written < MaxMessages
    /\ \E len \in Lengths :
         LET msg == Message(Len(swritten[ch]) + 1, len)
         IN  /\ swritten' = [swritten EXCEPT ![ch] = Append(@, msg)]
             /\ ServerSend(ch, [ch |-> ch, rest |-> msg, first |-> TRUE])

\* ... and each of the others.
ServerWriteNext(ch) ==
    /\ peer = "up"
    /\ sending[ch] # Idle
    /\ ServerSend(ch, sending[ch])
    /\ UNCHANGED swritten

\* FreeRDP_WTSVirtualChannelClose, by the thread that writes.
ServerClose(ch) ==
    /\ peer = "up"
    /\ ch \in Listed
    /\ sending[ch] = Idle
    /\ dvc_open_state' = [dvc_open_state EXCEPT ![ch] =
                            IF @ = "NONE" THEN "ABANDONED" ELSE "FREED"]
    /\ queue' = IF dvc_open_state[ch] = "SUCCEEDED"
                  THEN Append(queue, Pdu("CLOSE", ch)) ELSE queue
    /\ UNCHANGED <<drdynvc_state, dvc_channel_id_seq, sending, total_length,
                   receiveData, inbox, peer, swritten, toServer, client>>

\* wts_queue_receive_data: the queue of a channel the client has closed
\* takes no message (wts_read_drdynvc_close_response has posted WMQ_QUIT),
\* and the peer loop ends on the failure.
QueueReceiveData(ch, msg) ==
    IF dvc_open_state[ch] = "CLOSED"
      THEN /\ peer' = "dropped"
           /\ UNCHANGED inbox
      ELSE /\ inbox' = [inbox EXCEPT ![ch] = Append(@, msg)]
           /\ UNCHANGED peer

\* wts_read_drdynvc_data_first
ReadDataFirst(p) ==
    /\ total_length' = [total_length EXCEPT ![p.ch] = p.total]
    /\ IF Len(p.data) > p.total
         THEN /\ peer' = "dropped"
              /\ UNCHANGED receiveData
         ELSE /\ receiveData' = [receiveData EXCEPT ![p.ch] = p.data]
              /\ UNCHANGED peer
    /\ UNCHANGED <<inbox, dvc_open_state>>

\* Mistake: the length of the last fragmented message is not reset.
ReadDataNoReset(p) ==
    LET data == receiveData[p.ch] \o p.data
    IN  /\ IF total_length[p.ch] = 0
             THEN /\ QueueReceiveData(p.ch, p.data)
                  /\ UNCHANGED receiveData
           ELSE IF Len(data) > total_length[p.ch]
             THEN /\ peer' = "dropped"
                  /\ UNCHANGED <<receiveData, inbox>>
           ELSE /\ receiveData' = [receiveData EXCEPT ![p.ch] = data]
                /\ IF Len(data) = total_length[p.ch]
                     THEN QueueReceiveData(p.ch, data)
                     ELSE UNCHANGED <<inbox, peer>>
        /\ UNCHANGED <<total_length, dvc_open_state>>

\* wts_read_drdynvc_data
ReadData(p) ==
    LET data == receiveData[p.ch] \o p.data
        total == total_length[p.ch]
    IN  /\ IF total = 0
             THEN /\ QueueReceiveData(p.ch, p.data)
                  /\ UNCHANGED <<receiveData, total_length>>
           ELSE IF Len(data) > total
             THEN /\ peer' = "dropped"
                  /\ total_length' = [total_length EXCEPT ![p.ch] = 0]
                  /\ UNCHANGED <<receiveData, inbox>>
           ELSE /\ receiveData' = [receiveData EXCEPT ![p.ch] = data]
                /\ IF Len(data) >= total
                     THEN /\ QueueReceiveData(p.ch, data)
                          /\ total_length' = [total_length EXCEPT ![p.ch] = 0]
                     ELSE UNCHANGED <<inbox, peer, total_length>>
        /\ UNCHANGED dvc_open_state

\* wts_read_drdynvc_create_response and wts_read_drdynvc_close_response
ReadOpenState(ch, s) ==
    /\ dvc_open_state' = [dvc_open_state EXCEPT ![ch] = s]
    /\ UNCHANGED <<total_length, receiveData, inbox, peer>>

\* WTSProcessChannelData and wts_read_drdynvc_pdu: the peer thread handles
\* one PDU; one that is not a capabilities response is ignored before READY,
\* and if its channel is not in the list.
ServerReceive ==
    /\ peer = "up"
    /\ toServer # <<>>
    /\ LET p == Head(toServer)
       IN  IF p.cmd = "CAPABILITY"
             THEN /\ drdynvc_state' = "READY"
                  /\ UNCHANGED <<dvc_open_state, total_length, receiveData,
                                 inbox, peer>>
             ELSE /\ UNCHANGED drdynvc_state
                  /\ IF drdynvc_state # "READY" \/ p.ch \notin Listed
                       THEN UNCHANGED <<dvc_open_state, total_length,
                                        receiveData, inbox, peer>>
                       ELSE CASE p.cmd = "CREATE_OK"  ->
                                   ReadOpenState(p.ch, "SUCCEEDED")
                              [] p.cmd = "CREATE_FAILED" ->
                                   ReadOpenState(p.ch, "FAILED")
                              [] p.cmd = "CLOSE"      ->
                                   ReadOpenState(p.ch, "CLOSED")
                              [] p.cmd = "DATA_FIRST" -> ReadDataFirst(p)
                              [] p.cmd = "DATA"       -> ReadData(p)
    /\ toServer' = IF peer' = "up" THEN Tail(toServer) ELSE <<>>
    /\ UNCHANGED <<dvc_channel_id_seq, sending, swritten, queue, client>>

-----------------------------------------------------------------------------
(***************************************************************************)
(* The client.                                                             *)
(***************************************************************************)

\* drdynvc_send: VirtualChannelWriteEx posts the PDUs, the main thread sends
\* them; none arrives once an end of the connection is closed.
Send(pdus) ==
    toServer' = IF peer = "up" THEN toServer \o pdus ELSE toServer

\* The channel whose answer has still to be sent.
Unanswered == IF thread = "respond" THEN {Head(queue).ch} ELSE {}

\* What is still on its way is lost; the server, when it sees the end of the
\* stream, has handled the rest.
ConnectionLost ==
    /\ peer' = IF peer = "up" THEN "eof" ELSE peer
    /\ toServer' = <<>>
    /\ UNCHANGED <<drdynvc_state, dvc_open_state, dvc_channel_id_seq, sending,
                   total_length, receiveData, inbox, swritten>>

\* Mistake: the drdynvc thread is not told to end.
DisconnectNoQuit ==
    /\ main = "run"
    /\ main' = "join"
    /\ \E n \in Cardinality(Unanswered)..Len(queue) :
         queue' = SubSeq(queue, 1, n)
    /\ ConnectionLost
    /\ UNCHANGED <<state, thread, open, dvc_data, got, writing, cwritten,
                   closes>>

\* rdp_client_disconnect closes the transport; then
\* drdynvc_virtual_channel_event_disconnected posts WMQ_QUIT behind the PDUs
\* that the main thread has read.
Disconnect ==
    /\ main = "run"
    /\ main' = "join"
    /\ \E n \in Cardinality(Unanswered)..Len(queue) :
         queue' = Append(SubSeq(queue, 1, n), Quit)
    /\ ConnectionLost
    /\ UNCHANGED <<state, thread, open, dvc_data, got, writing, cwritten,
                   closes>>

\* It goes on when the thread has ended: dvcman_clear terminates the plugins
\* and frees the channels that are left, the queue is cleared.
MainJoin ==
    /\ main = "join"
    /\ thread = "ended"
    /\ main' = "closed"
    /\ queue' = <<>>
    /\ open' = {}
    /\ closes' = [ch \in Channels |-> IF ch \in open THEN closes[ch] + 1
                                                    ELSE closes[ch]]
    /\ dvc_data' = [ch \in Channels |-> NoData]
    /\ UNCHANGED <<server, toServer, state, thread, got, writing,
                   cwritten>>

\* The drdynvc thread takes a message with one of these commands.
Take(cmds) ==
    /\ thread = "loop"
    /\ queue # <<>>
    /\ Head(queue).cmd \in cmds
    /\ queue' = Tail(queue)

\* dvcman_close_channel of a channel that exists: dvcman_channel_free calls
\* OnClose and releases dvc_data.
RemoveChannel(ch) ==
    /\ open' = open \ {ch}
    /\ closes' = [closes EXCEPT ![ch] = @ + 1]
    /\ dvc_data' = [dvc_data EXCEPT ![ch] = NoData]

\* drdynvc_process_capability_request
ThreadCapability ==
    /\ Take({"CAPABILITY"})
    /\ Send(<<Pdu("CAPABILITY", 0)>>)
    /\ state' = "READY"
    /\ UNCHANGED <<server, thread, main, open, dvc_data, got, writing,
                   cwritten, closes>>

\* drdynvc_process_create_request of a channel a listener accepts: the plugin
\* has the channel, and may write to it, before the answer is sent.  (The
\* request is left at the head of the queue until then.)
ThreadAccept ==
    /\ thread = "loop"
    /\ queue # <<>>
    /\ Head(queue).cmd = "CREATE"
    /\ Head(queue).ch \notin open
    /\ Send(IF state = "CAPABILITIES" THEN <<Pdu("CAPABILITY", 0)>> ELSE <<>>)
    /\ state' = "READY"
    /\ open' = open \cup {Head(queue).ch}
    /\ thread' = "respond"
    /\ UNCHANGED <<server, queue, main, dvc_data, got, writing,
                   cwritten, closes>>

\* Mistake: the answer is lost.
ThreadRespondNothing ==
    /\ thread = "respond"
    /\ queue' = Tail(queue)
    /\ thread' = "loop"
    /\ UNCHANGED <<server, toServer, state, main, open, dvc_data, got,
                   writing, cwritten, closes>>

\* The answer to an accepted channel; then dvcman_open_channel calls OnOpen.
ThreadRespond ==
    /\ thread = "respond"
    /\ Send(<<Pdu("CREATE_OK", Head(queue).ch)>>)
    /\ queue' = Tail(queue)
    /\ thread' = "loop"
    /\ UNCHANGED <<server, state, main, open, dvc_data, got, writing,
                   cwritten, closes>>

\* drdynvc_process_create_request of a channel that no listener takes, that a
\* plugin refuses, or whose number is in use: dvcman_close_channel then closes
\* the channel of that number, here the one that was open.  (An accepted one
\* would be closed too if OnChannelConnected failed; it never does:
\* freerdp_drdynvc_on_channel_connected returns CHANNEL_RC_OK.)
ThreadRefuse ==
    /\ Take({"CREATE"})
    /\ LET ch == Head(queue).ch
       IN  /\ Send((IF state = "CAPABILITIES" THEN <<Pdu("CAPABILITY", 0)>>
                                              ELSE <<>>)
                   \o <<Pdu("CREATE_FAILED", ch)>>)
           /\ IF ch \in open THEN RemoveChannel(ch)
                             ELSE UNCHANGED <<open, closes, dvc_data>>
    /\ state' = "READY"
    /\ UNCHANGED <<server, thread, main, got, writing, cwritten>>

\* OnDataReceived is called with a whole message; if the plugin fails, the
\* channel is closed.
Deliver(ch, msg) ==
    /\ got' = [got EXCEPT ![ch] = Append(@, msg)]
    /\ \/ /\ dvc_data' = [dvc_data EXCEPT ![ch] = NoData]
          /\ UNCHANGED <<toServer, open, closes>>
       \/ /\ Send(<<Pdu("CLOSE", ch)>>)
          /\ RemoveChannel(ch)

\* Mistake: a message is complete when it is longer than was announced.
ReceiveChannelDataNever(ch, d, fragment) ==
    LET data == d.data \o fragment
    IN  IF d = NoData
          THEN Deliver(ch, fragment)
        ELSE IF Len(data) > d.length
          THEN Deliver(ch, data)
        ELSE /\ dvc_data' = [dvc_data EXCEPT ![ch] = [d EXCEPT !.data = data]]
             /\ UNCHANGED <<toServer, open, closes, got>>

\* dvcman_receive_channel_data, when dvc_data is d.
ReceiveChannelData(ch, d, fragment) ==
    LET data == d.data \o fragment
    IN  IF d = NoData
          THEN Deliver(ch, fragment)
        ELSE IF Len(data) > d.length
          THEN /\ Send(<<Pdu("CLOSE", ch)>>)
               /\ RemoveChannel(ch)
               /\ UNCHANGED got
        ELSE IF Len(data) >= d.length
          THEN Deliver(ch, data)
        ELSE /\ dvc_data' = [dvc_data EXCEPT ![ch] = [d EXCEPT !.data = data]]
             /\ UNCHANGED <<toServer, open, closes, got>>

\* drdynvc_process_data_first (dvcman_receive_channel_data_first replaces what
\* there is of an earlier message) and drdynvc_process_data; data for a
\* channel that does not exist is ignored.
ThreadData ==
    /\ Take({"DATA_FIRST", "DATA"})
    /\ LET p == Head(queue)
           d == IF p.cmd = "DATA_FIRST"
                  THEN [length |-> p.total, data |-> <<>>] ELSE dvc_data[p.ch]
       IN  IF p.ch \in open
             THEN ReceiveChannelData(p.ch, d, p.data)
             ELSE UNCHANGED <<toServer, open, closes, dvc_data, got>>
    /\ UNCHANGED <<server, state, thread, main, writing, cwritten>>

\* drdynvc_process_close_request
ThreadClose ==
    /\ Take({"CLOSE"})
    /\ LET ch == Head(queue).ch
       IN  IF ch \in open
             THEN Send(<<Pdu("CLOSE", ch)>>) /\ RemoveChannel(ch)
             ELSE UNCHANGED <<toServer, open, closes, dvc_data>>
    /\ UNCHANGED <<server, state, thread, main, got, writing,
                   cwritten>>

\* WMQ_QUIT ends the loop ...
ThreadQuit ==
    /\ Take({"WMQ_QUIT"})
    /\ thread' = "closing"
    /\ UNCHANGED <<server, toServer, state, main, open, dvc_data, got,
                   writing, cwritten, closes>>

\* ... "Disconnect remaining dynamic channels that the server did not" ...
ThreadCloseRemaining ==
    /\ thread = "closing"
    /\ \E ch \in open : RemoveChannel(ch)
    /\ UNCHANGED <<server, toServer, queue, state, thread, main, got,
                   writing, cwritten>>

\* ... and it exits.
ThreadEnd ==
    /\ thread = "closing"
    /\ open = {}
    /\ thread' = "ended"
    /\ UNCHANGED <<server, toServer, queue, state, main, open,
                   dvc_data, got, writing, cwritten, closes>>

\* One PDU of drdynvc_write_data.
WriterSend(w, write) ==
    /\ Send(<<Fragment(write)>>)
    /\ writing' = [writing EXCEPT ![w] = AfterFragment(write)]
    /\ UNCHANGED <<server, queue, state, thread, main, open,
                   dvc_data, got, closes>>

\* Mistake: dvcman_write_channel does not take channel->lock.
LockFreeAlways(ch) == TRUE

\* channel->lock is held from the first PDU of a message to its last.
LockFree(ch) == \A w \in Writers : writing[w].ch # ch

\* dvcman_write_channel and the first PDU of the message ...
WriterStart(w) ==
    /\ writing[w] = Idle
    /\ Written < MaxMessages
    /\ \E ch \in open, len \in Lengths :
         LET msg == Message(Len(cwritten[ch]) + 1, len)
         IN  /\ LockFree(ch)
             /\ cwritten' = [cwritten EXCEPT ![ch] = Append(@, msg)]
             /\ WriterSend(w, [ch |-> ch, rest |-> msg, first |-> TRUE])

\* ... and each of the others, with the number of the channel at hand, even
\* if the channel has been closed in between.
WriterNext(w) ==
    /\ writing[w] # Idle
    /\ WriterSend(w, writing[w])
    /\ UNCHANGED cwritten

\* Mistake: the server is not told.
PluginCloseSilent ==
    /\ \E ch \in open \ Unanswered :
         /\ LockFree(ch)
         /\ RemoveChannel(ch)
    /\ UNCHANGED <<server, toServer, queue, state, thread, main, got,
                   writing, cwritten>>

\* dvcman_write_channel of no data closes the channel.  Only urbdrc does so,
\* for a device that is gone, on a channel that the server has used.
PluginClose ==
    /\ \E ch \in open \ Unanswered :
         /\ LockFree(ch)
         /\ Send(<<Pdu("CLOSE", ch)>>)
         /\ RemoveChannel(ch)
    /\ UNCHANGED <<server, queue, state, thread, main, got, writing,
                   cwritten>>

-----------------------------------------------------------------------------
ServerNext ==
    \/ ManagerOpen
    \/ ServerOpen
    \/ \E ch \in Channels :
         ServerWrite(ch) \/ ServerWriteNext(ch) \/ ServerClose(ch)
    \/ ServerReceive

ThreadNext ==
    \/ ThreadCapability
    \/ ThreadAccept
    \/ ThreadRespond
    \/ ThreadRefuse
    \/ ThreadData
    \/ ThreadClose
    \/ ThreadQuit
    \/ ThreadCloseRemaining
    \/ ThreadEnd

ClientNext ==
    \/ Disconnect
    \/ MainJoin
    \/ ThreadNext
    \/ \E w \in Writers : WriterStart(w) \/ WriterNext(w)
    \/ PluginClose

Next == ServerNext \/ ClientNext

Spec == Init /\ [][Next]_vars

\* The loops of the peer, main and drdynvc threads handle what comes; a call
\* of the server's write function goes on to its end.  Nobody has to open,
\* write, close or disconnect, and no plugin thread has to make progress.
FairSpec ==
    /\ Spec
    /\ WF_vars(ServerReceive)
    /\ WF_vars(\E ch \in Channels : ServerWriteNext(ch))
    /\ WF_vars(MainJoin)
    /\ WF_vars(ThreadNext)

-----------------------------------------------------------------------------
(***************************************************************************)
(* Properties                                                              *)
(***************************************************************************)

\* The plugin of a channel gets whole messages only, in the order in which
\* the server's thread wrote them, none twice and none left out, whatever is
\* written to other channels in between, up to the moment a side closes it
\* (dvcman_receive_channel_data).
ClientGetsWritten == \A ch \in Channels : IsPrefix(got[ch], swritten[ch])

\* The same for the messages queued for the reader of a server channel: two
\* plugin threads that write to one channel do not get mixed, because a
\* message is written under channel->lock (wts_read_drdynvc_data).
ServerGetsWritten == \A ch \in Channels : IsPrefix(inbox[ch], cwritten[ch])

\* Messages survive fragmentation, the interleaving with other channels and
\* reassembly, in both directions.
GetsWritten == ClientGetsWritten /\ ServerGetsWritten

\* The fragments of one client's messages never make the server give up the
\* connection: it does so only for data of a channel that the client has
\* closed (a writer in the middle of a message does not notice).
DroppedOnlyAfterClose ==
    [][peer # "dropped" /\ peer' = "dropped"
         => dvc_open_state[Head(toServer).ch] = "CLOSED"]_vars

\* The PDUs of channel ch with command cmd in the FIFO q.
Carries(q, ch, cmds) ==
    \E i \in DOMAIN q : q[i].ch = ch /\ q[i].cmd \in cmds

\* A channel that the server holds to be open is open on the client, or the
\* client's CLOSE is on its way, as long as the connection stands.
OpenAgrees ==
    \A ch \in Channels :
        /\ peer = "up"
        /\ dvc_open_state[ch] = "SUCCEEDED"
        => ch \in open \/ Carries(toServer, ch, {"CLOSE"})

\* A channel that the server has closed after the client's answer does not
\* stay open on the client: its CLOSE reaches the drdynvc thread.  (One that
\* the server closes before the answer does: "ABANDONED".)
CloseReachesClient ==
    \A ch \in Channels :
        /\ peer = "up"
        /\ dvc_open_state[ch] = "FREED"
        /\ ch \in open
        => Carries(queue, ch, {"CLOSE"})

\* OnClose is called once for each channel, and for all of them before the
\* drdynvc thread exits, hence before dvcman_clear terminates their plugins.
ClosedOnceInTime ==
    /\ \A ch \in Channels : closes[ch] <= IF ch \in open THEN 0 ELSE 1
    /\ thread = "ended" => open = {}

\* The types, and the two ends' agreement on which channels are open: through
\* the closes of the server, of the plugins and of the disconnect.
Inv == TypeOK /\ OpenAgrees /\ CloseReachesClient /\ ClosedOnceInTime

\* A channel that the server opens is answered while the connection stands.
OpenAnswered ==
    \A ch \in Channels :
        dvc_open_state[ch] = "NONE" ~>
            \/ dvc_open_state[ch] # "NONE"
            \/ peer # "up"

\* What the server writes to a channel that stays open on the client arrives:
\* the plugin catches up.
WrittenArrives ==
    \A ch \in Channels :
        Len(got[ch]) < Len(swritten[ch]) /\ ch \in open ~>
            \/ Len(got[ch]) = Len(swritten[ch])
            \/ ch \notin open
            \/ peer # "up"

\* A disconnect ends: the main thread is not left waiting for a drdynvc
\* thread with messages still to handle.
DisconnectEnds == main = "join" ~> main = "closed"
=============================================================================

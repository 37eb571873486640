--------------------------- MODULE RdpConnection ---------------------------
(***************************************************************************)
(* The RDP connection sequence, client against server.                     *)
(*                                                                         *)
(* The client is the state machine of rdp_recv_callback (rdp.c) and the    *)
(* rdp_client_* functions of connection.c, driven by freerdp_connect,      *)
(* freerdp_reconnect and the application's loop (freerdp.c).  The server   *)
(* is the one of peer_recv_callback (peer.c) and the rdp_server_*          *)
(* functions.  Each handler is one step: it reads one PDU and sends its    *)
(* answers.  The transport is a pair of FIFO channels.                     *)
(*                                                                         *)
(* Security negotiation comes before the first step of this module; what   *)
(* it leaves behind is the choice of the security layer.                   *)
(***************************************************************************)
EXTENDS Integers, Sequences, FiniteSets

CONSTANTS
    Channels,        \* static virtual channels, in the order of mcs->channels
    MessageChannel,  \* BOOLEAN: the server assigns a message channel
    PersistentCache, \* BOOLEAN: settings->BitmapCachePersistEnabled
    InputWindow      \* bound: input PDUs in flight

ASSUME ConnectionAssumption ==
    /\ Channels \in Seq(STRING)
    /\ {MessageChannel, PersistentCache} \subseteq BOOLEAN
    /\ InputWindow \in Nat

VARIABLES
    \* client
    api,           \* the call the application's thread is in
    callbackState, \* instance->ConnectionCallbackState
    cState,        \* rdp->state
    cJoined,       \* channels joined
    finalize,      \* rdp->finalize_sc_pdus
    reactivation,  \* rdp->deactivation_reactivation
    frames,        \* the states in which the pending calls of
                   \* rdp_recv_deactivate_all were made, outermost first
    \* transport
    useRdpSecurity, \* settings->UseRdpSecurityLayer, from the negotiation
    c2s, s2c,       \* PDUs in flight
    sUp,            \* the server has not closed the connection
    \* server
    resizeOnInput,     \* the server application resizes the desktop in its input
                       \* handler, whatever the state (sfreerdp.c); if not, only
                       \* while the client is activated (shadow_client.c)
    sState,            \* rdp->state
    sJoined,           \* channels joined
    AwaitCapabilities, \* rdp->AwaitCapabilities
    connected,         \* peer->connected: PostConnect has succeeded
    activated,         \* peer->activated
    \* history
    sGen, cGen,    \* number (mod 3) of the latest Demand Active: sent, answered
    everActive,    \* the client has been active in this connection
    events,        \* Activated events since the latest Confirm Active
    cPosts, sPosts \* calls of PostConnect: by freerdp_connect, by the peer

client == <<api, callbackState, cState, cJoined, finalize, reactivation, frames>>
server == <<sState, sJoined, AwaitCapabilities, connected, activated, sGen, sPosts>>
ghosts == <<cGen, everActive, events, cPosts>>
settings == <<useRdpSecurity, resizeOnInput>>
vars == <<client, settings, c2s, s2c, sUp, server, ghosts>>

\* An MCS channel PDU names a channel, the PDUs of an activation carry the
\* number of the Demand Active they belong to, the others carry nothing.
Pdu(type, arg) == [type |-> type, arg |-> arg]

\* The order in which the client joins the channels.
JoinOrder ==
    <<"user", "global">> \o (IF MessageChannel THEN <<"message">> ELSE <<>>)
                         \o Channels

ToJoin == {JoinOrder[i] : i \in 1..Len(JoinOrder)}

\* The server gives every channel an id of its own (mcs->baseChannelId++).
ASSUME JoinAssumption ==
    \A i, j \in 1..Len(JoinOrder) : JoinOrder[i] = JoinOrder[j] => i = j

\* FINALIZE_SC_COMPLETE
FinalizeComplete == {"SYNCHRONIZE", "COOPERATE", "GRANTED", "FONT_MAP"}

Gens == 0..2

ClientStates ==
    {"INITIAL", "NEGO", "MCS_CONNECT", "MCS_ATTACH_USER", "MCS_CHANNEL_JOIN",
     "LICENSING", "CAPABILITIES_EXCHANGE", "FINALIZATION", "ACTIVE"}

ServerStates ==
    {"NEGO", "MCS_CONNECT", "MCS_ERECT_DOMAIN", "MCS_ATTACH_USER",
     "RDP_SECURITY_COMMENCEMENT", "SECURE_SETTINGS_EXCHANGE",
     "CAPABILITIES_EXCHANGE", "FINALIZATION", "ACTIVE"}

TypeOK ==
    /\ api \in {"off", "connect", "reconnect", "run"}
    /\ callbackState \in {"PRECONNECT_PASSED", "POSTCONNECT_PASSED"}
    /\ cState \in ClientStates
    /\ cJoined \subseteq ToJoin
    /\ finalize \subseteq FinalizeComplete
    /\ reactivation \in BOOLEAN
    /\ frames \in Seq({"FINALIZATION", "ACTIVE"})
    /\ useRdpSecurity \in BOOLEAN
    /\ {sUp, resizeOnInput} \subseteq BOOLEAN
    /\ sState \in ServerStates
    /\ sJoined \subseteq ToJoin
    /\ {AwaitCapabilities, connected, activated, everActive} \subseteq BOOLEAN
    /\ sGen \in Gens /\ cGen \in Gens
    /\ {events, cPosts, sPosts} \subseteq Nat

-----------------------------------------------------------------------------
(***************************************************************************)
(* Connecting, and giving up.                                              *)
(***************************************************************************)

\* rdp_reset and a transport to a peer that freerdp_peer_context_new has just
\* made: nothing of an earlier connection is left.
FreshConnection(state) ==
    /\ cState' = state
    /\ cJoined' = {}
    /\ finalize' = {}
    /\ reactivation' = FALSE
    /\ frames' = <<>>
    /\ c2s' = <<>> /\ s2c' = <<>>
    /\ sUp' = TRUE
    /\ sState' = "NEGO"
    /\ sJoined' = {}
    /\ AwaitCapabilities' = FALSE
    /\ connected' = FALSE /\ activated' = FALSE
    /\ sGen' = 0 /\ cGen' = 0
    /\ everActive' = FALSE
    /\ events' = 0
    /\ sPosts' = 0

Init ==
    /\ api = "off" /\ callbackState = "PRECONNECT_PASSED"
    /\ cState = "INITIAL"
    /\ cJoined = {} /\ finalize = {} /\ reactivation = FALSE /\ frames = <<>>
    /\ useRdpSecurity \in BOOLEAN
    /\ resizeOnInput \in BOOLEAN
    /\ c2s = <<>> /\ s2c = <<>> /\ sUp = TRUE
    /\ sState = "NEGO" /\ sJoined = {} /\ AwaitCapabilities = FALSE
    /\ connected = FALSE /\ activated = FALSE
    /\ sGen = 0 /\ cGen = 0 /\ everActive = FALSE /\ events = 0
    /\ cPosts = 0 /\ sPosts = 0

\* freerdp_connect up to the negotiation.
Connect ==
    /\ api = "off"
    /\ api' = "connect"
    /\ callbackState' = "PRECONNECT_PASSED"
    /\ cPosts' = 0
    /\ FreshConnection("NEGO")
    /\ UNCHANGED settings

\* freerdp_reconnect up to the negotiation: freerdp_connect calls it after a
\* transport failure, and client_auto_reconnect once the session has run.
Reconnect ==
    /\ api' = "reconnect"
    /\ FreshConnection("NEGO")
    /\ UNCHANGED <<callbackState, settings, cPosts>>

\* freerdp_disconnect
Disconnect ==
    /\ api' = "off"
    /\ FreshConnection("INITIAL")
    /\ UNCHANGED <<callbackState, settings, cPosts>>

\* What follows a negative rdp_check_fds: a reconnect, or the end (another
\* error is set, auto reconnection is off, no retries are left).  A reconnect
\* that freerdp_connect has made is not repeated; client_auto_reconnect
\* repeats its own.
TransportFailure ==
    \/ /\ api = "reconnect" => callbackState = "POSTCONNECT_PASSED"
       /\ Reconnect
    \/ Disconnect

\* The negotiation succeeds (external), and rdp_client_connect goes on with
\* mcs_client_begin.
NegoDone ==
    /\ cState = "NEGO"
    /\ cState' = "MCS_CONNECT"
    /\ useRdpSecurity' \in BOOLEAN
    /\ c2s' = Append(c2s, Pdu("CONNECT_INITIAL", 0))
    /\ UNCHANGED <<api, callbackState, cJoined, finalize, reactivation, frames,
                   resizeOnInput, s2c, sUp, server, ghosts>>

\* The negotiation fails: FREERDP_ERROR_SECURITY_NEGO_CONNECT_FAILED, or a
\* transport error.
NegoFailed ==
    /\ cState = "NEGO"
    /\ Disconnect \/ TransportFailure

\* TcpAckTimeout passes in rdp_client_connect (which sets no error, so
\* freerdp_connect gives up), or in a pending rdp_recv_deactivate_all.
ActivationTimeout ==
    /\ cState \notin {"INITIAL", "NEGO", "ACTIVE"}
    /\ \/ frames = <<>> /\ api = "connect" /\ Disconnect
       \/ (frames # <<>> \/ api # "connect") /\ TransportFailure

\* The transport breaks, or the server's end of it is closed and drained.
LinkDown ==
    /\ cState \notin {"INITIAL", "NEGO"}
    /\ TransportFailure

EndOfStream == s2c = <<>> /\ ~sUp /\ LinkDown

\* freerdp_abort_connect, checked before every PDU: the session is over.  An
\* abort that the poll of rdp_client_connect meets counts as a failure of the
\* transport, and freerdp_connect tries again: that is LinkDown.
Abort ==
    /\ cState \notin {"INITIAL", "NEGO"}
    /\ Disconnect

-----------------------------------------------------------------------------
(***************************************************************************)
(* The client: rdp_recv_callback.                                          *)
(***************************************************************************)

ClientReads(state) == cState = state /\ s2c # <<>>
ServerPdu == Head(s2c)

\* Consume the PDU and send the answers.
ClientAnswers(pdus) == s2c' = Tail(s2c) /\ c2s' = c2s \o pdus

ClientConnectResponse ==
    /\ ClientReads("MCS_CONNECT") /\ ServerPdu.type = "CONNECT_RESPONSE"
    /\ ClientAnswers(<<Pdu("ERECT_DOMAIN", 0), Pdu("ATTACH_USER", 0)>>)
    /\ cState' = "MCS_ATTACH_USER"
    /\ UNCHANGED <<api, callbackState, cJoined, finalize, reactivation, frames,
                   settings, sUp, server, ghosts>>

ClientAttachUserConfirm ==
    /\ ClientReads("MCS_ATTACH_USER") /\ ServerPdu.type = "ATTACH_USER_CONFIRM"
    /\ ClientAnswers(<<Pdu("JOIN", "user")>>)
    /\ cState' = "MCS_CHANNEL_JOIN"
    /\ UNCHANGED <<api, callbackState, cJoined, finalize, reactivation, frames,
                   settings, sUp, server, ghosts>>

\* The channel whose confirm the client waits for.
ExpectedJoin == JoinOrder[Cardinality(cJoined) + 1]

\* rdp_client_connect_mcs_channel_join_confirm; after the last channel comes
\* rdp_client_establish_keys, which sends a PDU only for RDP security.
ClientJoinConfirm ==
    /\ ClientReads("MCS_CHANNEL_JOIN") /\ ServerPdu.type = "JOIN_CONFIRM"
    /\ ServerPdu.arg = ExpectedJoin
    /\ cJoined' = cJoined \cup {ExpectedJoin}
    /\ IF cJoined' = ToJoin
         THEN /\ ClientAnswers((IF useRdpSecurity
                                  THEN <<Pdu("SECURITY_EXCHANGE", 0)>> ELSE <<>>)
                               \o <<Pdu("CLIENT_INFO", 0)>>)
              /\ cState' = "LICENSING"
         ELSE /\ ClientAnswers(<<Pdu("JOIN", JoinOrder[Cardinality(cJoined) + 2])>>)
              /\ UNCHANGED cState
    /\ UNCHANGED <<api, callbackState, finalize, reactivation, frames,
                   settings, sUp, server, ghosts>>

\* rdp_client_connect_license, for a server that asks for no license.
ClientLicense ==
    /\ ClientReads("LICENSING") /\ ServerPdu.type = "LICENSE_VALID_CLIENT"
    /\ ClientAnswers(<<>>)
    /\ cState' = "CAPABILITIES_EXCHANGE"
    /\ UNCHANGED <<api, callbackState, cJoined, finalize, reactivation, frames,
                   settings, sUp, server, ghosts>>

\* rdp_client_connect_finalize
ClientFinalizePdus(g) ==
    <<Pdu("SYNCHRONIZE", g), Pdu("COOPERATE", g), Pdu("REQUEST_CONTROL", g)>>
    \o (IF ~reactivation /\ PersistentCache
          THEN <<Pdu("PERSISTENT_KEY_LIST", g)>> ELSE <<>>)
    \o <<Pdu("FONT_LIST", g)>>

\* Mistake: the flags of the last activation stay.
ClientDemandActiveNoReset ==
    /\ ClientReads("CAPABILITIES_EXCHANGE") /\ ServerPdu.type = "DEMAND_ACTIVE"
    /\ LET g == ServerPdu.arg
       IN  /\ ClientAnswers(<<Pdu("CONFIRM_ACTIVE", g)>> \o ClientFinalizePdus(g))
           /\ cGen' = g
    /\ cState' = "FINALIZATION"
    /\ events' = 0
    /\ UNCHANGED <<api, callbackState, cJoined, finalize, reactivation, frames,
                   settings, sUp, server, everActive, cPosts>>

\* rdp_client_connect_demand_active
ClientDemandActive ==
    /\ ClientReads("CAPABILITIES_EXCHANGE") /\ ServerPdu.type = "DEMAND_ACTIVE"
    /\ LET g == ServerPdu.arg
       IN  /\ ClientAnswers(<<Pdu("CONFIRM_ACTIVE", g)>> \o ClientFinalizePdus(g))
           /\ cGen' = g
    /\ cState' = "FINALIZATION"
    /\ finalize' = {}
    /\ events' = 0
    /\ UNCHANGED <<api, callbackState, cJoined, reactivation, frames,
                   settings, sUp, server, everActive, cPosts>>

IsFinalizePdu == ServerPdu.type \in FinalizeComplete

\* A data PDU of the finalization sets its flag in whatever state it comes.
\* (In CAPABILITIES_EXCHANGE it is handled by rdp_recv_demand_active and then
\* again as an out-of-sequence PDU, which changes nothing for a flag.)
ClientDataPdu ==
    /\ cState \in {"CAPABILITIES_EXCHANGE", "FINALIZATION", "ACTIVE"}
    /\ s2c # <<>> /\ IsFinalizePdu
    /\ cState = "FINALIZATION" =>
         finalize \cup {ServerPdu.type} # FinalizeComplete
    /\ finalize' = finalize \cup {ServerPdu.type}
    /\ ClientAnswers(<<>>)
    /\ UNCHANGED <<api, callbackState, cState, cJoined, reactivation, frames,
                   settings, sUp, server, ghosts>>

\* Mistake: the call is not recorded.
PostConnectNotRecorded ==
    IF api = "connect" \/ (api = "reconnect" /\ callbackState = "PRECONNECT_PASSED")
      THEN cPosts' = cPosts + 1 /\ UNCHANGED callbackState
      ELSE UNCHANGED <<cPosts, callbackState>>

\* PostConnect, or what rdp_client_reconnect_channels makes of it, when
\* rdp_client_connect has returned.
PostConnect ==
    IF api = "connect" \/ (api = "reconnect" /\ callbackState = "PRECONNECT_PASSED")
      THEN cPosts' = cPosts + 1 /\ callbackState' = "POSTCONNECT_PASSED"
      ELSE UNCHANGED <<cPosts, callbackState>>

\* The last PDU of the finalization.  The pending rdp_recv_deactivate_all
\* calls return, innermost first, and a rdp_recv_callback that was entered in
\* FINALIZATION finds the flags complete and enters ACTIVE once more.
ClientFinalizeDone ==
    /\ ClientReads("FINALIZATION")
    /\ IsFinalizePdu
    /\ finalize \cup {ServerPdu.type} = FinalizeComplete
    /\ finalize' = FinalizeComplete
    /\ cState' = "ACTIVE"
    /\ events' = 1 + Cardinality({i \in DOMAIN frames : frames[i] = "FINALIZATION"})
    /\ everActive' = TRUE
    /\ frames' = <<>>
    /\ PostConnect
    /\ api' = "run"
    /\ ClientAnswers(<<>>)
    /\ UNCHANGED <<cJoined, reactivation, settings, sUp, server, cGen>>

\* rdp_recv_deactivate_all up to its loop.
ClientDeactivateAll ==
    /\ cState \in {"FINALIZATION", "ACTIVE"}
    /\ s2c # <<>> /\ ServerPdu.type = "DEACTIVATE_ALL"
    /\ reactivation' = (cState = "ACTIVE")
    /\ frames' = Append(frames, cState)
    /\ cState' = "CAPABILITIES_EXCHANGE"
    /\ ClientAnswers(<<>>)
    /\ UNCHANGED <<api, callbackState, cJoined, finalize, settings, sUp,
                   server, ghosts>>

\* Every other PDU makes the callback fail (ClientNeverRefuses shows that the
\* server sends none), except that rdp_recv_tpkt_pdu, in FINALIZATION and
\* ACTIVE, skips a type it does not know.
ClientAccepts ==
    CASE cState = "MCS_CONNECT" -> ServerPdu.type = "CONNECT_RESPONSE"
      [] cState = "MCS_ATTACH_USER" -> ServerPdu.type = "ATTACH_USER_CONFIRM"
      [] cState = "MCS_CHANNEL_JOIN" ->
           ServerPdu.type = "JOIN_CONFIRM" /\ ServerPdu.arg = ExpectedJoin
      [] cState = "LICENSING" -> ServerPdu.type = "LICENSE_VALID_CLIENT"
      [] cState = "CAPABILITIES_EXCHANGE" ->
           ServerPdu.type = "DEMAND_ACTIVE" \/ IsFinalizePdu
      [] OTHER -> TRUE

\* The user types: the input callbacks are in place once the session runs.
ClientInput ==
    /\ api = "run" /\ cState = "ACTIVE"
    /\ Cardinality({i \in DOMAIN c2s : c2s[i].type = "INPUT"}) < InputWindow
    /\ Len(s2c) <= 4 * InputWindow
    /\ c2s' = Append(c2s, Pdu("INPUT", 0))
    /\ UNCHANGED <<client, settings, s2c, sUp, server, ghosts>>

-----------------------------------------------------------------------------
(***************************************************************************)
(* The server: peer_recv_callback.                                         *)
(***************************************************************************)

ServerReads(states) == sUp /\ sState \in states /\ c2s # <<>>
ClientPdu == Head(c2s)

ServerAnswers(pdus) == c2s' = Tail(c2s) /\ s2c' = s2c \o pdus

ServerConnectInitial ==
    /\ ServerReads({"NEGO"}) /\ ClientPdu.type = "CONNECT_INITIAL"
    /\ ServerAnswers(<<Pdu("CONNECT_RESPONSE", 0)>>)
    /\ sState' = "MCS_CONNECT"
    /\ UNCHANGED <<client, settings, sUp, sJoined, AwaitCapabilities,
                   connected, activated, sGen, sPosts, ghosts>>

ServerErectDomain ==
    /\ ServerReads({"MCS_CONNECT"}) /\ ClientPdu.type = "ERECT_DOMAIN"
    /\ ServerAnswers(<<>>)
    /\ sState' = "MCS_ERECT_DOMAIN"
    /\ UNCHANGED <<client, settings, sUp, sJoined, AwaitCapabilities,
                   connected, activated, sGen, sPosts, ghosts>>

ServerAttachUser ==
    /\ ServerReads({"MCS_ERECT_DOMAIN"}) /\ ClientPdu.type = "ATTACH_USER"
    /\ ServerAnswers(<<Pdu("ATTACH_USER_CONFIRM", 0)>>)
    /\ sState' = "MCS_ATTACH_USER"
    /\ UNCHANGED <<client, settings, sUp, sJoined, AwaitCapabilities,
                   connected, activated, sGen, sPosts, ghosts>>

\* rdp_server_accept_mcs_channel_join_request: in any order.
ServerJoin ==
    /\ ServerReads({"MCS_ATTACH_USER"}) /\ ClientPdu.type = "JOIN"
    /\ ServerAnswers(<<Pdu("JOIN_CONFIRM", ClientPdu.arg)>>)
    /\ sJoined' = sJoined \cup {ClientPdu.arg}
    /\ sState' = IF sJoined' = ToJoin THEN "RDP_SECURITY_COMMENCEMENT" ELSE sState
    /\ UNCHANGED <<client, settings, sUp, AwaitCapabilities,
                   connected, activated, sGen, sPosts, ghosts>>

\* rdp_server_establish_keys
ServerEstablishKeys ==
    /\ ServerReads({"RDP_SECURITY_COMMENCEMENT"}) /\ useRdpSecurity
    /\ ClientPdu.type = "SECURITY_EXCHANGE"
    /\ ServerAnswers(<<>>)
    /\ sState' = "SECURE_SETTINGS_EXCHANGE"
    /\ UNCHANGED <<client, settings, sUp, sJoined, AwaitCapabilities,
                   connected, activated, sGen, sPosts, ghosts>>

\* Mistake: the licensing is skipped and the client not told.
ServerClientInfoNoLicense ==
    /\ ServerReads(IF useRdpSecurity
                     THEN {"SECURE_SETTINGS_EXCHANGE"}
                     ELSE {"RDP_SECURITY_COMMENCEMENT"})
    /\ ClientPdu.type = "CLIENT_INFO"
    /\ ServerAnswers(<<Pdu("DEMAND_ACTIVE", sGen)>>)
    /\ sState' = "CAPABILITIES_EXCHANGE"
    /\ AwaitCapabilities' = TRUE
    /\ UNCHANGED <<client, settings, sUp, sJoined, connected, activated, sGen,
                   sPosts, ghosts>>

\* The client info, and what the callback does next by calling itself without
\* a PDU: freerdp_peer_nolicense ends the licensing, and the demand goes out.
\* Without RDP security the client info is the PDU that finds the server in
\* RDP_SECURITY_COMMENCEMENT.
ServerClientInfo ==
    /\ ServerReads(IF useRdpSecurity
                     THEN {"SECURE_SETTINGS_EXCHANGE"}
                     ELSE {"RDP_SECURITY_COMMENCEMENT"})
    /\ ClientPdu.type = "CLIENT_INFO"
    /\ ServerAnswers(<<Pdu("LICENSE_VALID_CLIENT", 0), Pdu("DEMAND_ACTIVE", sGen)>>)
    /\ sState' = "CAPABILITIES_EXCHANGE"
    /\ AwaitCapabilities' = TRUE
    /\ UNCHANGED <<client, settings, sUp, sJoined, connected, activated, sGen,
                   sPosts, ghosts>>

\* The states in which peer_recv_pdu handles the PDU.
PduStates ==
    (IF AwaitCapabilities THEN {"CAPABILITIES_EXCHANGE"} ELSE {})
    \cup {"FINALIZATION", "ACTIVE"}

\* rdp_server_accept_confirm_active
ServerConfirmActive ==
    /\ ServerReads({"CAPABILITIES_EXCHANGE"}) /\ AwaitCapabilities
    /\ ClientPdu.type = "CONFIRM_ACTIVE"
    /\ ServerAnswers(<<Pdu("SYNCHRONIZE", sGen), Pdu("COOPERATE", sGen)>>)
    /\ sState' = "FINALIZATION"
    /\ UNCHANGED <<client, settings, sUp, sJoined, AwaitCapabilities,
                   connected, activated, sGen, sPosts, ghosts>>

\* Mistake: control is not granted.
ServerRequestControlNoGrant ==
    /\ ServerReads(PduStates) /\ ClientPdu.type = "REQUEST_CONTROL"
    /\ ServerAnswers(<<>>)
    /\ UNCHANGED <<client, settings, sUp, server, ghosts>>

\* rdp_server_accept_client_control_pdu, request control
ServerRequestControl ==
    /\ ServerReads(PduStates) /\ ClientPdu.type = "REQUEST_CONTROL"
    /\ ServerAnswers(<<Pdu("GRANTED", sGen)>>)
    /\ UNCHANGED <<client, settings, sUp, server, ghosts>>

\* Synchronize, cooperate and the persistent key list are read and dropped.
ServerDataPdu ==
    /\ ServerReads(PduStates)
    /\ ClientPdu.type \in {"SYNCHRONIZE", "COOPERATE", "PERSISTENT_KEY_LIST"}
    /\ ServerAnswers(<<>>)
    /\ UNCHANGED <<client, settings, sUp, server, ghosts>>

\* Mistake: the demand is left to a later read.
ServerReactivateNoDemand(pdus) ==
    /\ sGen' = (sGen + 1) % 3
    /\ s2c' = s2c \o pdus \o <<Pdu("DEACTIVATE_ALL", 0)>>
    /\ sState' = "CAPABILITIES_EXCHANGE"
    /\ AwaitCapabilities' = TRUE
    /\ activated' = FALSE

\* rdp_server_reactivate, after the PDUs already answered.
ServerReactivate(pdus) ==
    /\ sGen' = (sGen + 1) % 3
    /\ s2c' = s2c \o pdus \o <<Pdu("DEACTIVATE_ALL", 0), Pdu("DEMAND_ACTIVE", sGen')>>
    /\ sState' = "CAPABILITIES_EXCHANGE"
    /\ AwaitCapabilities' = TRUE
    /\ activated' = FALSE

\* rdp_server_accept_client_font_list_pdu and the transition to ACTIVE: the
\* first time PostConnect is called, which may resize the desktop; Activate
\* is called unless PostConnect has.
ServerFontList ==
    /\ ServerReads(PduStates) /\ ClientPdu.type = "FONT_LIST"
    /\ c2s' = Tail(c2s)
    /\ sPosts' = IF connected THEN sPosts ELSE sPosts + 1
    /\ connected' = TRUE
    /\ \/ /\ s2c' = Append(s2c, Pdu("FONT_MAP", sGen))
          /\ sState' = "ACTIVE"
          /\ activated' = TRUE
          /\ UNCHANGED <<AwaitCapabilities, sGen>>
       \/ ~connected /\ ServerReactivate(<<Pdu("FONT_MAP", sGen)>>)
    /\ UNCHANGED <<client, settings, sUp, sJoined, ghosts>>

\* Input is handled in every state that reads PDUs.
ServerInput ==
    /\ ServerReads(PduStates) /\ ClientPdu.type = "INPUT"
    /\ c2s' = Tail(c2s)
    /\ \/ UNCHANGED <<s2c, sState, AwaitCapabilities, activated, sGen>>
       \/ resizeOnInput /\ ServerReactivate(<<>>)
    /\ UNCHANGED <<client, settings, sUp, sJoined, connected, sPosts,
                   ghosts>>

\* Mistake: the client need not be activated.
ServerResizeAnyTime ==
    /\ ~resizeOnInput
    /\ sUp /\ sState \in PduStates
    /\ ServerReactivate(<<>>)
    /\ UNCHANGED <<client, settings, c2s, sUp, sJoined, connected, sPosts,
                   ghosts>>

\* shadow_client_send_resize: the screen has another size and the client is
\* activated.
ServerResize ==
    /\ ~resizeOnInput
    /\ sUp /\ activated
    /\ ServerReactivate(<<>>)
    /\ UNCHANGED <<client, settings, c2s, sUp, sJoined, connected, sPosts,
                   ghosts>>

ServerAccepts ==
    CASE sState = "NEGO" -> ClientPdu.type = "CONNECT_INITIAL"
      [] sState = "MCS_CONNECT" -> ClientPdu.type = "ERECT_DOMAIN"
      [] sState = "MCS_ERECT_DOMAIN" -> ClientPdu.type = "ATTACH_USER"
      [] sState = "MCS_ATTACH_USER" -> ClientPdu.type = "JOIN"
      [] sState = "RDP_SECURITY_COMMENCEMENT" ->
           ClientPdu.type = IF useRdpSecurity THEN "SECURITY_EXCHANGE"
                                              ELSE "CLIENT_INFO"
      [] sState = "SECURE_SETTINGS_EXCHANGE" -> ClientPdu.type = "CLIENT_INFO"
      [] sState = "CAPABILITIES_EXCHANGE" -> TRUE
      [] OTHER -> ClientPdu.type # "CONFIRM_ACTIVE"

\* A PDU the callback refuses ends the peer's thread.
ServerRefuses ==
    /\ sUp /\ c2s # <<>>
    /\ ~ServerAccepts
    /\ sUp' = FALSE
    /\ UNCHANGED <<client, settings, c2s, s2c, server, ghosts>>

\* The peer's thread ends for reasons of its own: a callback of the
\* application fails, its transport breaks.
ServerLeaves ==
    /\ sUp /\ cState \notin {"INITIAL", "NEGO"}
    /\ sUp' = FALSE
    /\ UNCHANGED <<client, settings, c2s, s2c, server, ghosts>>

-----------------------------------------------------------------------------
ClientRecv ==
    \/ ClientConnectResponse \/ ClientAttachUserConfirm \/ ClientJoinConfirm
    \/ ClientLicense \/ ClientDemandActive \/ ClientDataPdu \/ ClientFinalizeDone
    \/ ClientDeactivateAll

ServerRecv ==
    \/ ServerConnectInitial \/ ServerErectDomain \/ ServerAttachUser
    \/ ServerJoin \/ ServerEstablishKeys \/ ServerClientInfo
    \/ ServerConfirmActive \/ ServerRequestControl \/ ServerDataPdu
    \/ ServerFontList \/ ServerInput \/ ServerRefuses

Failures ==
    \/ NegoFailed \/ ActivationTimeout \/ LinkDown \/ Abort \/ ServerLeaves

Next ==
    \/ Connect \/ NegoDone
    \/ ClientRecv \/ ClientInput \/ EndOfStream
    \/ ServerRecv \/ ServerResize
    \/ Failures

Spec == Init /\ [][Next]_vars

\* Both event loops run, and a blocked read ends when the other side is gone.
FairSpec ==
    /\ Spec
    /\ WF_vars(ClientRecv) /\ WF_vars(ServerRecv) /\ WF_vars(EndOfStream)

-----------------------------------------------------------------------------
(***************************************************************************)
(* Properties.                                                             *)
(***************************************************************************)

InFlight(queue, type) == \E i \in DOMAIN queue : queue[i].type = type

\* The client never finds a PDU it would refuse: the channels are confirmed in
\* the order it joins them, and a Deactivate All never comes while it waits
\* for a Demand Active.
ClientNeverRefuses ==
    cState \notin {"INITIAL", "NEGO"} /\ s2c # <<>> => ClientAccepts

\* The two state machines fit, in any interleaving of typing, resizing and
\* activation: the client never refuses a PDU of either server application,
\* nor the shadow server one of the client.  In particular a Confirm Active
\* always finds the shadow server in CAPABILITIES_EXCHANGE.
NoRefusal ==
    /\ ClientNeverRefuses
    /\ ~resizeOnInput /\ sUp /\ c2s # <<>> => ServerAccepts

\* A client that is active is so together with the server, in the share of
\* the server's latest Demand Active, unless a Deactivate All is on its way
\* or the server has gone.
ClientActiveAgrees ==
    cState = "ACTIVE" =>
        \/ sState = "ACTIVE" /\ activated /\ cGen = sGen
        \/ InFlight(s2c, "DEACTIVATE_ALL")
        \/ ~sUp

\* An activated shadow server has the client's confirmation of its latest Demand
\* Active, not of an earlier one, and the client needs nothing more from it
\* than what is on the way.
ServerActiveAgrees ==
    ~resizeOnInput /\ activated =>
        /\ cGen = sGen
        /\ cState \in {"FINALIZATION", "ACTIVE"}
        /\ cState = "FINALIZATION" => InFlight(s2c, "FONT_MAP")

\* Neither side takes the session for active on the strength of an earlier
\* activation: rdp_client_transition_to_state and the peer's activated flag
\* agree on the share, up to what is on its way.
ActiveAgrees == ClientActiveAgrees /\ ServerActiveAgrees

\* The applications hear of each activation once (PubSub_OnActivated), with
\* a server that resizes only an activated client.
ActivatedOnce == ~resizeOnInput /\ cState = "ACTIVE" => events = 1

\* The comment in rdp_client_connect_finalize: the persistent key list is not
\* sent while a deactivation-reactivation sequence is in progress.
KeyListOnlyFirst == everActive => ~InFlight(c2s, "PERSISTENT_KEY_LIST")

\* deactivation_reactivation tells whether the client has been active in this
\* connection, so firstActivation of the Activated event is true once and the
\* persistent key list is sent once.
FirstActivationTold ==
    ~resizeOnInput /\ cState \in {"CAPABILITIES_EXCHANGE", "FINALIZATION"} =>
        (reactivation <=> everActive)

\* What the applications are told of activations (PubSub_OnActivated): each of
\* them once, and the first one as the first.
ActivationsTold == ActivatedOnce /\ FirstActivationTold

\* The comment in rdp_server_transition_to_state: PostConnect is called once
\* and not after a reactivation sequence; and on the client, however many
\* reconnects it takes, once between freerdp_connect and freerdp_disconnect.
PostConnectOnce ==
    /\ sPosts <= 1
    /\ activated => sPosts = 1
    /\ cPosts <= 1
    /\ api = "run" => cPosts = 1

\* The inductive invariant behind PostConnectOnce: the record of the callbacks
\* and the calls go together, in every call the application can be in.
PostConnectInv ==
    /\ api \in {"off", "connect", "reconnect", "run"}
    /\ callbackState \in {"PRECONNECT_PASSED", "POSTCONNECT_PASSED"}
    /\ connected \in BOOLEAN /\ activated \in BOOLEAN
    /\ sPosts = IF connected THEN 1 ELSE 0
    /\ activated => connected
    /\ cPosts = IF callbackState = "POSTCONNECT_PASSED" THEN 1 ELSE 0
    /\ api = "connect" => callbackState = "PRECONNECT_PASSED"
    /\ api = "run" => callbackState = "POSTCONNECT_PASSED"
    /\ api = "off" => cState = "INITIAL"

\* Types, and the bookkeeping of the PostConnect calls on both sides: it implies
\* PostConnectOnce.
Inv == TypeOK /\ PostConnectInv

\* A connection comes to its end or to an active client.
ConnectCompletes ==
    (cState = "MCS_CONNECT") ~> (cState \in {"ACTIVE", "INITIAL", "NEGO"})

\* The comment in shadow_client_send_resize: Activate is invoked later.
ResizeCompletes ==
    (~resizeOnInput /\ sUp /\ connected /\ ~activated) ~> (activated \/ ~connected \/ ~sUp)
=============================================================================

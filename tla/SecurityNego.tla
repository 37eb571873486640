---------------------------- MODULE SecurityNego ----------------------------
(***************************************************************************)
(* Security negotiation: nego_connect (nego.c) against                     *)
(* rdp_server_accept_nego (connection.c), and the security data blocks of  *)
(* the MCS Connect exchange (gcc.c) in which the two sides settle the      *)
(* encryption.  The client tries its protocols from the strongest down,    *)
(* one TCP connection per attempt.  The settings outlive a connection:     *)
(* what one connection writes into them the next one finds.                *)
(***************************************************************************)
EXTENDS Integers, Sequences, FiniteSets

CONSTANTS
    Hosts,   \* the servers a client may be connected to
    Clients  \* the settings a client may be started with

\* The names of protocol_security_string: PROTOCOL_HYBRID_EX, PROTOCOL_HYBRID,
\* PROTOCOL_SSL, PROTOCOL_RDP.
Protocols == {"EXT", "NLA", "TLS", "RDP"}
Methods == {"40BIT", "56BIT", "128BIT", "FIPS"}
Levels == {"NONE", "LOW", "CLIENT_COMPATIBLE", "HIGH", "FIPS"}

\* PROTOCOL_FAILED_NEGO with an error code.
Failures ==
    {"SSL_REQUIRED_BY_SERVER", "SSL_NOT_ALLOWED_BY_SERVER",
     "SSL_CERT_NOT_ON_SERVER", "HYBRID_REQUIRED_BY_SERVER"}

ASSUME NegoAssumption ==
    /\ Hosts \subseteq
         [kind : {"freerdp", "other"}, protocols : SUBSET Protocols,
          level : Levels, LocalConnection : BOOLEAN]
    /\ \A h \in Hosts : h.kind = "freerdp" => "EXT" \notin h.protocols
    /\ Clients \subseteq
         [protocols : SUBSET Protocols, methods : SUBSET Methods,
          NegotiateSecurityLayer : BOOLEAN, SendPreconnectionPdu : BOOLEAN]

VARIABLES
    \* client
    settings, \* as started: one of Clients
    UseRdpSecurityLayer, EncryptionMethods, \* settings the connections write
    pc,       \* where rdp_client_connect is
    state,    \* nego->state
    EnabledProtocols, SelectedProtocol, sendNegoData,
    TcpConnected, SecurityConnected,
    \* server: the peer at the other end of the TCP connection
    host,     \* one of Hosts
    sState,   \* "none", "INITIAL", "accept" (in transport_accept_*), "NEGO"
    sSelected, sUseRdpSecurityLayer, sLevel, sMethods,
    \* transport
    c2s, s2c,
    \* history
    broken    \* the transport failed in this connection

nego == <<state, EnabledProtocols, SelectedProtocol, sendNegoData>>
peer == <<sState, sSelected, sUseRdpSecurityLayer, sLevel, sMethods>>
vars == <<settings, UseRdpSecurityLayer, EncryptionMethods, pc, nego,
          TcpConnected, SecurityConnected, host, peer, c2s, s2c, broken>>

Attempts == Protocols  \* NEGO_STATE_EXT, _NLA, _TLS, _RDP

Messages ==
    [type : {"PRECONNECTION", "REQUEST_PLAIN", "CONFIRM_PLAIN"}]
    \cup [type : {"NEG_REQ"}, protocols : SUBSET Protocols]
    \cup [type : {"NEG_RSP"}, selected : Protocols]
    \cup [type : {"NEG_FAILURE"}, code : Failures]
    \cup [type : {"CLIENT_SECURITY"}, methods : SUBSET Methods]
    \cup [type : {"SERVER_SECURITY"}, methods : SUBSET Methods, level : Levels]

TypeOK ==
    /\ settings \in Clients
    /\ UseRdpSecurityLayer \in BOOLEAN
    /\ EncryptionMethods \subseteq Methods
    /\ pc \in {"off", "attempt", "wait", "security", "gcc", "up", "failed"}
    /\ state \in Attempts \cup {"INITIAL", "FAIL", "FINAL"}
    /\ EnabledProtocols \subseteq Protocols
    /\ SelectedProtocol \in Protocols
    /\ sendNegoData \in BOOLEAN
    /\ TcpConnected \in BOOLEAN /\ SecurityConnected \in BOOLEAN
    /\ host \in Hosts
    /\ sState \in {"none", "INITIAL", "accept", "NEGO"}
    /\ sSelected \in Protocols \cup Failures
    /\ sUseRdpSecurityLayer \in BOOLEAN
    /\ sLevel \in Levels /\ sMethods \subseteq Methods
    /\ c2s \in Seq(Messages) /\ s2c \in Seq(Messages)
    /\ broken \in BOOLEAN

Rank == [EXT |-> 4, NLA |-> 3, TLS |-> 2, RDP |-> 1]

Weaker(p) == {q \in Protocols : Rank[q] < Rank[p]}

Highest(S) == CHOOSE p \in S : \A q \in S : Rank[q] <= Rank[p]

-----------------------------------------------------------------------------
Init ==
    /\ settings \in Clients
    /\ UseRdpSecurityLayer \in BOOLEAN
    /\ EncryptionMethods = settings.methods
    /\ pc = "off"
    /\ state = "INITIAL" /\ EnabledProtocols = {} /\ SelectedProtocol = "RDP"
    /\ sendNegoData = FALSE
    /\ TcpConnected = FALSE /\ SecurityConnected = FALSE
    /\ host \in Hosts
    /\ sState = "none" /\ sSelected = "RDP" /\ sUseRdpSecurityLayer = FALSE
    /\ sLevel = "NONE" /\ sMethods = {}
    /\ c2s = <<>> /\ s2c = <<>>
    /\ broken = FALSE

\* A peer of h for a new TCP connection.
NewPeer(h) ==
    /\ sState' = "INITIAL"
    /\ sSelected' = "RDP"
    /\ sUseRdpSecurityLayer' = FALSE
    /\ sLevel' = h.level
    /\ sMethods' = {}

\* The server's end is gone with the TCP connection.
NoPeer ==
    /\ sState' = "none"
    /\ UNCHANGED <<sSelected, sUseRdpSecurityLayer, sLevel, sMethods>>

\* nego_transport_disconnect
DropTransport ==
    /\ TcpConnected' = FALSE /\ SecurityConnected' = FALSE
    /\ NoPeer
    /\ c2s' = <<>>

\* rdp_client_connect up to the loop of nego_connect.  Without negotiation the
\* loop is skipped; the TCP connection is made here only for a preconnection
\* PDU.
Connect(h) ==
    /\ pc = "off"
    /\ host' = h
    /\ broken' = FALSE
    /\ sendNegoData' = FALSE
    /\ IF settings.protocols = {}
         THEN /\ state' = "FAIL"
              /\ pc' = "failed"
              /\ EnabledProtocols' = {}
              /\ UNCHANGED <<SelectedProtocol, TcpConnected, peer, c2s>>
         ELSE LET p == Highest(settings.protocols)
              IN  /\ IF settings.NegotiateSecurityLayer
                       THEN /\ state' = p
                            /\ pc' = "attempt"
                            /\ EnabledProtocols' = settings.protocols
                            /\ UNCHANGED SelectedProtocol
                       ELSE /\ state' = "FINAL"
                            /\ pc' = "security"
                            /\ EnabledProtocols' = {p} \cup
                                 (IF p = "EXT" THEN {"NLA"} ELSE {})
                            /\ SelectedProtocol' = p
                  /\ IF settings.SendPreconnectionPdu
                       THEN /\ TcpConnected' = TRUE
                            /\ NewPeer(h)
                            /\ c2s' = <<[type |-> "PRECONNECTION"]>>
                       ELSE UNCHANGED <<TcpConnected, peer, c2s>>
    /\ UNCHANGED <<settings, UseRdpSecurityLayer, EncryptionMethods,
                   SecurityConnected, s2c>>

\* RequestedProtocols of an attempt: PROTOCOL_RDP has no bit.
Requested(p) ==
    CASE p = "EXT" -> {"NLA", "TLS", "EXT"}
      [] p = "NLA" -> {"NLA", "TLS"}
      [] p = "TLS" -> {"TLS"}
      [] OTHER -> {}

\* nego_send: nego_attempt_* up to the wait for the response.
Attempt ==
    /\ pc = "attempt" /\ state \in Attempts
    /\ TcpConnected' = TRUE
    /\ IF TcpConnected THEN UNCHANGED peer ELSE NewPeer(host)
    /\ c2s' = Append(c2s,
                IF Requested(state) # {} \/ sendNegoData
                  THEN [type |-> "NEG_REQ", protocols |-> Requested(state)]
                  ELSE [type |-> "REQUEST_PLAIN"])
    /\ pc' = "wait"
    /\ UNCHANGED <<settings, UseRdpSecurityLayer, EncryptionMethods, nego,
                   SecurityConnected, host, s2c, broken>>

\* Mistake: an attempt is followed by the next weaker protocol only.
FallBackOneStep ==
    LET S == {p \in EnabledProtocols : Rank[p] = Rank[state] - 1}
    IN  /\ IF S = {} THEN state' = "FINAL" /\ pc' = "failed"
                     ELSE state' = Highest(S) /\ pc' = "attempt"
        /\ IF state = "RDP" THEN UNCHANGED <<TcpConnected, SecurityConnected, peer, c2s>>
                            ELSE DropTransport

\* Mistake: the strongest protocol is tried again.
FallBackToHighest ==
    /\ state' = Highest(EnabledProtocols) /\ pc' = "attempt"
    /\ DropTransport

\* What the attempt does when nego_recv has not reached NEGO_STATE_FINAL: it
\* leaves the next state to try, or NEGO_STATE_FAIL, on which nego_connect
\* returns.  Only nego_attempt_rdp keeps the connection.
FallBack ==
    LET S == EnabledProtocols \cap Weaker(state)
    IN  /\ IF S = {} THEN state' = "FINAL" /\ pc' = "failed"
                     ELSE state' = Highest(S) /\ pc' = "attempt"
        /\ IF state = "RDP" THEN UNCHANGED <<TcpConnected, SecurityConnected, peer, c2s>>
                            ELSE DropTransport

\* Mistake: what the client has enabled is not looked up.
AcceptableAny(p) == p \in Protocols

\* A protocol that nego_recv accepts: PROTOCOL_HYBRID_EX it does not look up.
Acceptable(p) == p = "EXT" \/ p \in EnabledProtocols

Receives(type) == pc = "wait" /\ s2c # <<>> /\ Head(s2c).type = type

RecvResponse ==
    /\ Receives("NEG_RSP")
    /\ SelectedProtocol' = Head(s2c).selected
    /\ IF Acceptable(SelectedProtocol')
         THEN /\ state' = "FINAL" /\ pc' = "security"
              /\ UNCHANGED <<TcpConnected, SecurityConnected, peer, c2s>>
         ELSE FallBack
    /\ s2c' = <<>>
    /\ UNCHANGED <<settings, UseRdpSecurityLayer, EncryptionMethods,
                   EnabledProtocols, sendNegoData, host, broken>>

RecvFailure ==
    /\ Receives("NEG_FAILURE")
    /\ sendNegoData' = (sendNegoData \/ Head(s2c).code \in
                          {"SSL_NOT_ALLOWED_BY_SERVER", "SSL_CERT_NOT_ON_SERVER"})
    /\ FallBack
    /\ s2c' = <<>>
    /\ UNCHANGED <<settings, UseRdpSecurityLayer, EncryptionMethods,
                   EnabledProtocols, SelectedProtocol, host, broken>>

\* A confirm without rdpNegData stands for standard RDP security; it leaves
\* SelectedProtocol alone.
RecvPlain ==
    /\ Receives("CONFIRM_PLAIN")
    /\ IF "RDP" \in EnabledProtocols
         THEN /\ state' = "FINAL" /\ pc' = "security"
              /\ UNCHANGED <<TcpConnected, SecurityConnected, peer, c2s>>
         ELSE FallBack
    /\ s2c' = <<>>
    /\ UNCHANGED <<settings, UseRdpSecurityLayer, EncryptionMethods,
                   EnabledProtocols, SelectedProtocol, sendNegoData, host, broken>>

\* The end of nego_connect: the settings learn the protocol.
SettleSettings ==
    IF SelectedProtocol = "RDP"
      THEN /\ UseRdpSecurityLayer' = TRUE
           /\ EncryptionMethods' = IF EncryptionMethods = {} THEN Methods
                                                            ELSE EncryptionMethods
      ELSE UNCHANGED <<UseRdpSecurityLayer, EncryptionMethods>>

\* The layer rdp_server_accept_nego goes on to accept: it tests the bits of
\* SelectedProtocol, and the error codes (1, 2, 3, 5) share them
\* with PROTOCOL_SSL (1) and PROTOCOL_HYBRID (2).
Layer(selected) ==
    CASE selected \in {"NLA", "SSL_NOT_ALLOWED_BY_SERVER", "SSL_CERT_NOT_ON_SERVER"}
           -> "NLA"
      [] selected \in {"TLS", "SSL_REQUIRED_BY_SERVER", "HYBRID_REQUIRED_BY_SERVER"}
           -> "TLS"
      [] OTHER -> "RDP"

\* The server is at the same protocol.  One that has been asked for nothing
\* takes any protocol it has (external: a host that reads a preconnection PDU).
HandshakeReady(p) ==
    \/ sState \in {"accept", "NEGO"} /\ Layer(sSelected) = p
    \/ sState = "INITIAL" /\ host.kind = "other" /\ p \in host.protocols

\* nego_security_connect, and mcs_client_begin with the client security data
\* block.  (For standard RDP security there is no handshake: a server that is
\* at another protocol fails at the first PDU.)
SecurityConnect ==
    /\ pc = "security" /\ c2s = <<>>
    /\ TcpConnected /\ SelectedProtocol # "EXT"
    /\ HandshakeReady(SelectedProtocol)
    /\ SecurityConnected' = TRUE
    /\ SettleSettings
    /\ c2s' = <<[type |-> "CLIENT_SECURITY", methods |-> EncryptionMethods']>>
    /\ pc' = "gcc"
    /\ sState' = "NEGO"
    /\ UNCHANGED <<settings, nego, TcpConnected, host, sSelected,
                   sUseRdpSecurityLayer, sLevel, sMethods, s2c, broken>>

\* No TCP connection, no branch for the protocol, or a server at another one.
SecurityRefused ==
    /\ pc = "security" /\ c2s = <<>>
    /\ \/ ~TcpConnected
       \/ SelectedProtocol = "EXT"
       \/ ~HandshakeReady(SelectedProtocol)
    /\ SettleSettings
    /\ pc' = "failed"
    /\ SecurityConnected' = FALSE
    /\ UNCHANGED <<settings, nego, TcpConnected, host, peer, c2s, s2c, broken>>

\* The combinations of gcc_read_server_security_data.
ValidCrypto(level, methods) ==
    CASE level = "NONE" -> methods = {}
      [] level = "FIPS" -> methods = {"FIPS"}
      [] OTHER -> Cardinality(methods) = 1

\* Mistake: the security layer of an earlier connection stays.
ReadServerSecurityKeepsLayer ==
    /\ pc = "gcc" /\ s2c # <<>> /\ Head(s2c).type = "SERVER_SECURITY"
    /\ EncryptionMethods' = Head(s2c).methods
    /\ LET valid == ValidCrypto(Head(s2c).level, Head(s2c).methods)
       IN  pc' = IF valid THEN "up" ELSE "failed"
    /\ s2c' = <<>>
    /\ UNCHANGED <<settings, UseRdpSecurityLayer, nego, TcpConnected,
                   SecurityConnected, host, peer, c2s, broken>>

\* gcc_read_server_security_data
ReadServerSecurity ==
    /\ pc = "gcc" /\ s2c # <<>> /\ Head(s2c).type = "SERVER_SECURITY"
    /\ EncryptionMethods' = Head(s2c).methods
    /\ LET valid == ValidCrypto(Head(s2c).level, Head(s2c).methods)
       IN  /\ pc' = IF valid THEN "up" ELSE "failed"
           /\ UseRdpSecurityLayer' = IF valid /\ Head(s2c).level = "NONE"
                                       THEN FALSE ELSE UseRdpSecurityLayer
    /\ s2c' = <<>>
    /\ UNCHANGED <<settings, nego, TcpConnected, SecurityConnected, host, peer,
                   c2s, broken>>

\* Mistake: a transport failure is taken for a refusal of the protocol.
TransportFailsFallsBack ==
    /\ pc \in {"attempt", "wait", "security", "gcc"}
    /\ IF pc = "wait" THEN FallBack
         ELSE /\ state' = "FINAL" /\ pc' = "failed"
              /\ UNCHANGED <<TcpConnected, SecurityConnected, peer, c2s>>
    /\ IF pc = "security" THEN SettleSettings
         ELSE UNCHANGED <<UseRdpSecurityLayer, EncryptionMethods>>
    /\ broken' = TRUE
    /\ s2c' = <<>>
    /\ UNCHANGED <<settings, EnabledProtocols, SelectedProtocol, sendNegoData, host>>

\* The transport breaks, or a server that could make nothing of what it read
\* has closed it.  An attempt that fails so is not followed by a weaker one.
\* A handshake that fails so comes after the settings have been updated.
TransportFails ==
    /\ pc \in {"attempt", "wait", "security", "gcc"}
    /\ state' = "FINAL"
    /\ pc' = "failed"
    /\ IF pc = "security" THEN SettleSettings
         ELSE UNCHANGED <<UseRdpSecurityLayer, EncryptionMethods>>
    /\ broken' = TRUE
    /\ UNCHANGED <<settings, EnabledProtocols, SelectedProtocol, sendNegoData,
                   TcpConnected, SecurityConnected, host, peer, c2s, s2c>>

\* rdp_client_disconnect: nego_disconnect, and a new rdpNego from rdp_reset.
\* A reconnect or a redirection makes the next connection with these settings.
Disconnect ==
    /\ pc \in {"up", "failed"}
    /\ pc' = "off"
    /\ state' = "INITIAL" /\ EnabledProtocols' = {} /\ SelectedProtocol' = "RDP"
    /\ sendNegoData' = FALSE
    /\ DropTransport
    /\ s2c' = <<>>
    /\ UNCHANGED <<settings, UseRdpSecurityLayer, EncryptionMethods, host, broken>>

-----------------------------------------------------------------------------
(***************************************************************************)
(* The server.                                                             *)
(***************************************************************************)

ServerReads(kind, type) ==
    /\ host.kind = kind /\ c2s # <<>> /\ Head(c2s).type \in type
    /\ c2s' = Tail(c2s)

\* The protocols of the request: none without rdpNegData.
RequestedOf(m) == IF m.type = "NEG_REQ" THEN m.protocols ELSE {}

\* rdp_server_accept_nego: the protocol, or the failure to report.
Selection(requested) ==
    CASE "NLA" \in host.protocols \cap requested -> "NLA"
      [] "NLA" \notin host.protocols \cap requested
           /\ "TLS" \in host.protocols \cap requested -> "TLS"
      [] requested = {} /\ "RDP" \in host.protocols -> "RDP"
      [] OTHER ->
           IF "RDP" \in host.protocols THEN "SSL_NOT_ALLOWED_BY_SERVER"
           ELSE IF "NLA" \in host.protocols /\ "TLS" \notin host.protocols
             THEN "HYBRID_REQUIRED_BY_SERVER" ELSE "SSL_REQUIRED_BY_SERVER"

\* nego_send_negotiation_response: the packet ...
Answer(selected) ==
    IF selected \in Failures THEN [type |-> "NEG_FAILURE", code |-> selected]
                             ELSE [type |-> "NEG_RSP", selected |-> selected]

\* ... and what becomes of the settings.
AcceptSettings ==
    CASE sSelected' = "RDP" /\ host.LocalConnection ->
           sUseRdpSecurityLayer' = FALSE /\ sLevel' = "NONE"
      [] sSelected' = "RDP" /\ ~host.LocalConnection ->
           /\ sUseRdpSecurityLayer' = TRUE
           /\ sLevel' = IF sLevel = "NONE" THEN "CLIENT_COMPATIBLE" ELSE sLevel
      [] sSelected' \in {"NLA", "TLS"} ->
           sUseRdpSecurityLayer' = FALSE /\ sLevel' = "NONE"
      [] OTHER -> UNCHANGED <<sUseRdpSecurityLayer, sLevel>>

\* rdp_server_accept_nego up to transport_accept_*.  The function goes on after
\* a failure too: the status of the failure branch is overwritten by the one of
\* the write.
ServerAcceptNego ==
    /\ sState = "INITIAL"
    /\ ServerReads("freerdp", {"NEG_REQ", "REQUEST_PLAIN"})
    /\ sSelected' = Selection(RequestedOf(Head(c2s)))
    /\ s2c' = <<Answer(sSelected')>>
    /\ AcceptSettings
    /\ sState' = IF Layer(sSelected') = "RDP" THEN "NEGO" ELSE "accept"
    /\ UNCHANGED <<settings, UseRdpSecurityLayer, EncryptionMethods, pc, nego,
                   TcpConnected, SecurityConnected, host, sMethods, broken>>

\* Another server (external): it answers a request that has no rdpNegData with
\* a confirm that has none, and takes the strongest common protocol otherwise.
OtherAcceptNego ==
    /\ sState = "INITIAL"
    /\ ServerReads("other", {"NEG_REQ", "REQUEST_PLAIN"})
    /\ LET asked == RequestedOf(Head(c2s))
           common == host.protocols \cap (IF asked = {} THEN {"RDP"} ELSE asked)
       IN  IF common = {}
             THEN /\ sSelected' \in Failures
                  /\ s2c' = <<[type |-> "NEG_FAILURE", code |-> sSelected']>>
                  /\ sState' = "none"
             ELSE /\ sSelected' = Highest(common)
                  /\ s2c' = <<IF Head(c2s).type = "REQUEST_PLAIN"
                                THEN [type |-> "CONFIRM_PLAIN"]
                                ELSE [type |-> "NEG_RSP", selected |-> sSelected']>>
                  /\ sState' = IF sSelected' = "RDP" THEN "NEGO" ELSE "accept"
    /\ AcceptSettings
    /\ UNCHANGED <<settings, UseRdpSecurityLayer, EncryptionMethods, pc, nego,
                   TcpConnected, SecurityConnected, host, sMethods, broken>>

\* A preconnection PDU: nego_read_request takes it for a broken TPKT header;
\* other hosts read it (external).
ServerPreconnection ==
    /\ sState = "INITIAL"
    /\ \/ ServerReads("freerdp", {"PRECONNECTION"}) /\ NoPeer
       \/ ServerReads("other", {"PRECONNECTION"}) /\ UNCHANGED peer
    /\ UNCHANGED <<settings, UseRdpSecurityLayer, EncryptionMethods, pc, nego,
                   TcpConnected, SecurityConnected, host, s2c, broken>>

\* The method of gcc_write_server_security_data for a level and the methods
\* the client has announced.
Method(level, announced) ==
    CASE level = "NONE" -> {}
      [] level = "FIPS" -> {"FIPS"}
      [] level = "HIGH" -> {"128BIT"}
      [] OTHER ->
           IF "128BIT" \in announced \/ announced = {} THEN {"128BIT"}
           ELSE IF "56BIT" \in announced THEN {"56BIT"}
           ELSE IF "40BIT" \in announced THEN {"40BIT"} ELSE {"FIPS"}

\* gcc_read_client_security_data and gcc_write_server_security_data.  (Without
\* its security layer the server reads over the client's block.)
ServerSecurityData ==
    /\ sState = "NEGO"
    /\ ServerReads(host.kind, {"CLIENT_SECURITY"})
    /\ sLevel' = IF sUseRdpSecurityLayer THEN sLevel ELSE "NONE"
    /\ sMethods' = Method(sLevel', Head(c2s).methods)
    /\ s2c' = <<[type |-> "SERVER_SECURITY", methods |-> sMethods', level |-> sLevel']>>
    /\ UNCHANGED <<settings, UseRdpSecurityLayer, EncryptionMethods, pc, nego,
                   TcpConnected, SecurityConnected, host, sState, sSelected,
                   sUseRdpSecurityLayer, broken>>

-----------------------------------------------------------------------------
ClientStep ==
    \/ Attempt \/ RecvResponse \/ RecvFailure \/ RecvPlain
    \/ SecurityConnect \/ SecurityRefused \/ ReadServerSecurity

ServerStep ==
    ServerAcceptNego \/ OtherAcceptNego \/ ServerPreconnection \/ ServerSecurityData

Next ==
    \/ \E h \in Hosts : Connect(h)
    \/ ClientStep \/ ServerStep
    \/ TransportFails \/ Disconnect

Spec == Init /\ [][Next]_vars

\* Both sides run, and a read on a connection that the server has closed ends.
FairSpec ==
    /\ Spec
    /\ WF_vars(ClientStep) /\ WF_vars(ServerStep)
    /\ WF_vars(sState = "none" /\ TransportFails)

-----------------------------------------------------------------------------
(***************************************************************************)
(* Properties.                                                             *)
(***************************************************************************)

\* What the client's settings and the server's have in common.
Common == settings.protocols \cap host.protocols

\* Against this repository's server the client ends up with the strongest
\* protocol that both sides have enabled, over however many attempts, and
\* whatever an earlier connection has left behind.  In particular a broken
\* transport never makes it settle for a weaker one.
HighestCommon ==
    pc \in {"security", "gcc", "up"} /\ settings.NegotiateSecurityLayer
        /\ host.kind = "freerdp"
      => Common # {} /\ SelectedProtocol = Highest(Common)

\* The inductive invariant behind HighestCommon: a protocol that is being tried
\* is one of the client's, everything stronger is known not to be common, and
\* an answer that is on its way is the answer to this attempt.
NegoInv ==
    /\ pc = "off" => c2s = <<>> /\ s2c = <<>>
    /\ pc = "attempt" =>
         s2c = <<>> /\ \A i \in DOMAIN c2s : c2s[i].type = "PRECONNECTION"
    /\ pc \in {"attempt", "wait"} =>
         /\ settings.NegotiateSecurityLayer
         /\ EnabledProtocols = settings.protocols
         /\ state \in settings.protocols
         /\ host.kind = "freerdp" => \A q \in Common : Rank[q] <= Rank[state]
    /\ pc = "wait" =>
         /\ \A i \in DOMAIN c2s :
              \/ c2s[i].type = "PRECONNECTION"
              \/ /\ c2s[i].type \in {"NEG_REQ", "REQUEST_PLAIN"}
                 /\ RequestedOf(c2s[i]) = Requested(state)
         /\ host.kind = "freerdp" /\ s2c # <<>> =>
              Head(s2c) = Answer(Selection(Requested(state)))
    /\ HighestCommon

\* Types (a failure code is never taken for a protocol), and the invariant of
\* the fallback chain.
Inv == TypeOK /\ NegoInv

\* ... and it gives up on such a server only if the two have nothing in common:
\* every attempt falls back far enough, no handshake is refused and no
\* cryptographic configuration is found invalid.
GivesUpOnlyIfIncompatible ==
    pc = "failed" /\ ~broken /\ settings.NegotiateSecurityLayer
        /\ ~settings.SendPreconnectionPdu /\ host.kind = "freerdp"
      => Common = {}

\* When the Connect Response has been read both sides use the RDP security
\* layer or neither does, with the same method, and never on top of TLS, also
\* when an earlier connection has set UseRdpSecurityLayer.
LayersAgree ==
    pc = "up" =>
        /\ UseRdpSecurityLayer = sUseRdpSecurityLayer
        /\ EncryptionMethods = sMethods
        /\ Cardinality(EncryptionMethods) = IF UseRdpSecurityLayer THEN 1 ELSE 0
        /\ UseRdpSecurityLayer => SelectedProtocol = "RDP"

\* Every negotiation comes to an end: the attempts do not go round.
NegoEnds == (pc = "attempt") ~> (pc \in {"up", "failed"})

\* nego_enable_*: "TRUE for enabled, FALSE for disabled".  The client settles
\* for no protocol that has been disabled.
DisabledNeverSelected ==
    pc = "security" => SelectedProtocol \in settings.protocols

\* The comment in rdp_server_accept_nego: "client and server aren't compatible",
\* and a failure packet is all that follows.
FailureEndsNegotiation == sState = "accept" => sSelected \notin Failures
=============================================================================

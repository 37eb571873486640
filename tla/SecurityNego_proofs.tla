------------------------- MODULE SecurityNego_proofs -------------------------
(***************************************************************************)
(* For every set of hosts and clients: the negotiation is type correct,    *)
(* against this repository's server it settles on the strongest common     *)
(* protocol and gives up only if there is none, and the two sides end up   *)
(* with the same security layer and the same encryption method.            *)
(***************************************************************************)
EXTENDS SecurityNego, FiniteSetTheorems, TLAPS

-----------------------------------------------------------------------------
(***************************************************************************)
(* The ranking of the protocols.                                           *)
(***************************************************************************)

\* The order in which nego_connect tries the protocols.
LEMMA RankValues ==
    Rank["EXT"] = 4 /\ Rank["NLA"] = 3 /\ Rank["TLS"] = 2 /\ Rank["RDP"] = 1
BY DEF Rank

\* The strongest protocol of a set that is not empty is one of the set, and
\* none of the set is stronger.
LEMMA HighestProps ==
    ASSUME NEW S \in SUBSET Protocols, S # {}
    PROVE  Highest(S) \in S /\ \A q \in S : Rank[q] <= Rank[Highest(S)]
<1>1. \E p \in S : \A q \in S : Rank[q] <= Rank[p]
  <2>1. CASE "EXT" \in S
    <3>1. \A q \in S : Rank[q] <= Rank["EXT"]
      BY RankValues DEF Protocols
    <3> QED BY <2>1, <3>1
  <2>2. CASE "EXT" \notin S /\ "NLA" \in S
    <3>1. \A q \in S : Rank[q] <= Rank["NLA"]
      BY <2>2, RankValues DEF Protocols
    <3> QED BY <2>2, <3>1
  <2>3. CASE "EXT" \notin S /\ "NLA" \notin S /\ "TLS" \in S
    <3>1. \A q \in S : Rank[q] <= Rank["TLS"]
      BY <2>3, RankValues DEF Protocols
    <3> QED BY <2>3, <3>1
  <2>4. CASE "EXT" \notin S /\ "NLA" \notin S /\ "TLS" \notin S
    <3>1. \A q \in S : q = "RDP"
      BY <2>4 DEF Protocols
    <3> QED BY <3>1, RankValues
  <2> QED BY <2>1, <2>2, <2>3, <2>4
<1> QED BY <1>1 DEF Highest

\* There is only one such protocol.
LEMMA HighestIs ==
    ASSUME NEW S \in SUBSET Protocols, NEW p \in S,
           \A q \in S : Rank[q] <= Rank[p]
    PROVE  Highest(S) = p
<1>1. Highest(S) \in S /\ \A q \in S : Rank[q] <= Rank[Highest(S)]
  BY HighestProps
<1>2. \A r, q \in Protocols : Rank[r] <= Rank[q] /\ Rank[q] <= Rank[r] => r = q
  BY RankValues DEF Protocols
<1> QED BY <1>1, <1>2

-----------------------------------------------------------------------------
(***************************************************************************)
(* Messages.                                                               *)
(***************************************************************************)

\* The fields of a message are those of its type.
LEMMA MessageFields ==
    ASSUME NEW m \in Messages
    PROVE  /\ m.type = "NEG_RSP" => m.selected \in Protocols
           /\ m.type = "NEG_FAILURE" => m.code \in Failures
           /\ m.type = "NEG_REQ" => m.protocols \in SUBSET Protocols
           /\ m.type = "CLIENT_SECURITY" => m.methods \in SUBSET Methods
           /\ m.type = "SERVER_SECURITY" =>
                m.methods \in SUBSET Methods /\ m.level \in Levels
BY DEF Messages

\* What the two sides send are messages.
LEMMA MessageIntro ==
    /\ \A t \in {"PRECONNECTION", "REQUEST_PLAIN", "CONFIRM_PLAIN"} :
         [type |-> t] \in Messages
    /\ \A p \in SUBSET Protocols : [type |-> "NEG_REQ", protocols |-> p] \in Messages
    /\ \A p \in Protocols : [type |-> "NEG_RSP", selected |-> p] \in Messages
    /\ \A c \in Failures : [type |-> "NEG_FAILURE", code |-> c] \in Messages
    /\ \A s \in SUBSET Methods :
         [type |-> "CLIENT_SECURITY", methods |-> s] \in Messages
    /\ \A s \in SUBSET Methods, l \in Levels :
         [type |-> "SERVER_SECURITY", methods |-> s, level |-> l] \in Messages
BY DEF Messages

\* Operations on the two queues.
LEMMA QueueFacts ==
    /\ <<>> \in Seq(Messages)
    /\ \A m \in Messages : <<m>> \in Seq(Messages)
    /\ \A s \in Seq(Messages), m \in Messages : Append(s, m) \in Seq(Messages)
    /\ \A s \in Seq(Messages) : s # <<>> =>
         Head(s) \in Messages /\ Tail(s) \in Seq(Messages)
OBVIOUS

\* The answer of this repository's server, and the protocols of an attempt.
LEMMA SelectionType ==
    ASSUME TypeOK, NEW r
    PROVE  Selection(r) \in {"NLA", "TLS", "RDP"} \cup Failures
BY SMTT(30) DEF Selection, Failures

LEMMA RequestedType ==
    ASSUME NEW p PROVE Requested(p) \in SUBSET Protocols
BY DEF Requested, Protocols

-----------------------------------------------------------------------------
(***************************************************************************)
(* Type correctness.                                                       *)
(***************************************************************************)

\* Facts on the constants.
LEMMA HostTypes ==
    ASSUME NEW h \in Hosts
    PROVE  /\ h.protocols \in SUBSET Protocols
           /\ h.level \in Levels
           /\ h.kind = "freerdp" => "EXT" \notin h.protocols
BY NegoAssumption

LEMMA ClientTypes ==
    ASSUME NEW c \in Clients
    PROVE  c.protocols \in SUBSET Protocols /\ c.methods \in SUBSET Methods
BY NegoAssumption

\* What FallBack leaves of the client's state.
LEMMA FallBackType ==
    ASSUME TypeOK, FallBack
    PROVE  /\ state' \in Attempts \cup {"INITIAL", "FAIL", "FINAL"}
           /\ pc' \in {"attempt", "failed"}
           /\ TcpConnected' \in BOOLEAN /\ SecurityConnected' \in BOOLEAN
           /\ sState' \in {"none", "INITIAL", "accept", "NEGO"}
           /\ c2s' \in Seq(Messages)
           /\ UNCHANGED <<sSelected, sUseRdpSecurityLayer, sLevel, sMethods>>
<1> DEFINE S == EnabledProtocols \cap Weaker(state)
<1>1. S \in SUBSET Protocols
  BY DEF TypeOK
<1>2. S # {} => Highest(S) \in Protocols
  BY <1>1, HighestProps
<1>3. /\ state' \in Attempts \cup {"INITIAL", "FAIL", "FINAL"}
      /\ pc' \in {"attempt", "failed"}
  BY <1>2 DEF FallBack, Attempts
<1>4. \/ UNCHANGED <<TcpConnected, SecurityConnected, peer, c2s>>
      \/ DropTransport
  BY DEF FallBack
<1> QED BY <1>3, <1>4, QueueFacts DEF TypeOK, DropTransport, NoPeer, peer

\* A new peer starts from its host's settings.
LEMMA NewPeerType ==
    ASSUME NEW h \in Hosts, NewPeer(h)
    PROVE  /\ sState' = "INITIAL" /\ sSelected' \in Protocols
           /\ sUseRdpSecurityLayer' \in BOOLEAN
           /\ sLevel' \in Levels /\ sMethods' \subseteq Methods
<1>1. sState' = "INITIAL" /\ sSelected' \in Protocols
  BY DEF NewPeer, Protocols
<1>2. sLevel' \in Levels
  <2>1. h.level \in Levels
    BY HostTypes
  <2> QED BY <2>1 DEF NewPeer
<1>3. sUseRdpSecurityLayer' = FALSE /\ sMethods' = {}
  BY DEF NewPeer
<1> QED BY <1>1, <1>2, <1>3

\* Every value that AcceptSettings writes has its type.
LEMMA AcceptSettingsType ==
    ASSUME TypeOK, sSelected' \in Protocols \cup Failures, AcceptSettings
    PROVE  sUseRdpSecurityLayer' \in BOOLEAN /\ sLevel' \in Levels
<1>1. CASE sSelected' = "RDP"
  <2>1. CASE host.LocalConnection
    BY <1>1, <2>1 DEF AcceptSettings, Levels
  <2>2. CASE ~host.LocalConnection
    BY <1>1, <2>2 DEF AcceptSettings, Levels, TypeOK
  <2> QED BY <2>1, <2>2
<1>2. CASE sSelected' \in {"NLA", "TLS"}
  BY <1>2 DEF AcceptSettings, Levels
<1>3. CASE sSelected' \notin {"NLA", "TLS", "RDP"}
  BY <1>3 DEF AcceptSettings, TypeOK
<1> QED BY <1>1, <1>2, <1>3

\* Every step of the negotiation keeps every variable in its type.
LEMMA TypeStep == TypeOK /\ [Next]_vars => TypeOK'
<1> SUFFICES ASSUME TypeOK, [Next]_vars PROVE TypeOK'
  OBVIOUS
<1> USE HostTypes, ClientTypes, QueueFacts, MessageIntro
<1>1. ASSUME NEW h \in Hosts, Connect(h) PROVE TypeOK'
  <2>1. settings.protocols # {} => Highest(settings.protocols) \in Protocols
    BY HighestProps DEF TypeOK
  <2>2. EnabledProtocols' \subseteq Protocols
    BY <1>1, <2>1 DEF Connect, TypeOK, Protocols
  <2>3. /\ state' \in Attempts \cup {"INITIAL", "FAIL", "FINAL"}
        /\ pc' \in {"failed", "attempt", "security"}
        /\ SelectedProtocol' \in Protocols
    BY <1>1, <2>1 DEF Connect, TypeOK, Attempts
  <2>4. \/ UNCHANGED <<TcpConnected, peer, c2s>>
        \/ /\ TcpConnected' = TRUE /\ NewPeer(h)
           /\ c2s' = <<[type |-> "PRECONNECTION"]>>
    BY <1>1 DEF Connect
  <2>5. /\ TcpConnected' \in BOOLEAN
        /\ sState' \in {"none", "INITIAL", "accept", "NEGO"}
        /\ sSelected' \in Protocols \cup Failures
        /\ sUseRdpSecurityLayer' \in BOOLEAN
        /\ sLevel' \in Levels /\ sMethods' \subseteq Methods
        /\ c2s' \in Seq(Messages)
    <3>1. CASE UNCHANGED <<TcpConnected, peer, c2s>>
      BY <3>1 DEF TypeOK, peer
    <3>2. CASE NewPeer(h) /\ TcpConnected' = TRUE
               /\ c2s' = <<[type |-> "PRECONNECTION"]>>
      BY <3>2, NewPeerType
    <3> QED BY <2>4, <3>1, <3>2
  <2>6. /\ host' = h /\ broken' = FALSE /\ sendNegoData' = FALSE
        /\ UNCHANGED <<settings, UseRdpSecurityLayer, EncryptionMethods,
                       SecurityConnected, s2c>>
    BY <1>1 DEF Connect
  <2> QED BY <2>2, <2>3, <2>5, <2>6 DEF TypeOK
<1>2. CASE Attempt
  <2>1. c2s' \in Seq(Messages)
    BY <1>2, RequestedType DEF Attempt, TypeOK
  <2>2. /\ sState' \in {"none", "INITIAL", "accept", "NEGO"}
        /\ sSelected' \in Protocols \cup Failures
        /\ sUseRdpSecurityLayer' \in BOOLEAN
        /\ sLevel' \in Levels /\ sMethods' \subseteq Methods
    <3>1. CASE TcpConnected
      BY <1>2, <3>1 DEF Attempt, TypeOK, peer
    <3>2. CASE ~TcpConnected
      <4>1. host \in Hosts /\ NewPeer(host)
        BY <1>2, <3>2 DEF Attempt, TypeOK
      <4> QED BY <4>1, NewPeerType
    <3> QED BY <3>1, <3>2
  <2> QED BY <1>2, <2>1, <2>2 DEF Attempt, TypeOK, nego
<1>3. CASE RecvResponse
  <2>1. SelectedProtocol' \in Protocols
    BY <1>3, MessageFields DEF RecvResponse, Receives, TypeOK
  <2>2. CASE Acceptable(SelectedProtocol')
    BY <1>3, <2>1, <2>2 DEF RecvResponse, TypeOK, peer
  <2>3. CASE ~Acceptable(SelectedProtocol')
    <3>1. FallBack
      BY <1>3, <2>3 DEF RecvResponse
    <3> QED BY <1>3, <2>1, <3>1, FallBackType DEF RecvResponse, TypeOK
  <2> QED BY <2>2, <2>3
<1>4. CASE RecvFailure
  BY <1>4, FallBackType DEF RecvFailure, TypeOK
<1>5. CASE RecvPlain
  <2>1. CASE "RDP" \in EnabledProtocols
    BY <1>5, <2>1 DEF RecvPlain, TypeOK, peer
  <2>2. CASE "RDP" \notin EnabledProtocols
    BY <1>5, <2>2, FallBackType DEF RecvPlain, TypeOK
  <2> QED BY <2>1, <2>2
<1>6. CASE SecurityConnect
  <2>1. UseRdpSecurityLayer' \in BOOLEAN /\ EncryptionMethods' \in SUBSET Methods
    BY <1>6 DEF SecurityConnect, SettleSettings, TypeOK
  <2>2. c2s' \in Seq(Messages)
    BY <1>6, <2>1 DEF SecurityConnect
  <2> QED BY <1>6, <2>1, <2>2 DEF SecurityConnect, TypeOK, nego
<1>7. CASE SecurityRefused
  <2>1. UseRdpSecurityLayer' \in BOOLEAN /\ EncryptionMethods' \in SUBSET Methods
    BY <1>7 DEF SecurityRefused, SettleSettings, TypeOK
  <2> QED BY <1>7, <2>1 DEF SecurityRefused, TypeOK, nego, peer
<1>8. CASE ReadServerSecurity
  <2>1. EncryptionMethods' \in SUBSET Methods
    BY <1>8, MessageFields DEF ReadServerSecurity, TypeOK
  <2>2. pc' \in {"up", "failed"} /\ UseRdpSecurityLayer' \in BOOLEAN
    BY <1>8 DEF ReadServerSecurity, TypeOK
  <2> QED BY <1>8, <2>1, <2>2 DEF ReadServerSecurity, TypeOK, nego, peer
<1>9. CASE ServerAcceptNego
  <2>1. sSelected' \in {"NLA", "TLS", "RDP"} \cup Failures
    BY <1>9, SelectionType DEF ServerAcceptNego
  <2>2. Answer(sSelected') \in Messages
    BY <2>1 DEF Answer, Protocols
  <2>3. sUseRdpSecurityLayer' \in BOOLEAN /\ sLevel' \in Levels
    BY <1>9, <2>1, AcceptSettingsType DEF ServerAcceptNego, Protocols
  <2>4. c2s' \in Seq(Messages)
    BY <1>9 DEF ServerAcceptNego, ServerReads, TypeOK
  <2> QED BY <1>9, <2>1, <2>2, <2>3, <2>4 DEF ServerAcceptNego, TypeOK, nego, Protocols
<1>10. CASE OtherAcceptNego
  <2> DEFINE asked == RequestedOf(Head(c2s))
             common == host.protocols \cap (IF asked = {} THEN {"RDP"} ELSE asked)
  <2>1. common # {} => Highest(common) \in Protocols
    <3>1. common \in SUBSET Protocols
      <4>1. host.protocols \in SUBSET Protocols
        BY DEF TypeOK
      <4> QED BY <4>1
    <3> HIDE DEF common
    <3> QED BY <3>1, HighestProps
  <2>2. /\ sSelected' \in Protocols \cup Failures
        /\ s2c' \in Seq(Messages)
        /\ sState' \in {"none", "accept", "NEGO"}
    <3>1. CASE common = {}
      BY <1>10, <3>1 DEF OtherAcceptNego
    <3>2. CASE common # {}
      BY <1>10, <2>1, <3>2 DEF OtherAcceptNego
    <3> QED BY <3>1, <3>2
  <2>3. sUseRdpSecurityLayer' \in BOOLEAN /\ sLevel' \in Levels
    BY <1>10, <2>2, AcceptSettingsType DEF OtherAcceptNego
  <2>4. c2s' \in Seq(Messages)
    BY <1>10 DEF OtherAcceptNego, ServerReads, TypeOK
  <2> HIDE DEF asked, common
  <2> QED BY <1>10, <2>2, <2>3, <2>4 DEF OtherAcceptNego, TypeOK, nego
<1>11. CASE ServerPreconnection
  <2>1. c2s' \in Seq(Messages)
    BY <1>11 DEF ServerPreconnection, ServerReads, TypeOK
  <2> QED BY <1>11, <2>1 DEF ServerPreconnection, NoPeer, TypeOK, nego, peer
<1>12. CASE ServerSecurityData
  <2>1. sLevel' \in Levels
    BY <1>12 DEF ServerSecurityData, TypeOK, Levels
  <2>2. sMethods' \in SUBSET Methods
    BY <1>12 DEF ServerSecurityData, Method, Methods
  <2>3. c2s' \in Seq(Messages)
    BY <1>12 DEF ServerSecurityData, ServerReads, TypeOK
  <2>4. s2c' \in Seq(Messages)
    BY <1>12, <2>1, <2>2 DEF ServerSecurityData
  <2> QED BY <1>12, <2>1, <2>2, <2>3, <2>4 DEF ServerSecurityData, TypeOK, nego
<1>13. CASE TransportFails
  <2>1. UseRdpSecurityLayer' \in BOOLEAN /\ EncryptionMethods' \in SUBSET Methods
    BY <1>13 DEF TransportFails, SettleSettings, TypeOK
  <2> QED BY <1>13, <2>1 DEF TransportFails, TypeOK, peer
<1>14. CASE Disconnect
  BY <1>14 DEF Disconnect, DropTransport, NoPeer, TypeOK, Protocols
<1>15. CASE UNCHANGED vars
  BY <1>15 DEF vars, nego, peer, TypeOK
<1> QED BY <1>1, <1>2, <1>3, <1>4, <1>5, <1>6, <1>7, <1>8, <1>9, <1>10, <1>11,
           <1>12, <1>13, <1>14, <1>15 DEF Next, ClientStep, ServerStep

\* The negotiation is type correct whatever hosts and clients there are: in
\* particular a failure code is never taken for a protocol (nego_recv), and
\* what gcc.c reads from a security data block is a set of encryption methods.
THEOREM TypeCorrect == Spec => []TypeOK
<1>1. Init => TypeOK
  BY HostTypes, ClientTypes, QueueFacts DEF Init, TypeOK, Protocols, Levels
<1> QED BY <1>1, TypeStep, PTL DEF Spec

-----------------------------------------------------------------------------
(***************************************************************************)
(* The strongest common protocol.                                          *)
(***************************************************************************)

\* The bits of a request.
LEMMA RequestedValues ==
    /\ Requested("EXT") = {"NLA", "TLS", "EXT"}
    /\ Requested("NLA") = {"NLA", "TLS"}
    /\ Requested("TLS") = {"TLS"}
    /\ Requested("RDP") = {}
BY DEF Requested

\* rdp_server_accept_nego, case by case.
LEMMA SelectionCases ==
    ASSUME NEW r
    PROVE  \/ /\ Selection(r) = "NLA" /\ "NLA" \in r /\ "NLA" \in host.protocols
           \/ /\ Selection(r) = "TLS" /\ "TLS" \in r /\ "TLS" \in host.protocols
              /\ ~("NLA" \in r /\ "NLA" \in host.protocols)
           \/ /\ Selection(r) = "RDP" /\ r = {} /\ "RDP" \in host.protocols
           \/ /\ Selection(r) \in Failures
              /\ ~("NLA" \in r /\ "NLA" \in host.protocols)
              /\ ~("TLS" \in r /\ "TLS" \in host.protocols)
              /\ ~(r = {} /\ "RDP" \in host.protocols)
BY DEF Selection, Failures

\* A failure code is no protocol.
LEMMA FailuresAreNoProtocols == \A f \in Failures : f \notin Protocols
BY DEF Failures, Protocols

\* What one attempt at the client's protocol p tells: the server's selection is
\* the strongest common protocol, or p is not common.
LEMMA AttemptOutcome ==
    ASSUME TypeOK, host.kind = "freerdp",
           NEW p \in settings.protocols,
           \A q \in Common : Rank[q] <= Rank[p]
    PROVE  LET sel == Selection(Requested(p))
           IN  /\ sel # "EXT"
               /\ sel \in settings.protocols => Common # {} /\ sel = Highest(Common)
               /\ sel \notin settings.protocols => Common \subseteq Weaker(p)
<1> DEFINE sel == Selection(Requested(p))
<1>1. /\ settings.protocols \in SUBSET Protocols
      /\ host.protocols \in SUBSET Protocols
      /\ "EXT" \notin host.protocols
  BY HostTypes, ClientTypes DEF TypeOK
<1>2. Common \in SUBSET Protocols
  BY <1>1 DEF Common
<1>3. sel \in {"NLA", "TLS", "RDP"} \cup Failures
  BY SelectionType
<1>4. sel # "EXT"
  BY <1>3 DEF Failures
<1>5. ASSUME sel \in settings.protocols
      PROVE  Common # {} /\ sel = Highest(Common)
  <2>1. sel \in Common /\ \A q \in Common : Rank[q] <= Rank[sel]
    <3>1. sel \notin Failures
      BY <1>1, <1>5, FailuresAreNoProtocols
    <3>2. CASE p = "EXT"
      BY <1>1, <1>5, <3>1, <3>2, SelectionCases, RequestedValues, RankValues
         DEF Common, Protocols
    <3>3. CASE p = "NLA"
      BY <1>1, <1>5, <3>1, <3>3, SelectionCases, RequestedValues, RankValues
         DEF Common, Protocols
    <3>4. CASE p = "TLS"
      BY <1>1, <1>5, <3>1, <3>4, SelectionCases, RequestedValues, RankValues
         DEF Common, Protocols
    <3>5. CASE p = "RDP"
      BY <1>1, <1>5, <3>1, <3>5, SelectionCases, RequestedValues, RankValues
         DEF Common, Protocols
    <3> QED BY <1>1, <3>2, <3>3, <3>4, <3>5 DEF Protocols
  <2> HIDE DEF sel
  <2> QED BY <1>2, <2>1, HighestIs
<1>6. ASSUME sel \notin settings.protocols
      PROVE  p \notin host.protocols
  <2>1. CASE p = "EXT"
    BY <1>1, <2>1
  <2>2. CASE p = "NLA"
    BY <1>6, <2>2, SelectionCases, RequestedValues
  <2>3. CASE p = "TLS"
    BY <1>6, <2>3, SelectionCases, RequestedValues
  <2>4. CASE p = "RDP"
    BY <1>6, <2>4, SelectionCases, RequestedValues
  <2> QED BY <1>1, <2>1, <2>2, <2>3, <2>4 DEF Protocols
<1>7. ASSUME p \notin host.protocols
      PROVE  Common \subseteq Weaker(p)
  <2>1. \A q \in Common : q # p
    BY <1>7 DEF Common
  <2>2. \A q, r \in Protocols : Rank[q] <= Rank[r] /\ q # r => Rank[q] < Rank[r]
    BY RankValues DEF Protocols
  <2> QED BY <1>1, <1>2, <2>1, <2>2 DEF Weaker
<1> QED BY <1>4, <1>5, <1>6, <1>7

\* After a fallback the invariant holds of the next attempt.
LEMMA FallBackInv ==
    ASSUME TypeOK, FallBack, settings.NegotiateSecurityLayer,
           EnabledProtocols = settings.protocols, state \in settings.protocols,
           host.kind = "freerdp" => Common \subseteq Weaker(state),
           s2c' = <<>>, UNCHANGED <<settings, host, EnabledProtocols>>
    PROVE  NegoInv'
<1> DEFINE S == EnabledProtocols \cap Weaker(state)
<1>1. settings.protocols \in SUBSET Protocols
  BY ClientTypes DEF TypeOK
<1>2. S \in SUBSET Protocols
  BY <1>1
<1>3. CASE S = {}
  <2>1. pc' = "failed"
    BY <1>3 DEF FallBack
  <2> QED BY <2>1 DEF NegoInv, HighestCommon
<1>4. CASE S # {}
  <2>1. pc' = "attempt" /\ state' = Highest(S)
    BY <1>4 DEF FallBack
  <2>2. Highest(S) \in S /\ \A q \in S : Rank[q] <= Rank[Highest(S)]
    BY <1>2, <1>4, HighestProps
  <2>3. state # "RDP"
    <3>1. \A q \in Protocols : ~(Rank[q] < 1)
      BY RankValues DEF Protocols
    <3> QED BY <1>4, <3>1, RankValues DEF Weaker
  <2>4. c2s' = <<>>
    BY <2>3 DEF FallBack, DropTransport
  <2>5. Common' = Common /\ Common \subseteq settings.protocols
    BY DEF Common
  <2>6. host.kind = "freerdp" => Common \subseteq S
    BY <2>5
  <2>7. host'.kind = "freerdp" => \A q \in Common' : Rank[q] <= Rank[state']
    <3> HIDE DEF S
    <3> QED BY <2>1, <2>2, <2>5, <2>6
  <2>8. state' \in settings'.protocols
    BY <2>1, <2>2
  <2>9. EnabledProtocols' = settings'.protocols /\ settings'.NegotiateSecurityLayer
    OBVIOUS
  <2>10. DOMAIN c2s' = {}
    BY <2>4
  <2> QED BY <2>1, <2>4, <2>7, <2>8, <2>9, <2>10 DEF NegoInv, HighestCommon
<1> QED BY <1>3, <1>4

\* The elements of the queues after the operations of the two sides.
LEMMA QueueElements ==
    ASSUME NEW s \in Seq(Messages), NEW m \in Messages
    PROVE  /\ s # <<>> => 1 \in DOMAIN s /\ Head(s) = s[1]
           /\ s # <<>> => \A i \in DOMAIN Tail(s) :
                             i + 1 \in DOMAIN s /\ Tail(s)[i] = s[i + 1]
           /\ \A i \in DOMAIN Append(s, m) :
                Append(s, m)[i] = m \/ (i \in DOMAIN s /\ Append(s, m)[i] = s[i])
OBVIOUS

\* A server that reads a request reads the one of the current attempt.
LEMMA ReadsRequest ==
    ASSUME TypeOK, NegoInv, c2s # <<>>, Head(c2s).type # "PRECONNECTION"
    PROVE  /\ pc # "off" /\ pc # "attempt"
           /\ pc = "wait" => /\ Head(c2s).type \in {"NEG_REQ", "REQUEST_PLAIN"}
                             /\ RequestedOf(Head(c2s)) = Requested(state)
<1>1. 1 \in DOMAIN c2s /\ Head(c2s) = c2s[1]
  BY DEF TypeOK
<1> QED BY <1>1 DEF NegoInv

\* The answer to an attempt depends on the attempt and the host only.
LEMMA AnswerUnchanged ==
    ASSUME UNCHANGED <<state, host>>
    PROVE  Answer(Selection(Requested(state)))' = Answer(Selection(Requested(state)))
<1>1. Requested(state)' = Requested(state)
  OBVIOUS
<1>2. Selection(Requested(state))' = Selection(Requested(state))
  BY <1>1 DEF Selection
<1> QED BY <1>2 DEF Answer

\* Once a request has been read the rest of the queue is as before.
LEMMA ReadsTail ==
    ASSUME TypeOK, NegoInv, pc = "wait", c2s # <<>>
    PROVE  \A i \in DOMAIN Tail(c2s) :
             \/ Tail(c2s)[i].type = "PRECONNECTION"
             \/ /\ Tail(c2s)[i].type \in {"NEG_REQ", "REQUEST_PLAIN"}
                /\ RequestedOf(Tail(c2s)[i]) = Requested(state)
<1>1. \A i \in DOMAIN Tail(c2s) : i + 1 \in DOMAIN c2s /\ Tail(c2s)[i] = c2s[i + 1]
  BY DEF TypeOK
<1> QED BY <1>1 DEF NegoInv

\* NegoInv is inductive, given the types.
LEMMA NegoStep == TypeOK /\ NegoInv /\ [Next]_vars => NegoInv'
<1> SUFFICES ASSUME TypeOK, NegoInv, [Next]_vars PROVE NegoInv'
  OBVIOUS
<1>a. ASSUME pc' \in {"failed", "up"}, pc' = "up" => pc = "gcc",
             UNCHANGED <<settings, host, SelectedProtocol>>
      PROVE  NegoInv'
  BY <1>a DEF NegoInv, HighestCommon, Common
<1>1. ASSUME NEW h \in Hosts, Connect(h) PROVE NegoInv'
  <2>1. CASE settings.protocols = {}
    BY <1>1, <2>1 DEF Connect, NegoInv, HighestCommon
  <2>2. CASE settings.protocols # {} /\ ~settings.NegotiateSecurityLayer
    BY <1>1, <2>2 DEF Connect, NegoInv, HighestCommon
  <2>3. CASE settings.protocols # {} /\ settings.NegotiateSecurityLayer
    <3>1. /\ pc' = "attempt" /\ state' = Highest(settings.protocols)
          /\ EnabledProtocols' = settings.protocols /\ settings' = settings
          /\ s2c' = s2c /\ pc = "off"
      BY <1>1, <2>3 DEF Connect
    <3>2. settings.protocols \in SUBSET Protocols
      BY ClientTypes DEF TypeOK
    <3>3. /\ state' \in settings.protocols
          /\ \A q \in settings.protocols : Rank[q] <= Rank[state']
      BY <2>3, <3>1, <3>2, HighestProps
    <3>4. c2s' = <<>> \/ c2s' = <<[type |-> "PRECONNECTION"]>>
      BY <1>1, <2>3, <3>1 DEF Connect, NegoInv
    <3>5. \A i \in DOMAIN c2s' : c2s'[i].type = "PRECONNECTION"
      BY <3>4
    <3>6. s2c' = <<>>
      BY <3>1 DEF NegoInv
    <3>7. \A q \in Common' : Rank[q] <= Rank[state']
      BY <3>1, <3>3 DEF Common
    <3> QED BY <2>3, <3>1, <3>3, <3>5, <3>6, <3>7 DEF NegoInv, HighestCommon
  <2> QED BY <2>1, <2>2, <2>3
<1>2. CASE Attempt
  <2> DEFINE m == IF Requested(state) # {} \/ sendNegoData
                    THEN [type |-> "NEG_REQ", protocols |-> Requested(state)]
                    ELSE [type |-> "REQUEST_PLAIN"]
  <2>1. /\ pc = "attempt" /\ pc' = "wait" /\ c2s' = Append(c2s, m)
        /\ UNCHANGED <<settings, state, EnabledProtocols, host, s2c>>
    BY <1>2 DEF Attempt, nego
  <2>2. m.type \in {"NEG_REQ", "REQUEST_PLAIN"} /\ RequestedOf(m) = Requested(state)
    BY DEF RequestedOf
  <2>3. m \in Messages
    BY RequestedType, MessageIntro
  <2> HIDE DEF m
  <2>4. \A i \in DOMAIN c2s' :
          \/ c2s'[i].type = "PRECONNECTION"
          \/ /\ c2s'[i].type \in {"NEG_REQ", "REQUEST_PLAIN"}
             /\ RequestedOf(c2s'[i]) = Requested(state)
    <3>1. \A i \in DOMAIN c2s' : c2s'[i] = m \/ (i \in DOMAIN c2s /\ c2s'[i] = c2s[i])
      BY <2>1, <2>3, QueueElements DEF TypeOK
    <3> QED BY <2>1, <2>2, <3>1 DEF NegoInv
  <2>5. s2c' = <<>>
    BY <2>1 DEF NegoInv
  <2>6. \A i \in DOMAIN c2s' :
          \/ c2s'[i].type = "PRECONNECTION"
          \/ /\ c2s'[i].type \in {"NEG_REQ", "REQUEST_PLAIN"}
             /\ RequestedOf(c2s'[i]) = Requested(state')
    BY <2>1, <2>4
  <2>7. /\ settings.NegotiateSecurityLayer /\ EnabledProtocols = settings.protocols
        /\ state \in settings.protocols
        /\ host.kind = "freerdp" => \A q \in Common : Rank[q] <= Rank[state]
    BY <2>1 DEF NegoInv
  <2>8. Common' = Common
    BY <2>1 DEF Common
  <2> QED BY <2>1, <2>5, <2>6, <2>7, <2>8 DEF NegoInv, HighestCommon, RequestedOf
<1>b. ASSUME pc = "wait"
      PROVE  /\ settings.NegotiateSecurityLayer
             /\ EnabledProtocols = settings.protocols /\ state \in settings.protocols
             /\ host.kind = "freerdp" => \A q \in Common : Rank[q] <= Rank[state]
             /\ host.kind = "freerdp" /\ s2c # <<>> =>
                  Head(s2c) = Answer(Selection(Requested(state)))
  BY <1>b DEF NegoInv
<1>3. CASE RecvResponse
  <2>1. /\ pc = "wait" /\ s2c # <<>> /\ Head(s2c).type = "NEG_RSP"
        /\ SelectedProtocol' = Head(s2c).selected /\ s2c' = <<>>
        /\ UNCHANGED <<settings, host, EnabledProtocols>>
    BY <1>3 DEF RecvResponse, Receives
  <2>2. host.kind = "freerdp" =>
          SelectedProtocol' = Selection(Requested(state))
    BY <1>b, <2>1 DEF Answer
  <2>3. CASE Acceptable(SelectedProtocol')
    <3>1. pc' = "security"
      BY <1>3, <2>3 DEF RecvResponse
    <3>2. ASSUME host.kind = "freerdp"
          PROVE  Common # {} /\ SelectedProtocol' = Highest(Common)
      <4>1. SelectedProtocol' = "EXT" \/ SelectedProtocol' \in settings.protocols
        BY <1>b, <2>1, <2>3 DEF Acceptable
      <4> QED BY <1>b, <2>1, <2>2, <3>2, <4>1, AttemptOutcome
    <3>3. Common' = Common
      BY <2>1 DEF Common
    <3> QED BY <2>1, <3>1, <3>2, <3>3 DEF NegoInv, HighestCommon
  <2>4. CASE ~Acceptable(SelectedProtocol')
    <3>1. FallBack
      BY <1>3, <2>4 DEF RecvResponse
    <3>2. host.kind = "freerdp" => Common \subseteq Weaker(state)
      <4>1. SelectedProtocol' \notin settings.protocols
        BY <1>b, <2>1, <2>4 DEF Acceptable
      <4> QED BY <1>b, <2>1, <2>2, <4>1, AttemptOutcome
    <3> QED BY <1>b, <2>1, <3>1, <3>2, FallBackInv
  <2> QED BY <2>3, <2>4
<1>4. CASE RecvFailure
  <2>1. /\ pc = "wait" /\ s2c # <<>> /\ Head(s2c).type = "NEG_FAILURE"
        /\ FallBack /\ s2c' = <<>>
        /\ UNCHANGED <<settings, host, EnabledProtocols>>
    BY <1>4 DEF RecvFailure, Receives
  <2>2. host.kind = "freerdp" => Selection(Requested(state)) \in Failures
    BY <1>b, <2>1 DEF Answer
  <2>3. settings.protocols \in SUBSET Protocols
    BY ClientTypes DEF TypeOK
  <2>4. host.kind = "freerdp" => Common \subseteq Weaker(state)
    BY <1>b, <2>1, <2>2, <2>3, FailuresAreNoProtocols, AttemptOutcome
  <2> QED BY <1>b, <2>1, <2>4, FallBackInv
<1>5. CASE RecvPlain
  <2>1. /\ pc = "wait" /\ s2c # <<>> /\ Head(s2c).type = "CONFIRM_PLAIN"
        /\ s2c' = <<>> /\ UNCHANGED <<settings, host, EnabledProtocols>>
    BY <1>5 DEF RecvPlain, Receives
  <2>2. host.kind # "freerdp"
    BY <1>b, <2>1 DEF Answer
  <2>3. CASE "RDP" \in EnabledProtocols
    BY <1>5, <2>1, <2>2, <2>3 DEF RecvPlain, NegoInv, HighestCommon
  <2>4. CASE "RDP" \notin EnabledProtocols
    <3>1. FallBack
      BY <1>5, <2>4 DEF RecvPlain
    <3> QED BY <1>b, <2>1, <2>2, <3>1, FallBackInv
  <2> QED BY <2>3, <2>4
<1>6. CASE SecurityConnect
  BY <1>6 DEF SecurityConnect, nego, NegoInv, HighestCommon, Common
<1>7. CASE SecurityRefused
  BY <1>7, <1>a DEF SecurityRefused, nego
<1>8. CASE ReadServerSecurity
  BY <1>8, <1>a DEF ReadServerSecurity, nego
<1>9. CASE ServerAcceptNego
  <2>1. /\ ServerReads("freerdp", {"NEG_REQ", "REQUEST_PLAIN"})
        /\ s2c' = <<Answer(Selection(RequestedOf(Head(c2s))))>>
        /\ UNCHANGED <<settings, pc, state, EnabledProtocols, SelectedProtocol, host>>
    BY <1>9 DEF ServerAcceptNego, nego
  <2>3. /\ c2s # <<>> /\ c2s' = Tail(c2s)
        /\ Head(c2s).type \in {"NEG_REQ", "REQUEST_PLAIN"}
    BY <2>1 DEF ServerReads
  <2>2. /\ pc # "off" /\ pc # "attempt"
        /\ pc = "wait" => RequestedOf(Head(c2s)) = Requested(state)
    BY <2>3, ReadsRequest
  <2>4. CASE pc = "wait"
    <3>1. Head(s2c') = Answer(Selection(Requested(state)))'
      BY <2>1, <2>2, <2>4, AnswerUnchanged
    <3>2. \A i \in DOMAIN c2s' :
            \/ c2s'[i].type = "PRECONNECTION"
            \/ /\ c2s'[i].type \in {"NEG_REQ", "REQUEST_PLAIN"}
               /\ RequestedOf(c2s'[i]) = Requested(state')
      BY <2>1, <2>3, <2>4, ReadsTail
    <3> QED BY <1>b, <2>1, <2>4, <3>1, <3>2 DEF NegoInv, HighestCommon, Common
  <2>5. CASE pc # "wait"
    BY <2>1, <2>2, <2>5 DEF NegoInv, HighestCommon, Common
  <2> QED BY <2>4, <2>5
<1>10. CASE OtherAcceptNego
  <2>1. /\ ServerReads("other", {"NEG_REQ", "REQUEST_PLAIN"})
        /\ UNCHANGED <<settings, pc, state, EnabledProtocols, SelectedProtocol, host>>
    BY <1>10 DEF OtherAcceptNego, nego
  <2>a. /\ c2s # <<>> /\ c2s' = Tail(c2s) /\ host.kind = "other"
        /\ Head(c2s).type \in {"NEG_REQ", "REQUEST_PLAIN"}
    BY <2>1 DEF ServerReads
  <2>2. /\ pc # "off" /\ pc # "attempt" /\ host.kind # "freerdp"
        /\ c2s # <<>> /\ c2s' = Tail(c2s)
    BY <2>a, ReadsRequest
  <2>3. CASE pc = "wait"
    <3>1. \A i \in DOMAIN c2s' :
            \/ c2s'[i].type = "PRECONNECTION"
            \/ /\ c2s'[i].type \in {"NEG_REQ", "REQUEST_PLAIN"}
               /\ RequestedOf(c2s'[i]) = Requested(state')
      BY <2>1, <2>2, <2>3, ReadsTail
    <3> QED BY <1>b, <2>1, <2>2, <2>3, <3>1 DEF NegoInv, HighestCommon
  <2>4. CASE pc # "wait"
    BY <2>1, <2>2, <2>4 DEF NegoInv, HighestCommon
  <2> QED BY <2>3, <2>4
<1>11. CASE ServerPreconnection
  <2>1. /\ c2s # <<>> /\ c2s' = Tail(c2s) /\ c2s \in Seq(Messages)
        /\ UNCHANGED <<settings, pc, state, EnabledProtocols, SelectedProtocol,
                       host, s2c>>
    BY <1>11 DEF ServerPreconnection, ServerReads, TypeOK, nego
  <2>2. \A i \in DOMAIN c2s' : i + 1 \in DOMAIN c2s /\ c2s'[i] = c2s[i + 1]
    BY <2>1
  <2>3. CASE pc = "wait"
    <3>1. \A i \in DOMAIN c2s' :
            \/ c2s'[i].type = "PRECONNECTION"
            \/ /\ c2s'[i].type \in {"NEG_REQ", "REQUEST_PLAIN"}
               /\ RequestedOf(c2s'[i]) = Requested(state')
      BY <2>1, <2>3, ReadsTail
    <3>2. host.kind = "freerdp" /\ s2c # <<>> =>
            Head(s2c') = Answer(Selection(Requested(state)))'
      BY <1>b, <2>1, <2>3, AnswerUnchanged
    <3> QED BY <1>b, <2>1, <2>3, <3>1, <3>2 DEF NegoInv, HighestCommon, Common
  <2>4. CASE pc = "attempt"
    <3>1. \A i \in DOMAIN c2s' : c2s'[i].type = "PRECONNECTION"
      BY <2>2, <2>4 DEF NegoInv
    <3> QED BY <2>1, <2>4, <3>1 DEF NegoInv, HighestCommon, Common
  <2>5. CASE pc \notin {"wait", "attempt"}
    BY <2>1, <2>5 DEF NegoInv, HighestCommon, Common
  <2> QED BY <2>3, <2>4, <2>5
<1>12. CASE ServerSecurityData
  <2>1. /\ ServerReads(host.kind, {"CLIENT_SECURITY"})
        /\ UNCHANGED <<settings, pc, SelectedProtocol, host>>
    BY <1>12 DEF ServerSecurityData, nego
  <2>2. c2s # <<>> /\ Head(c2s).type = "CLIENT_SECURITY"
    BY <2>1 DEF ServerReads
  <2>3. pc \notin {"off", "attempt", "wait"}
    BY <2>1, <2>2, ReadsRequest
  <2> QED BY <2>1, <2>3 DEF NegoInv, HighestCommon, Common
<1>13. CASE TransportFails
  BY <1>13, <1>a DEF TransportFails
<1>14. CASE Disconnect
  BY <1>14 DEF Disconnect, DropTransport, NegoInv, HighestCommon
<1>15. CASE UNCHANGED vars
  BY <1>15 DEF vars, nego, NegoInv, HighestCommon, Common, Selection, Answer, RequestedOf
<1> QED BY <1>1, <1>2, <1>3, <1>4, <1>5, <1>6, <1>7, <1>8, <1>9, <1>10, <1>11,
           <1>12, <1>13, <1>14, <1>15 DEF Next, ClientStep, ServerStep

\* The inductive invariant: in every state of nego_connect and of its fallback
\* chain no protocol stronger than the one being tried is common, and an answer
\* on its way is the one rdp_server_accept_nego gives to this attempt.
THEOREM NegotiationInvariant == Spec => []NegoInv
<1>1. Init => NegoInv
  BY DEF Init, NegoInv, HighestCommon
<1> QED BY <1>1, TypeCorrect, NegoStep, PTL DEF Spec

\* Whatever servers of this repository (rdp_server_accept_nego) and clients
\* (nego_connect) are configured, and however often a client reconnects, the
\* protocol it settles on is the strongest that both have enabled.
THEOREM NegotiatesHighest == Spec => []HighestCommon
<1>1. NegoInv => HighestCommon
  BY DEF NegoInv
<1> QED BY <1>1, NegotiationInvariant, PTL

\* The two invariants together, for every set of hosts and clients: what
\* nego_connect and rdp_server_accept_nego keep over any number of connections.
THEOREM Invariance == Spec => []Inv
  BY TypeCorrect, NegotiationInvariant, PTL DEF Inv

-----------------------------------------------------------------------------
(***************************************************************************)
(* The two sides of the MCS Connect exchange.                              *)
(***************************************************************************)

\* The queue q holds a message of this type.
Carries(q, type) == \E i \in DOMAIN q : q[i].type = type

\* The server uses the RDP security layer only over standard RDP security and
\* with a level, and never before it has read a request.
ServerLayer ==
    sUseRdpSecurityLayer =>
        sSelected = "RDP" /\ sLevel # "NONE" /\ sState # "INITIAL"

\* An answer is sent by a server that has made its selection, and the client's
\* security data block is not sent before the handshake.
Turns ==
    /\ pc = "off" => ~TcpConnected /\ sState = "none"
    /\ pc = "wait" /\ s2c # <<>> => sState # "INITIAL"
    /\ pc = "security" =>
         /\ s2c = <<>> /\ ~Carries(c2s, "CLIENT_SECURITY")
         /\ sState = "INITIAL" =>
              ~Carries(c2s, "NEG_REQ") /\ ~Carries(c2s, "REQUEST_PLAIN")

\* From the handshake on the client is at the layer of the server, and the
\* block that the server has sent is the configuration it has taken up.
Blocks ==
    /\ pc = "gcc" =>
         /\ sUseRdpSecurityLayer => SelectedProtocol = "RDP" /\ UseRdpSecurityLayer
         /\ \/ /\ s2c = <<>>
               /\ Len(c2s) = 1 /\ Head(c2s).type = "CLIENT_SECURITY"
            \/ /\ c2s = <<>>
               /\ s2c = <<[type |-> "SERVER_SECURITY", methods |-> sMethods,
                           level |-> sLevel]>>
               /\ sUseRdpSecurityLayer = (sLevel # "NONE")
               /\ ValidCrypto(sLevel, sMethods)
    /\ pc = "up" => c2s = <<>>
    /\ LayersAgree

\* A client that negotiates with a server of this repository, without a
\* preconnection PDU.
Plain ==
    /\ settings.NegotiateSecurityLayer /\ ~settings.SendPreconnectionPdu
    /\ host.kind = "freerdp"

\* Each attempt of such a client has a connection and a peer of its own, and it
\* goes on to the handshake with the peer that has selected its protocol.
Attempted ==
    Plain =>
      /\ pc = "attempt" => ~TcpConnected /\ c2s = <<>>
      /\ pc = "wait" =>
           /\ TcpConnected
           /\ \/ /\ s2c = <<>> /\ sState = "INITIAL"
                 /\ Len(c2s) = 1 /\ Head(c2s).type # "PRECONNECTION"
              \/ /\ s2c # <<>> /\ c2s = <<>> /\ sState \in {"accept", "NEGO"}
                 /\ sSelected = Selection(Requested(state))
      /\ pc = "security" =>
           /\ TcpConnected /\ c2s = <<>> /\ sState \in {"accept", "NEGO"}
           /\ sSelected = SelectedProtocol /\ SelectedProtocol # "EXT"

\* The inductive invariant of the two sides.
SidesInv ==
    /\ ServerLayer /\ Turns /\ Blocks
    /\ Attempted /\ GivesUpOnlyIfIncompatible

\* The settings of the server once it has answered.
LEMMA AcceptSettingsLayer ==
    ASSUME TypeOK, AcceptSettings, ~sUseRdpSecurityLayer,
           sSelected' \in Protocols \cup Failures
    PROVE  sUseRdpSecurityLayer' => sSelected' = "RDP" /\ sLevel' # "NONE"
<1>1. CASE sSelected' = "RDP" /\ host.LocalConnection
  BY <1>1 DEF AcceptSettings
<1>2. CASE sSelected' = "RDP" /\ ~host.LocalConnection
  BY <1>2 DEF AcceptSettings
<1>3. CASE sSelected' \in {"NLA", "TLS"}
  BY <1>3 DEF AcceptSettings
<1>4. CASE sSelected' \notin {"RDP", "NLA", "TLS"}
  BY <1>4 DEF AcceptSettings
<1> QED BY <1>1, <1>2, <1>3, <1>4

\* ServerLayer is inductive, given the types.
LEMMA ServerLayerStep ==
    ASSUME TypeOK, ServerLayer, [Next]_vars
    PROVE  ServerLayer'
<1>t. TypeOK'
  BY TypeStep
<1>a. ASSUME UNCHANGED <<sUseRdpSecurityLayer, sSelected, sLevel>>,
             sState' = sState \/ sState' \in {"none", "NEGO"}
      PROVE  ServerLayer'
  BY <1>a DEF ServerLayer
<1>b. ASSUME FallBack PROVE ServerLayer'
  BY <1>a, <1>b DEF FallBack, DropTransport, NoPeer, peer
<1>1. ASSUME NEW h \in Hosts, Connect(h) PROVE ServerLayer'
  <2>1. UNCHANGED peer \/ NewPeer(h)
    BY <1>1 DEF Connect
  <2> QED BY <1>a, <2>1 DEF NewPeer, peer, ServerLayer
<1>2. CASE Attempt
  <2>1. UNCHANGED peer \/ NewPeer(host)
    BY <1>2 DEF Attempt
  <2> QED BY <1>a, <2>1 DEF NewPeer, peer, ServerLayer
<1>3. CASE RecvResponse \/ RecvFailure \/ RecvPlain
  <2>1. UNCHANGED peer \/ FallBack
    BY <1>3 DEF RecvResponse, RecvFailure, RecvPlain
  <2> QED BY <1>a, <1>b, <2>1 DEF peer
<1>4. CASE SecurityConnect
  BY <1>4, <1>a DEF SecurityConnect
<1>5. CASE SecurityRefused \/ ReadServerSecurity \/ TransportFails
  BY <1>5, <1>a DEF SecurityRefused, ReadServerSecurity, TransportFails, peer
<1>6. CASE ServerAcceptNego \/ OtherAcceptNego
  <2>1. sState = "INITIAL" /\ AcceptSettings
    BY <1>6 DEF ServerAcceptNego, OtherAcceptNego
  <2>2. ~sUseRdpSecurityLayer
    BY <2>1 DEF ServerLayer
  <2>3. sState' # "INITIAL"
    BY <1>6 DEF ServerAcceptNego, OtherAcceptNego
  <2>4. sSelected' \in Protocols \cup Failures
    BY <1>t DEF TypeOK
  <2> QED BY <2>1, <2>2, <2>3, <2>4, AcceptSettingsLayer DEF ServerLayer
<1>7. CASE ServerPreconnection
  BY <1>7, <1>a DEF ServerPreconnection, NoPeer, peer
<1>8. CASE ServerSecurityData
  BY <1>8 DEF ServerSecurityData, ServerLayer
<1>9. CASE Disconnect
  BY <1>9, <1>a DEF Disconnect, DropTransport, NoPeer
<1>10. CASE UNCHANGED vars
  BY <1>10, <1>a DEF vars, peer
<1> QED BY <1>1, <1>2, <1>3, <1>4, <1>5, <1>6, <1>7, <1>8, <1>9, <1>10
        DEF Next, ClientStep, ServerStep

\* The queue once its first message has been read.
LEMMA CarriesTail ==
    ASSUME NEW q \in Seq(Messages), q # <<>>, NEW t
    PROVE  Carries(Tail(q), t) => Carries(q, t)
<1>1. \A i \in DOMAIN Tail(q) : i + 1 \in DOMAIN q /\ Tail(q)[i] = q[i + 1]
  OBVIOUS
<1> QED BY <1>1 DEF Carries

\* The first message of a queue is one that it carries.
LEMMA CarriesHead ==
    ASSUME NEW q \in Seq(Messages), q # <<>>
    PROVE  Carries(q, Head(q).type)
<1>1. 1 \in DOMAIN q /\ Head(q) = q[1]
  OBVIOUS
<1> QED BY <1>1 DEF Carries

\* While the client waits no security data block is on its way.
LEMMA NoBlockYet ==
    ASSUME NegoInv, pc = "wait"
    PROVE  ~Carries(c2s, "CLIENT_SECURITY")
BY DEF NegoInv, Carries

\* Turns is inductive, given the types and the invariant of the negotiation.
LEMMA TurnsStep ==
    ASSUME TypeOK, NegoInv, Turns, [Next]_vars
    PROVE  Turns'
<1>a. ASSUME pc' \notin {"off", "wait", "security"} PROVE Turns'
  BY <1>a DEF Turns
<1>b. ASSUME FallBack PROVE Turns'
  BY <1>a, <1>b DEF FallBack
<1>1. ASSUME NEW h \in Hosts, Connect(h) PROVE Turns'
  <2>1. CASE pc' # "security"
    BY <1>1, <1>a, <2>1 DEF Connect
  <2>2. CASE pc' = "security"
    <3>1. s2c' = <<>> /\ (c2s' = <<>> \/ c2s' = <<[type |-> "PRECONNECTION"]>>)
      BY <1>1 DEF Connect, NegoInv
    <3>2. \A i \in DOMAIN c2s' : c2s'[i].type = "PRECONNECTION"
      BY <3>1
    <3> QED BY <2>2, <3>1, <3>2 DEF Turns, Carries
  <2> QED BY <2>1, <2>2
<1>2. CASE Attempt
  BY <1>2 DEF Attempt, NegoInv, Turns
<1>3. CASE RecvResponse \/ RecvFailure \/ RecvPlain
  <2>1. pc = "wait" /\ s2c # <<>> /\ s2c' = <<>>
    BY <1>3 DEF RecvResponse, RecvFailure, RecvPlain, Receives
  <2>2. FallBack \/ (pc' = "security" /\ UNCHANGED <<peer, c2s>>)
    BY <1>3 DEF RecvResponse, RecvFailure, RecvPlain
  <2> QED BY <1>b, <2>1, <2>2, NoBlockYet DEF Turns, peer, Carries
<1>4. CASE SecurityConnect \/ SecurityRefused \/ ReadServerSecurity \/ TransportFails
  BY <1>4, <1>a DEF SecurityConnect, SecurityRefused, ReadServerSecurity,
                    TransportFails
<1>5. CASE ServerAcceptNego \/ OtherAcceptNego
  <2>1. /\ sState = "INITIAL" /\ sState' # "INITIAL" /\ pc' = pc
        /\ c2s # <<>> /\ Head(c2s).type \in {"NEG_REQ", "REQUEST_PLAIN"}
    BY <1>5 DEF ServerAcceptNego, OtherAcceptNego, ServerReads
  <2>2. Carries(c2s, Head(c2s).type)
    BY <2>1, CarriesHead DEF TypeOK
  <2>3. pc # "security" /\ pc # "off"
    BY <2>1, <2>2 DEF Turns
  <2> QED BY <2>1, <2>3 DEF Turns
<1>6. CASE ServerPreconnection
  <2>1. /\ sState = "INITIAL" /\ UNCHANGED <<pc, s2c, TcpConnected>>
        /\ c2s # <<>> /\ c2s' = Tail(c2s)
        /\ sState' = sState \/ sState' = "none"
    BY <1>6 DEF ServerPreconnection, ServerReads, NoPeer, peer
  <2>2. \A t : Carries(Tail(c2s), t) => Carries(c2s, t)
    BY <2>1, CarriesTail DEF TypeOK
  <2>3. pc = "security" =>
          /\ s2c' = <<>> /\ ~Carries(c2s', "CLIENT_SECURITY")
          /\ ~Carries(c2s', "NEG_REQ") /\ ~Carries(c2s', "REQUEST_PLAIN")
    BY <2>1, <2>2 DEF Turns
  <2> QED BY <2>1, <2>3 DEF Turns, Carries
<1>7. CASE ServerSecurityData
  <2>1. /\ sState = "NEGO" /\ UNCHANGED <<pc, sState>>
        /\ c2s # <<>> /\ Head(c2s).type = "CLIENT_SECURITY"
    BY <1>7 DEF ServerSecurityData, ServerReads
  <2>2. Carries(c2s, "CLIENT_SECURITY")
    BY <2>1, CarriesHead DEF TypeOK
  <2>3. pc \notin {"off", "wait", "security"}
    BY <2>1, <2>2, NoBlockYet DEF Turns
  <2> QED BY <1>a, <2>1, <2>3
<1>8. CASE Disconnect
  BY <1>8 DEF Disconnect, DropTransport, NoPeer, Turns
<1>9. CASE UNCHANGED vars
  BY <1>9 DEF vars, peer, Turns, Carries
<1> QED BY <1>1, <1>2, <1>3, <1>4, <1>5, <1>6, <1>7, <1>8, <1>9
        DEF Next, ClientStep, ServerStep

\* The method that gcc_write_server_security_data chooses is one that
\* gcc_read_server_security_data finds valid.
LEMMA MethodValid ==
    ASSUME NEW level \in Levels, NEW announced
    PROVE  ValidCrypto(level, Method(level, announced))
<1>1. Cardinality({"128BIT"}) = 1 /\ Cardinality({"56BIT"}) = 1
      /\ Cardinality({"40BIT"}) = 1 /\ Cardinality({"FIPS"}) = 1
  BY FS_Singleton
<1>2. CASE level = "NONE"
  BY <1>2 DEF ValidCrypto, Method
<1>3. CASE level = "FIPS"
  BY <1>3 DEF ValidCrypto, Method
<1>4. CASE level = "HIGH"
  BY <1>1, <1>4 DEF ValidCrypto, Method
<1>5. CASE level \notin {"NONE", "FIPS", "HIGH"}
  <2>1. Method(level, announced) \in {{"128BIT"}, {"56BIT"}, {"40BIT"}, {"FIPS"}}
    BY <1>5 DEF Method
  <2>2. Cardinality(Method(level, announced)) = 1
    BY <1>1, <2>1
  <2> QED BY <1>5, <2>2 DEF ValidCrypto
<1> QED BY <1>2, <1>3, <1>4, <1>5

\* The number of methods of a valid configuration.
LEMMA ValidSize ==
    ASSUME NEW level \in Levels, NEW methods, ValidCrypto(level, methods)
    PROVE  Cardinality(methods) = IF level = "NONE" THEN 0 ELSE 1
<1>1. Cardinality({}) = 0 /\ Cardinality({"FIPS"}) = 1
  BY FS_EmptySet, FS_Singleton
<1>2. CASE level = "NONE"
  BY <1>1, <1>2 DEF ValidCrypto
<1>3. CASE level = "FIPS"
  BY <1>1, <1>3 DEF ValidCrypto
<1>4. CASE level \notin {"NONE", "FIPS"}
  BY <1>4 DEF ValidCrypto
<1> QED BY <1>2, <1>3, <1>4

\* A client that is at standard RDP security sets up the layer.
LEMMA SettlesLayer ==
    ASSUME SettleSettings, SelectedProtocol = "RDP" PROVE UseRdpSecurityLayer'
BY DEF SettleSettings

\* Blocks is inductive, given the other parts.
LEMMA BlocksStep ==
    ASSUME TypeOK, NegoInv, ServerLayer, Turns, Blocks, [Next]_vars
    PROVE  Blocks'
<1>a. ASSUME pc' \notin {"gcc", "up"} PROVE Blocks'
  BY <1>a DEF Blocks, LayersAgree
<1>b. ASSUME FallBack PROVE Blocks'
  BY <1>a, <1>b DEF FallBack
<1>1. ASSUME NEW h \in Hosts, Connect(h) PROVE Blocks'
  BY <1>1, <1>a DEF Connect
<1>2. CASE Attempt \/ SecurityRefused \/ TransportFails \/ Disconnect
  BY <1>2, <1>a DEF Attempt, SecurityRefused, TransportFails, Disconnect
<1>3. CASE RecvResponse \/ RecvFailure \/ RecvPlain
  <2>1. FallBack \/ pc' = "security"
    BY <1>3 DEF RecvResponse, RecvFailure, RecvPlain
  <2> QED BY <1>a, <1>b, <2>1
<1>4. CASE SecurityConnect
  <2>1. /\ pc = "security" /\ pc' = "gcc" /\ s2c' = s2c
        /\ c2s' = <<[type |-> "CLIENT_SECURITY", methods |-> EncryptionMethods']>>
        /\ UNCHANGED <<SelectedProtocol, sSelected, sUseRdpSecurityLayer>>
        /\ SettleSettings /\ HandshakeReady(SelectedProtocol)
    BY <1>4 DEF SecurityConnect, nego
  <2>2. s2c' = <<>> /\ Len(c2s') = 1 /\ Head(c2s').type = "CLIENT_SECURITY"
    BY <2>1 DEF Turns
  <2>3. ASSUME sUseRdpSecurityLayer
        PROVE  SelectedProtocol = "RDP" /\ UseRdpSecurityLayer'
    <3>1. sSelected = "RDP" /\ sState # "INITIAL"
      BY <2>3 DEF ServerLayer
    <3>2. Layer(sSelected) = SelectedProtocol
      BY <2>1, <3>1 DEF HandshakeReady
    <3>3. SelectedProtocol = "RDP"
      BY <3>1, <3>2 DEF Layer
    <3> QED BY <2>1, <3>3, SettlesLayer
  <2> QED BY <2>1, <2>2, <2>3 DEF Blocks, LayersAgree
<1>5. CASE ReadServerSecurity
  <2>1. /\ pc = "gcc" /\ s2c # <<>> /\ pc' \in {"up", "failed"}
        /\ EncryptionMethods' = Head(s2c).methods
        /\ UNCHANGED <<SelectedProtocol, sUseRdpSecurityLayer, sMethods, c2s>>
    BY <1>5 DEF ReadServerSecurity, nego, peer
  <2>2. /\ c2s = <<>> /\ Head(s2c).methods = sMethods /\ Head(s2c).level = sLevel
        /\ sUseRdpSecurityLayer = (sLevel # "NONE")
        /\ ValidCrypto(sLevel, sMethods)
        /\ sUseRdpSecurityLayer => SelectedProtocol = "RDP" /\ UseRdpSecurityLayer
    BY <2>1 DEF Blocks
  <2>3. UseRdpSecurityLayer' = IF sLevel = "NONE" THEN FALSE ELSE UseRdpSecurityLayer
    BY <1>5, <2>2 DEF ReadServerSecurity
  <2>4. Cardinality(sMethods) = IF sLevel = "NONE" THEN 0 ELSE 1
    BY <2>2, ValidSize DEF TypeOK
  <2>5. CASE sLevel = "NONE"
    BY <2>1, <2>2, <2>3, <2>4, <2>5 DEF Blocks, LayersAgree
  <2>6. CASE sLevel # "NONE"
    BY <2>1, <2>2, <2>3, <2>4, <2>6 DEF Blocks, LayersAgree
  <2> QED BY <2>5, <2>6
<1>6. CASE ServerAcceptNego \/ OtherAcceptNego \/ ServerPreconnection
  <2>1. /\ pc' = pc /\ c2s # <<>>
        /\ Head(c2s).type \in {"NEG_REQ", "REQUEST_PLAIN", "PRECONNECTION"}
    BY <1>6 DEF ServerAcceptNego, OtherAcceptNego, ServerPreconnection, ServerReads
  <2>2. pc \notin {"gcc", "up"}
    BY <2>1 DEF Blocks
  <2> QED BY <1>a, <2>1, <2>2
<1>7. CASE ServerSecurityData
  <2>1. CASE pc \notin {"gcc", "up"}
    BY <1>7, <1>a, <2>1 DEF ServerSecurityData
  <2>2. CASE pc \in {"gcc", "up"}
    <3>1. /\ pc' = pc /\ c2s # <<>> /\ c2s' = Tail(c2s)
          /\ sLevel' = IF sUseRdpSecurityLayer THEN sLevel ELSE "NONE"
          /\ sMethods' = Method(sLevel', Head(c2s).methods)
          /\ s2c' = <<[type |-> "SERVER_SECURITY", methods |-> sMethods', level |-> sLevel']>>
          /\ UNCHANGED <<UseRdpSecurityLayer, SelectedProtocol, sUseRdpSecurityLayer>>
      BY <1>7 DEF ServerSecurityData, ServerReads, nego
    <3>2. pc = "gcc" /\ Len(c2s) = 1
      BY <2>2, <3>1 DEF Blocks
    <3>3. c2s' = <<>>
      BY <3>1, <3>2 DEF TypeOK
    <3>4. sLevel' \in Levels
      BY <3>1 DEF TypeOK, Levels
    <3>5. ValidCrypto(sLevel', sMethods')
      <4> DEFINE l == sLevel'
      <4>1. sMethods' = Method(l, Head(c2s).methods) /\ l \in Levels
        BY <3>1, <3>4
      <4> HIDE DEF l
      <4>2. ValidCrypto(l, sMethods')
        BY <4>1, MethodValid
      <4> QED BY <4>2 DEF l
    <3>6. sUseRdpSecurityLayer' = (sLevel' # "NONE")
      <4>1. CASE sUseRdpSecurityLayer
        BY <3>1, <4>1 DEF ServerLayer
      <4>2. CASE ~sUseRdpSecurityLayer
        BY <3>1, <4>2 DEF TypeOK
      <4> QED BY <4>1, <4>2
    <3>7. sUseRdpSecurityLayer' => SelectedProtocol' = "RDP" /\ UseRdpSecurityLayer'
      BY <3>1, <3>2 DEF Blocks
    <3>8. ValidCrypto(sLevel, sMethods)' = ValidCrypto(sLevel', sMethods')
      BY DEF ValidCrypto
    <3> QED BY <3>1, <3>2, <3>3, <3>5, <3>6, <3>7, <3>8 DEF Blocks, LayersAgree
  <2> QED BY <2>1, <2>2
<1>8. CASE UNCHANGED vars
  BY <1>8 DEF vars, nego, peer, Blocks, LayersAgree, ValidCrypto
<1> QED BY <1>1, <1>2, <1>3, <1>4, <1>5, <1>6, <1>7, <1>8
        DEF Next, ClientStep, ServerStep

\* A fallback from RDP gives up; any other drops the connection.
LEMMA FallBackDrops ==
    ASSUME TypeOK, FallBack, EnabledProtocols = settings.protocols,
           state \in settings.protocols
    PROVE  /\ pc' = "failed" \/ (pc' = "attempt" /\ ~TcpConnected' /\ c2s' = <<>>)
           /\ pc' = "failed" => settings.protocols \cap Weaker(state) = {}
<1> DEFINE S == EnabledProtocols \cap Weaker(state)
<1>1. CASE S = {}
  BY <1>1 DEF FallBack
<1>2. CASE S # {}
  <2>1. state # "RDP"
    <3>1. \A q \in Protocols : ~(Rank[q] < 1)
      BY RankValues DEF Protocols
    <3> QED BY <1>2, <3>1, RankValues DEF Weaker
  <2>2. DropTransport /\ pc' = "attempt"
    BY <1>2, <2>1 DEF FallBack
  <2> QED BY <2>2 DEF DropTransport
<1> QED BY <1>1, <1>2

\* A protocol that a client settles on is one whose handshake the server that
\* has selected it is in.
LEMMA LayerIs == \A p \in {"NLA", "TLS", "RDP"} : Layer(p) = p
BY DEF Layer

\* What is read in an attempt against this repository's server.
LEMMA AttemptRead ==
    ASSUME TypeOK, NegoInv, Attempted, Plain, pc = "wait", s2c # <<>>
    PROVE  /\ EnabledProtocols = settings.protocols /\ state \in settings.protocols
           /\ \A q \in Common : Rank[q] <= Rank[state]
           /\ Head(s2c) = Answer(sSelected)
           /\ sSelected = Selection(Requested(state))
           /\ sState \in {"accept", "NEGO"} /\ c2s = <<>> /\ TcpConnected
<1>1. /\ EnabledProtocols = settings.protocols /\ state \in settings.protocols
      /\ \A q \in Common : Rank[q] <= Rank[state]
      /\ Head(s2c) = Answer(Selection(Requested(state)))
  BY DEF NegoInv, Plain
<1>2. /\ sSelected = Selection(Requested(state))
      /\ sState \in {"accept", "NEGO"} /\ c2s = <<>> /\ TcpConnected
  BY DEF Attempted
<1> QED BY <1>1, <1>2

\* When the answer makes the client fall back nothing that is as strong as the
\* protocol it has tried is common.
LEMMA RefusedAttempt ==
    ASSUME TypeOK, NegoInv, Attempted, Plain, pc = "wait", s2c # <<>>,
           \/ Head(s2c).type # "NEG_RSP"
           \/ Head(s2c).selected \notin EnabledProtocols
    PROVE  Common \subseteq Weaker(state)
<1>1. /\ EnabledProtocols = settings.protocols /\ state \in settings.protocols
      /\ \A q \in Common : Rank[q] <= Rank[state]
      /\ Head(s2c) = Answer(sSelected)
      /\ sSelected = Selection(Requested(state))
  BY AttemptRead
<1>2. settings.protocols \in SUBSET Protocols
  BY ClientTypes DEF TypeOK
<1>3. sSelected \notin settings.protocols
  BY <1>1, <1>2, FailuresAreNoProtocols DEF Answer
<1> QED BY <1>1, <1>3, AttemptOutcome DEF Plain

\* Attempted is inductive, given the other parts.
LEMMA AttemptedStep ==
    ASSUME TypeOK, NegoInv, Turns, Attempted, [Next]_vars
    PROVE  Attempted'
<1>a. ASSUME pc' \notin {"attempt", "wait", "security"} PROVE Attempted'
  BY <1>a DEF Attempted
<1>b. ASSUME FallBack, pc = "wait" PROVE Attempted'
  <2>1. EnabledProtocols = settings.protocols /\ state \in settings.protocols
    BY <1>b DEF NegoInv
  <2>2. pc' = "failed" \/ (pc' = "attempt" /\ ~TcpConnected' /\ c2s' = <<>>)
    BY <1>b, <2>1, FallBackDrops
  <2> QED BY <2>2 DEF Attempted
<1>1. ASSUME NEW h \in Hosts, Connect(h) PROVE Attempted'
  <2>1. CASE pc' = "failed"
    BY <1>a, <2>1
  <2>2. CASE pc' = "attempt"
    <3>1. ~settings.SendPreconnectionPdu => UNCHANGED <<TcpConnected, c2s, settings>>
      BY <1>1 DEF Connect
    <3>2. pc = "off" /\ settings' = settings
      BY <1>1 DEF Connect
    <3>3. ~TcpConnected /\ c2s = <<>>
      BY <3>2 DEF NegoInv, Turns
    <3> QED BY <2>2, <3>1, <3>2, <3>3 DEF Attempted, Plain
  <2>3. CASE pc' = "security"
    <3>1. ~settings'.NegotiateSecurityLayer
      BY <1>1, <2>3 DEF Connect
    <3> QED BY <3>1 DEF Attempted, Plain
  <2>4. pc' \in {"failed", "attempt", "security"}
    BY <1>1 DEF Connect
  <2> QED BY <2>1, <2>2, <2>3, <2>4
<1>2. CASE Attempt
  <2> DEFINE m == IF Requested(state) # {} \/ sendNegoData
                    THEN [type |-> "NEG_REQ", protocols |-> Requested(state)]
                    ELSE [type |-> "REQUEST_PLAIN"]
  <2>1. /\ pc = "attempt" /\ pc' = "wait" /\ c2s' = Append(c2s, m)
        /\ TcpConnected' = TRUE /\ (~TcpConnected => NewPeer(host))
        /\ UNCHANGED <<settings, host, s2c>>
    BY <1>2 DEF Attempt
  <2>a. m.type # "PRECONNECTION"
    OBVIOUS
  <2> HIDE DEF m
  <2>2. s2c = <<>>
    BY <2>1 DEF NegoInv
  <2>3. ASSUME Plain
        PROVE  /\ sState' = "INITIAL"
               /\ Len(c2s') = 1 /\ Head(c2s').type # "PRECONNECTION"
    <3>1. ~TcpConnected /\ c2s = <<>>
      BY <2>1, <2>3 DEF Attempted
    <3> QED BY <2>1, <2>a, <3>1 DEF NewPeer
  <2>4. Plain' = Plain
    BY <2>1 DEF Plain
  <2> QED BY <2>1, <2>2, <2>3, <2>4 DEF Attempted
<1>3. CASE RecvResponse
  <2>1. /\ pc = "wait" /\ s2c # <<>> /\ Head(s2c).type = "NEG_RSP"
        /\ SelectedProtocol' = Head(s2c).selected
        /\ UNCHANGED <<settings, host>>
    BY <1>3 DEF RecvResponse, Receives
  <2>2. CASE ~Acceptable(SelectedProtocol')
    BY <1>3, <1>b, <2>1, <2>2 DEF RecvResponse
  <2>3. CASE Acceptable(SelectedProtocol')
    <3>1. pc' = "security" /\ UNCHANGED <<TcpConnected, peer, c2s>>
      BY <1>3, <2>3 DEF RecvResponse
    <3>2. Plain' = Plain
      BY <2>1 DEF Plain
    <3>3. ASSUME Plain
          PROVE  /\ TcpConnected /\ c2s = <<>> /\ sState \in {"accept", "NEGO"}
                 /\ sSelected = SelectedProtocol' /\ SelectedProtocol' # "EXT"
      <4>1. /\ Head(s2c) = Answer(sSelected) /\ sSelected = Selection(Requested(state))
            /\ sState \in {"accept", "NEGO"} /\ c2s = <<>> /\ TcpConnected
        BY <2>1, <3>3, AttemptRead
      <4>2. sSelected = SelectedProtocol'
        BY <2>1, <4>1 DEF Answer
      <4>3. sSelected # "EXT"
        BY <4>1, SelectionType DEF Failures
      <4> QED BY <4>1, <4>2, <4>3
    <3> QED BY <3>1, <3>2, <3>3 DEF Attempted, peer
  <2> QED BY <2>2, <2>3
<1>4. CASE RecvFailure
  BY <1>4, <1>b DEF RecvFailure, Receives
<1>5. CASE RecvPlain
  <2>1. pc = "wait" /\ s2c # <<>> /\ Head(s2c).type = "CONFIRM_PLAIN"
        /\ UNCHANGED <<settings, host>>
    BY <1>5 DEF RecvPlain, Receives
  <2>2. ~Plain
    BY <2>1, AttemptRead DEF Answer
  <2> QED BY <2>1, <2>2 DEF Attempted, Plain
<1>6. CASE SecurityConnect \/ SecurityRefused \/ ReadServerSecurity \/ TransportFails
           \/ Disconnect
  BY <1>6, <1>a DEF SecurityConnect, SecurityRefused, ReadServerSecurity,
                    TransportFails, Disconnect
<1>7. CASE ServerAcceptNego
  <2>1. /\ sState = "INITIAL" /\ c2s # <<>> /\ c2s' = Tail(c2s)
        /\ Head(c2s).type \in {"NEG_REQ", "REQUEST_PLAIN"}
        /\ sSelected' = Selection(RequestedOf(Head(c2s)))
        /\ s2c' = <<Answer(sSelected')>>
        /\ sState' \in {"accept", "NEGO"}
        /\ UNCHANGED <<settings, host, pc, state, TcpConnected>>
    BY <1>7 DEF ServerAcceptNego, ServerReads, nego
  <2>2. Plain' = Plain
    BY <2>1 DEF Plain
  <2>3. CASE ~Plain
    BY <2>2, <2>3 DEF Attempted
  <2>4. CASE Plain
    <3>1. pc # "attempt" /\ pc # "security"
      BY <2>1, <2>4 DEF Attempted
    <3>2. CASE pc = "wait"
      <4>1. Len(c2s) = 1 /\ TcpConnected
        BY <2>1, <2>4, <3>2 DEF Attempted
      <4>2. c2s' = <<>>
        BY <2>1, <4>1 DEF TypeOK
      <4>3. sSelected' = Selection(Requested(state))
        BY <2>1, <3>2, ReadsRequest
      <4>4. Selection(Requested(state))' = Selection(Requested(state))
        BY <2>1 DEF Selection
      <4>5. s2c' # <<>>
        BY <2>1
      <4> QED BY <2>1, <3>2, <4>1, <4>2, <4>3, <4>4, <4>5 DEF Attempted
    <3>3. CASE pc # "wait"
      BY <1>a, <2>1, <3>1, <3>3
    <3> QED BY <3>2, <3>3
  <2> QED BY <2>3, <2>4
<1>8. CASE OtherAcceptNego
  BY <1>8 DEF OtherAcceptNego, ServerReads, Attempted, Plain
<1>9. CASE ServerPreconnection
  <2>1. /\ c2s # <<>> /\ Head(c2s).type = "PRECONNECTION" /\ sState = "INITIAL"
        /\ UNCHANGED <<settings, host, pc>>
    BY <1>9 DEF ServerPreconnection, ServerReads
  <2>2. Plain' = Plain
    BY <2>1 DEF Plain
  <2>3. Plain => pc \notin {"attempt", "wait", "security"}
    BY <2>1 DEF Attempted
  <2> QED BY <1>a, <2>1, <2>2, <2>3 DEF Attempted
<1>10. CASE ServerSecurityData
  <2>1. pc' = pc /\ c2s # <<>> /\ Head(c2s).type = "CLIENT_SECURITY"
    BY <1>10 DEF ServerSecurityData, ServerReads
  <2>2. Carries(c2s, "CLIENT_SECURITY")
    BY <2>1, CarriesHead DEF TypeOK
  <2>3. pc \notin {"attempt", "wait", "security"}
    BY <2>1, <2>2, NoBlockYet, ReadsRequest DEF Turns
  <2> QED BY <1>a, <2>1, <2>3
<1>11. CASE UNCHANGED vars
  BY <1>11 DEF vars, nego, peer, Attempted, Plain, Selection
<1> QED BY <1>1, <1>2, <1>3, <1>4, <1>5, <1>6, <1>7, <1>8, <1>9, <1>10, <1>11
        DEF Next, ClientStep, ServerStep

\* GivesUpOnlyIfIncompatible follows in every step from the other parts: the
\* attempts have excluded every common protocol, no handshake with the server
\* that has selected the protocol is refused, and what that server sends is
\* valid.
LEMMA GivesUpStep ==
    ASSUME TypeOK, NegoInv, Turns, Blocks, Attempted, GivesUpOnlyIfIncompatible,
           [Next]_vars
    PROVE  GivesUpOnlyIfIncompatible'
<1>a. ASSUME pc' # "failed" PROVE GivesUpOnlyIfIncompatible'
  BY <1>a DEF GivesUpOnlyIfIncompatible
<1>b. ASSUME UNCHANGED <<pc, broken, settings, host>>
      PROVE  GivesUpOnlyIfIncompatible'
  BY <1>b DEF GivesUpOnlyIfIncompatible, Common
<1>c. ASSUME FallBack, pc = "wait", UNCHANGED <<settings, host>>,
             Plain => Common \subseteq Weaker(state)
      PROVE  GivesUpOnlyIfIncompatible'
  <2>1. EnabledProtocols = settings.protocols /\ state \in settings.protocols
    BY <1>c DEF NegoInv
  <2>2. pc' = "failed" => settings.protocols \cap Weaker(state) = {}
    BY <1>c, <2>1, FallBackDrops
  <2>3. pc' = "failed" /\ Plain => Common = {}
    BY <1>c, <2>2 DEF Common
  <2>4. Common' = Common /\ Plain' = Plain
    BY <1>c DEF Common, Plain
  <2> QED BY <2>3, <2>4 DEF GivesUpOnlyIfIncompatible, Plain
<1>1. ASSUME NEW h \in Hosts, Connect(h) PROVE GivesUpOnlyIfIncompatible'
  <2>1. pc' = "failed" => settings.protocols = {} /\ settings' = settings
    BY <1>1 DEF Connect
  <2> QED BY <1>a, <2>1 DEF GivesUpOnlyIfIncompatible, Common
<1>2. CASE Attempt \/ SecurityConnect \/ Disconnect
  BY <1>2, <1>a DEF Attempt, SecurityConnect, Disconnect
<1>3. CASE RecvResponse
  <2>1. /\ pc = "wait" /\ s2c # <<>> /\ SelectedProtocol' = Head(s2c).selected
        /\ UNCHANGED <<settings, host>>
    BY <1>3 DEF RecvResponse, Receives
  <2>2. CASE Acceptable(SelectedProtocol')
    BY <1>3, <1>a, <2>2 DEF RecvResponse
  <2>3. CASE ~Acceptable(SelectedProtocol')
    <3>1. Plain => Common \subseteq Weaker(state)
      BY <2>1, <2>3, RefusedAttempt DEF Acceptable
    <3>2. FallBack
      BY <1>3, <2>3 DEF RecvResponse
    <3> QED BY <1>c, <2>1, <3>1, <3>2
  <2> QED BY <2>2, <2>3
<1>4. CASE RecvFailure
  <2>1. /\ pc = "wait" /\ s2c # <<>> /\ Head(s2c).type = "NEG_FAILURE" /\ FallBack
        /\ UNCHANGED <<settings, host>>
    BY <1>4 DEF RecvFailure, Receives
  <2>2. Plain => Common \subseteq Weaker(state)
    BY <2>1, RefusedAttempt
  <2> QED BY <1>c, <2>1, <2>2
<1>5. CASE RecvPlain
  <2>1. /\ pc = "wait" /\ s2c # <<>> /\ Head(s2c).type = "CONFIRM_PLAIN"
        /\ UNCHANGED <<settings, host>>
    BY <1>5 DEF RecvPlain, Receives
  <2>2. Plain => Common \subseteq Weaker(state)
    BY <2>1, RefusedAttempt
  <2>3. FallBack \/ pc' = "security"
    BY <1>5 DEF RecvPlain
  <2> QED BY <1>a, <1>c, <2>1, <2>2, <2>3
<1>6. CASE SecurityRefused
  <2>1. /\ pc = "security" /\ UNCHANGED <<settings, host>>
        /\ \/ ~TcpConnected
           \/ SelectedProtocol = "EXT"
           \/ ~HandshakeReady(SelectedProtocol)
    BY <1>6 DEF SecurityRefused
  <2>2. ASSUME Plain PROVE FALSE
    <3>1. /\ TcpConnected /\ sState \in {"accept", "NEGO"}
          /\ sSelected = SelectedProtocol /\ SelectedProtocol # "EXT"
      BY <2>1, <2>2 DEF Attempted
    <3>2. Layer(sSelected) = SelectedProtocol
      BY <3>1, LayerIs DEF TypeOK, Protocols
    <3> QED BY <2>1, <3>1, <3>2 DEF HandshakeReady
  <2> QED BY <2>1, <2>2 DEF GivesUpOnlyIfIncompatible, Plain
<1>7. CASE ReadServerSecurity
  <2>1. /\ pc = "gcc" /\ s2c # <<>>
        /\ pc' = IF ValidCrypto(Head(s2c).level, Head(s2c).methods)
                   THEN "up" ELSE "failed"
    BY <1>7 DEF ReadServerSecurity
  <2>2. ValidCrypto(Head(s2c).level, Head(s2c).methods)
    BY <2>1 DEF Blocks
  <2> QED BY <1>a, <2>1, <2>2
<1>8. CASE ServerStep
  BY <1>8, <1>b DEF ServerStep, ServerAcceptNego, OtherAcceptNego,
                    ServerPreconnection, ServerSecurityData
<1>9. CASE TransportFails
  BY <1>9 DEF TransportFails, GivesUpOnlyIfIncompatible
<1>10. CASE UNCHANGED vars
  BY <1>10, <1>b DEF vars
<1> QED BY <1>1, <1>2, <1>3, <1>4, <1>5, <1>6, <1>7, <1>8, <1>9, <1>10
        DEF Next, ClientStep

\* The two sides of every connection stay in step, whatever hosts and clients
\* there are: each attempt has a peer of its own, an answer comes from a server
\* that has made its selection, and the block gcc_write_server_security_data
\* has sent is the configuration it has taken up.
THEOREM SidesInvariant == Spec => []SidesInv
<1>1. Init => SidesInv
  BY DEF Init, SidesInv, ServerLayer, Turns, Blocks, LayersAgree, Attempted,
         GivesUpOnlyIfIncompatible
<1>2. TypeOK /\ NegoInv /\ SidesInv /\ [Next]_vars => SidesInv'
  BY ServerLayerStep, TurnsStep, BlocksStep, AttemptedStep, GivesUpStep DEF SidesInv
<1> QED BY <1>1, <1>2, TypeCorrect, NegotiationInvariant, PTL DEF Spec

\* For every set of hosts and clients: once the Connect Response has been read
\* (gcc_read_server_security_data) both sides use the RDP security layer with
\* the same method or neither does, whatever UseRdpSecurityLayer an earlier
\* connection has left in the settings.
THEOREM LayersAgreeHolds == Spec => []LayersAgree
<1>1. SidesInv => LayersAgree
  BY DEF SidesInv, Blocks
<1> QED BY <1>1, SidesInvariant, PTL

\* For every set of hosts and clients: a client of nego_connect that negotiates
\* with rdp_server_accept_nego over a transport that does not fail gives up
\* only if the two have no protocol in common.
THEOREM GivesUpOnlyIfIncompatibleHolds == Spec => []GivesUpOnlyIfIncompatible
<1>1. SidesInv => GivesUpOnlyIfIncompatible
  BY DEF SidesInv
<1> QED BY <1>1, SidesInvariant, PTL
=============================================================================

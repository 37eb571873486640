------------------------ MODULE RdpConnection_proofs ------------------------
(***************************************************************************)
(* For every list of channels, every setting and every server application  *)
(* of module RdpConnection: PostConnect is called once on either side, the *)
(* two state machines fit, a client and a server that are active are so in *)
(* the same share, and the applications are told of every activation once. *)
(***************************************************************************)
EXTENDS RdpConnection, FiniteSetTheorems, SequenceTheorems, TLAPS

LEMMA InitPostConnect == Init => PostConnectInv
  BY DEF Init, PostConnectInv

\* The ways to leave a connection and to begin another.
LEMMA RestartPostConnect ==
  ASSUME PostConnectInv, Reconnect \/ Disconnect
  PROVE  PostConnectInv'
  BY DEF PostConnectInv, Reconnect, Disconnect, FreshConnection

LEMMA FailurePostConnect ==
  ASSUME PostConnectInv, cState # "INITIAL", TransportFailure \/ Disconnect
  PROVE  PostConnectInv'
<1>1. api # "off"
  BY DEF PostConnectInv
<1> QED
  BY <1>1, RestartPostConnect DEF TransportFailure

\* Steps of the client that neither begin nor end a connection or activation.
LEMMA ClientStepPostConnect ==
  ASSUME PostConnectInv, cState' # "INITIAL" \/ cState' = cState,
         UNCHANGED <<api, callbackState, server, cPosts>>,
         cState # "INITIAL" \/ cState' = cState
  PROVE  PostConnectInv'
  BY DEF PostConnectInv, server

LEMMA StepPostConnect ==
  ASSUME PostConnectInv, [Next]_vars
  PROVE  PostConnectInv'
<1>1. CASE Connect
  BY <1>1 DEF Connect, FreshConnection, PostConnectInv
<1>2. CASE NegoDone
  BY <1>2, ClientStepPostConnect DEF NegoDone, server, ghosts
<1>3. CASE ClientRecv
  <2>1. CASE ClientFinalizeDone
    <3>1. api # "off"
      BY <2>1 DEF ClientFinalizeDone, ClientReads, PostConnectInv
    <3>2. callbackState' = "POSTCONNECT_PASSED" /\ cPosts' = 1
      BY <2>1, <3>1 DEF ClientFinalizeDone, PostConnect, PostConnectInv
    <3>3. api' = "run" /\ UNCHANGED <<connected, activated, sPosts>>
      BY <2>1 DEF ClientFinalizeDone, server
    <3> QED
      BY <3>2, <3>3 DEF PostConnectInv
  <2>2. CASE ~ClientFinalizeDone
    <3>1. cState # "INITIAL" /\ cState' # "INITIAL"
          /\ UNCHANGED <<api, callbackState, server, cPosts>>
      BY <1>3, <2>2
      DEF ClientRecv, ClientConnectResponse, ClientAttachUserConfirm,
          ClientJoinConfirm, ClientLicense, ClientDemandActive, ClientDataPdu,
          ClientDeactivateAll, ClientReads, ghosts
    <3> QED
      BY <3>1, ClientStepPostConnect
  <2> QED
    BY <2>1, <2>2
<1>4. CASE ClientInput
  BY <1>4, ClientStepPostConnect DEF ClientInput, client, ghosts
<1>5. CASE EndOfStream
  BY <1>5, FailurePostConnect DEF EndOfStream, LinkDown
<1>6. CASE ServerRecv
  <2>1. UNCHANGED <<api, callbackState, cState, cPosts>>
    BY <1>6
    DEF ServerRecv, ServerConnectInitial, ServerErectDomain, ServerAttachUser,
        ServerJoin, ServerEstablishKeys, ServerClientInfo, ServerConfirmActive,
        ServerRequestControl, ServerDataPdu, ServerFontList, ServerInput,
        ServerRefuses, client, ghosts
  <2>2. CASE ServerFontList
    <3>1. connected' = TRUE
      BY <2>2 DEF ServerFontList
    <3>2. sPosts' = 1
      BY <2>2 DEF ServerFontList, PostConnectInv
    <3>3. activated' = TRUE \/ activated' = FALSE
      BY <2>2 DEF ServerFontList, ServerReactivate
    <3> QED
      BY <2>1, <3>1, <3>2, <3>3 DEF PostConnectInv
  <2>3. CASE ~ServerFontList
    <3>1. /\ UNCHANGED <<connected, sPosts>>
          /\ activated' = activated \/ activated' = FALSE
      BY <1>6, <2>3
      DEF ServerRecv, ServerConnectInitial, ServerErectDomain, ServerAttachUser,
          ServerJoin, ServerEstablishKeys, ServerClientInfo, ServerConfirmActive,
          ServerRequestControl, ServerDataPdu, ServerInput, ServerReactivate,
          ServerRefuses, server
    <3>2. CASE activated' = activated
      BY <2>1, <3>1, <3>2 DEF PostConnectInv
    <3>3. CASE activated' = FALSE
      BY <2>1, <3>1, <3>3 DEF PostConnectInv
    <3> QED
      BY <3>1, <3>2, <3>3
  <2> QED
    BY <2>2, <2>3
<1>7. CASE ServerResize
  BY <1>7 DEF ServerResize, ServerReactivate, PostConnectInv, client, ghosts
<1>8. CASE Failures
  <2>1. CASE NegoFailed
    BY <2>1, FailurePostConnect DEF NegoFailed
  <2>2. CASE ActivationTimeout
    BY <2>2, FailurePostConnect DEF ActivationTimeout
  <2>3. CASE LinkDown
    BY <2>3, FailurePostConnect DEF LinkDown
  <2>4. CASE Abort
    BY <2>4, FailurePostConnect DEF Abort
  <2>5. CASE ServerLeaves
    BY <2>5, ClientStepPostConnect DEF ServerLeaves, client, ghosts
  <2> QED
    BY <1>8, <2>1, <2>2, <2>3, <2>4, <2>5 DEF Failures
<1>9. CASE UNCHANGED vars
  BY <1>9, ClientStepPostConnect DEF vars, client, ghosts
<1> QED
  BY <1>1, <1>2, <1>3, <1>4, <1>5, <1>6, <1>7, <1>8, <1>9 DEF Next

\* The inductive invariant behind PostConnectOnce: on each side PostConnect has
\* been called exactly if the record that guards the call says so
\* (client->connected of the peer, rdp_client_reconnect_channels' state).
THEOREM PostConnectInvariant == Spec => []PostConnectInv
  BY InitPostConnect, StepPostConnect, PTL DEF Spec

\* PostConnect is called once by a server peer, not again after a
\* reactivation, and once by the client between freerdp_connect and
\* freerdp_disconnect, whatever reconnects come between
\* (rdp_server_transition_to_state, rdp_client_reconnect_channels).
THEOREM PostConnectCalledOnce == Spec => []PostConnectOnce
<1>1. PostConnectInv => PostConnectOnce
  BY DEF PostConnectInv, PostConnectOnce
<1> QED
  BY <1>1, PostConnectInvariant, PTL

-----------------------------------------------------------------------------
(***************************************************************************)
(* The parts of the inductive invariant.                                   *)
(***************************************************************************)

\* The states of a client that has its license, and of a server that has sent
\* its Demand Active.
Session == {"CAPABILITIES_EXCHANGE", "FINALIZATION", "ACTIVE"}

\* The first n channels in the order in which the client joins them.
Joined(n) == {JoinOrder[i] : i \in 1..n}

\* Up to the license one PDU after the other is on its way, in one direction.
Handshake ==
    /\ cState \in {"INITIAL", "NEGO"} => c2s = <<>> /\ s2c = <<>> /\ sState = "NEGO"
    /\ cState \in {"INITIAL", "NEGO", "MCS_CONNECT", "MCS_ATTACH_USER"} =>
         cJoined = {} /\ sJoined = {}
    /\ cState = "MCS_CONNECT" =>
         \/ sState = "NEGO" /\ c2s = <<Pdu("CONNECT_INITIAL", 0)>> /\ s2c = <<>>
         \/ sState = "MCS_CONNECT" /\ c2s = <<>> /\ s2c = <<Pdu("CONNECT_RESPONSE", 0)>>
    /\ cState = "MCS_ATTACH_USER" =>
         \/ /\ sState = "MCS_CONNECT" /\ s2c = <<>>
            /\ c2s = <<Pdu("ERECT_DOMAIN", 0), Pdu("ATTACH_USER", 0)>>
         \/ sState = "MCS_ERECT_DOMAIN" /\ c2s = <<Pdu("ATTACH_USER", 0)>> /\ s2c = <<>>
         \/ /\ sState = "MCS_ATTACH_USER" /\ c2s = <<>>
            /\ s2c = <<Pdu("ATTACH_USER_CONFIRM", 0)>>
    /\ cState = "LICENSING" =>
         /\ cJoined = ToJoin /\ sJoined = ToJoin
         /\ \/ /\ sState = "RDP_SECURITY_COMMENCEMENT" /\ s2c = <<>> /\ useRdpSecurity
               /\ c2s = <<Pdu("SECURITY_EXCHANGE", 0), Pdu("CLIENT_INFO", 0)>>
            \/ /\ sState = "RDP_SECURITY_COMMENCEMENT" /\ s2c = <<>> /\ ~useRdpSecurity
               /\ c2s = <<Pdu("CLIENT_INFO", 0)>>
            \/ /\ sState = "SECURE_SETTINGS_EXCHANGE" /\ s2c = <<>> /\ useRdpSecurity
               /\ c2s = <<Pdu("CLIENT_INFO", 0)>>
            \/ /\ sState = "CAPABILITIES_EXCHANGE" /\ AwaitCapabilities /\ c2s = <<>>
               /\ s2c = <<Pdu("LICENSE_VALID_CLIENT", 0), Pdu("DEMAND_ACTIVE", sGen)>>
    /\ cState \notin Session =>
         /\ finalize = {} /\ reactivation = FALSE /\ frames = <<>>
         /\ activated = FALSE /\ everActive = FALSE /\ sGen = 0

\* The channels are joined and confirmed one by one, in the order of the list.
Joining ==
    cState = "MCS_CHANNEL_JOIN" =>
      \E n \in 0..(Len(JoinOrder) - 1) :
        /\ cJoined = Joined(n) /\ IsFiniteSet(cJoined) /\ Cardinality(cJoined) = n
        /\ \/ /\ c2s = <<Pdu("JOIN", JoinOrder[n + 1])>> /\ s2c = <<>>
              /\ sJoined = Joined(n) /\ sState = "MCS_ATTACH_USER"
           \/ /\ c2s = <<>> /\ s2c = <<Pdu("JOIN_CONFIRM", JoinOrder[n + 1])>>
              /\ sJoined = Joined(n + 1)
              /\ sState = IF n + 1 = Len(JoinOrder) THEN "RDP_SECURITY_COMMENCEMENT"
                                                    ELSE "MCS_ATTACH_USER"

\* What is on its way once the client has its license.
SessionPdus ==
    cState \in Session =>
      /\ cJoined = ToJoin /\ sJoined = ToJoin
      /\ sState \in Session /\ AwaitCapabilities
      /\ activated = (sState = "ACTIVE")
      /\ \A i \in DOMAIN s2c :
           s2c[i].type \in FinalizeComplete \cup {"DEACTIVATE_ALL", "DEMAND_ACTIVE"}
      /\ \A i \in DOMAIN c2s :
           c2s[i].type \in {"CONFIRM_ACTIVE", "SYNCHRONIZE", "COOPERATE", "INPUT",
                            "REQUEST_CONTROL", "PERSISTENT_KEY_LIST", "FONT_LIST"}

\* A Deactivate All and the Demand Active that follows it come together, and
\* the client is in CAPABILITIES_EXCHANGE exactly when it has read one of them.
Pairing ==
    cState \in Session =>
      /\ \A i \in DOMAIN s2c : s2c[i].type = "DEACTIVATE_ALL" =>
           i + 1 \in DOMAIN s2c /\ s2c[i + 1].type = "DEMAND_ACTIVE"
      /\ \A i \in DOMAIN s2c : s2c[i].type = "DEMAND_ACTIVE" /\ i # 1 =>
           s2c[i - 1].type = "DEACTIVATE_ALL"
      /\ (cState = "CAPABILITIES_EXCHANGE") =
           (s2c # <<>> /\ s2c[1].type = "DEMAND_ACTIVE")

\* The latest Demand Active on its way, or else the latest one that the client
\* has answered, is the server's latest.
Shares ==
    cState \in Session =>
      /\ \A i \in DOMAIN s2c : s2c[i].type = "DEMAND_ACTIVE" =>
           /\ s2c[i].arg \in Gens
           /\ \/ s2c[i].arg = sGen
              \/ \E j \in DOMAIN s2c : i < j /\ s2c[j].type = "DEMAND_ACTIVE"
      /\ InFlight(s2c, "DEMAND_ACTIVE") \/ cGen = sGen

\* A server that is not active has sent no Font Map since its latest Demand
\* Active, so the client cannot have completed that activation.
FontMaps ==
    cState \in Session /\ sState # "ACTIVE" =>
      /\ \A i \in DOMAIN s2c : s2c[i].type = "FONT_MAP" =>
           \E j \in DOMAIN s2c : i < j /\ s2c[j].type = "DEMAND_ACTIVE"
      /\ \/ InFlight(s2c, "DEMAND_ACTIVE")
         \/ cState = "FINALIZATION" /\ "FONT_MAP" \notin finalize

AllInput(q) == \A i \in DOMAIN q : q[i].type = "INPUT"

\* With a server that resizes only an activated client at most one activation
\* is under way: after a Demand Active nothing is sent, and only input comes
\* before the Confirm Active and after the Font List.
OneActivation ==
    cState \in Session /\ ~resizeOnInput =>
      /\ InFlight(s2c, "DEMAND_ACTIVE") => sState = "CAPABILITIES_EXCHANGE" /\ AllInput(c2s)
      /\ sState = "ACTIVE" => AllInput(c2s)
      /\ InFlight(c2s, "CONFIRM_ACTIVE") => sState = "CAPABILITIES_EXCHANGE"
      /\ sState = "CAPABILITIES_EXCHANGE" /\ ~InFlight(s2c, "DEMAND_ACTIVE") =>
           \E k \in DOMAIN c2s :
             /\ c2s[k].type = "CONFIRM_ACTIVE"
             /\ \A i \in DOMAIN c2s : i < k => c2s[i].type = "INPUT"
             /\ \A i \in DOMAIN c2s : k < i => c2s[i].type # "CONFIRM_ACTIVE"
             /\ InFlight(c2s, "REQUEST_CONTROL")
      /\ \A i, j \in DOMAIN s2c : s2c[i].type = "DEMAND_ACTIVE" => j <= i
      /\ \A i, j \in DOMAIN c2s :
           c2s[i].type = "FONT_LIST" /\ i < j => c2s[j].type = "INPUT"

\* The flag t is set, or the PDU that sets it comes before position i.
Comes(t, i) == t \in finalize \/ \E j \in DOMAIN s2c : j < i /\ s2c[j].type = t

\* ... and the PDUs of the finalization reach the client in such an order that
\* the Font Map is the last one, and comes before the next Deactivate All.
Finalizing ==
    cState = "FINALIZATION" /\ ~resizeOnInput =>
      /\ \A i \in DOMAIN s2c : s2c[i].type = "FONT_MAP" =>
           \A t \in FinalizeComplete \ {"FONT_MAP"} : Comes(t, i)
      /\ \A i \in DOMAIN s2c : s2c[i].type = "DEACTIVATE_ALL" =>
           \E j \in DOMAIN s2c : j < i /\ s2c[j].type = "FONT_MAP"
      /\ sState = "FINALIZATION" =>
           /\ Comes("SYNCHRONIZE", Len(s2c) + 1) /\ Comes("COOPERATE", Len(s2c) + 1)
           /\ Comes("GRANTED", Len(s2c) + 1) \/ InFlight(c2s, "REQUEST_CONTROL")
      /\ sState = "ACTIVE" => InFlight(s2c, "FONT_MAP")

\* What the client tells its application of the activations.
Told ==
    ~resizeOnInput =>
      /\ \A i \in DOMAIN frames : frames[i] = "ACTIVE"
      /\ cState = "ACTIVE" => events = 1 /\ everActive
      /\ cState \in {"CAPABILITIES_EXCHANGE", "FINALIZATION"} =>
           reactivation = everActive

-----------------------------------------------------------------------------
(***************************************************************************)
(* The queues.                                                             *)
(***************************************************************************)

\* The names of channels.
Names == STRING \cup {"user", "global", "message"}

PduTypes ==
    {"CONNECT_INITIAL", "CONNECT_RESPONSE", "ERECT_DOMAIN", "ATTACH_USER",
     "ATTACH_USER_CONFIRM", "JOIN", "JOIN_CONFIRM", "SECURITY_EXCHANGE",
     "CLIENT_INFO", "LICENSE_VALID_CLIENT", "DEMAND_ACTIVE", "CONFIRM_ACTIVE",
     "SYNCHRONIZE", "COOPERATE", "REQUEST_CONTROL", "PERSISTENT_KEY_LIST",
     "FONT_LIST", "GRANTED", "FONT_MAP", "DEACTIVATE_ALL", "INPUT"}

Pdus == [type : PduTypes, arg : Nat \cup Names]

Queues == c2s \in Seq(Pdus) /\ s2c \in Seq(Pdus)

\* PDUs, and short sequences of them.
LEMMA PduFacts ==
    /\ \A t \in PduTypes, a \in Nat \cup Names :
         Pdu(t, a) \in Pdus /\ Pdu(t, a).type = t /\ Pdu(t, a).arg = a
    /\ \A p \in Pdus : <<p>> \in Seq(Pdus) /\ Head(<<p>>) = p /\ Tail(<<p>>) = <<>>
    /\ \A p, q \in Pdus : /\ <<p, q>> \in Seq(Pdus)
                          /\ Head(<<p, q>>) = p /\ Tail(<<p, q>>) = <<q>>
    /\ <<>> \in Seq(Pdus)
<1>1. \A t \in PduTypes, a \in Nat \cup Names :
        Pdu(t, a) \in Pdus /\ Pdu(t, a).type = t /\ Pdu(t, a).arg = a
  BY DEF Pdu, Pdus
<1>2. \A p, q \in Pdus : Tail(<<p, q>>) = <<q>>
  <2> TAKE p, q \in Pdus
  <2>1. /\ Tail(<<p, q>>) \in Seq(Pdus) /\ Len(Tail(<<p, q>>)) = 1
        /\ Tail(<<p, q>>)[1] = q
    OBVIOUS
  <2> QED BY <2>1
<1> QED BY <1>1, <1>2

\* A queue whose first PDU has been read.
LEMMA ReadFacts ==
    ASSUME NEW q \in Seq(Pdus), q # <<>>
    PROVE  /\ Tail(q) \in Seq(Pdus) /\ Len(Tail(q)) = Len(q) - 1
           /\ 1 \in DOMAIN q /\ Head(q) = q[1] /\ Head(q) \in Pdus
           /\ \A i \in DOMAIN Tail(q) : i + 1 \in DOMAIN q /\ Tail(q)[i] = q[i + 1]
           /\ \A i \in DOMAIN q :
                i # 1 => i - 1 \in DOMAIN Tail(q) /\ Tail(q)[i - 1] = q[i]
OBVIOUS

\* A queue to which PDUs have been appended.
LEMMA SendFacts ==
    ASSUME NEW q \in Seq(Pdus), NEW p \in Seq(Pdus)
    PROVE  /\ q \o p \in Seq(Pdus) /\ Len(q \o p) = Len(q) + Len(p)
           /\ \A i \in DOMAIN q : i \in DOMAIN (q \o p) /\ (q \o p)[i] = q[i]
           /\ \A i \in DOMAIN p :
                Len(q) + i \in DOMAIN (q \o p) /\ (q \o p)[Len(q) + i] = p[i]
           /\ \A i \in DOMAIN (q \o p) :
                i \in DOMAIN q \/ (i - Len(q) \in DOMAIN p /\ Len(q) < i)
OBVIOUS

LEMMA EmptyConcat ==
    ASSUME NEW q \in Seq(Pdus)
    PROVE  <<>> \o q = q /\ q \o <<>> = q
OBVIOUS

LEMMA PairConcat ==
    ASSUME NEW p \in Pdus, NEW q \in Pdus
    PROVE  <<p>> \o <<q>> = <<p, q>>
<1> DEFINE s == <<p>> \o <<q>>
           t == <<p, q>>
<1>1. s \in Seq(Pdus) /\ Len(s) = 2 /\ s[1] = p /\ s[2] = q
  OBVIOUS
<1>2. t \in Seq(Pdus) /\ Len(t) = 2 /\ t[1] = p /\ t[2] = q
  OBVIOUS
<1> HIDE DEF s, t
<1>3. \A i \in 1..2 : s[i] = t[i]
  BY <1>1, <1>2
<1>4. s = t
  BY <1>1, <1>2, <1>3, SeqEqual
<1> QED BY <1>4 DEF s, t

-----------------------------------------------------------------------------
(***************************************************************************)
(* The channels to join.                                                   *)
(***************************************************************************)

LEMMA JoinOrderType ==
    JoinOrder \in Seq(Names) /\ Len(JoinOrder) \in Nat /\ Len(JoinOrder) >= 2
<1> DEFINE m == IF MessageChannel THEN <<"message">> ELSE <<>>
<1>1. m \in Seq(Names) /\ Len(m) \in Nat
  <2>1. <<"message">> \in Seq(Names) /\ Len(<<"message">>) = 1
    BY DEF Names
  <2>2. <<>> \in Seq(Names) /\ Len(<<>>) = 0
    OBVIOUS
  <2> QED BY <2>1, <2>2
<1>2. Channels \in Seq(Names)
  <2>1. Channels \in Seq(STRING)
    BY ConnectionAssumption
  <2> QED BY <2>1 DEF Names
<1>3. <<"user", "global">> \in Seq(Names) /\ Len(<<"user", "global">>) = 2
  BY DEF Names
<1> HIDE DEF m
<1>4. <<"user", "global">> \o m \in Seq(Names)
      /\ Len(<<"user", "global">> \o m) = 2 + Len(m)
  BY <1>1, <1>3
<1>5. /\ (<<"user", "global">> \o m) \o Channels \in Seq(Names)
      /\ Len((<<"user", "global">> \o m) \o Channels) = 2 + Len(m) + Len(Channels)
  BY <1>2, <1>4
<1>6. JoinOrder = (<<"user", "global">> \o m) \o Channels
  BY DEF JoinOrder, m
<1> HIDE DEF JoinOrder
<1> QED BY <1>1, <1>2, <1>5, <1>6

LEMMA JoinOrderStart == JoinOrder[1] = "user"
<1> DEFINE m == IF MessageChannel THEN <<"message">> ELSE <<>>
           u == <<"user", "global">>
<1>1. m \in Seq(Names) /\ u \in Seq(Names) /\ Len(u) = 2
  <2>1. <<"message">> \in Seq(Names) /\ <<>> \in Seq(Names)
    BY DEF Names
  <2>2. u \in Seq(Names) /\ Len(u) = 2
    BY DEF Names
  <2> QED BY <2>1, <2>2
<1>2. Channels \in Seq(Names)
  <2>1. Channels \in Seq(STRING)
    BY ConnectionAssumption
  <2> QED BY <2>1 DEF Names
<1>3. JoinOrder = (u \o m) \o Channels /\ u[1] = "user"
  BY DEF JoinOrder
<1>4. \A s, t \in Seq(Names) :
        Len(s) >= 1 => /\ s \o t \in Seq(Names) /\ Len(s \o t) >= 1
                       /\ (s \o t)[1] = s[1]
  OBVIOUS
<1> HIDE DEF m, u, Names
<1>5. u \o m \in Seq(Names) /\ (u \o m)[1] = u[1] /\ Len(u \o m) >= 1
  <2>1. Len(u) >= 1
    BY <1>1
  <2> QED BY <1>1, <1>4, <2>1, Zenon
<1>6. ((u \o m) \o Channels)[1] = u[1]
  BY <1>2, <1>4, <1>5
<1> QED BY <1>3, <1>6

\* The channels joined so far, and the next one.
LEMMA JoinedFacts ==
    ASSUME NEW n \in 0..(Len(JoinOrder) - 1)
    PROVE  /\ Joined(0) = {} /\ Joined(Len(JoinOrder)) = ToJoin
           /\ JoinOrder[n + 1] \in Names /\ JoinOrder[n + 1] \in ToJoin
           /\ JoinOrder[n + 1] \notin Joined(n)
           /\ Joined(n + 1) = Joined(n) \cup {JoinOrder[n + 1]}
           /\ Joined(n + 1) \subseteq ToJoin /\ Joined(n) \subseteq ToJoin
           /\ (Joined(n + 1) = ToJoin) = (n + 1 = Len(JoinOrder))
<1> USE JoinOrderType
<1> DEFINE L == Len(JoinOrder)
<1>a. L \in Nat /\ L >= 2 /\ n \in Nat /\ n < L
  OBVIOUS
<1>b. \A i \in 1..L : JoinOrder[i] \in Names
  OBVIOUS
<1>c. \A i, j \in 1..L : JoinOrder[i] = JoinOrder[j] => i = j
  BY JoinAssumption
<1>d. ToJoin = {JoinOrder[i] : i \in 1..L}
  BY DEF ToJoin
<1> HIDE DEF L, JoinOrder
<1>1. Joined(0) = {} /\ Joined(L) = ToJoin
  BY <1>d DEF Joined
<1>2. n + 1 \in 1..L /\ \A i \in 1..n : i \in 1..L /\ i # n + 1
  BY <1>a
<1>3. JoinOrder[n + 1] \in Names /\ JoinOrder[n + 1] \in ToJoin
  BY <1>2, <1>b, <1>d
<1>4. JoinOrder[n + 1] \notin Joined(n)
  BY <1>2, <1>c DEF Joined
<1>5. Joined(n + 1) = Joined(n) \cup {JoinOrder[n + 1]}
  <2>1. 1..(n + 1) = 1..n \cup {n + 1}
    BY <1>a
  <2> QED BY <2>1 DEF Joined
<1>6. Joined(n + 1) \subseteq ToJoin /\ Joined(n) \subseteq ToJoin
  BY <1>2, <1>5, <1>d DEF Joined
<1>7. ASSUME n + 1 # L PROVE Joined(n + 1) # ToJoin
  <2>1. L \in 1..L /\ \A i \in 1..(n + 1) : i \in 1..L /\ i # L
    BY <1>a, <1>7
  <2>2. JoinOrder[L] \notin Joined(n + 1)
    BY <2>1, <1>c DEF Joined
  <2>3. JoinOrder[L] \in ToJoin
    BY <2>1, <1>d
  <2> QED BY <2>2, <2>3
<1>8. n + 1 = L => Joined(n + 1) = ToJoin
  BY <1>1
<1> QED BY <1>1, <1>3, <1>4, <1>5, <1>6, <1>7, <1>8 DEF L

-----------------------------------------------------------------------------
(***************************************************************************)
(* The handshake.                                                          *)
(***************************************************************************)

\* What holds once the client has its license.
SessionInv ==
    SessionPdus /\ Pairing /\ Shares /\ FontMaps /\ OneActivation /\ Finalizing

Core == Queues /\ Handshake /\ Joining /\ SessionInv /\ Told

\* A new connection, and none.
LEMMA FreshCore ==
    ASSUME NEW st \in {"INITIAL", "NEGO"}, FreshConnection(st)
    PROVE  Core'
<1>1. Queues'
  BY PduFacts DEF FreshConnection, Queues
<1>2. cState' = st /\ st \notin Session
  BY DEF FreshConnection, Session
<1>3. SessionInv'
  BY <1>2 DEF SessionInv, SessionPdus, Pairing, Shares, FontMaps, OneActivation,
              Finalizing, Session
<1>4. Handshake'
  BY DEF FreshConnection, Handshake, Session
<1>5. Joining'
  BY <1>2 DEF Joining
<1>6. Told'
  BY <1>2 DEF FreshConnection, Told, Session
<1> QED BY <1>1, <1>3, <1>4, <1>5, <1>6 DEF Core

\* Steps that keep the client out of the session have the handshake to keep.
LEMMA OutsideSession ==
    ASSUME cState \notin Session, cState' \notin Session, Handshake', Joining', Queues',
           Core, UNCHANGED frames
    PROVE  Core'
<1>1. frames' = <<>>
  BY DEF Core, Handshake
<1>2. Told'
  BY <1>1 DEF Told, Session
<1>3. SessionInv'
  BY DEF SessionInv, SessionPdus, Pairing, Shares, FontMaps, OneActivation,
         Finalizing, Session
<1> QED BY <1>2, <1>3 DEF Core

\* Steps within the session have no handshake to keep.
LEMMA InsideSession ==
    ASSUME cState' \in Session PROVE Handshake' /\ Joining'
BY DEF Handshake, Joining, Session

\* The PDUs of the handshake.
LEMMA HandshakePdus ==
    /\ \A t \in PduTypes : /\ Pdu(t, 0) \in Pdus /\ Pdu(t, 0).type = t
                           /\ <<Pdu(t, 0)>> \in Seq(Pdus)
                           /\ Head(<<Pdu(t, 0)>>) = Pdu(t, 0)
                           /\ Tail(<<Pdu(t, 0)>>) = <<>>
    /\ \A t, u \in PduTypes : /\ <<Pdu(t, 0), Pdu(u, 0)>> \in Seq(Pdus)
                              /\ Head(<<Pdu(t, 0), Pdu(u, 0)>>) = Pdu(t, 0)
                              /\ Tail(<<Pdu(t, 0), Pdu(u, 0)>>) = <<Pdu(u, 0)>>
BY PduFacts

LEMMA NegoDoneCore ==
    ASSUME Core, NegoDone PROVE Core'
<1>1. /\ cState = "NEGO" /\ cState' = "MCS_CONNECT"
      /\ UNCHANGED <<cJoined, sJoined, finalize, reactivation, frames, activated,
                     everActive, sGen, s2c, sState>>
  BY DEF NegoDone, server, ghosts
<1>2. c2s = <<>> /\ s2c = <<>> /\ sState = "NEGO"
  BY <1>1 DEF Core, Handshake
<1>3. c2s' = <<Pdu("CONNECT_INITIAL", 0)>>
  BY <1>2 DEF NegoDone
<1>4. Queues'
  BY <1>1, <1>2, <1>3, HandshakePdus, PduFacts DEF Queues, PduTypes
<1>5. Handshake'
  BY <1>1, <1>2, <1>3 DEF Core, Handshake, Session
<1>6. Joining'
  BY <1>1 DEF Joining
<1> QED BY <1>1, <1>4, <1>5, <1>6, OutsideSession DEF Session

LEMMA ClientConnectResponseCore ==
    ASSUME Core, ClientConnectResponse PROVE Core'
<1>1. /\ cState = "MCS_CONNECT" /\ cState' = "MCS_ATTACH_USER" /\ s2c # <<>>
      /\ s2c' = Tail(s2c)
      /\ c2s' = c2s \o <<Pdu("ERECT_DOMAIN", 0), Pdu("ATTACH_USER", 0)>>
      /\ UNCHANGED <<cJoined, sJoined, finalize, reactivation, frames, activated,
                     everActive, sGen, sState>>
  BY DEF ClientConnectResponse, ClientReads, ClientAnswers, server, ghosts
<1>2. sState = "MCS_CONNECT" /\ c2s = <<>> /\ s2c = <<Pdu("CONNECT_RESPONSE", 0)>>
  BY <1>1 DEF Core, Handshake
<1>3. s2c' = <<>> /\ c2s' = <<Pdu("ERECT_DOMAIN", 0), Pdu("ATTACH_USER", 0)>>
  BY <1>1, <1>2, HandshakePdus, EmptyConcat DEF PduTypes
<1>4. Queues'
  BY <1>3, HandshakePdus, PduFacts DEF Queues, PduTypes
<1>5. Handshake'
  BY <1>1, <1>2, <1>3 DEF Core, Handshake, Session
<1>6. Joining'
  BY <1>1 DEF Joining
<1> QED BY <1>1, <1>4, <1>5, <1>6, OutsideSession DEF Session

LEMMA ClientAttachUserConfirmCore ==
    ASSUME Core, ClientAttachUserConfirm PROVE Core'
<1>1. /\ cState = "MCS_ATTACH_USER" /\ cState' = "MCS_CHANNEL_JOIN" /\ s2c # <<>>
      /\ s2c' = Tail(s2c) /\ c2s' = c2s \o <<Pdu("JOIN", "user")>>
      /\ UNCHANGED <<cJoined, sJoined, finalize, reactivation, frames, activated,
                     everActive, sGen, sState>>
  BY DEF ClientAttachUserConfirm, ClientReads, ClientAnswers, server, ghosts
<1>2. /\ sState = "MCS_ATTACH_USER" /\ c2s = <<>>
      /\ s2c = <<Pdu("ATTACH_USER_CONFIRM", 0)>>
  BY <1>1 DEF Core, Handshake
<1>3. Pdu("JOIN", "user") \in Pdus
  BY PduFacts DEF PduTypes, Names
<1>4. s2c' = <<>> /\ c2s' = <<Pdu("JOIN", "user")>>
  BY <1>1, <1>2, <1>3, HandshakePdus, PduFacts, EmptyConcat DEF PduTypes
<1>5. Queues'
  BY <1>3, <1>4, PduFacts DEF Queues
<1>6. Handshake'
  BY <1>1 DEF Core, Handshake, Session
<1>7. Joining'
  <2>1. cJoined' = {} /\ sJoined' = {}
    BY <1>1 DEF Core, Handshake
  <2>2. 0 \in 0..(Len(JoinOrder) - 1)
    BY JoinOrderType
  <2>3. Joined(0) = {}
    BY <2>2, JoinedFacts
  <2>4. JoinOrder[0 + 1] = "user"
    BY JoinOrderStart
  <2>5. IsFiniteSet({}) /\ Cardinality({}) = 0
    BY FS_EmptySet
  <2> HIDE DEF Joined, JoinOrder
  <2> QED BY <1>1, <1>2, <1>4, <2>1, <2>2, <2>3, <2>4, <2>5 DEF Joining
<1> QED BY <1>1, <1>5, <1>6, <1>7, OutsideSession DEF Session

\* The channel that the client waits for.
LEMMA Expected ==
    ASSUME Core, cState = "MCS_CHANNEL_JOIN",
           NEW n \in 0..(Len(JoinOrder) - 1), Cardinality(cJoined) = n
    PROVE  ExpectedJoin = JoinOrder[n + 1]
BY DEF ExpectedJoin

LEMMA ClientJoinConfirmCore ==
    ASSUME Core, ClientJoinConfirm PROVE Core'
<1>1. /\ cState = "MCS_CHANNEL_JOIN" /\ s2c # <<>> /\ s2c' = Tail(s2c)
      /\ cJoined' = cJoined \cup {ExpectedJoin}
      /\ UNCHANGED <<sJoined, finalize, reactivation, frames, activated,
                     everActive, sGen, sState, useRdpSecurity>>
  BY DEF ClientJoinConfirm, ClientReads, ClientAnswers, server, ghosts, settings
<1>2. PICK n \in 0..(Len(JoinOrder) - 1) :
        /\ cJoined = Joined(n) /\ IsFiniteSet(cJoined) /\ Cardinality(cJoined) = n
        /\ c2s = <<>> /\ s2c = <<Pdu("JOIN_CONFIRM", JoinOrder[n + 1])>>
        /\ sJoined = Joined(n + 1)
        /\ sState = IF n + 1 = Len(JoinOrder) THEN "RDP_SECURITY_COMMENCEMENT"
                                              ELSE "MCS_ATTACH_USER"
  BY <1>1 DEF Core, Joining
<1>3. ExpectedJoin = JoinOrder[n + 1]
  BY <1>1, <1>2, Expected
<1>a. Len(JoinOrder) \in Nat /\ Len(JoinOrder) >= 2 /\ n \in Nat
  BY JoinOrderType
<1>b. /\ Joined(n + 1) = Joined(n) \cup {JoinOrder[n + 1]}
      /\ JoinOrder[n + 1] \notin Joined(n)
      /\ JoinOrder[n + 1] \in Names
      /\ (Joined(n + 1) = ToJoin) = (n + 1 = Len(JoinOrder))
  BY JoinedFacts
<1> HIDE DEF Joined, JoinOrder, ExpectedJoin, ToJoin
<1>4. cJoined' = Joined(n + 1)
  BY <1>1, <1>2, <1>3, <1>b
<1>5. IsFiniteSet(cJoined') /\ Cardinality(cJoined') = n + 1
  <2>1. /\ IsFiniteSet(Joined(n) \cup {JoinOrder[n + 1]})
        /\ Cardinality(Joined(n) \cup {JoinOrder[n + 1]}) = n + 1
    BY <1>2, <1>b, FS_AddElement
  <2> QED BY <1>4, <1>b, <2>1
<1>6. s2c' = <<>>
  <2>1. Pdu("JOIN_CONFIRM", JoinOrder[n + 1]) \in Pdus
    BY <1>b, PduFacts DEF PduTypes
  <2> QED BY <1>1, <1>2, <2>1, PduFacts
<1>7. CASE n + 1 = Len(JoinOrder)
  <2>1. cJoined' = ToJoin
    BY <1>4, <1>7, <1>b
  <2> DEFINE se == IF useRdpSecurity THEN <<Pdu("SECURITY_EXCHANGE", 0)>> ELSE <<>>
             ci == <<Pdu("CLIENT_INFO", 0)>>
  <2>2. cState' = "LICENSING" /\ c2s' = c2s \o (se \o ci)
    BY <2>1 DEF ClientJoinConfirm, ClientAnswers
  <2>3. ci \in Seq(Pdus) /\ <<Pdu("SECURITY_EXCHANGE", 0), Pdu("CLIENT_INFO", 0)>> \in Seq(Pdus)
    BY HandshakePdus DEF PduTypes
  <2>4. useRdpSecurity =>
          se \o ci = <<Pdu("SECURITY_EXCHANGE", 0), Pdu("CLIENT_INFO", 0)>>
    <3>1. Pdu("SECURITY_EXCHANGE", 0) \in Pdus /\ Pdu("CLIENT_INFO", 0) \in Pdus
      BY HandshakePdus DEF PduTypes
    <3> QED BY <3>1, PairConcat
  <2>5. ~useRdpSecurity => se \o ci = <<Pdu("CLIENT_INFO", 0)>>
    BY <2>3, EmptyConcat
  <2> HIDE DEF se, ci
  <2>6. c2s' = se \o ci /\ se \o ci \in Seq(Pdus)
    BY <1>2, <2>2, <2>3, <2>4, <2>5, EmptyConcat DEF ci
  <2>7. Queues'
    BY <1>6, <2>6, PduFacts DEF Queues
  <2>8. sState' = "RDP_SECURITY_COMMENCEMENT" /\ sJoined' = ToJoin
    BY <1>1, <1>2, <1>7, <1>b
  <2>9. Handshake'
    BY <1>1, <1>6, <2>1, <2>2, <2>4, <2>5, <2>6, <2>8 DEF Core, Handshake, Session
  <2>10. Joining'
    BY <2>2 DEF Joining
  <2> QED BY <1>1, <2>2, <2>7, <2>9, <2>10, OutsideSession DEF Session
<1>8. CASE n + 1 # Len(JoinOrder)
  <2>1. cJoined' # ToJoin
    BY <1>4, <1>8, <1>b
  <2>2. n + 1 \in 0..(Len(JoinOrder) - 1)
    BY <1>a, <1>8
  <2>3. JoinOrder[n + 1 + 1] \in Names
    BY <2>2, JoinedFacts
  <2>4. Pdu("JOIN", JoinOrder[n + 1 + 1]) \in Pdus
    BY <2>3, PduFacts DEF PduTypes
  <2>5. c2s' = c2s \o <<Pdu("JOIN", JoinOrder[n + 1 + 1])>> /\ cState' = cState
    <3>1. Cardinality(cJoined) + 2 = n + 1 + 1
      BY <1>2, <1>a
    <3> QED BY <2>1, <3>1 DEF ClientJoinConfirm, ClientAnswers
  <2>6. c2s' = <<Pdu("JOIN", JoinOrder[n + 1 + 1])>>
    BY <1>2, <2>4, <2>5, PduFacts, EmptyConcat
  <2>7. Queues'
    BY <1>6, <2>4, <2>6, PduFacts DEF Queues
  <2>8. sState' = "MCS_ATTACH_USER" /\ sJoined' = Joined(n + 1)
    BY <1>1, <1>2, <1>8
  <2>9. Joining'
    BY <1>4, <1>5, <1>6, <2>2, <2>6, <2>8 DEF Joining
  <2>10. Handshake'
    BY <1>1, <2>5 DEF Core, Handshake, Session
  <2> QED BY <1>1, <2>5, <2>7, <2>9, <2>10, OutsideSession DEF Session
<1> QED BY <1>7, <1>8

\* A server that reads in the handshake does so in the matching state of the
\* client.
LEMMA ServerInHandshake ==
    ASSUME Core, c2s # <<>>, sState \notin Session
    PROVE  cState \in {"MCS_CONNECT", "MCS_ATTACH_USER", "MCS_CHANNEL_JOIN", "LICENSING"}
           \/ cState \notin ClientStates
BY DEF Core, SessionInv, SessionPdus, Handshake, Session, ClientStates

LEMMA ServerConnectInitialCore ==
    ASSUME Core, TypeOK, ServerConnectInitial PROVE Core'
<1>1. /\ sState = "NEGO" /\ sState' = "MCS_CONNECT" /\ c2s # <<>> /\ c2s' = Tail(c2s)
      /\ s2c' = s2c \o <<Pdu("CONNECT_RESPONSE", 0)>>
      /\ UNCHANGED <<cState, cJoined, sJoined, finalize, reactivation, frames,
                     activated, everActive, sGen>>
  BY DEF ServerConnectInitial, ServerReads, ServerAnswers, client, ghosts
<1>2. cState \in ClientStates
  BY DEF TypeOK
<1>3. /\ cState = "MCS_CONNECT" /\ s2c = <<>>
      /\ c2s = <<Pdu("CONNECT_INITIAL", 0)>>
  BY <1>1, <1>2, ServerInHandshake DEF Core, Handshake, Joining, Session
<1>4. c2s' = <<>> /\ s2c' = <<Pdu("CONNECT_RESPONSE", 0)>>
  BY <1>1, <1>3, HandshakePdus, EmptyConcat DEF PduTypes
<1>5. Queues'
  BY <1>4, HandshakePdus, PduFacts DEF Queues, PduTypes
<1>6. Handshake'
  BY <1>1, <1>3, <1>4 DEF Core, Handshake, Session
<1>7. Joining'
  BY <1>1, <1>3 DEF Joining
<1> QED BY <1>1, <1>3, <1>5, <1>6, <1>7, OutsideSession DEF Session

LEMMA ServerErectDomainCore ==
    ASSUME Core, TypeOK, ServerErectDomain PROVE Core'
<1>1. /\ sState = "MCS_CONNECT" /\ sState' = "MCS_ERECT_DOMAIN" /\ c2s # <<>>
      /\ c2s' = Tail(c2s) /\ s2c' = s2c \o <<>>
      /\ UNCHANGED <<cState, cJoined, sJoined, finalize, reactivation, frames,
                     activated, everActive, sGen>>
  BY DEF ServerErectDomain, ServerReads, ServerAnswers, client, ghosts
<1>2. cState \in ClientStates
  BY DEF TypeOK
<1>3. /\ cState = "MCS_ATTACH_USER" /\ s2c = <<>>
      /\ c2s = <<Pdu("ERECT_DOMAIN", 0), Pdu("ATTACH_USER", 0)>>
  BY <1>1, <1>2, ServerInHandshake DEF Core, Handshake, Joining, Session
<1>4. c2s' = <<Pdu("ATTACH_USER", 0)>> /\ s2c' = <<>>
  BY <1>1, <1>3, HandshakePdus, PduFacts, EmptyConcat DEF PduTypes
<1>5. Queues'
  BY <1>4, HandshakePdus, PduFacts DEF Queues, PduTypes
<1>6. Handshake'
  BY <1>1, <1>3, <1>4 DEF Core, Handshake, Session
<1>7. Joining'
  BY <1>1, <1>3 DEF Joining
<1> QED BY <1>1, <1>3, <1>5, <1>6, <1>7, OutsideSession DEF Session

LEMMA ServerAttachUserCore ==
    ASSUME Core, TypeOK, ServerAttachUser PROVE Core'
<1>1. /\ sState = "MCS_ERECT_DOMAIN" /\ sState' = "MCS_ATTACH_USER" /\ c2s # <<>>
      /\ c2s' = Tail(c2s) /\ s2c' = s2c \o <<Pdu("ATTACH_USER_CONFIRM", 0)>>
      /\ UNCHANGED <<cState, cJoined, sJoined, finalize, reactivation, frames,
                     activated, everActive, sGen>>
  BY DEF ServerAttachUser, ServerReads, ServerAnswers, client, ghosts
<1>2. cState \in ClientStates
  BY DEF TypeOK
<1>3. cState = "MCS_ATTACH_USER" /\ s2c = <<>> /\ c2s = <<Pdu("ATTACH_USER", 0)>>
  BY <1>1, <1>2, ServerInHandshake DEF Core, Handshake, Joining, Session
<1>4. c2s' = <<>> /\ s2c' = <<Pdu("ATTACH_USER_CONFIRM", 0)>>
  BY <1>1, <1>3, HandshakePdus, EmptyConcat DEF PduTypes
<1>5. Queues'
  BY <1>4, HandshakePdus, PduFacts DEF Queues, PduTypes
<1>6. Handshake'
  BY <1>1, <1>3, <1>4 DEF Core, Handshake, Session
<1>7. Joining'
  BY <1>1, <1>3 DEF Joining
<1> QED BY <1>1, <1>3, <1>5, <1>6, <1>7, OutsideSession DEF Session

LEMMA ServerJoinCore ==
    ASSUME Core, TypeOK, ServerJoin PROVE Core'
<1>1. /\ sState = "MCS_ATTACH_USER" /\ c2s # <<>> /\ c2s' = Tail(c2s)
      /\ s2c' = s2c \o <<Pdu("JOIN_CONFIRM", Head(c2s).arg)>>
      /\ sJoined' = sJoined \cup {Head(c2s).arg}
      /\ sState' = IF sJoined' = ToJoin THEN "RDP_SECURITY_COMMENCEMENT" ELSE sState
      /\ UNCHANGED <<cState, cJoined, finalize, reactivation, frames,
                     activated, everActive, sGen>>
  BY DEF ServerJoin, ServerReads, ServerAnswers, ClientPdu, client, ghosts
<1>2. cState \in ClientStates
  BY DEF TypeOK
<1>3. cState = "MCS_CHANNEL_JOIN"
  BY <1>1, <1>2, ServerInHandshake DEF Core, Handshake, Session
<1>4. PICK n \in 0..(Len(JoinOrder) - 1) :
        /\ cJoined = Joined(n) /\ IsFiniteSet(cJoined) /\ Cardinality(cJoined) = n
        /\ c2s = <<Pdu("JOIN", JoinOrder[n + 1])>> /\ s2c = <<>>
        /\ sJoined = Joined(n)
  BY <1>1, <1>3 DEF Core, Joining
<1>5. /\ Joined(n + 1) = Joined(n) \cup {JoinOrder[n + 1]}
      /\ JoinOrder[n + 1] \in Names
      /\ (Joined(n + 1) = ToJoin) = (n + 1 = Len(JoinOrder))
  BY JoinedFacts
<1> HIDE DEF Joined, JoinOrder, ToJoin
<1>6. /\ Pdu("JOIN", JoinOrder[n + 1]) \in Pdus
      /\ Pdu("JOIN", JoinOrder[n + 1]).arg = JoinOrder[n + 1]
      /\ Pdu("JOIN_CONFIRM", JoinOrder[n + 1]) \in Pdus
  BY <1>5, PduFacts DEF PduTypes
<1>7. Head(c2s).arg = JoinOrder[n + 1] /\ c2s' = <<>>
  BY <1>1, <1>4, <1>6, PduFacts
<1>8. s2c' = <<Pdu("JOIN_CONFIRM", JoinOrder[n + 1])>>
  BY <1>1, <1>4, <1>6, <1>7, PduFacts, EmptyConcat
<1>9. sJoined' = Joined(n + 1)
  BY <1>1, <1>4, <1>5, <1>7
<1>10. sState' = IF n + 1 = Len(JoinOrder) THEN "RDP_SECURITY_COMMENCEMENT"
                                           ELSE "MCS_ATTACH_USER"
  BY <1>1, <1>5, <1>9
<1>11. Queues'
  BY <1>6, <1>7, <1>8, PduFacts DEF Queues
<1>12. Joining'
  BY <1>1, <1>4, <1>7, <1>8, <1>9, <1>10 DEF Joining
<1>13. Handshake'
  BY <1>1, <1>3 DEF Core, Handshake, Session
<1> QED BY <1>1, <1>3, <1>11, <1>12, <1>13, OutsideSession DEF Session

LEMMA ServerEstablishKeysCore ==
    ASSUME Core, TypeOK, ServerEstablishKeys PROVE Core'
<1>1. /\ sState = "RDP_SECURITY_COMMENCEMENT" /\ sState' = "SECURE_SETTINGS_EXCHANGE"
      /\ useRdpSecurity /\ c2s # <<>> /\ c2s' = Tail(c2s) /\ s2c' = s2c \o <<>>
      /\ UNCHANGED <<cState, cJoined, sJoined, finalize, reactivation, frames,
                     activated, everActive, sGen, useRdpSecurity>>
  BY DEF ServerEstablishKeys, ServerReads, ServerAnswers, client, ghosts, settings
<1>2. cState \in ClientStates
  BY DEF TypeOK
<1>3. /\ cState = "LICENSING" /\ s2c = <<>>
      /\ c2s = <<Pdu("SECURITY_EXCHANGE", 0), Pdu("CLIENT_INFO", 0)>>
  BY <1>1, <1>2, ServerInHandshake DEF Core, Handshake, Joining, Session
<1>4. c2s' = <<Pdu("CLIENT_INFO", 0)>> /\ s2c' = <<>>
  BY <1>1, <1>3, HandshakePdus, PduFacts, EmptyConcat DEF PduTypes
<1>5. Queues'
  BY <1>4, HandshakePdus, PduFacts DEF Queues, PduTypes
<1>6. Handshake'
  BY <1>1, <1>3, <1>4 DEF Core, Handshake, Session
<1>7. Joining'
  BY <1>1, <1>3 DEF Joining
<1> QED BY <1>1, <1>3, <1>5, <1>6, <1>7, OutsideSession DEF Session

LEMMA ServerClientInfoCore ==
    ASSUME Core, TypeOK, ServerClientInfo PROVE Core'
<1> DEFINE l == Pdu("LICENSE_VALID_CLIENT", 0)
           d == Pdu("DEMAND_ACTIVE", sGen)
<1>1. /\ sState = IF useRdpSecurity THEN "SECURE_SETTINGS_EXCHANGE"
                                    ELSE "RDP_SECURITY_COMMENCEMENT"
      /\ sState' = "CAPABILITIES_EXCHANGE" /\ AwaitCapabilities'
      /\ c2s # <<>> /\ c2s' = Tail(c2s) /\ s2c' = s2c \o <<l, d>>
      /\ UNCHANGED <<cState, cJoined, sJoined, finalize, reactivation, frames,
                     activated, everActive, sGen, useRdpSecurity>>
  BY DEF ServerClientInfo, ServerReads, ServerAnswers, client, ghosts, settings
<1>2. cState \in ClientStates /\ sGen \in Gens
  BY DEF TypeOK
<1>3. cState = "LICENSING" /\ s2c = <<>> /\ c2s = <<Pdu("CLIENT_INFO", 0)>>
  BY <1>1, <1>2, ServerInHandshake DEF Core, Handshake, Joining, Session
<1>4. <<l, d>> \in Seq(Pdus)
  BY <1>2, PduFacts DEF PduTypes, Gens
<1>5. c2s' = <<>> /\ s2c' = <<l, d>>
  BY <1>1, <1>3, <1>4, HandshakePdus, EmptyConcat DEF PduTypes
<1>6. Queues'
  BY <1>4, <1>5, PduFacts DEF Queues
<1>7. Handshake'
  BY <1>1, <1>3, <1>5 DEF Core, Handshake, Session
<1>8. Joining'
  BY <1>1, <1>3 DEF Joining
<1> QED BY <1>1, <1>3, <1>6, <1>7, <1>8, OutsideSession DEF Session

\* The license brings the client into the session.
LEMMA ClientLicenseCore ==
    ASSUME Core, TypeOK, ClientLicense PROVE Core'
<1> DEFINE l == Pdu("LICENSE_VALID_CLIENT", 0)
           d == Pdu("DEMAND_ACTIVE", sGen)
<1>1. /\ cState = "LICENSING" /\ cState' = "CAPABILITIES_EXCHANGE"
      /\ s2c # <<>> /\ s2c' = Tail(s2c) /\ c2s' = c2s \o <<>>
      /\ UNCHANGED <<cJoined, sJoined, finalize, reactivation, frames, activated,
                     everActive, sGen, sState, AwaitCapabilities, resizeOnInput>>
  BY DEF ClientLicense, ClientReads, ClientAnswers, server, ghosts, settings
<1>2. /\ sState = "CAPABILITIES_EXCHANGE" /\ AwaitCapabilities /\ c2s = <<>>
      /\ s2c = <<l, d>> /\ cJoined = ToJoin /\ sJoined = ToJoin
      /\ activated = FALSE /\ reactivation = everActive /\ frames = <<>>
  BY <1>1 DEF Core, Handshake, Session
<1>3. sGen \in Gens
  BY DEF TypeOK
<1>4. l \in Pdus /\ d \in Pdus /\ d.type = "DEMAND_ACTIVE" /\ d.arg = sGen
  BY <1>3, PduFacts DEF PduTypes, Gens
<1> HIDE DEF l, d
<1>5. c2s' = <<>> /\ s2c' = <<d>>
  BY <1>1, <1>2, <1>4, PduFacts, EmptyConcat
<1>6. /\ DOMAIN c2s' = {} /\ DOMAIN s2c' = {1} /\ s2c'[1] = d /\ Len(s2c') = 1
      /\ s2c' # <<>>
  BY <1>5
<1>7. Queues'
  BY <1>4, <1>5, PduFacts DEF Queues
<1>8. SessionPdus'
  BY <1>1, <1>2, <1>4, <1>6 DEF SessionPdus, Session
<1>9. Pairing'
  BY <1>1, <1>4, <1>6 DEF Pairing, Session
<1>10. InFlight(s2c, "DEMAND_ACTIVE")'
  BY <1>4, <1>6 DEF InFlight
<1>11. Shares'
  BY <1>1, <1>3, <1>4, <1>6, <1>10 DEF Shares
<1>12. FontMaps'
  BY <1>4, <1>6, <1>10 DEF FontMaps
<1>13. OneActivation'
  BY <1>1, <1>2, <1>4, <1>6, <1>10 DEF OneActivation, AllInput, InFlight
<1>14. Finalizing'
  BY <1>1 DEF Finalizing
<1>15. Told'
  BY <1>1, <1>2 DEF Told
<1> QED BY <1>1, <1>7, <1>8, <1>9, <1>11, <1>12, <1>13, <1>14, <1>15, InsideSession
        DEF Core, SessionInv, Session

-----------------------------------------------------------------------------
(***************************************************************************)
(* The session: what a read of the client does to each part.               *)
(***************************************************************************)

LEMMA SessionPdusRead ==
    ASSUME Queues, SessionPdus, cState \in Session, s2c # <<>>, s2c' = Tail(s2c),
           UNCHANGED <<c2s, cJoined, sJoined, sState, AwaitCapabilities, activated>>
    PROVE  SessionPdus'
<1>1. \A i \in DOMAIN s2c' : i + 1 \in DOMAIN s2c /\ s2c'[i] = s2c[i + 1]
  BY ReadFacts DEF Queues
<1> QED BY <1>1 DEF SessionPdus

LEMMA PairingRead ==
    ASSUME Queues, Pairing, cState \in Session, s2c # <<>>, s2c' = Tail(s2c),
           (cState' = "CAPABILITIES_EXCHANGE") = (s2c[1].type = "DEACTIVATE_ALL")
    PROVE  Pairing'
<1>1. /\ \A i \in DOMAIN s2c' : i + 1 \in DOMAIN s2c /\ s2c'[i] = s2c[i + 1]
      /\ \A i \in DOMAIN s2c : i # 1 => i - 1 \in DOMAIN s2c' /\ s2c'[i - 1] = s2c[i]
      /\ s2c' \in Seq(Pdus) /\ 1 \in DOMAIN s2c /\ s2c \in Seq(Pdus)
  BY ReadFacts DEF Queues
<1>a. \A i \in DOMAIN s2c : i \in Nat /\ i >= 1
  BY <1>1
<1>b. \A i \in DOMAIN s2c' : i \in Nat /\ i >= 1
  BY <1>1
<1>c. s2c' # <<>> <=> 1 \in DOMAIN s2c'
  BY <1>1
<1>d. \A k \in DOMAIN s2c : s2c[k].type = "DEMAND_ACTIVE" /\ k # 1 =>
        \E i \in DOMAIN s2c : i = k - 1 /\ s2c[i].type = "DEACTIVATE_ALL"
  <2> SUFFICES ASSUME NEW k \in DOMAIN s2c, s2c[k].type = "DEMAND_ACTIVE", k # 1
               PROVE  k - 1 \in DOMAIN s2c /\ s2c[k - 1].type = "DEACTIVATE_ALL"
    OBVIOUS
  <2>1. s2c[k - 1].type = "DEACTIVATE_ALL"
    BY DEF Pairing
  <2>2. k - 1 \in DOMAIN s2c
    BY <1>1
  <2> QED BY <2>1, <2>2
<1>2. \A i \in DOMAIN s2c' : s2c'[i].type = "DEACTIVATE_ALL" =>
        i + 1 \in DOMAIN s2c' /\ s2c'[i + 1].type = "DEMAND_ACTIVE"
  <2> SUFFICES ASSUME NEW i \in DOMAIN s2c', s2c'[i].type = "DEACTIVATE_ALL"
               PROVE  i + 1 \in DOMAIN s2c' /\ s2c'[i + 1].type = "DEMAND_ACTIVE"
    OBVIOUS
  <2>1. i + 1 \in DOMAIN s2c /\ s2c[i + 1].type = "DEACTIVATE_ALL"
    BY <1>1
  <2>2. i + 1 + 1 \in DOMAIN s2c /\ s2c[i + 1 + 1].type = "DEMAND_ACTIVE"
    BY <2>1 DEF Pairing
  <2>3. i + 1 + 1 # 1 /\ i + 1 + 1 - 1 = i + 1
    BY <1>b
  <2> QED BY <1>1, <2>2, <2>3
<1>3. \A i \in DOMAIN s2c' : s2c'[i].type = "DEMAND_ACTIVE" /\ i # 1 =>
        s2c'[i - 1].type = "DEACTIVATE_ALL"
  <2> SUFFICES ASSUME NEW i \in DOMAIN s2c', s2c'[i].type = "DEMAND_ACTIVE", i # 1
               PROVE  s2c'[i - 1].type = "DEACTIVATE_ALL"
    OBVIOUS
  <2>1. i + 1 \in DOMAIN s2c /\ s2c[i + 1].type = "DEMAND_ACTIVE" /\ i + 1 # 1
    BY <1>1, <1>b
  <2> DEFINE m == i + 1
  <2>a. m - 1 = i
    BY <1>b
  <2>b. m \in DOMAIN s2c /\ s2c[m].type = "DEMAND_ACTIVE" /\ m # 1
    BY <2>1
  <2> HIDE DEF m
  <2>2. PICK k \in DOMAIN s2c : k = m - 1 /\ s2c[k].type = "DEACTIVATE_ALL"
    BY <2>b, <1>d, Zenon
  <2>3. k = i /\ k # 1
    BY <2>a, <2>2
  <2> QED BY <1>1, <2>2, <2>3
<1>4. (s2c[1].type = "DEACTIVATE_ALL") <=> (s2c' # <<>> /\ s2c'[1].type = "DEMAND_ACTIVE")
  <2>1. ASSUME s2c[1].type = "DEACTIVATE_ALL"
        PROVE  1 \in DOMAIN s2c' /\ s2c'[1].type = "DEMAND_ACTIVE"
    <3>1. 1 + 1 \in DOMAIN s2c /\ s2c[1 + 1].type = "DEMAND_ACTIVE"
      BY <1>1, <2>1 DEF Pairing
    <3> QED BY <1>1, <3>1
  <2>2. ASSUME 1 \in DOMAIN s2c', s2c'[1].type = "DEMAND_ACTIVE"
        PROVE  s2c[1].type = "DEACTIVATE_ALL"
    <3>1. 1 + 1 \in DOMAIN s2c /\ s2c[1 + 1].type = "DEMAND_ACTIVE"
      BY <1>1, <2>2
    <3>2. PICK k \in DOMAIN s2c : k = 1 + 1 - 1 /\ s2c[k].type = "DEACTIVATE_ALL"
      BY <3>1, <1>d
    <3> QED BY <3>2
  <2> QED BY <1>c, <2>1, <2>2
<1> QED BY <1>2, <1>3, <1>4 DEF Pairing

\* A PDU of the queue that is not the one read is still in the queue.
LEMMA InFlightRead ==
    ASSUME Queues, s2c # <<>>, s2c' = Tail(s2c), NEW t
    PROVE  /\ InFlight(s2c, t)' => InFlight(s2c, t)
           /\ s2c[1].type # t => (InFlight(s2c, t) => InFlight(s2c, t)')
<1>1. /\ \A i \in DOMAIN s2c' : i + 1 \in DOMAIN s2c /\ s2c'[i] = s2c[i + 1]
      /\ \A i \in DOMAIN s2c : i # 1 => i - 1 \in DOMAIN s2c' /\ s2c'[i - 1] = s2c[i]
  BY ReadFacts DEF Queues
<1> QED BY <1>1 DEF InFlight

LEMMA SharesRead ==
    ASSUME Queues, Shares, cState \in Session, s2c # <<>>, s2c' = Tail(s2c),
           s2c[1].type # "DEMAND_ACTIVE", UNCHANGED <<sGen, cGen>>
    PROVE  Shares'
<1>1. /\ \A i \in DOMAIN s2c' : i \in Nat /\ i + 1 \in DOMAIN s2c /\ s2c'[i] = s2c[i + 1]
      /\ \A i \in DOMAIN s2c : i # 1 => i - 1 \in DOMAIN s2c' /\ s2c'[i - 1] = s2c[i]
      /\ \A i \in DOMAIN s2c : i \in Nat
  BY ReadFacts DEF Queues
<1>2. \A i \in DOMAIN s2c' : s2c'[i].type = "DEMAND_ACTIVE" =>
        /\ s2c'[i].arg \in Gens
        /\ \/ s2c'[i].arg = sGen
           \/ \E j \in DOMAIN s2c' : i < j /\ s2c'[j].type = "DEMAND_ACTIVE"
  <2> SUFFICES ASSUME NEW i \in DOMAIN s2c', s2c'[i].type = "DEMAND_ACTIVE"
               PROVE  /\ s2c'[i].arg \in Gens
                      /\ \/ s2c'[i].arg = sGen
                         \/ \E j \in DOMAIN s2c' : i < j /\ s2c'[j].type = "DEMAND_ACTIVE"
    OBVIOUS
  <2>1. /\ s2c'[i].arg \in Gens
        /\ \/ s2c'[i].arg = sGen
           \/ \E j \in DOMAIN s2c : i + 1 < j /\ s2c[j].type = "DEMAND_ACTIVE"
    BY <1>1 DEF Shares
  <2>2. ASSUME NEW j \in DOMAIN s2c, i + 1 < j, s2c[j].type = "DEMAND_ACTIVE"
        PROVE  /\ j - 1 \in DOMAIN s2c' /\ i < j - 1
               /\ s2c'[j - 1].type = "DEMAND_ACTIVE"
    BY <1>1, <2>2
  <2> QED BY <2>1, <2>2
<1>3. InFlight(s2c, "DEMAND_ACTIVE") => InFlight(s2c, "DEMAND_ACTIVE")'
  BY InFlightRead
<1> QED BY <1>2, <1>3 DEF Shares

LEMMA SharesDemand ==
    ASSUME Queues, Shares, cState \in Session, s2c # <<>>, s2c' = Tail(s2c),
           s2c[1].type = "DEMAND_ACTIVE", cGen' = s2c[1].arg, sGen' = sGen
    PROVE  Shares' /\ cGen' \in Gens
<1>1. /\ \A i \in DOMAIN s2c' : i \in Nat /\ i + 1 \in DOMAIN s2c /\ s2c'[i] = s2c[i + 1]
      /\ \A i \in DOMAIN s2c : i # 1 => i - 1 \in DOMAIN s2c' /\ s2c'[i - 1] = s2c[i]
      /\ \A i \in DOMAIN s2c : i \in Nat
      /\ 1 \in DOMAIN s2c
  BY ReadFacts DEF Queues
<1>2. \A i \in DOMAIN s2c' : s2c'[i].type = "DEMAND_ACTIVE" =>
        /\ s2c'[i].arg \in Gens
        /\ \/ s2c'[i].arg = sGen
           \/ \E j \in DOMAIN s2c' : i < j /\ s2c'[j].type = "DEMAND_ACTIVE"
  <2> SUFFICES ASSUME NEW i \in DOMAIN s2c', s2c'[i].type = "DEMAND_ACTIVE"
               PROVE  /\ s2c'[i].arg \in Gens
                      /\ \/ s2c'[i].arg = sGen
                         \/ \E j \in DOMAIN s2c' : i < j /\ s2c'[j].type = "DEMAND_ACTIVE"
    OBVIOUS
  <2>1. /\ s2c'[i].arg \in Gens
        /\ \/ s2c'[i].arg = sGen
           \/ \E j \in DOMAIN s2c : i + 1 < j /\ s2c[j].type = "DEMAND_ACTIVE"
    BY <1>1 DEF Shares
  <2>2. ASSUME NEW j \in DOMAIN s2c, i + 1 < j, s2c[j].type = "DEMAND_ACTIVE"
        PROVE  /\ j - 1 \in DOMAIN s2c' /\ i < j - 1
               /\ s2c'[j - 1].type = "DEMAND_ACTIVE"
    BY <1>1, <2>2
  <2> QED BY <2>1, <2>2
<1>3. /\ s2c[1].arg \in Gens
      /\ \/ s2c[1].arg = sGen
         \/ \E j \in DOMAIN s2c : 1 < j /\ s2c[j].type = "DEMAND_ACTIVE"
  BY <1>1 DEF Shares
<1>4. ASSUME NEW j \in DOMAIN s2c, 1 < j, s2c[j].type = "DEMAND_ACTIVE"
      PROVE  InFlight(s2c, "DEMAND_ACTIVE")'
  <2>1. j - 1 \in DOMAIN s2c' /\ s2c'[j - 1] = s2c[j]
    BY <1>1, <1>4
  <2> QED BY <1>4, <2>1 DEF InFlight
<1> QED BY <1>2, <1>3, <1>4 DEF Shares

\* The Font Maps on their way, after a read.
LEMMA FontMapsLater ==
    ASSUME Queues, FontMaps, cState \in Session, sState # "ACTIVE", s2c # <<>>,
           s2c' = Tail(s2c)
    PROVE  /\ \A i \in DOMAIN s2c' : s2c'[i].type = "FONT_MAP" =>
                \E j \in DOMAIN s2c' : i < j /\ s2c'[j].type = "DEMAND_ACTIVE"
           /\ s2c[1].type = "FONT_MAP" => InFlight(s2c, "DEMAND_ACTIVE")'
<1>1. /\ \A i \in DOMAIN s2c' : i \in Nat /\ i + 1 \in DOMAIN s2c /\ s2c'[i] = s2c[i + 1]
      /\ \A i \in DOMAIN s2c : i # 1 => i - 1 \in DOMAIN s2c' /\ s2c'[i - 1] = s2c[i]
      /\ \A i \in DOMAIN s2c : i \in Nat
      /\ 1 \in DOMAIN s2c
  BY ReadFacts DEF Queues
<1>2. ASSUME NEW i \in DOMAIN s2c', s2c'[i].type = "FONT_MAP"
      PROVE  \E j \in DOMAIN s2c' : i < j /\ s2c'[j].type = "DEMAND_ACTIVE"
  <2>1. PICK j \in DOMAIN s2c : i + 1 < j /\ s2c[j].type = "DEMAND_ACTIVE"
    BY <1>1, <1>2 DEF FontMaps
  <2>2. j - 1 \in DOMAIN s2c' /\ i < j - 1 /\ s2c'[j - 1].type = "DEMAND_ACTIVE"
    BY <1>1, <2>1
  <2> QED BY <2>2
<1>3. ASSUME s2c[1].type = "FONT_MAP"
      PROVE  InFlight(s2c, "DEMAND_ACTIVE")'
  <2>1. PICK j \in DOMAIN s2c : 1 < j /\ s2c[j].type = "DEMAND_ACTIVE"
    BY <1>1, <1>3 DEF FontMaps
  <2>2. j - 1 \in DOMAIN s2c' /\ s2c'[j - 1].type = "DEMAND_ACTIVE"
    BY <1>1, <2>1
  <2> QED BY <2>2 DEF InFlight
<1> QED BY <1>2, <1>3

LEMMA OneActivationRead ==
    ASSUME Queues, OneActivation, cState \in Session, s2c # <<>>, s2c' = Tail(s2c),
           s2c[1].type # "DEMAND_ACTIVE", UNCHANGED <<c2s, sState, resizeOnInput>>
    PROVE  OneActivation'
<1>1. /\ \A i \in DOMAIN s2c' : i \in Nat /\ i + 1 \in DOMAIN s2c /\ s2c'[i] = s2c[i + 1]
      /\ \A i \in DOMAIN s2c : i \in Nat
  BY ReadFacts DEF Queues
<1>2. InFlight(s2c, "DEMAND_ACTIVE")' = InFlight(s2c, "DEMAND_ACTIVE")
  <2>1. InFlight(s2c, "DEMAND_ACTIVE")' <=> InFlight(s2c, "DEMAND_ACTIVE")
    BY InFlightRead
  <2> QED BY <2>1 DEF InFlight
<1>3. ASSUME ~resizeOnInput
      PROVE  \A i, j \in DOMAIN s2c' : s2c'[i].type = "DEMAND_ACTIVE" => j <= i
  <2> SUFFICES ASSUME NEW i \in DOMAIN s2c', NEW j \in DOMAIN s2c',
                      s2c'[i].type = "DEMAND_ACTIVE"
               PROVE  j <= i
    OBVIOUS
  <2>1. j + 1 <= i + 1
    BY <1>1, <1>3 DEF OneActivation
  <2> QED BY <1>1, <2>1
<1> QED BY <1>2, <1>3 DEF OneActivation, AllInput, InFlight

-----------------------------------------------------------------------------
(***************************************************************************)
(* The session: the steps of the client.                                   *)
(***************************************************************************)

\* The empty answer.
LEMMA NoAnswer ==
    ASSUME Queues, ClientAnswers(<<>>), s2c # <<>>
    PROVE  s2c' = Tail(s2c) /\ c2s' = c2s /\ Queues'
BY EmptyConcat, ReadFacts DEF Queues, ClientAnswers

\* In FINALIZATION a Font Map is the last PDU that is missing.
LEMMA FontMapIsLast ==
    ASSUME Queues, Finalizing, cState = "FINALIZATION", ~resizeOnInput, s2c # <<>>,
           s2c[1].type = "FONT_MAP"
    PROVE  finalize \cup {"FONT_MAP"} = finalize \cup FinalizeComplete
<1>1. 1 \in DOMAIN s2c /\ \A j \in DOMAIN s2c : j \in Nat /\ j >= 1
  BY ReadFacts DEF Queues
<1>2. \A t \in FinalizeComplete \ {"FONT_MAP"} : t \in finalize
  BY <1>1 DEF Finalizing, Comes
<1> QED BY <1>2 DEF FinalizeComplete

LEMMA ClientDataPduCore ==
    ASSUME Core, TypeOK, ClientDataPdu PROVE Core'
<1> USE DEF Core, SessionInv
<1>1. /\ cState \in Session /\ s2c # <<>> /\ Head(s2c).type \in FinalizeComplete
      /\ cState = "FINALIZATION" => finalize \cup {Head(s2c).type} # FinalizeComplete
      /\ finalize' = finalize \cup {Head(s2c).type}
      /\ ClientAnswers(<<>>)
      /\ UNCHANGED <<cState, cJoined, reactivation, frames, resizeOnInput, sState,
                     sJoined, AwaitCapabilities, activated, sGen, cGen, everActive,
                     events>>
  BY DEF ClientDataPdu, IsFinalizePdu, ServerPdu, Session, settings, server, ghosts
<1>2. s2c' = Tail(s2c) /\ c2s' = c2s /\ Queues'
  BY <1>1, NoAnswer
<1>3. Head(s2c) = s2c[1] /\ 1 \in DOMAIN s2c
  BY <1>1, ReadFacts DEF Queues
<1>4. s2c[1].type \notin {"DEMAND_ACTIVE", "DEACTIVATE_ALL"}
  BY <1>1, <1>3 DEF FinalizeComplete
<1>5. cState # "CAPABILITIES_EXCHANGE"
  BY <1>1, <1>4 DEF Pairing
<1>6. SessionPdus'
  BY <1>1, <1>2, SessionPdusRead
<1>7. Pairing'
  BY <1>1, <1>2, <1>4, <1>5, PairingRead
<1>8. Shares'
  BY <1>1, <1>2, <1>4, SharesRead
<1>9. FontMaps'
  <2>1. CASE sState = "ACTIVE"
    BY <1>1, <2>1 DEF FontMaps
  <2>2. CASE sState # "ACTIVE"
    <3>1. \A i \in DOMAIN s2c' : s2c'[i].type = "FONT_MAP" =>
            \E j \in DOMAIN s2c' : i < j /\ s2c'[j].type = "DEMAND_ACTIVE"
      BY <1>1, <1>2, <2>2, FontMapsLater
    <3>2. InFlight(s2c, "DEMAND_ACTIVE") => InFlight(s2c, "DEMAND_ACTIVE")'
      BY <1>1, <1>2, <1>4, InFlightRead
    <3>3. s2c[1].type = "FONT_MAP" => InFlight(s2c, "DEMAND_ACTIVE")'
      BY <1>1, <1>2, <2>2, FontMapsLater
    <3>4. ASSUME ~InFlight(s2c, "DEMAND_ACTIVE")'
          PROVE  cState' = "FINALIZATION" /\ "FONT_MAP" \notin finalize'
      BY <1>1, <1>3, <2>2, <3>2, <3>3, <3>4 DEF FontMaps
    <3> QED BY <3>1, <3>4 DEF FontMaps
  <2> QED BY <2>1, <2>2
<1>10. OneActivation'
  BY <1>1, <1>2, <1>4, OneActivationRead
<1>11. Finalizing'
  <2> SUFFICES ASSUME cState = "FINALIZATION", ~resizeOnInput PROVE Finalizing'
    BY <1>1 DEF Finalizing
  <2>1. /\ \A i \in DOMAIN s2c' : i \in Nat /\ i + 1 \in DOMAIN s2c /\ s2c'[i] = s2c[i + 1]
        /\ \A i \in DOMAIN s2c : i # 1 => i - 1 \in DOMAIN s2c' /\ s2c'[i - 1] = s2c[i]
        /\ \A i \in DOMAIN s2c : i \in Nat /\ i >= 1
        /\ Len(s2c') = Len(s2c) - 1 /\ Len(s2c) \in Nat
    BY <1>1, <1>2, ReadFacts DEF Queues
  <2>2. s2c[1].type # "FONT_MAP"
    <3>1. finalize \subseteq FinalizeComplete
      BY DEF TypeOK
    <3> QED BY <1>1, <1>3, <3>1, FontMapIsLast DEF FinalizeComplete
  <2>3. ASSUME NEW t, NEW i \in Nat, Comes(t, i + 1)
        PROVE  Comes(t, i)'
    <3>1. CASE t \in finalize
      BY <1>1, <3>1 DEF Comes
    <3>2. ASSUME NEW j \in DOMAIN s2c, j < i + 1, s2c[j].type = t
          PROVE  Comes(t, i)'
      <4>1. CASE j = 1
        BY <1>1, <1>3, <3>2, <4>1 DEF Comes
      <4>2. CASE j # 1
        <5>1. j - 1 \in DOMAIN s2c' /\ j - 1 < i /\ s2c'[j - 1].type = t
          BY <2>1, <3>2, <4>2
        <5> QED BY <5>1 DEF Comes
      <4> QED BY <4>1, <4>2
    <3> QED BY <2>3, <3>1, <3>2 DEF Comes
  <2>4. \A i \in DOMAIN s2c' : s2c'[i].type = "FONT_MAP" =>
          \A t \in FinalizeComplete \ {"FONT_MAP"} : Comes(t, i)'
    BY <2>1, <2>3 DEF Finalizing
  <2>5. ASSUME NEW i \in DOMAIN s2c', s2c'[i].type = "DEACTIVATE_ALL"
        PROVE  \E j \in DOMAIN s2c' : j < i /\ s2c'[j].type = "FONT_MAP"
    <3>1. PICK j \in DOMAIN s2c : j < i + 1 /\ s2c[j].type = "FONT_MAP"
      BY <2>1, <2>5 DEF Finalizing
    <3>2. j - 1 \in DOMAIN s2c' /\ j - 1 < i /\ s2c'[j - 1].type = "FONT_MAP"
      BY <2>1, <2>2, <3>1
    <3> QED BY <3>2
  <2>6. \A t : Comes(t, Len(s2c) + 1) => Comes(t, Len(s2c) + 1)'
    <3> SUFFICES ASSUME NEW t, Comes(t, Len(s2c) + 1) PROVE Comes(t, Len(s2c) + 1)'
      OBVIOUS
    <3>1. t \in finalize' \/ \E j \in DOMAIN s2c' : j < Len(s2c) /\ s2c'[j].type = t
      BY <2>1, <2>3, ReadFacts DEF Comes
    <3> QED BY <2>1, <3>1 DEF Comes
  <2>7. sState = "ACTIVE" => InFlight(s2c, "FONT_MAP")'
    BY <1>1, <1>2, <2>2, InFlightRead DEF Finalizing
  <2>8. InFlight(c2s, "REQUEST_CONTROL")' = InFlight(c2s, "REQUEST_CONTROL")
    BY <1>2 DEF InFlight
  <2>9. sState = "FINALIZATION" =>
          /\ Comes("SYNCHRONIZE", Len(s2c) + 1)' /\ Comes("COOPERATE", Len(s2c) + 1)'
          /\ Comes("GRANTED", Len(s2c) + 1)' \/ InFlight(c2s, "REQUEST_CONTROL")'
    BY <2>6, <2>8 DEF Finalizing
  <2> QED BY <1>1, <2>4, <2>5, <2>7, <2>9 DEF Finalizing
<1>12. Told'
  BY <1>1 DEF Told
<1> QED BY <1>1, <1>2, <1>6, <1>7, <1>8, <1>9, <1>10, <1>11, <1>12, InsideSession

LEMMA ClientFinalizeDoneCore ==
    ASSUME Core, TypeOK, ClientFinalizeDone PROVE Core'
<1> USE DEF Core, SessionInv
<1>1. /\ cState = "FINALIZATION" /\ s2c # <<>> /\ Head(s2c).type \in FinalizeComplete
      /\ finalize \cup {Head(s2c).type} = FinalizeComplete
      /\ cState' = "ACTIVE" /\ frames' = <<>> /\ everActive' = TRUE
      /\ events' = 1 + Cardinality({i \in DOMAIN frames : frames[i] = "FINALIZATION"})
      /\ ClientAnswers(<<>>)
      /\ UNCHANGED <<cJoined, resizeOnInput, sState,
                     sJoined, AwaitCapabilities, activated, sGen, cGen>>
  BY DEF ClientFinalizeDone, ClientReads, IsFinalizePdu, ServerPdu, settings, server
<1>2. s2c' = Tail(s2c) /\ c2s' = c2s /\ Queues'
  BY <1>1, NoAnswer
<1>3. Head(s2c) = s2c[1] /\ 1 \in DOMAIN s2c
  BY <1>1, ReadFacts DEF Queues
<1>4. s2c[1].type \notin {"DEMAND_ACTIVE", "DEACTIVATE_ALL"}
  BY <1>1, <1>3 DEF FinalizeComplete
<1>5. cState \in Session /\ cState' \in Session
  BY <1>1 DEF Session
<1>6. SessionPdus'
  BY <1>1, <1>2, <1>5, SessionPdusRead
<1>7. Pairing'
  BY <1>1, <1>2, <1>4, <1>5, PairingRead
<1>8. Shares'
  BY <1>1, <1>2, <1>4, <1>5, SharesRead
<1>9. FontMaps'
  <2>1. CASE sState = "ACTIVE"
    BY <1>1, <2>1 DEF FontMaps
  <2>2. CASE sState # "ACTIVE"
    <3>1. \A i \in DOMAIN s2c' : s2c'[i].type = "FONT_MAP" =>
            \E j \in DOMAIN s2c' : i < j /\ s2c'[j].type = "DEMAND_ACTIVE"
      BY <1>1, <1>2, <1>5, <2>2, FontMapsLater
    <3>2. InFlight(s2c, "DEMAND_ACTIVE") => InFlight(s2c, "DEMAND_ACTIVE")'
      BY <1>1, <1>2, <1>4, InFlightRead
    <3>3. s2c[1].type = "FONT_MAP" => InFlight(s2c, "DEMAND_ACTIVE")'
      BY <1>1, <1>2, <1>5, <2>2, FontMapsLater
    <3>4. InFlight(s2c, "DEMAND_ACTIVE")'
      <4>1. CASE InFlight(s2c, "DEMAND_ACTIVE")
        BY <3>2, <4>1
      <4>2. CASE ~InFlight(s2c, "DEMAND_ACTIVE")
        <5>1. "FONT_MAP" \notin finalize
          BY <1>5, <2>2, <4>2 DEF FontMaps
        <5>2. Head(s2c).type = "FONT_MAP"
          BY <1>1, <5>1 DEF FinalizeComplete
        <5> QED BY <1>3, <3>3, <5>2
      <4> QED BY <4>1, <4>2
    <3> QED BY <3>1, <3>4 DEF FontMaps
  <2> QED BY <2>1, <2>2
<1>10. OneActivation'
  BY <1>1, <1>2, <1>4, <1>5, OneActivationRead
<1>11. Finalizing'
  BY <1>1 DEF Finalizing
<1>12. Told'
  <2> SUFFICES ASSUME ~resizeOnInput PROVE Told'
    BY <1>1 DEF Told
  <2> DEFINE F == {i \in DOMAIN frames : frames[i] = "FINALIZATION"}
  <2>1. F = {}
    BY DEF Told
  <2>a. events' = 1 + Cardinality(F)
    BY <1>1
  <2> HIDE DEF F
  <2>b. Cardinality(F) = 0
    BY <2>1, FS_EmptySet, Zenon
  <2>2. events' = 1
    BY <2>a, <2>b
  <2> QED BY <1>1, <2>2 DEF Told
<1> QED BY <1>2, <1>5, <1>6, <1>7, <1>8, <1>9, <1>10, <1>11, <1>12, InsideSession

LEMMA ClientDeactivateAllCore ==
    ASSUME Core, TypeOK, ClientDeactivateAll PROVE Core'
<1> USE DEF Core, SessionInv
<1>1. /\ cState \in {"FINALIZATION", "ACTIVE"} /\ s2c # <<>>
      /\ Head(s2c).type = "DEACTIVATE_ALL"
      /\ reactivation' = (cState = "ACTIVE") /\ frames' = Append(frames, cState)
      /\ cState' = "CAPABILITIES_EXCHANGE"
      /\ ClientAnswers(<<>>)
      /\ UNCHANGED <<cJoined, finalize, resizeOnInput, sState, everActive,
                     sJoined, AwaitCapabilities, activated, sGen, cGen>>
  BY DEF ClientDeactivateAll, ServerPdu, settings, server, ghosts
<1>2. s2c' = Tail(s2c) /\ c2s' = c2s /\ Queues'
  BY <1>1, NoAnswer
<1>3. Head(s2c) = s2c[1] /\ 1 \in DOMAIN s2c
  BY <1>1, ReadFacts DEF Queues
<1>4. s2c[1].type = "DEACTIVATE_ALL"
  BY <1>1, <1>3
<1>5. cState \in Session /\ cState' \in Session
  BY <1>1 DEF Session
<1>6. SessionPdus'
  BY <1>1, <1>2, <1>5, SessionPdusRead
<1>7. Pairing'
  BY <1>1, <1>2, <1>4, <1>5, PairingRead
<1>8. Shares'
  BY <1>1, <1>2, <1>4, <1>5, SharesRead
<1>9. InFlight(s2c, "DEMAND_ACTIVE")'
  <2>1. s2c' # <<>> /\ s2c'[1].type = "DEMAND_ACTIVE"
    BY <1>1, <1>5, <1>7 DEF Pairing
  <2>2. 1 \in DOMAIN s2c'
    BY <1>2, <2>1 DEF Queues
  <2> QED BY <2>1, <2>2 DEF InFlight
<1>10. FontMaps'
  <2>1. CASE sState = "ACTIVE"
    BY <1>1, <2>1 DEF FontMaps
  <2>2. CASE sState # "ACTIVE"
    <3>1. \A i \in DOMAIN s2c' : s2c'[i].type = "FONT_MAP" =>
            \E j \in DOMAIN s2c' : i < j /\ s2c'[j].type = "DEMAND_ACTIVE"
      BY <1>1, <1>2, <1>5, <2>2, FontMapsLater
    <3> QED BY <1>9, <3>1 DEF FontMaps
  <2> QED BY <2>1, <2>2
<1>11. OneActivation'
  BY <1>1, <1>2, <1>4, <1>5, OneActivationRead
<1>12. Finalizing'
  BY <1>1 DEF Finalizing
<1>13. Told'
  <2> SUFFICES ASSUME ~resizeOnInput PROVE Told'
    BY <1>1 DEF Told
  <2>1. cState = "ACTIVE"
    <3>1. \A j \in DOMAIN s2c : ~(j < 1)
      BY DEF Queues
    <3> QED BY <1>1, <1>3, <1>4, <3>1 DEF Finalizing
  <2>2. frames \in Seq({"FINALIZATION", "ACTIVE"})
    BY DEF TypeOK
  <2>3. \A i \in DOMAIN frames' : frames'[i] = "ACTIVE"
    <3>1. \A i \in DOMAIN frames' : frames'[i] = cState \/ (i \in DOMAIN frames /\ frames'[i] = frames[i])
      BY <1>1, <2>2
    <3> QED BY <2>1, <3>1 DEF Told
  <2>4. reactivation' = TRUE /\ everActive = TRUE
    <3>1. everActive
      BY <2>1 DEF Told
    <3>2. everActive \in BOOLEAN
      BY DEF TypeOK
    <3> QED BY <1>1, <2>1, <3>1, <3>2
  <2> QED BY <1>1, <2>3, <2>4 DEF Told
<1> QED BY <1>2, <1>5, <1>6, <1>7, <1>8, <1>10, <1>11, <1>12, <1>13, InsideSession

LEMMA ConcatFacts ==
    ASSUME NEW q \in Seq(Pdus), NEW p \in Seq(Pdus)
    PROVE  /\ q \o p \in Seq(Pdus) /\ Len(q \o p) = Len(q) + Len(p)
           /\ \A i \in 1..Len(q) : (q \o p)[i] = q[i]
           /\ \A i \in 1..Len(p) : (q \o p)[Len(q) + i] = p[i]
OBVIOUS

\* The PDUs with which the client answers a Demand Active.
LEMMA ConfirmPdus ==
    ASSUME NEW g \in Gens
    PROVE  LET p == <<Pdu("CONFIRM_ACTIVE", g)>> \o ClientFinalizePdus(g)
           IN  /\ p \in Seq(Pdus) /\ Len(p) \in {5, 6}
               /\ p[1].type = "CONFIRM_ACTIVE" /\ p[4].type = "REQUEST_CONTROL"
               /\ \A i \in DOMAIN p : i # 1 =>
                    p[i].type \in {"SYNCHRONIZE", "COOPERATE", "REQUEST_CONTROL",
                                   "PERSISTENT_KEY_LIST", "FONT_LIST"}
               /\ \A i \in DOMAIN p : p[i].type = "FONT_LIST" => i = Len(p)
<1> DEFINE a == <<Pdu("CONFIRM_ACTIVE", g)>>
           b == <<Pdu("SYNCHRONIZE", g), Pdu("COOPERATE", g), Pdu("REQUEST_CONTROL", g)>>
           c == IF ~reactivation /\ PersistentCache
                  THEN <<Pdu("PERSISTENT_KEY_LIST", g)>> ELSE <<>>
           d == <<Pdu("FONT_LIST", g)>>
           p == a \o ((b \o c) \o d)
<1>0. p = <<Pdu("CONFIRM_ACTIVE", g)>> \o ClientFinalizePdus(g)
  BY DEF ClientFinalizePdus
<1>1. \A t \in PduTypes : Pdu(t, g) \in Pdus /\ Pdu(t, g).type = t
  BY PduFacts DEF Gens
<1>a. a \in Seq(Pdus) /\ Len(a) = 1 /\ a[1].type = "CONFIRM_ACTIVE"
  BY <1>1 DEF PduTypes
<1>b. /\ b \in Seq(Pdus) /\ Len(b) = 3 /\ b[1].type = "SYNCHRONIZE"
      /\ b[2].type = "COOPERATE" /\ b[3].type = "REQUEST_CONTROL"
  BY <1>1 DEF PduTypes
<1>c. /\ c \in Seq(Pdus) /\ Len(c) \in {0, 1}
      /\ Len(c) = 1 => c[1].type = "PERSISTENT_KEY_LIST"
  <2>1. CASE ~reactivation /\ PersistentCache
    <3>1. c = <<Pdu("PERSISTENT_KEY_LIST", g)>>
      BY <2>1
    <3> QED BY <1>1, <3>1 DEF PduTypes
  <2>2. CASE ~(~reactivation /\ PersistentCache)
    <3>1. c = <<>>
      BY <2>2
    <3> QED BY <3>1
  <2> QED BY <2>1, <2>2
<1>d. d \in Seq(Pdus) /\ Len(d) = 1 /\ d[1].type = "FONT_LIST"
  BY <1>1 DEF PduTypes
<1> HIDE DEF a, b, c, d
<1> DEFINE bc == b \o c
<1>2. /\ bc \in Seq(Pdus) /\ Len(bc) = 3 + Len(c)
      /\ bc[1] = b[1] /\ bc[2] = b[2] /\ bc[3] = b[3]
      /\ Len(c) = 1 => bc[4] = c[1]
  <2>1. /\ bc \in Seq(Pdus) /\ Len(bc) = Len(b) + Len(c)
        /\ \A i \in 1..Len(b) : bc[i] = b[i]
        /\ \A i \in 1..Len(c) : bc[Len(b) + i] = c[i]
    BY <1>b, <1>c, ConcatFacts
  <2> HIDE DEF bc
  <2>2. \A i \in 1..Len(c) : bc[3 + i] = c[i]
    BY <1>b, <2>1
  <2>3. Len(c) = 1 => bc[3 + 1] = c[1]
    BY <2>2
  <2> QED BY <1>b, <1>c, <2>1, <2>3
<1> HIDE DEF bc
<1> DEFINE e == bc \o d
<1>3. /\ e \in Seq(Pdus) /\ Len(e) = 4 + Len(c)
      /\ e[1] = b[1] /\ e[2] = b[2] /\ e[3] = b[3]
      /\ Len(c) = 1 => e[4] = c[1]
      /\ Len(c) = 0 => e[4] = d[1]
      /\ Len(c) = 1 => e[5] = d[1]
  <2>1. /\ e \in Seq(Pdus) /\ Len(e) = Len(bc) + Len(d)
        /\ \A i \in 1..Len(bc) : e[i] = bc[i]
        /\ \A i \in 1..Len(d) : e[Len(bc) + i] = d[i]
    BY <1>2, <1>d, ConcatFacts
  <2> HIDE DEF e
  <2>2. e[Len(bc) + 1] = d[1]
    BY <1>d, <2>1
  <2>3. CASE Len(c) = 0
    <3>1. Len(bc) = 3 /\ Len(bc) + 1 = 4
      BY <1>2, <2>3
    <3> QED BY <1>2, <1>d, <2>1, <2>2, <2>3, <3>1
  <2>4. CASE Len(c) = 1
    <3>1. Len(bc) = 4 /\ Len(bc) + 1 = 5
      BY <1>2, <2>4
    <3> QED BY <1>2, <1>d, <2>1, <2>2, <2>4, <3>1
  <2> QED BY <1>c, <2>3, <2>4
<1> HIDE DEF e
<1> DEFINE f == a \o e
<1>4. /\ f \in Seq(Pdus) /\ Len(f) = 5 + Len(c) /\ f[1] = a[1]
      /\ f[2] = b[1] /\ f[3] = b[2] /\ f[4] = b[3]
      /\ Len(c) = 1 => f[5] = c[1]
      /\ Len(c) = 0 => f[5] = d[1]
      /\ Len(c) = 1 => f[6] = d[1]
  <2>1. /\ f \in Seq(Pdus) /\ Len(f) = Len(a) + Len(e)
        /\ \A i \in 1..Len(a) : f[i] = a[i]
        /\ \A i \in 1..Len(e) : f[Len(a) + i] = e[i]
    BY <1>3, <1>a, ConcatFacts
  <2> HIDE DEF f
  <2>2. Len(f) = 5 + Len(c) /\ f[1] = a[1] /\ \A i \in 1..Len(e) : f[1 + i] = e[i]
    BY <1>3, <1>a, <1>c, <2>1
  <2>3. 1 \in 1..Len(e) /\ 2 \in 1..Len(e) /\ 3 \in 1..Len(e) /\ 4 \in 1..Len(e)
        /\ (Len(c) = 1 => 5 \in 1..Len(e))
    BY <1>3, <1>c
  <2>4. f[1 + 1] = e[1] /\ f[1 + 2] = e[2] /\ f[1 + 3] = e[3] /\ f[1 + 4] = e[4]
        /\ (Len(c) = 1 => f[1 + 5] = e[5])
    BY <2>2, <2>3
  <2>5. f[2] = e[1] /\ f[3] = e[2] /\ f[4] = e[3] /\ f[5] = e[4]
        /\ (Len(c) = 1 => f[6] = e[5])
    BY <2>4
  <2> QED BY <1>3, <2>1, <2>2, <2>5
<1>5. f = p
  BY DEF e, bc
<1> HIDE DEF f, p
<1>6. /\ f[1].type = "CONFIRM_ACTIVE" /\ f[2].type = "SYNCHRONIZE"
      /\ f[3].type = "COOPERATE" /\ f[4].type = "REQUEST_CONTROL"
  BY <1>4, <1>a, <1>b
<1>7. (Len(f) = 5 /\ f[5].type = "FONT_LIST")
      \/ (Len(f) = 6 /\ f[5].type = "PERSISTENT_KEY_LIST" /\ f[6].type = "FONT_LIST")
  <2>1. CASE Len(c) = 0
    <3>1. Len(f) = 5
      BY <1>4, <2>1
    <3> QED BY <1>4, <1>d, <2>1, <3>1
  <2>2. CASE Len(c) = 1
    <3>1. Len(f) = 6
      BY <1>4, <2>2
    <3> QED BY <1>4, <1>c, <1>d, <2>2, <3>1
  <2> QED BY <1>c, <2>1, <2>2
<1>a1. f \in Seq(Pdus)
  BY <1>4
<1>8. /\ \A i \in DOMAIN f : i # 1 =>
           f[i].type \in {"SYNCHRONIZE", "COOPERATE", "REQUEST_CONTROL",
                          "PERSISTENT_KEY_LIST", "FONT_LIST"}
      /\ \A i \in DOMAIN f : f[i].type = "FONT_LIST" => i = Len(f)
  <2>1. CASE Len(f) = 5
    <3>1. DOMAIN f = {1, 2, 3, 4, 5}
      BY <1>a1, <2>1
    <3> QED BY <1>6, <1>7, <2>1, <3>1
  <2>2. CASE Len(f) = 6
    <3>1. DOMAIN f = {1, 2, 3, 4, 5, 6}
      BY <1>a1, <2>2
    <3> QED BY <1>6, <1>7, <2>2, <3>1
  <2> QED BY <1>7, <2>1, <2>2
<1>9. f \in Seq(Pdus) /\ Len(f) \in {5, 6}
  BY <1>4, <1>7
<1> HIDE DEF a
<1> QED BY <1>0, <1>5, <1>6, <1>8, <1>9

LEMMA ClientDemandActiveCore ==
    ASSUME Core, TypeOK, ClientDemandActive PROVE Core'
<1> USE DEF Core, SessionInv
<1> DEFINE g == Head(s2c).arg
           p == <<Pdu("CONFIRM_ACTIVE", g)>> \o ClientFinalizePdus(g)
<1>1. /\ cState = "CAPABILITIES_EXCHANGE" /\ s2c # <<>>
      /\ Head(s2c).type = "DEMAND_ACTIVE"
      /\ s2c' = Tail(s2c) /\ c2s' = c2s \o p /\ cGen' = g
      /\ cState' = "FINALIZATION" /\ finalize' = {}
      /\ UNCHANGED <<cJoined, reactivation, frames, resizeOnInput, sState, everActive,
                     sJoined, AwaitCapabilities, activated, sGen>>
  BY DEF ClientDemandActive, ClientReads, ClientAnswers, ServerPdu, settings, server
<1>2. /\ Head(s2c) = s2c[1] /\ 1 \in DOMAIN s2c /\ s2c' \in Seq(Pdus)
      /\ s2c[1].type = "DEMAND_ACTIVE" /\ g = s2c[1].arg
      /\ \A i \in DOMAIN s2c' : i \in Nat /\ i + 1 \in DOMAIN s2c /\ s2c'[i] = s2c[i + 1]
      /\ \A i \in DOMAIN s2c : i \in Nat
  BY <1>1, ReadFacts DEF Queues
<1>3. cState \in Session /\ cState' \in Session
  BY <1>1 DEF Session
<1>4. Shares' /\ g \in Gens
  BY <1>1, <1>2, <1>3, SharesDemand
<1>5. /\ p \in Seq(Pdus) /\ Len(p) \in {5, 6}
      /\ p[1].type = "CONFIRM_ACTIVE" /\ p[4].type = "REQUEST_CONTROL"
      /\ \A i \in DOMAIN p : i # 1 =>
           p[i].type \in {"SYNCHRONIZE", "COOPERATE", "REQUEST_CONTROL",
                          "PERSISTENT_KEY_LIST", "FONT_LIST"}
      /\ \A i \in DOMAIN p : p[i].type = "FONT_LIST" => i = Len(p)
  BY <1>4, ConfirmPdus
<1> HIDE DEF g, p
<1>6. /\ c2s' \in Seq(Pdus) /\ Len(c2s') = Len(c2s) + Len(p) /\ Len(c2s) \in Nat
      /\ \A i \in DOMAIN c2s : i \in DOMAIN c2s' /\ c2s'[i] = c2s[i]
      /\ \A i \in DOMAIN p : Len(c2s) + i \in DOMAIN c2s' /\ c2s'[Len(c2s) + i] = p[i]
      /\ \A i \in DOMAIN c2s' : i \in DOMAIN c2s
           \/ (i - Len(c2s) \in DOMAIN p /\ Len(c2s) < i)
  BY <1>1, <1>5, SendFacts DEF Queues
<1>a. \A i \in DOMAIN c2s' : i \in DOMAIN c2s
        \/ (i - Len(c2s) \in DOMAIN p /\ c2s'[i] = p[i - Len(c2s)])
  <2> TAKE i \in DOMAIN c2s'
  <2>1. CASE i - Len(c2s) \in DOMAIN p
    <3>1. i \in Nat
      BY <1>6
    <3>2. Len(c2s) + (i - Len(c2s)) = i
      BY <1>6, <3>1
    <3> QED BY <1>6, <2>1, <3>2
  <2> QED BY <1>6, <2>1
<1>7. Queues'
  BY <1>2, <1>6 DEF Queues
<1>8. SessionPdus'
  <2>1. \A i \in DOMAIN c2s' :
          c2s'[i].type \in {"CONFIRM_ACTIVE", "SYNCHRONIZE", "COOPERATE", "INPUT",
                            "REQUEST_CONTROL", "PERSISTENT_KEY_LIST", "FONT_LIST"}
    <3> TAKE i \in DOMAIN c2s'
    <3>1. CASE i \in DOMAIN c2s
      <4>1. c2s'[i] = c2s[i]
        BY <1>6, <3>1
      <4> QED BY <1>3, <3>1, <4>1 DEF SessionPdus
    <3>2. CASE i - Len(c2s) \in DOMAIN p /\ c2s'[i] = p[i - Len(c2s)]
      BY <1>5, <3>2
    <3> QED BY <1>a, <3>1, <3>2
  <2>2. \A i \in DOMAIN s2c' :
          s2c'[i].type \in FinalizeComplete \cup {"DEACTIVATE_ALL", "DEMAND_ACTIVE"}
    BY <1>2, <1>3 DEF SessionPdus
  <2> QED BY <1>1, <1>3, <2>1, <2>2 DEF SessionPdus
<1>9. Pairing'
  BY <1>1, <1>2, <1>3, PairingRead
<1>10. FontMaps'
  <2>1. CASE sState = "ACTIVE"
    BY <1>1, <2>1 DEF FontMaps
  <2>2. CASE sState # "ACTIVE"
    <3>1. \A i \in DOMAIN s2c' : s2c'[i].type = "FONT_MAP" =>
            \E j \in DOMAIN s2c' : i < j /\ s2c'[j].type = "DEMAND_ACTIVE"
      BY <1>1, <1>3, <2>2, FontMapsLater
    <3> QED BY <1>1, <3>1 DEF FontMaps
  <2> QED BY <2>1, <2>2
<1>b. ASSUME ~resizeOnInput
      PROVE  sState = "CAPABILITIES_EXCHANGE" /\ AllInput(c2s) /\ DOMAIN s2c' = {}
  <2>1. InFlight(s2c, "DEMAND_ACTIVE")
    BY <1>2 DEF InFlight
  <2>2. \A j \in DOMAIN s2c : j <= 1
    BY <1>2, <1>3, <1>b DEF OneActivation
  <2>3. DOMAIN s2c' = {}
    <3> SUFFICES ASSUME NEW i \in DOMAIN s2c' PROVE FALSE
      OBVIOUS
    <3>1. i \in Nat /\ i >= 1 /\ i + 1 <= 1
      BY <1>2, <2>2
    <3> QED BY <3>1
  <2> QED BY <1>3, <1>b, <2>1, <2>3 DEF OneActivation
<1>11. OneActivation'
  <2> SUFFICES ASSUME ~resizeOnInput PROVE OneActivation'
    BY <1>1 DEF OneActivation
  <2>1. sState' = "CAPABILITIES_EXCHANGE" /\ AllInput(c2s) /\ DOMAIN s2c' = {}
    BY <1>1, <1>b
  <2>2. ~InFlight(s2c, "DEMAND_ACTIVE")'
    BY <2>1 DEF InFlight
  <2> DEFINE k == Len(c2s) + 1
  <2>3. k \in DOMAIN c2s' /\ c2s'[k].type = "CONFIRM_ACTIVE"
    BY <1>5, <1>6
  <2>4. \A i \in DOMAIN c2s' : i < k => c2s'[i].type = "INPUT"
    BY <1>6, <2>1 DEF AllInput
  <2>5. \A i \in DOMAIN c2s' : k < i => c2s'[i].type # "CONFIRM_ACTIVE"
    <3> SUFFICES ASSUME NEW i \in DOMAIN c2s', k < i PROVE c2s'[i].type # "CONFIRM_ACTIVE"
      OBVIOUS
    <3>1. i \in Nat /\ i \notin DOMAIN c2s /\ i - Len(c2s) # 1
      BY <1>6 DEF Queues
    <3> QED BY <1>5, <1>a, <3>1
  <2>6. InFlight(c2s, "REQUEST_CONTROL")'
    <3>1. 4 \in DOMAIN p
      BY <1>5
    <3> QED BY <1>5, <1>6, <3>1 DEF InFlight
  <2>7. ASSUME NEW i \in DOMAIN c2s', NEW j \in DOMAIN c2s', c2s'[i].type = "FONT_LIST",
               i < j
        PROVE  c2s'[j].type = "INPUT"
    <3>1. i \notin DOMAIN c2s
      BY <1>6, <2>1, <2>7 DEF AllInput
    <3>2. i - Len(c2s) = Len(p)
      BY <1>5, <1>a, <2>7, <3>1
    <3>3. i \in Nat /\ j \in Nat /\ j <= Len(c2s')
      BY <1>6
    <3> QED BY <1>5, <1>6, <2>7, <3>2, <3>3
  <2> HIDE DEF k
  <2>8. \E m \in DOMAIN c2s' :
          /\ c2s'[m].type = "CONFIRM_ACTIVE"
          /\ \A i \in DOMAIN c2s' : i < m => c2s'[i].type = "INPUT"
          /\ \A i \in DOMAIN c2s' : m < i => c2s'[i].type # "CONFIRM_ACTIVE"
          /\ InFlight(c2s, "REQUEST_CONTROL")'
    BY <2>3, <2>4, <2>5, <2>6
  <2> QED BY <2>1, <2>2, <2>7, <2>8 DEF OneActivation
<1>12. Finalizing'
  <2> SUFFICES ASSUME ~resizeOnInput PROVE Finalizing'
    BY <1>1 DEF Finalizing
  <2> QED BY <1>1, <1>b DEF Finalizing
<1>13. Told'
  BY <1>1 DEF Told
<1> QED BY <1>3, <1>4, <1>7, <1>8, <1>9, <1>10, <1>11, <1>12, <1>13, InsideSession

LEMMA ClientInputCore ==
    ASSUME Core, TypeOK, ClientInput PROVE Core'
<1> USE DEF Core, SessionInv
<1> DEFINE x == Pdu("INPUT", 0)
<1>1. /\ cState = "ACTIVE" /\ c2s' = Append(c2s, x)
      /\ UNCHANGED <<cState, cJoined, finalize, reactivation, frames, resizeOnInput,
                     s2c, sState, sJoined, AwaitCapabilities, activated, sGen, cGen,
                     everActive, events>>
  BY DEF ClientInput, client, settings, server, ghosts
<1>2. x \in Pdus /\ x.type = "INPUT"
  BY PduFacts DEF PduTypes
<1> HIDE DEF x
<1>3. /\ c2s' \in Seq(Pdus) /\ s2c' \in Seq(Pdus)
      /\ \A i \in DOMAIN c2s : i \in DOMAIN c2s' /\ c2s'[i] = c2s[i]
      /\ \A i \in DOMAIN c2s' : (i \in DOMAIN c2s /\ c2s'[i] = c2s[i]) \/ c2s'[i] = x
  BY <1>1, <1>2 DEF Queues
<1>4. Queues'
  BY <1>3 DEF Queues
<1>5. cState \in Session /\ cState' \in Session
  BY <1>1 DEF Session
<1>6. SessionPdus'
  BY <1>1, <1>2, <1>3, <1>5 DEF SessionPdus
<1>7. Pairing' /\ Shares' /\ FontMaps'
  BY <1>1 DEF Pairing, Shares, FontMaps, InFlight
<1>8. OneActivation'
  <2> SUFFICES ASSUME ~resizeOnInput PROVE OneActivation'
    BY <1>1 DEF OneActivation
  <2>1. AllInput(c2s) => AllInput(c2s)'
    BY <1>2, <1>3 DEF AllInput
  <2>2. InFlight(c2s, "CONFIRM_ACTIVE")' => InFlight(c2s, "CONFIRM_ACTIVE")
    BY <1>2, <1>3 DEF InFlight
  <2>3. InFlight(s2c, "DEMAND_ACTIVE")' = InFlight(s2c, "DEMAND_ACTIVE")
    BY <1>1 DEF InFlight
  <2>4. sState # "CAPABILITIES_EXCHANGE" \/ InFlight(s2c, "DEMAND_ACTIVE")
    BY <1>1, <1>5 DEF FontMaps
  <2>5. \A i, j \in DOMAIN c2s' :
          c2s'[i].type = "FONT_LIST" /\ i < j => c2s'[j].type = "INPUT"
    BY <1>2, <1>3, <1>5 DEF OneActivation
  <2> QED BY <1>1, <1>5, <2>1, <2>2, <2>3, <2>4, <2>5 DEF OneActivation
<1>9. Finalizing'
  BY <1>1 DEF Finalizing
<1>10. Told'
  BY <1>1 DEF Told
<1> QED BY <1>4, <1>5, <1>6, <1>7, <1>8, <1>9, <1>10, InsideSession

-----------------------------------------------------------------------------
(***************************************************************************)
(* The session: what the server sends, part by part.                       *)
(***************************************************************************)

\* The PDUs of a queue after a send: the old ones in their places, the new
\* ones behind them.
LEMMA Sent ==
    ASSUME Queues, NEW p \in Seq(Pdus), s2c' = s2c \o p
    PROVE  /\ s2c' \in Seq(Pdus) /\ Len(s2c') = Len(s2c) + Len(p)
           /\ Len(s2c) \in Nat /\ Len(p) \in Nat
           /\ \A i \in DOMAIN s2c : /\ i \in DOMAIN s2c' /\ s2c'[i] = s2c[i]
                                    /\ i \in Nat /\ 1 <= i /\ i <= Len(s2c)
           /\ \A m \in DOMAIN p : /\ Len(s2c) + m \in DOMAIN s2c'
                                  /\ s2c'[Len(s2c) + m] = p[m]
                                  /\ m \in Nat /\ 1 <= m /\ m <= Len(p)
           /\ \A i \in DOMAIN s2c' :
                \/ i \in DOMAIN s2c /\ s2c'[i] = s2c[i]
                \/ \E m \in DOMAIN p : i = Len(s2c) + m /\ s2c'[i] = p[m]
<1> DEFINE s == s2c \o p
<1>1. /\ s \in Seq(Pdus) /\ Len(s) = Len(s2c) + Len(p)
      /\ \A i \in DOMAIN s2c : i \in DOMAIN s /\ s[i] = s2c[i]
      /\ \A m \in DOMAIN p : Len(s2c) + m \in DOMAIN s /\ s[Len(s2c) + m] = p[m]
      /\ \A i \in DOMAIN s : i \in DOMAIN s2c
           \/ (i - Len(s2c) \in DOMAIN p /\ Len(s2c) < i)
  BY SendFacts DEF Queues
<1>2. /\ Len(s2c) \in Nat /\ Len(p) \in Nat
      /\ \A i \in DOMAIN s2c : i \in Nat /\ 1 <= i /\ i <= Len(s2c)
      /\ \A m \in DOMAIN p : m \in Nat /\ 1 <= m /\ m <= Len(p)
  BY DEF Queues
<1> HIDE DEF s
<1>3. \A i \in DOMAIN s :
        \/ i \in DOMAIN s2c /\ s[i] = s2c[i]
        \/ \E m \in DOMAIN p : i = Len(s2c) + m /\ s[i] = p[m]
  <2> TAKE i \in DOMAIN s
  <2>1. CASE i \in DOMAIN s2c
    BY <1>1, <2>1
  <2>2. CASE i - Len(s2c) \in DOMAIN p
    <3>1. i \in Nat
      BY <1>1
    <3>2. i = Len(s2c) + (i - Len(s2c))
      BY <1>2, <3>1
    <3> QED BY <1>1, <2>2, <3>2
  <2> QED BY <1>1, <2>1, <2>2
<1>4. s2c' = s
  BY DEF s
<1> QED BY <1>1, <1>2, <1>3, <1>4

LEMMA InFlightSent ==
    ASSUME Queues, NEW p \in Seq(Pdus), s2c' = s2c \o p, NEW t
    PROVE  /\ InFlight(s2c, t) => InFlight(s2c, t)'
           /\ (\A m \in DOMAIN p : p[m].type # t) => (InFlight(s2c, t)' => InFlight(s2c, t))
           /\ (\E m \in DOMAIN p : p[m].type = t) => InFlight(s2c, t)'
<1>1. InFlight(s2c, t) => InFlight(s2c, t)'
  BY Sent DEF InFlight
<1>2. ASSUME \A m \in DOMAIN p : p[m].type # t, InFlight(s2c, t)'
      PROVE  InFlight(s2c, t)
  BY <1>2, Sent DEF InFlight
<1>3. ASSUME NEW m \in DOMAIN p, p[m].type = t
      PROVE  InFlight(s2c, t)'
  BY <1>3, Sent DEF InFlight
<1> QED BY <1>1, <1>2, <1>3

\* What the server has read of the client's PDUs.
LEMMA Received ==
    ASSUME Queues, c2s # <<>>, c2s' = Tail(c2s)
    PROVE  /\ c2s' \in Seq(Pdus) /\ 1 \in DOMAIN c2s /\ Head(c2s) = c2s[1]
           /\ \A i \in DOMAIN c2s' : i \in Nat /\ i + 1 \in DOMAIN c2s /\ c2s'[i] = c2s[i + 1]
           /\ \A i \in DOMAIN c2s : i # 1 => i - 1 \in DOMAIN c2s' /\ c2s'[i - 1] = c2s[i]
           /\ \A i \in DOMAIN c2s : i \in Nat /\ 1 <= i
           /\ \A t : InFlight(c2s, t)' => InFlight(c2s, t)
           /\ \A t : c2s[1].type # t => (InFlight(c2s, t) => InFlight(c2s, t)')
           /\ AllInput(c2s) => AllInput(c2s)'
<1>1. /\ c2s' \in Seq(Pdus) /\ 1 \in DOMAIN c2s /\ Head(c2s) = c2s[1]
      /\ \A i \in DOMAIN c2s' : i \in Nat /\ i + 1 \in DOMAIN c2s /\ c2s'[i] = c2s[i + 1]
      /\ \A i \in DOMAIN c2s : i # 1 => i - 1 \in DOMAIN c2s' /\ c2s'[i - 1] = c2s[i]
      /\ \A i \in DOMAIN c2s : i \in Nat /\ 1 <= i
  BY ReadFacts DEF Queues
<1>2. \A t : InFlight(c2s, t)' => InFlight(c2s, t)
  BY <1>1 DEF InFlight
<1>3. \A t : c2s[1].type # t => (InFlight(c2s, t) => InFlight(c2s, t)')
  BY <1>1 DEF InFlight
<1>4. AllInput(c2s) => AllInput(c2s)'
  BY <1>1 DEF AllInput
<1> QED BY <1>1, <1>2, <1>3, <1>4

\* PDUs among which every Deactivate All is followed by a Demand Active.
Paired(p) ==
    /\ \A m \in DOMAIN p : p[m].type = "DEACTIVATE_ALL" =>
         m + 1 \in DOMAIN p /\ p[m + 1].type = "DEMAND_ACTIVE"
    /\ \A m \in DOMAIN p : p[m].type = "DEMAND_ACTIVE" =>
         \E l \in DOMAIN p : m = l + 1 /\ p[l].type = "DEACTIVATE_ALL"

LEMMA PairingSent ==
    ASSUME Queues, Pairing, cState \in Session, cState' = cState,
           NEW p \in Seq(Pdus), s2c' = s2c \o p, Paired(p)
    PROVE  Pairing'
<1> DEFINE L == Len(s2c)
<1>1. /\ s2c' \in Seq(Pdus) /\ L \in Nat
      /\ \A i \in DOMAIN s2c : /\ i \in DOMAIN s2c' /\ s2c'[i] = s2c[i]
                               /\ i \in Nat /\ 1 <= i /\ i <= L
      /\ \A m \in DOMAIN p : /\ L + m \in DOMAIN s2c' /\ s2c'[L + m] = p[m]
                             /\ m \in Nat /\ 1 <= m
      /\ \A i \in DOMAIN s2c' :
           \/ i \in DOMAIN s2c /\ s2c'[i] = s2c[i]
           \/ \E m \in DOMAIN p : i = L + m /\ s2c'[i] = p[m]
  BY Sent
<1>a. \A i \in DOMAIN s2c : i # 1 => i - 1 \in DOMAIN s2c
  BY DEF Queues
<1>b. \A i \in DOMAIN s2c' : i \in Nat /\ 1 <= i
  BY <1>1
<1> HIDE DEF L
<1>2. ASSUME NEW i \in DOMAIN s2c', s2c'[i].type = "DEACTIVATE_ALL"
      PROVE  i + 1 \in DOMAIN s2c' /\ s2c'[i + 1].type = "DEMAND_ACTIVE"
  <2>1. CASE i \in DOMAIN s2c
    <3>1. i + 1 \in DOMAIN s2c /\ s2c[i + 1].type = "DEMAND_ACTIVE"
      BY <1>1, <1>2, <2>1 DEF Pairing
    <3> QED BY <1>1, <3>1
  <2>2. ASSUME NEW m \in DOMAIN p, i = L + m, s2c'[i] = p[m]
        PROVE  i + 1 \in DOMAIN s2c' /\ s2c'[i + 1].type = "DEMAND_ACTIVE"
    <3>1. m + 1 \in DOMAIN p /\ p[m + 1].type = "DEMAND_ACTIVE"
      BY <1>2, <2>2 DEF Paired
    <3>2. L + (m + 1) = i + 1
      BY <1>1, <2>2
    <3> QED BY <1>1, <3>1, <3>2
  <2> QED BY <1>1, <2>1, <2>2
<1>3. ASSUME NEW i \in DOMAIN s2c', s2c'[i].type = "DEMAND_ACTIVE", i # 1
      PROVE  s2c'[i - 1].type = "DEACTIVATE_ALL"
  <2>1. CASE i \in DOMAIN s2c
    <3>1. i - 1 \in DOMAIN s2c
      BY <1>3, <1>a, <2>1
    <3>2. s2c[i].type = "DEMAND_ACTIVE"
      BY <1>1, <1>3, <2>1
    <3>3. s2c[i - 1].type = "DEACTIVATE_ALL"
      BY <1>3, <2>1, <3>2 DEF Pairing
    <3>4. s2c'[i - 1] = s2c[i - 1]
      BY <1>1, <3>1
    <3> QED BY <3>3, <3>4
  <2>2. ASSUME NEW m \in DOMAIN p, i = L + m, s2c'[i] = p[m]
        PROVE  s2c'[i - 1].type = "DEACTIVATE_ALL"
    <3>1. PICK l \in DOMAIN p : m = l + 1 /\ p[l].type = "DEACTIVATE_ALL"
      BY <1>3, <2>2 DEF Paired
    <3>2. L + l = i - 1
      BY <1>1, <2>2, <3>1
    <3> QED BY <1>1, <3>1, <3>2
  <2> QED BY <1>1, <2>1, <2>2
<1>4. (s2c' # <<>> /\ s2c'[1].type = "DEMAND_ACTIVE")
        <=> (s2c # <<>> /\ s2c[1].type = "DEMAND_ACTIVE")
  <2>1. s2c # <<>> <=> 1 \in DOMAIN s2c
    BY DEF Queues
  <2>2. s2c' # <<>> <=> 1 \in DOMAIN s2c'
    BY <1>1
  <2>3. CASE 1 \in DOMAIN s2c
    BY <1>1, <2>1, <2>2, <2>3
  <2>4. CASE 1 \notin DOMAIN s2c
    <3>1. ASSUME 1 \in DOMAIN s2c', s2c'[1].type = "DEMAND_ACTIVE" PROVE FALSE
      <4>1. PICK m \in DOMAIN p : 1 = L + m /\ s2c'[1] = p[m]
        BY <1>1, <2>4, <3>1
      <4>2. PICK l \in DOMAIN p : m = l + 1
        BY <3>1, <4>1 DEF Paired
      <4> QED BY <1>1, <4>1, <4>2
    <3> QED BY <2>1, <2>2, <2>4, <3>1
  <2> QED BY <2>3, <2>4
<1>5. cState' \in Session => ((cState' = "CAPABILITIES_EXCHANGE") <=>
                          (s2c' # <<>> /\ s2c'[1].type = "DEMAND_ACTIVE"))
  BY <1>4 DEF Pairing
<1> QED BY <1>2, <1>3, <1>5 DEF Pairing

\* PDUs with a Demand Active only at their end.
LastDemand(p) ==
    /\ p # <<>> /\ p[Len(p)].type = "DEMAND_ACTIVE"
    /\ \A m \in DOMAIN p : p[m].type = "DEMAND_ACTIVE" => m = Len(p)

NoDemand(p) == \A m \in DOMAIN p : p[m].type # "DEMAND_ACTIVE"

LEMMA SharesSent ==
    ASSUME Queues, Shares, cState \in Session, NEW p \in Seq(Pdus), s2c' = s2c \o p,
           cGen' = cGen,
           \/ NoDemand(p) /\ sGen' = sGen
           \/ LastDemand(p) /\ p[Len(p)].arg = sGen' /\ sGen' \in Gens
    PROVE  Shares'
<1> DEFINE L == Len(s2c)
<1>1. /\ s2c' \in Seq(Pdus) /\ L \in Nat /\ Len(p) \in Nat
      /\ \A i \in DOMAIN s2c : /\ i \in DOMAIN s2c' /\ s2c'[i] = s2c[i]
                               /\ i \in Nat /\ 1 <= i /\ i <= L
      /\ \A m \in DOMAIN p : /\ L + m \in DOMAIN s2c' /\ s2c'[L + m] = p[m]
                             /\ m \in Nat /\ 1 <= m
      /\ \A i \in DOMAIN s2c' :
           \/ i \in DOMAIN s2c /\ s2c'[i] = s2c[i]
           \/ \E m \in DOMAIN p : i = L + m /\ s2c'[i] = p[m]
  BY Sent
<1>2. p # <<>> => Len(p) \in DOMAIN p
  OBVIOUS
<1> HIDE DEF L
<1>3. CASE NoDemand(p) /\ sGen' = sGen
  <2>1. InFlight(s2c, "DEMAND_ACTIVE") => InFlight(s2c, "DEMAND_ACTIVE")'
    BY InFlightSent
  <2>2. ASSUME NEW i \in DOMAIN s2c', s2c'[i].type = "DEMAND_ACTIVE"
        PROVE  /\ s2c'[i].arg \in Gens
               /\ \/ s2c'[i].arg = sGen'
                  \/ \E j \in DOMAIN s2c' : i < j /\ s2c'[j].type = "DEMAND_ACTIVE"
    <3>1. i \in DOMAIN s2c /\ s2c'[i] = s2c[i]
      BY <1>1, <1>3, <2>2 DEF NoDemand
    <3> QED BY <1>1, <1>3, <2>2, <3>1 DEF Shares
  <2> QED BY <1>3, <2>1, <2>2 DEF Shares
<1>4. CASE LastDemand(p) /\ p[Len(p)].arg = sGen' /\ sGen' \in Gens
  <2>1. Len(p) \in DOMAIN p /\ p[Len(p)].type = "DEMAND_ACTIVE"
    BY <1>2, <1>4 DEF LastDemand
  <2>2. InFlight(s2c, "DEMAND_ACTIVE")'
    BY <2>1, InFlightSent
  <2>3. ASSUME NEW i \in DOMAIN s2c', s2c'[i].type = "DEMAND_ACTIVE"
        PROVE  /\ s2c'[i].arg \in Gens
               /\ \/ s2c'[i].arg = sGen'
                  \/ \E j \in DOMAIN s2c' : i < j /\ s2c'[j].type = "DEMAND_ACTIVE"
    <3>1. CASE i \in DOMAIN s2c /\ s2c'[i] = s2c[i]
      <4>1. s2c[i].arg \in Gens
        BY <2>3, <3>1 DEF Shares
      <4>2. i < L + Len(p)
        BY <1>1, <2>1, <3>1
      <4>3. L + Len(p) \in DOMAIN s2c' /\ s2c'[L + Len(p)].type = "DEMAND_ACTIVE"
        BY <1>1, <2>1
      <4> QED BY <3>1, <4>1, <4>2, <4>3
    <3>2. ASSUME NEW m \in DOMAIN p, s2c'[i] = p[m]
          PROVE  s2c'[i].arg = sGen'
      BY <1>4, <2>3, <3>2 DEF LastDemand
    <3> QED BY <1>1, <1>4, <3>1, <3>2
  <2> QED BY <2>2, <2>3 DEF Shares
<1> QED BY <1>3, <1>4

LEMMA FontMapsSent ==
    ASSUME Queues, FontMaps, cState \in Session, NEW p \in Seq(Pdus), s2c' = s2c \o p,
           UNCHANGED <<cState, finalize>>,
           \/ sState' = "ACTIVE"
           \/ sState # "ACTIVE" /\ \A m \in DOMAIN p : p[m].type # "FONT_MAP"
           \/ LastDemand(p)
    PROVE  FontMaps'
<1> DEFINE L == Len(s2c)
<1>1. /\ s2c' \in Seq(Pdus) /\ L \in Nat /\ Len(p) \in Nat
      /\ \A i \in DOMAIN s2c : /\ i \in DOMAIN s2c' /\ s2c'[i] = s2c[i]
                               /\ i \in Nat /\ 1 <= i /\ i <= L
      /\ \A m \in DOMAIN p : /\ L + m \in DOMAIN s2c' /\ s2c'[L + m] = p[m]
                             /\ m \in Nat /\ 1 <= m /\ m <= Len(p)
      /\ \A i \in DOMAIN s2c' :
           \/ i \in DOMAIN s2c /\ s2c'[i] = s2c[i]
           \/ \E m \in DOMAIN p : i = L + m /\ s2c'[i] = p[m]
  BY Sent
<1>2. p # <<>> => Len(p) \in DOMAIN p
  OBVIOUS
<1> HIDE DEF L
<1>3. CASE sState' = "ACTIVE"
  BY <1>3 DEF FontMaps
<1>4. CASE sState # "ACTIVE" /\ \A m \in DOMAIN p : p[m].type # "FONT_MAP"
  <2>1. InFlight(s2c, "DEMAND_ACTIVE") => InFlight(s2c, "DEMAND_ACTIVE")'
    BY InFlightSent
  <2>2. ASSUME NEW i \in DOMAIN s2c', s2c'[i].type = "FONT_MAP"
        PROVE  \E j \in DOMAIN s2c' : i < j /\ s2c'[j].type = "DEMAND_ACTIVE"
    <3>1. i \in DOMAIN s2c /\ s2c[i].type = "FONT_MAP"
      BY <1>1, <1>4, <2>2
    <3>2. PICK j \in DOMAIN s2c : i < j /\ s2c[j].type = "DEMAND_ACTIVE"
      BY <1>4, <3>1 DEF FontMaps
    <3> QED BY <1>1, <3>2
  <2> QED BY <1>4, <2>1, <2>2 DEF FontMaps
<1>5. CASE LastDemand(p)
  <2>1. Len(p) \in DOMAIN p /\ p[Len(p)].type = "DEMAND_ACTIVE"
    BY <1>2, <1>5 DEF LastDemand
  <2>2. InFlight(s2c, "DEMAND_ACTIVE")'
    BY <2>1, InFlightSent
  <2>3. ASSUME NEW i \in DOMAIN s2c', s2c'[i].type = "FONT_MAP"
        PROVE  \E j \in DOMAIN s2c' : i < j /\ s2c'[j].type = "DEMAND_ACTIVE"
    <3>1. i < L + Len(p)
      <4>1. CASE i \in DOMAIN s2c
        BY <1>1, <2>1, <4>1
      <4>2. ASSUME NEW m \in DOMAIN p, i = L + m, s2c'[i] = p[m]
            PROVE  i < L + Len(p)
        <5>1. m # Len(p)
          BY <2>1, <2>3, <4>2
        <5> QED BY <1>1, <4>2, <5>1
      <4> QED BY <1>1, <4>1, <4>2
    <3> DEFINE j == L + Len(p)
    <3>2. j \in DOMAIN s2c' /\ s2c'[j].type = "DEMAND_ACTIVE"
      BY <1>1, <2>1
    <3>3. i < j
      BY <3>1
    <3> HIDE DEF j
    <3> QED BY <3>2, <3>3
  <2> QED BY <2>2, <2>3 DEF FontMaps
<1> QED BY <1>3, <1>4, <1>5

LEMMA SessionPdusSent ==
    ASSUME Queues, SessionPdus, cState \in Session, NEW p \in Seq(Pdus), s2c' = s2c \o p,
           \A m \in DOMAIN p :
             p[m].type \in FinalizeComplete \cup {"DEACTIVATE_ALL", "DEMAND_ACTIVE"},
           \A i \in DOMAIN c2s' : \E j \in DOMAIN c2s : c2s'[i] = c2s[j],
           UNCHANGED <<cState, cJoined, sJoined>>,
           sState' \in Session, AwaitCapabilities', activated' = (sState' = "ACTIVE")
    PROVE  SessionPdus'
<1>1. \A i \in DOMAIN s2c' :
        s2c'[i].type \in FinalizeComplete \cup {"DEACTIVATE_ALL", "DEMAND_ACTIVE"}
  BY Sent DEF SessionPdus
<1>2. \A i \in DOMAIN c2s' :
        c2s'[i].type \in {"CONFIRM_ACTIVE", "SYNCHRONIZE", "COOPERATE", "INPUT",
                          "REQUEST_CONTROL", "PERSISTENT_KEY_LIST", "FONT_LIST"}
  BY DEF SessionPdus
<1> QED BY <1>1, <1>2 DEF SessionPdus

LEMMA ComesSent ==
    ASSUME Queues, NEW p \in Seq(Pdus), s2c' = s2c \o p, UNCHANGED finalize, NEW t, NEW i,
           Comes(t, i)
    PROVE  Comes(t, i)'
<1>1. \A j \in DOMAIN s2c : j \in DOMAIN s2c' /\ s2c'[j] = s2c[j]
  BY Sent
<1> QED BY <1>1 DEF Comes

-----------------------------------------------------------------------------
(***************************************************************************)
(* The session: the steps of the server.                                   *)
(***************************************************************************)

\* Short answers.
LEMMA Answers ==
    /\ <<>> \in Seq(Pdus) /\ DOMAIN <<>> = {}
    /\ \A x \in Pdus : <<x>> \in Seq(Pdus) /\ DOMAIN <<x>> = {1} /\ <<x>>[1] = x
    /\ \A x, y \in Pdus : /\ <<x, y>> \in Seq(Pdus) /\ Len(<<x, y>>) = 2
                          /\ DOMAIN <<x, y>> = {1, 2}
                          /\ <<x, y>>[1] = x /\ <<x, y>>[2] = y
    /\ \A x, y, z \in Pdus : /\ <<x, y, z>> \in Seq(Pdus) /\ Len(<<x, y, z>>) = 3
                             /\ DOMAIN <<x, y, z>> = {1, 2, 3}
                             /\ <<x, y, z>>[1] = x /\ <<x, y, z>>[2] = y
                             /\ <<x, y, z>>[3] = z
OBVIOUS

\* A server in the session that has something to read talks to a client that
\* is in the session too.
LEMMA ServerInSession ==
    ASSUME Core, TypeOK, sState \in Session, c2s # <<>>
    PROVE  cState \in Session
BY DEF Core, TypeOK, ClientStates, Handshake, Joining, Session

\* The PDUs of an activation find a server that resizes only an activated
\* client in FINALIZATION, the Confirm Active excepted.
LEMMA InFinalization ==
    ASSUME Queues, SessionPdus, OneActivation, cState \in Session, ~resizeOnInput,
           c2s # <<>>, c2s[1].type \notin {"INPUT", "CONFIRM_ACTIVE"}
    PROVE  sState = "FINALIZATION"
<1>1. 1 \in DOMAIN c2s /\ \A i \in DOMAIN c2s : i \in Nat /\ 1 <= i
  BY DEF Queues
<1>2. ~AllInput(c2s)
  BY <1>1 DEF AllInput
<1>3. sState \in Session
  BY DEF SessionPdus
<1>4. sState # "ACTIVE"
  BY <1>2 DEF OneActivation
<1>5. ASSUME sState = "CAPABILITIES_EXCHANGE" PROVE FALSE
  <2>1. ~InFlight(s2c, "DEMAND_ACTIVE")
    BY <1>2 DEF OneActivation
  <2>2. PICK k \in DOMAIN c2s :
          /\ c2s[k].type = "CONFIRM_ACTIVE"
          /\ \A i \in DOMAIN c2s : i < k => c2s[i].type = "INPUT"
    BY <1>5, <2>1 DEF OneActivation
  <2>3. ~(1 < k)
    BY <1>1, <2>2
  <2>4. k = 1
    BY <1>1, <2>3
  <2> QED BY <2>2, <2>4
<1> QED BY <1>3, <1>4, <1>5 DEF Session

\* Such a server in FINALIZATION has nothing else on its way.
LEMMA OnlyFinalization ==
    ASSUME Queues, Pairing, FontMaps, OneActivation, cState \in Session, ~resizeOnInput,
           sState # "ACTIVE", ~InFlight(s2c, "DEMAND_ACTIVE")
    PROVE  \A i \in DOMAIN s2c :
             s2c[i].type \notin {"FONT_MAP", "DEACTIVATE_ALL", "DEMAND_ACTIVE"}
<1>1. \A i \in DOMAIN s2c : s2c[i].type # "DEMAND_ACTIVE"
  BY DEF InFlight
<1>2. \A i \in DOMAIN s2c : s2c[i].type # "FONT_MAP"
  BY <1>1 DEF FontMaps
<1>3. \A i \in DOMAIN s2c : s2c[i].type # "DEACTIVATE_ALL"
  BY <1>1 DEF Pairing
<1> QED BY <1>1, <1>2, <1>3

LEMMA ServerConfirmActiveCore ==
    ASSUME Core, TypeOK, ServerConfirmActive PROVE Core'
<1> USE DEF Core, SessionInv
<1> DEFINE x == Pdu("SYNCHRONIZE", sGen)
           y == Pdu("COOPERATE", sGen)
           p == <<x, y>>
<1>1. /\ sState = "CAPABILITIES_EXCHANGE" /\ sState' = "FINALIZATION" /\ c2s # <<>>
      /\ Head(c2s).type = "CONFIRM_ACTIVE" /\ c2s' = Tail(c2s) /\ s2c' = s2c \o p
      /\ UNCHANGED <<cState, cJoined, finalize, reactivation, frames, resizeOnInput,
                     sJoined, AwaitCapabilities, activated, sGen, cGen, everActive,
                     events>>
  BY DEF ServerConfirmActive, ServerReads, ServerAnswers, ClientPdu, client, settings,
         ghosts
<1>2. cState \in Session /\ cState' \in Session
  BY <1>1, ServerInSession DEF Session
<1>3. x \in Pdus /\ y \in Pdus /\ x.type = "SYNCHRONIZE" /\ y.type = "COOPERATE"
  BY PduFacts DEF TypeOK, Gens, PduTypes
<1> HIDE DEF x, y
<1>4. p \in Seq(Pdus) /\ DOMAIN p = {1, 2} /\ p[1] = x /\ p[2] = y
  BY <1>3, Answers
<1>5. Paired(p) /\ NoDemand(p) /\ \A m \in DOMAIN p : p[m].type # "FONT_MAP"
  BY <1>3, <1>4 DEF Paired, NoDemand
<1> HIDE DEF p
<1>6. Queues'
  BY <1>1, <1>4, Sent, Received DEF Queues
<1>r. /\ 1 \in DOMAIN c2s /\ c2s[1].type = "CONFIRM_ACTIVE"
      /\ \A i \in DOMAIN c2s' : i \in Nat /\ i + 1 \in DOMAIN c2s /\ c2s'[i] = c2s[i + 1]
      /\ \A i \in DOMAIN c2s : i \in Nat /\ 1 <= i
      /\ \A t : c2s[1].type # t => (InFlight(c2s, t) => InFlight(c2s, t)')
  BY <1>1, Received
<1>7. SessionPdus'
  <2>1. \A m \in DOMAIN p :
          p[m].type \in FinalizeComplete \cup {"DEACTIVATE_ALL", "DEMAND_ACTIVE"}
    BY <1>3, <1>4 DEF FinalizeComplete
  <2>2. sState' \in Session /\ AwaitCapabilities' /\ activated' = (sState' = "ACTIVE")
    BY <1>1, <1>2 DEF SessionPdus, Session
  <2> QED BY <1>1, <1>2, <1>4, <1>r, <2>1, <2>2, SessionPdusSent
<1>8. Pairing'
  BY <1>1, <1>2, <1>4, <1>5, PairingSent
<1>9. Shares'
  BY <1>1, <1>2, <1>4, <1>5, SharesSent
<1>10. FontMaps'
  BY <1>1, <1>2, <1>4, <1>5, FontMapsSent
<1>11. ASSUME ~resizeOnInput PROVE OneActivation' /\ Finalizing'
  <2>1. ~InFlight(s2c, "DEMAND_ACTIVE")
    BY <1>2, <1>11, <1>r DEF OneActivation, AllInput
  <2>2. PICK k \in DOMAIN c2s :
          /\ c2s[k].type = "CONFIRM_ACTIVE"
          /\ \A i \in DOMAIN c2s : i < k => c2s[i].type = "INPUT"
          /\ \A i \in DOMAIN c2s : k < i => c2s[i].type # "CONFIRM_ACTIVE"
          /\ InFlight(c2s, "REQUEST_CONTROL")
    BY <1>1, <1>2, <1>11, <2>1 DEF OneActivation
  <2>3. k = 1
    <3>1. ~(1 < k)
      BY <1>r, <2>2
    <3> QED BY <1>r, <3>1
  <2>4. ~InFlight(c2s, "CONFIRM_ACTIVE")'
    <3> SUFFICES ASSUME NEW i \in DOMAIN c2s' PROVE c2s'[i].type # "CONFIRM_ACTIVE"
      BY DEF InFlight
    <3>1. i + 1 \in DOMAIN c2s /\ 1 < i + 1
      BY <1>6, <1>r DEF Queues
    <3> QED BY <1>r, <2>2, <2>3, <3>1
  <2>5. InFlight(c2s, "REQUEST_CONTROL")'
    BY <1>r, <2>2
  <2>6. ~InFlight(s2c, "DEMAND_ACTIVE")'
    BY <1>1, <1>4, <1>5, <2>1, InFlightSent DEF NoDemand
  <2>7. \A i, j \in DOMAIN c2s' :
          c2s'[i].type = "FONT_LIST" /\ i < j => c2s'[j].type = "INPUT"
    BY <1>2, <1>11, <1>r DEF OneActivation
  <2>8. \A i \in DOMAIN s2c' : s2c'[i].type # "DEMAND_ACTIVE"
    BY <2>6 DEF InFlight
  <2>9. OneActivation'
    BY <1>1, <2>4, <2>6, <2>7, <2>8 DEF OneActivation
  <2>10. \A i \in DOMAIN s2c' : s2c'[i].type \notin {"FONT_MAP", "DEACTIVATE_ALL"}
    <3>1. \A i \in DOMAIN s2c : s2c[i].type \notin {"FONT_MAP", "DEACTIVATE_ALL"}
      BY <1>1, <1>2, <1>11, <2>1, OnlyFinalization
    <3>2. \A m \in DOMAIN p : p[m].type \notin {"FONT_MAP", "DEACTIVATE_ALL"}
      BY <1>3, <1>4
    <3>3. \A i \in DOMAIN s2c' :
            \/ i \in DOMAIN s2c /\ s2c'[i] = s2c[i]
            \/ \E m \in DOMAIN p : s2c'[i] = p[m]
      BY <1>1, <1>4, Sent
    <3> QED BY <3>1, <3>2, <3>3
  <2>11. Comes("SYNCHRONIZE", Len(s2c) + 1)' /\ Comes("COOPERATE", Len(s2c) + 1)'
    <3>1. /\ Len(s2c) + 1 \in DOMAIN s2c' /\ s2c'[Len(s2c) + 1] = x
          /\ Len(s2c) + 2 \in DOMAIN s2c' /\ s2c'[Len(s2c) + 2] = y
          /\ s2c' \in Seq(Pdus)
      BY <1>1, <1>4, Sent
    <3>2. \A j \in DOMAIN s2c' : j < Len(s2c') + 1
      BY <3>1
    <3> QED BY <1>3, <3>1, <3>2 DEF Comes
  <2>12. Finalizing'
    BY <1>1, <2>5, <2>10, <2>11 DEF Finalizing
  <2> QED BY <2>9, <2>12
<1>12. OneActivation' /\ Finalizing'
  BY <1>1, <1>11 DEF OneActivation, Finalizing
<1>13. Told'
  BY <1>1 DEF Told
<1> QED BY <1>2, <1>6, <1>7, <1>8, <1>9, <1>10, <1>12, <1>13, InsideSession

\* A PDU of the finalization that finds a server in FINALIZATION and is not the
\* Font List changes nothing of the activation.
LEMMA OneActivationFinalization ==
    ASSUME Queues, SessionPdus, Pairing, FontMaps, OneActivation, cState \in Session,
           ~resizeOnInput, c2s # <<>>, c2s' = Tail(c2s), sState = "FINALIZATION",
           NEW p \in Seq(Pdus), s2c' = s2c \o p,
           \A m \in DOMAIN p : p[m].type \notin {"FONT_MAP", "DEACTIVATE_ALL", "DEMAND_ACTIVE"},
           UNCHANGED <<cState, sState, resizeOnInput>>
    PROVE  /\ OneActivation'
           /\ \A i \in DOMAIN s2c' : s2c'[i].type \notin {"FONT_MAP", "DEACTIVATE_ALL"}
<1>r. /\ \A i \in DOMAIN c2s' : i \in Nat /\ i + 1 \in DOMAIN c2s /\ c2s'[i] = c2s[i + 1]
      /\ \A t : InFlight(c2s, t)' => InFlight(c2s, t)
      /\ \A i \in DOMAIN c2s : i \in Nat
  BY Received
<1>1. ~InFlight(s2c, "DEMAND_ACTIVE")
  BY DEF OneActivation
<1>2. \A i \in DOMAIN s2c :
        s2c[i].type \notin {"FONT_MAP", "DEACTIVATE_ALL", "DEMAND_ACTIVE"}
  BY <1>1, OnlyFinalization
<1>3. \A i \in DOMAIN s2c' :
        s2c'[i].type \notin {"FONT_MAP", "DEACTIVATE_ALL", "DEMAND_ACTIVE"}
  BY <1>2, Sent
<1>4. ~InFlight(s2c, "DEMAND_ACTIVE")'
  BY <1>3 DEF InFlight
<1>5. ~InFlight(c2s, "CONFIRM_ACTIVE")'
  BY <1>r DEF OneActivation
<1>6. \A i, j \in DOMAIN c2s' :
        c2s'[i].type = "FONT_LIST" /\ i < j => c2s'[j].type = "INPUT"
  BY <1>r DEF OneActivation
<1>7. OneActivation'
  BY <1>3, <1>4, <1>5, <1>6 DEF OneActivation
<1> QED BY <1>3, <1>7

LEMMA ServerRequestControlCore ==
    ASSUME Core, TypeOK, ServerRequestControl PROVE Core'
<1> USE DEF Core, SessionInv
<1> DEFINE x == Pdu("GRANTED", sGen)
           p == <<x>>
<1>1. /\ sState \in Session /\ c2s # <<>>
      /\ Head(c2s).type = "REQUEST_CONTROL" /\ c2s' = Tail(c2s) /\ s2c' = s2c \o p
      /\ UNCHANGED <<cState, cJoined, finalize, reactivation, frames, resizeOnInput,
                     sState, sJoined, AwaitCapabilities, activated, sGen, cGen,
                     everActive, events>>
  BY DEF ServerRequestControl, ServerReads, ServerAnswers, ClientPdu, PduStates, Session,
         client, settings, server, ghosts
<1>2. cState \in Session /\ cState' \in Session
  BY <1>1, ServerInSession DEF Session
<1>3. x \in Pdus /\ x.type = "GRANTED"
  BY PduFacts DEF TypeOK, Gens, PduTypes
<1> HIDE DEF x
<1>4. p \in Seq(Pdus) /\ DOMAIN p = {1} /\ p[1] = x
  BY <1>3, Answers
<1>5. Paired(p) /\ NoDemand(p) /\ \A m \in DOMAIN p :
        p[m].type \notin {"FONT_MAP", "DEACTIVATE_ALL", "DEMAND_ACTIVE"}
  BY <1>3, <1>4 DEF Paired, NoDemand
<1> HIDE DEF p
<1>6. Queues'
  BY <1>1, <1>4, Sent, Received DEF Queues
<1>r. /\ 1 \in DOMAIN c2s /\ c2s[1].type = "REQUEST_CONTROL"
      /\ \A i \in DOMAIN c2s' : i \in Nat /\ i + 1 \in DOMAIN c2s /\ c2s'[i] = c2s[i + 1]
  BY <1>1, Received
<1>7. SessionPdus'
  <2>1. \A m \in DOMAIN p :
          p[m].type \in FinalizeComplete \cup {"DEACTIVATE_ALL", "DEMAND_ACTIVE"}
    BY <1>3, <1>4 DEF FinalizeComplete
  <2>2. sState' \in Session /\ AwaitCapabilities' /\ activated' = (sState' = "ACTIVE")
    BY <1>1, <1>2 DEF SessionPdus
  <2> QED BY <1>1, <1>2, <1>4, <1>r, <2>1, <2>2, SessionPdusSent
<1>8. Pairing'
  BY <1>1, <1>2, <1>4, <1>5, PairingSent
<1>9. Shares'
  BY <1>1, <1>2, <1>4, <1>5, SharesSent
<1>10. FontMaps'
  BY <1>1, <1>2, <1>4, <1>5, FontMapsSent
<1>11. ASSUME ~resizeOnInput PROVE OneActivation' /\ Finalizing'
  <2>1. sState = "FINALIZATION"
    BY <1>1, <1>2, <1>11, <1>r, InFinalization
  <2>2. /\ OneActivation'
        /\ \A i \in DOMAIN s2c' : s2c'[i].type \notin {"FONT_MAP", "DEACTIVATE_ALL"}
    BY <1>1, <1>2, <1>4, <1>5, <1>11, <2>1, OneActivationFinalization
  <2>3. Comes("GRANTED", Len(s2c) + 1)'
    <3>1. Len(s2c) + 1 \in DOMAIN s2c' /\ s2c'[Len(s2c) + 1] = x
      BY <1>1, <1>4, Sent
    <3>2. \A j \in DOMAIN s2c' : j < Len(s2c') + 1
      BY <1>6 DEF Queues
    <3> QED BY <1>3, <3>1, <3>2 DEF Comes
  <2>4. ASSUME NEW t, Comes(t, Len(s2c) + 1) PROVE Comes(t, Len(s2c) + 1)'
    <3>1. \A j \in DOMAIN s2c : j \in DOMAIN s2c' /\ s2c'[j] = s2c[j]
      BY <1>1, <1>4, Sent
    <3>2. \A j \in DOMAIN s2c' : j < Len(s2c') + 1
      BY <1>6 DEF Queues
    <3> QED BY <1>1, <2>4, <3>1, <3>2 DEF Comes
  <2>5. Finalizing'
    BY <1>1, <2>1, <2>2, <2>3, <2>4 DEF Finalizing
  <2> QED BY <2>2, <2>5
<1>12. OneActivation' /\ Finalizing'
  BY <1>1, <1>11 DEF OneActivation, Finalizing
<1>13. Told'
  BY <1>1 DEF Told
<1> QED BY <1>2, <1>6, <1>7, <1>8, <1>9, <1>10, <1>12, <1>13, InsideSession

LEMMA ServerDataPduCore ==
    ASSUME Core, TypeOK, ServerDataPdu PROVE Core'
<1> USE DEF Core, SessionInv
<1>1. /\ sState \in Session /\ c2s # <<>>
      /\ Head(c2s).type \in {"SYNCHRONIZE", "COOPERATE", "PERSISTENT_KEY_LIST"}
      /\ c2s' = Tail(c2s) /\ s2c' = s2c \o <<>>
      /\ UNCHANGED <<cState, cJoined, finalize, reactivation, frames, resizeOnInput,
                     sState, sJoined, AwaitCapabilities, activated, sGen, cGen,
                     everActive, events>>
  BY DEF ServerDataPdu, ServerReads, ServerAnswers, ClientPdu, PduStates, Session,
         client, settings, server, ghosts
<1>2. cState \in Session /\ cState' \in Session
  BY <1>1, ServerInSession DEF Session
<1>3. s2c' = s2c
  BY <1>1, EmptyConcat DEF Queues
<1>4. Queues'
  BY <1>1, <1>3, Received DEF Queues
<1>r. /\ 1 \in DOMAIN c2s
      /\ c2s[1].type \notin {"INPUT", "CONFIRM_ACTIVE", "REQUEST_CONTROL"}
      /\ \A i \in DOMAIN c2s' : i \in Nat /\ i + 1 \in DOMAIN c2s /\ c2s'[i] = c2s[i + 1]
      /\ \A t : c2s[1].type # t => (InFlight(c2s, t) => InFlight(c2s, t)')
  BY <1>1, Received
<1>5. SessionPdus'
  BY <1>1, <1>2, <1>3, <1>r DEF SessionPdus
<1>6. Pairing' /\ Shares' /\ FontMaps'
  BY <1>1, <1>3 DEF Pairing, Shares, FontMaps, InFlight
<1>7. ASSUME ~resizeOnInput PROVE OneActivation' /\ Finalizing'
  <2>1. sState = "FINALIZATION"
    BY <1>1, <1>2, <1>7, <1>r, InFinalization
  <2>2. <<>> \in Seq(Pdus) /\ DOMAIN <<>> = {}
    BY Answers
  <2>3. OneActivation'
    BY <1>1, <1>2, <1>7, <2>1, <2>2, OneActivationFinalization
  <2>4. InFlight(c2s, "REQUEST_CONTROL") => InFlight(c2s, "REQUEST_CONTROL")'
    BY <1>r
  <2>5. Finalizing'
    BY <1>1, <1>3, <1>7, <2>1, <2>4 DEF Finalizing, Comes
  <2> QED BY <2>3, <2>5
<1>8. OneActivation' /\ Finalizing'
  BY <1>1, <1>7 DEF OneActivation, Finalizing
<1>9. Told'
  BY <1>1 DEF Told
<1> QED BY <1>2, <1>4, <1>5, <1>6, <1>8, <1>9, InsideSession

\* The PDUs of a reactivation, alone and behind a Font Map.
LEMMA ReactivatePdus ==
    ASSUME NEW g \in Gens
    PROVE  LET p == <<Pdu("DEACTIVATE_ALL", 0), Pdu("DEMAND_ACTIVE", g)>>
           IN  /\ p \in Seq(Pdus) /\ Paired(p) /\ LastDemand(p) /\ p[Len(p)].arg = g
               /\ DOMAIN p = {1, 2} /\ p[1].type = "DEACTIVATE_ALL"
               /\ p[2].type = "DEMAND_ACTIVE"
<1> DEFINE d == Pdu("DEACTIVATE_ALL", 0)
           a == Pdu("DEMAND_ACTIVE", g)
           p == <<d, a>>
<1>1. /\ d \in Pdus /\ a \in Pdus /\ d.type = "DEACTIVATE_ALL"
      /\ a.type = "DEMAND_ACTIVE" /\ a.arg = g
  BY PduFacts DEF Gens, PduTypes
<1> HIDE DEF d, a
<1>2. p \in Seq(Pdus) /\ Len(p) = 2 /\ DOMAIN p = {1, 2} /\ p[1] = d /\ p[2] = a
  BY <1>1, Answers
<1>3. p # <<>>
  BY <1>2
<1> HIDE DEF p
<1>4. Paired(p)
  <2>1. \A m \in DOMAIN p : p[m].type = "DEACTIVATE_ALL" => m = 1
    BY <1>1, <1>2
  <2>2. \A m \in DOMAIN p : p[m].type = "DEMAND_ACTIVE" => m = 2
    BY <1>1, <1>2
  <2>3. 1 + 1 = 2 /\ 1 \in DOMAIN p /\ 2 \in DOMAIN p
    BY <1>2
  <2> QED BY <1>1, <1>2, <2>1, <2>2, <2>3 DEF Paired
<1>5. LastDemand(p) /\ p[Len(p)].arg = g
  BY <1>1, <1>2, <1>3 DEF LastDemand
<1> QED BY <1>1, <1>2, <1>4, <1>5 DEF d, a, p

LEMMA FontMapReactivatePdus ==
    ASSUME NEW g \in Gens, NEW f \in Pdus, f.type = "FONT_MAP"
    PROVE  LET p == <<f, Pdu("DEACTIVATE_ALL", 0), Pdu("DEMAND_ACTIVE", g)>>
           IN  /\ p \in Seq(Pdus) /\ Paired(p) /\ LastDemand(p) /\ p[Len(p)].arg = g
               /\ DOMAIN p = {1, 2, 3} /\ p[1].type = "FONT_MAP"
               /\ p[2].type = "DEACTIVATE_ALL" /\ p[3].type = "DEMAND_ACTIVE"
<1> DEFINE d == Pdu("DEACTIVATE_ALL", 0)
           a == Pdu("DEMAND_ACTIVE", g)
           p == <<f, d, a>>
<1>1. /\ d \in Pdus /\ a \in Pdus /\ d.type = "DEACTIVATE_ALL"
      /\ a.type = "DEMAND_ACTIVE" /\ a.arg = g
  BY PduFacts DEF Gens, PduTypes
<1> HIDE DEF d, a
<1>2. /\ p \in Seq(Pdus) /\ Len(p) = 3 /\ DOMAIN p = {1, 2, 3}
      /\ p[1] = f /\ p[2] = d /\ p[3] = a
  BY <1>1, Answers
<1>3. p # <<>>
  BY <1>2
<1> HIDE DEF p
<1>4. Paired(p)
  <2>1. \A m \in DOMAIN p : p[m].type = "DEACTIVATE_ALL" => m = 2
    BY <1>1, <1>2
  <2>2. \A m \in DOMAIN p : p[m].type = "DEMAND_ACTIVE" => m = 3
    BY <1>1, <1>2
  <2>3. 2 + 1 = 3 /\ 2 \in DOMAIN p /\ 3 \in DOMAIN p
    BY <1>2
  <2> QED BY <1>1, <1>2, <2>1, <2>2, <2>3 DEF Paired
<1>5. LastDemand(p) /\ p[Len(p)].arg = g
  BY <1>1, <1>2, <1>3 DEF LastDemand
<1> QED BY <1>1, <1>2, <1>4, <1>5 DEF d, a, p

LEMMA ConcatPdus ==
    \A s, t, r \in Seq(Pdus) : (s \o t) \o r = s \o (t \o r)
  BY ConcatAssociative, SMT

LEMMA TripleConcat ==
    ASSUME NEW q \in Seq(Pdus), NEW x \in Pdus, NEW y \in Pdus, NEW z \in Pdus
    PROVE  (q \o <<x>>) \o <<y, z>> = q \o <<x, y, z>>
<1> DEFINE u == <<x>>
           v == <<y, z>>
           w == <<x, y, z>>
<1>1. /\ u \in Seq(Pdus) /\ Len(u) = 1 /\ u[1] = x
      /\ v \in Seq(Pdus) /\ Len(v) = 2 /\ v[1] = y /\ v[2] = z
      /\ w \in Seq(Pdus) /\ Len(w) = 3 /\ w[1] = x /\ w[2] = y /\ w[3] = z
  OBVIOUS
<1> HIDE DEF u, v, w
<1>2. u \o v = w
  <2> DEFINE s == u \o v
  <2>1. /\ s \in Seq(Pdus) /\ Len(s) = Len(u) + Len(v)
        /\ \A i \in 1..Len(u) : s[i] = u[i]
        /\ \A i \in 1..Len(v) : s[Len(u) + i] = v[i]
    BY <1>1, ConcatFacts
  <2> HIDE DEF s
  <2>2. /\ s \in Seq(Pdus) /\ Len(s) = 3 /\ s[1] = x /\ s[1 + 1] = y /\ s[1 + 2] = z
    BY <1>1, <2>1
  <2>3. s[2] = y /\ s[3] = z
    BY <2>2
  <2>4. \A i \in 1..3 : s[i] = w[i]
    BY <1>1, <2>2, <2>3
  <2>5. s = w
    BY <1>1, <2>2, <2>4, SeqEqual
  <2> QED BY <2>5 DEF s
<1>3. (q \o u) \o v = q \o (u \o v)
  <2>1. u \in Seq(Pdus) /\ v \in Seq(Pdus)
    BY <1>1
  <2> QED BY <2>1, ConcatPdus, Zenon
<1> QED BY <1>2, <1>3 DEF u, v, w

\* What rdp_server_reactivate does to the parts of the invariant that hold for
\* every server: p ends with the Deactivate All and the Demand Active.
LEMMA ReactivateParts ==
    ASSUME Queues, SessionPdus, Pairing, Shares, FontMaps, Told,
           cState \in Session, NEW p \in Seq(Pdus), s2c' = s2c \o p,
           Paired(p), LastDemand(p), p[Len(p)].arg = sGen', sGen' \in Gens,
           \A m \in DOMAIN p :
             p[m].type \in FinalizeComplete \cup {"DEACTIVATE_ALL", "DEMAND_ACTIVE"},
           \A i \in DOMAIN c2s' : \E j \in DOMAIN c2s : c2s'[i] = c2s[j],
           sState' = "CAPABILITIES_EXCHANGE", AwaitCapabilities' = TRUE,
           activated' = FALSE,
           UNCHANGED <<cState, cJoined, finalize, reactivation, frames, resizeOnInput,
                       sJoined, cGen, everActive, events>>
    PROVE  SessionPdus' /\ Pairing' /\ Shares' /\ FontMaps' /\ Told'
<1>1. SessionPdus'
  <2>1. sState' \in Session /\ AwaitCapabilities' /\ activated' = (sState' = "ACTIVE")
    BY DEF Session
  <2> QED BY <2>1, SessionPdusSent
<1>2. Pairing'
  BY PairingSent
<1>3. Shares'
  BY SharesSent
<1>4. FontMaps'
  BY FontMapsSent
<1>5. Told'
  BY DEF Told
<1> QED BY <1>1, <1>2, <1>3, <1>4, <1>5

\* The same for the parts about a server that resizes only an activated client.
LEMMA ReactivateOne ==
    ASSUME Queues, OneActivation, cState \in Session, ~resizeOnInput,
           NEW p \in Seq(Pdus), s2c' = s2c \o p, LastDemand(p),
           ~InFlight(s2c, "DEMAND_ACTIVE"), AllInput(c2s)', c2s' \in Seq(Pdus),
           sState' = "CAPABILITIES_EXCHANGE"
    PROVE  OneActivation'
<1>1. /\ s2c' \in Seq(Pdus) /\ Len(s2c) \in Nat /\ Len(s2c') = Len(s2c) + Len(p)
      /\ \A i \in DOMAIN s2c' :
           \/ i \in DOMAIN s2c /\ s2c'[i] = s2c[i]
           \/ \E m \in DOMAIN p : i = Len(s2c) + m /\ s2c'[i] = p[m]
  BY Sent
<1>2. Len(p) \in DOMAIN p
  BY DEF LastDemand
<1>3. InFlight(s2c, "DEMAND_ACTIVE")'
  BY <1>2, InFlightSent DEF LastDemand
<1>4. ASSUME NEW i \in DOMAIN s2c', NEW j \in DOMAIN s2c', s2c'[i].type = "DEMAND_ACTIVE"
      PROVE  j <= i
  <2>1. i = Len(s2c')
    BY <1>1, <1>4 DEF InFlight, LastDemand
  <2> QED BY <1>1, <2>1
<1>5. ~InFlight(c2s, "CONFIRM_ACTIVE")'
  BY DEF AllInput, InFlight
<1>6. \A i, j \in DOMAIN c2s' :
        c2s'[i].type = "FONT_LIST" /\ i < j => c2s'[j].type = "INPUT"
  BY DEF AllInput
<1> QED BY <1>3, <1>4, <1>5, <1>6 DEF OneActivation

\* A Font List: what holds of the finalization when it is read, with a server
\* that resizes only an activated client.
LEMMA AtFontList ==
    ASSUME Queues, SessionPdus, Pairing, FontMaps, OneActivation, Finalizing,
           cState \in Session, ~resizeOnInput, c2s # <<>>, c2s[1].type = "FONT_LIST",
           c2s' = Tail(c2s)
    PROVE  /\ sState = "FINALIZATION" /\ AllInput(c2s)' /\ ~InFlight(s2c, "DEMAND_ACTIVE")
           /\ \A i \in DOMAIN s2c :
                s2c[i].type \notin {"FONT_MAP", "DEACTIVATE_ALL", "DEMAND_ACTIVE"}
           /\ cState = "FINALIZATION" =>
                \A t \in FinalizeComplete \ {"FONT_MAP"} : Comes(t, Len(s2c) + 1)
<1>r. /\ 1 \in DOMAIN c2s
      /\ \A i \in DOMAIN c2s' : i \in Nat /\ i + 1 \in DOMAIN c2s /\ c2s'[i] = c2s[i + 1]
      /\ \A i \in DOMAIN c2s : i \in Nat /\ 1 <= i
      /\ c2s' \in Seq(Pdus)
  BY Received
<1>1. sState = "FINALIZATION"
  BY InFinalization
<1>2. \A j \in DOMAIN c2s : 1 < j => c2s[j].type = "INPUT"
  BY <1>r DEF OneActivation
<1>3. AllInput(c2s)'
  <2> SUFFICES ASSUME NEW i \in DOMAIN c2s' PROVE c2s'[i].type = "INPUT"
    BY DEF AllInput
  <2>1. 1 < i + 1
    BY <1>r
  <2> QED BY <1>2, <1>r, <2>1
<1>4. ~InFlight(s2c, "DEMAND_ACTIVE")
  BY <1>1 DEF OneActivation
<1>5. \A i \in DOMAIN s2c :
        s2c[i].type \notin {"FONT_MAP", "DEACTIVATE_ALL", "DEMAND_ACTIVE"}
  BY <1>1, <1>4, OnlyFinalization
<1>6. ~InFlight(c2s, "REQUEST_CONTROL")
  <2> SUFFICES ASSUME NEW j \in DOMAIN c2s PROVE c2s[j].type # "REQUEST_CONTROL"
    BY DEF InFlight
  <2>1. j = 1 \/ 1 < j
    BY <1>r
  <2> QED BY <1>2, <2>1
<1>7. cState = "FINALIZATION" =>
        /\ Comes("SYNCHRONIZE", Len(s2c) + 1) /\ Comes("COOPERATE", Len(s2c) + 1)
        /\ Comes("GRANTED", Len(s2c) + 1)
  BY <1>1, <1>6 DEF Finalizing
<1>8. FinalizeComplete \ {"FONT_MAP"} = {"SYNCHRONIZE", "COOPERATE", "GRANTED"}
  BY DEF FinalizeComplete
<1> QED BY <1>1, <1>3, <1>4, <1>5, <1>7, <1>8

LEMMA ServerFontListCore ==
    ASSUME Core, TypeOK, ServerFontList PROVE Core'
<1> USE DEF Core, SessionInv
<1> DEFINE f == Pdu("FONT_MAP", sGen)
<1>1. /\ sState \in Session /\ c2s # <<>> /\ Head(c2s).type = "FONT_LIST"
      /\ c2s' = Tail(c2s)
      /\ UNCHANGED <<cState, cJoined, finalize, reactivation, frames, resizeOnInput,
                     sJoined, cGen, everActive, events>>
  BY DEF ServerFontList, ServerReads, ClientPdu, PduStates, Session,
         client, settings, server, ghosts
<1>2. cState \in Session /\ cState' \in Session
  BY <1>1, ServerInSession DEF Session
<1>3. f \in Pdus /\ f.type = "FONT_MAP" /\ sGen \in Gens
  BY PduFacts DEF TypeOK, Gens, PduTypes
<1> HIDE DEF f
<1>r. /\ 1 \in DOMAIN c2s /\ c2s[1].type = "FONT_LIST" /\ c2s' \in Seq(Pdus)
      /\ \A i \in DOMAIN c2s' : i \in Nat /\ i + 1 \in DOMAIN c2s /\ c2s'[i] = c2s[i + 1]
  BY <1>1, Received
<1>4. ASSUME ~resizeOnInput
      PROVE  /\ sState = "FINALIZATION" /\ AllInput(c2s)' /\ ~InFlight(s2c, "DEMAND_ACTIVE")
             /\ \A i \in DOMAIN s2c :
                  s2c[i].type \notin {"FONT_MAP", "DEACTIVATE_ALL", "DEMAND_ACTIVE"}
             /\ cState = "FINALIZATION" =>
                  \A t \in FinalizeComplete \ {"FONT_MAP"} : Comes(t, Len(s2c) + 1)
  BY <1>1, <1>2, <1>4, <1>r, AtFontList
<1>5. CASE s2c' = Append(s2c, f) /\ sState' = "ACTIVE" /\ activated' = TRUE
           /\ UNCHANGED <<AwaitCapabilities, sGen>>
  <2> DEFINE p == <<f>>
  <2>1. p \in Seq(Pdus) /\ DOMAIN p = {1} /\ p[1] = f
    BY <1>3, Answers
  <2>2. s2c' = s2c \o p
    BY <1>3, <1>5 DEF Queues
  <2>3. Paired(p) /\ NoDemand(p)
    BY <1>3, <2>1 DEF Paired, NoDemand
  <2> HIDE DEF p
  <2>4. /\ s2c' \in Seq(Pdus) /\ Len(s2c) \in Nat /\ Len(s2c) + 1 \in DOMAIN s2c'
        /\ s2c'[Len(s2c) + 1] = f
        /\ \A i \in DOMAIN s2c : i \in DOMAIN s2c' /\ s2c'[i] = s2c[i]
        /\ \A i \in DOMAIN s2c' :
             (i \in DOMAIN s2c /\ s2c'[i] = s2c[i]) \/ (i = Len(s2c) + 1 /\ s2c'[i] = f)
    BY <2>1, <2>2, Sent
  <2>5. Queues'
    BY <1>r, <2>4 DEF Queues
  <2>6. SessionPdus'
    <3>1. \A m \in DOMAIN p :
            p[m].type \in FinalizeComplete \cup {"DEACTIVATE_ALL", "DEMAND_ACTIVE"}
      BY <1>3, <2>1 DEF FinalizeComplete
    <3>2. sState' \in Session /\ AwaitCapabilities' /\ activated' = (sState' = "ACTIVE")
      BY <1>2, <1>5 DEF SessionPdus, Session
    <3> QED BY <1>1, <1>2, <1>r, <2>1, <2>2, <3>1, <3>2, SessionPdusSent
  <2>7. Pairing'
    BY <1>1, <1>2, <2>1, <2>2, <2>3, PairingSent
  <2>8. Shares'
    BY <1>1, <1>2, <1>5, <2>1, <2>2, <2>3, SharesSent
  <2>9. FontMaps'
    BY <1>5 DEF FontMaps
  <2>10. ASSUME ~resizeOnInput PROVE OneActivation' /\ Finalizing'
    <3>1. \A i \in DOMAIN s2c' :
            /\ s2c'[i].type \notin {"DEACTIVATE_ALL", "DEMAND_ACTIVE"}
            /\ s2c'[i].type = "FONT_MAP" => i = Len(s2c) + 1
      BY <1>3, <1>4, <2>4, <2>10
    <3>2. ~InFlight(s2c, "DEMAND_ACTIVE")'
      BY <3>1 DEF InFlight
    <3>3. ~InFlight(c2s, "CONFIRM_ACTIVE")'
      BY <1>4, <2>10 DEF InFlight, AllInput
    <3>4. \A i, j \in DOMAIN c2s' :
            c2s'[i].type = "FONT_LIST" /\ i < j => c2s'[j].type = "INPUT"
      BY <1>4, <2>10 DEF AllInput
    <3>5. OneActivation'
      BY <1>4, <1>5, <2>10, <3>1, <3>2, <3>3, <3>4 DEF OneActivation
    <3>6. \A t : Comes(t, Len(s2c) + 1) =>
            t \in finalize' \/ \E j \in DOMAIN s2c' : j < Len(s2c) + 1 /\ s2c'[j].type = t
      BY <1>1, <2>4 DEF Comes
    <3>7. InFlight(s2c, "FONT_MAP")'
      BY <1>3, <2>4 DEF InFlight
    <3>8. ASSUME cState = "FINALIZATION", NEW i \in DOMAIN s2c', s2c'[i].type = "FONT_MAP",
                 NEW t \in FinalizeComplete \ {"FONT_MAP"}
          PROVE  Comes(t, i)'
      <4>1. i = Len(s2c) + 1 /\ Comes(t, Len(s2c) + 1)
        BY <1>4, <2>10, <3>1, <3>8
      <4> QED BY <3>6, <4>1 DEF Comes
    <3>9. Finalizing'
      BY <1>1, <1>5, <3>1, <3>7, <3>8 DEF Finalizing
    <3> QED BY <3>5, <3>9
  <2>11. OneActivation' /\ Finalizing'
    BY <1>1, <2>10 DEF OneActivation, Finalizing
  <2>12. Told'
    BY <1>1 DEF Told
  <2> QED BY <1>2, <2>5, <2>6, <2>7, <2>8, <2>9, <2>11, <2>12, InsideSession
<1>6. CASE ServerReactivate(<<f>>)
  <2> DEFINE d == Pdu("DEACTIVATE_ALL", 0)
             a == Pdu("DEMAND_ACTIVE", sGen')
             p == <<f, d, a>>
  <2>1. /\ sGen' = (sGen + 1) % 3 /\ s2c' = (s2c \o <<f>>) \o <<d, a>>
        /\ sState' = "CAPABILITIES_EXCHANGE" /\ AwaitCapabilities' = TRUE
        /\ activated' = FALSE
    BY <1>6 DEF ServerReactivate
  <2>2. sGen' \in Gens
    BY <1>3, <2>1 DEF Gens
  <2>3. d \in Pdus /\ a \in Pdus
    BY <2>2, PduFacts DEF Gens, PduTypes
  <2>4. /\ p \in Seq(Pdus) /\ Paired(p) /\ LastDemand(p) /\ p[Len(p)].arg = sGen'
        /\ DOMAIN p = {1, 2, 3} /\ p[1].type = "FONT_MAP"
        /\ p[2].type = "DEACTIVATE_ALL" /\ p[3].type = "DEMAND_ACTIVE"
    <3> DEFINE g == sGen'
    <3>1. g \in Gens /\ sGen' = g
      BY <2>2
    <3> HIDE DEF g
    <3>2. p = <<f, Pdu("DEACTIVATE_ALL", 0), Pdu("DEMAND_ACTIVE", g)>>
      BY <3>1
    <3> HIDE DEF p
    <3> QED BY <1>3, <3>1, <3>2, FontMapReactivatePdus
  <2> HIDE DEF d, a
  <2>5. s2c' = s2c \o p
    BY <1>3, <2>1, <2>3, TripleConcat DEF Queues
  <2> HIDE DEF p
  <2>6. /\ s2c' \in Seq(Pdus) /\ Len(s2c) \in Nat
        /\ \A i \in DOMAIN s2c : i \in DOMAIN s2c' /\ s2c'[i] = s2c[i]
        /\ \A m \in DOMAIN p : Len(s2c) + m \in DOMAIN s2c' /\ s2c'[Len(s2c) + m] = p[m]
        /\ \A i \in DOMAIN s2c' :
             \/ i \in DOMAIN s2c /\ s2c'[i] = s2c[i]
             \/ \E m \in DOMAIN p : i = Len(s2c) + m /\ s2c'[i] = p[m]
    BY <2>4, <2>5, Sent
  <2>7. Queues'
    BY <1>r, <2>6 DEF Queues
  <2>8. \A m \in DOMAIN p :
          p[m].type \in FinalizeComplete \cup {"DEACTIVATE_ALL", "DEMAND_ACTIVE"}
    BY <2>4 DEF FinalizeComplete
  <2>9. SessionPdus' /\ Pairing' /\ Shares' /\ FontMaps' /\ Told'
    BY <1>1, <1>2, <1>r, <2>1, <2>2, <2>4, <2>5, <2>8, ReactivateParts
  <2>10. ASSUME ~resizeOnInput PROVE OneActivation' /\ Finalizing'
    <3>1. OneActivation'
      BY <1>1, <1>2, <1>4, <1>r, <2>1, <2>4, <2>5, <2>10, ReactivateOne
    <3>2. \A i \in DOMAIN s2c' :
            /\ s2c'[i].type = "FONT_MAP" => i = Len(s2c) + 1
            /\ s2c'[i].type = "DEACTIVATE_ALL" => i = Len(s2c) + 2
      <4> TAKE i \in DOMAIN s2c'
      <4>1. CASE i \in DOMAIN s2c /\ s2c'[i] = s2c[i]
        BY <1>4, <2>10, <4>1
      <4>2. ASSUME NEW m \in DOMAIN p, i = Len(s2c) + m, s2c'[i] = p[m]
            PROVE  /\ s2c'[i].type = "FONT_MAP" => i = Len(s2c) + 1
                   /\ s2c'[i].type = "DEACTIVATE_ALL" => i = Len(s2c) + 2
        BY <2>4, <4>2
      <4> QED BY <2>6, <4>1, <4>2
    <3>3. \A t : Comes(t, Len(s2c) + 1) =>
            t \in finalize' \/ \E j \in DOMAIN s2c' : j < Len(s2c) + 1 /\ s2c'[j].type = t
      BY <1>1, <2>6 DEF Comes
    <3>4. ASSUME cState = "FINALIZATION", NEW i \in DOMAIN s2c', s2c'[i].type = "FONT_MAP",
                 NEW t \in FinalizeComplete \ {"FONT_MAP"}
          PROVE  Comes(t, i)'
      <4>1. i = Len(s2c) + 1 /\ Comes(t, Len(s2c) + 1)
        BY <1>4, <2>10, <3>2, <3>4
      <4> QED BY <3>3, <4>1 DEF Comes
    <3>5. ASSUME NEW i \in DOMAIN s2c', s2c'[i].type = "DEACTIVATE_ALL"
          PROVE  \E j \in DOMAIN s2c' : j < i /\ s2c'[j].type = "FONT_MAP"
      <4> DEFINE j == Len(s2c) + 1
      <4>1. j \in DOMAIN s2c' /\ s2c'[j].type = "FONT_MAP"
        BY <2>4, <2>6
      <4>2. j < i
        BY <2>6, <3>2, <3>5
      <4> HIDE DEF j
      <4> QED BY <4>1, <4>2
    <3>6. Finalizing'
      BY <1>1, <2>1, <3>4, <3>5 DEF Finalizing
    <3> QED BY <3>1, <3>6
  <2>11. OneActivation' /\ Finalizing'
    BY <1>1, <2>10 DEF OneActivation, Finalizing
  <2> QED BY <1>2, <2>7, <2>9, <2>11, InsideSession
<1>7. (s2c' = Append(s2c, f) /\ sState' = "ACTIVE" /\ activated' = TRUE
        /\ UNCHANGED <<AwaitCapabilities, sGen>>)
      \/ ServerReactivate(<<f>>)
  BY DEF ServerFontList, f
<1> QED BY <1>5, <1>6, <1>7

\* A reactivation on its own.
LEMMA Reactivated ==
    ASSUME Core, TypeOK, ServerReactivate(<<>>)
    PROVE  \E p \in Seq(Pdus) :
             /\ s2c' = s2c \o p /\ Paired(p) /\ LastDemand(p) /\ p[Len(p)].arg = sGen'
             /\ DOMAIN p = {1, 2} /\ p[1].type = "DEACTIVATE_ALL"
             /\ p[2].type = "DEMAND_ACTIVE"
             /\ sGen' \in Gens /\ sState' = "CAPABILITIES_EXCHANGE"
             /\ AwaitCapabilities' = TRUE /\ activated' = FALSE
<1> DEFINE g == sGen'
           d == Pdu("DEACTIVATE_ALL", 0)
           a == Pdu("DEMAND_ACTIVE", g)
           p == <<d, a>>
<1>1. /\ g = (sGen + 1) % 3 /\ s2c' = (s2c \o <<>>) \o p
      /\ sState' = "CAPABILITIES_EXCHANGE" /\ AwaitCapabilities' = TRUE
      /\ activated' = FALSE
  BY DEF ServerReactivate
<1>2. g \in Gens
  BY <1>1 DEF TypeOK, Gens
<1>3. s2c' = s2c \o p
  BY <1>1, EmptyConcat DEF Core, Queues
<1>4. sGen' = g
  OBVIOUS
<1> HIDE DEF g
<1>5. /\ p \in Seq(Pdus) /\ Paired(p) /\ LastDemand(p) /\ p[Len(p)].arg = g
      /\ DOMAIN p = {1, 2} /\ p[1].type = "DEACTIVATE_ALL"
      /\ p[2].type = "DEMAND_ACTIVE"
  BY <1>2, ReactivatePdus
<1> HIDE DEF p
<1> QED BY <1>1, <1>2, <1>3, <1>4, <1>5

LEMMA ServerInputCore ==
    ASSUME Core, TypeOK, ServerInput PROVE Core'
<1> USE DEF Core, SessionInv
<1>1. /\ sState \in Session /\ c2s # <<>> /\ Head(c2s).type = "INPUT"
      /\ c2s' = Tail(c2s)
      /\ UNCHANGED <<cState, cJoined, finalize, reactivation, frames, resizeOnInput,
                     sJoined, cGen, everActive, events>>
  BY DEF ServerInput, ServerReads, ClientPdu, PduStates, Session,
         client, settings, server, ghosts
<1>2. cState \in Session /\ cState' \in Session
  BY <1>1, ServerInSession DEF Session
<1>r. /\ 1 \in DOMAIN c2s /\ c2s[1].type = "INPUT" /\ c2s' \in Seq(Pdus)
      /\ \A i \in DOMAIN c2s' : i \in Nat /\ i + 1 \in DOMAIN c2s /\ c2s'[i] = c2s[i + 1]
      /\ \A i \in DOMAIN c2s : i # 1 => i - 1 \in DOMAIN c2s' /\ c2s'[i - 1] = c2s[i]
      /\ \A i \in DOMAIN c2s : i \in Nat /\ 1 <= i
      /\ \A t : InFlight(c2s, t)' => InFlight(c2s, t)
      /\ \A t : c2s[1].type # t => (InFlight(c2s, t) => InFlight(c2s, t)')
      /\ AllInput(c2s) => AllInput(c2s)'
  BY <1>1, Received
<1>3. CASE UNCHANGED <<s2c, sState, AwaitCapabilities, activated, sGen>>
  <2>1. Queues'
    BY <1>3, <1>r DEF Queues
  <2>2. SessionPdus'
    BY <1>1, <1>2, <1>3, <1>r DEF SessionPdus
  <2>3. Pairing' /\ Shares' /\ FontMaps'
    BY <1>1, <1>3 DEF Pairing, Shares, FontMaps, InFlight
  <2>4. ASSUME ~resizeOnInput PROVE OneActivation' /\ Finalizing'
    <3>1. InFlight(s2c, "DEMAND_ACTIVE")' <=> InFlight(s2c, "DEMAND_ACTIVE")
      BY <1>3 DEF InFlight
    <3>2. InFlight(c2s, "REQUEST_CONTROL") => InFlight(c2s, "REQUEST_CONTROL")'
      BY <1>r
    <3>3. \A i, j \in DOMAIN c2s' :
            c2s'[i].type = "FONT_LIST" /\ i < j => c2s'[j].type = "INPUT"
      BY <1>2, <1>r, <2>4 DEF OneActivation
    <3>4. ASSUME sState = "CAPABILITIES_EXCHANGE", ~InFlight(s2c, "DEMAND_ACTIVE")
          PROVE  \E k \in DOMAIN c2s' :
                   /\ c2s'[k].type = "CONFIRM_ACTIVE"
                   /\ \A i \in DOMAIN c2s' : i < k => c2s'[i].type = "INPUT"
                   /\ \A i \in DOMAIN c2s' : k < i => c2s'[i].type # "CONFIRM_ACTIVE"
                   /\ InFlight(c2s, "REQUEST_CONTROL")'
      <4>1. PICK k \in DOMAIN c2s :
              /\ c2s[k].type = "CONFIRM_ACTIVE"
              /\ \A i \in DOMAIN c2s : i < k => c2s[i].type = "INPUT"
              /\ \A i \in DOMAIN c2s : k < i => c2s[i].type # "CONFIRM_ACTIVE"
              /\ InFlight(c2s, "REQUEST_CONTROL")
        BY <1>2, <2>4, <3>4 DEF OneActivation
      <4> DEFINE l == k - 1
      <4>2. l \in DOMAIN c2s' /\ c2s'[l] = c2s[k] /\ l \in Nat /\ k = l + 1
        BY <1>r, <4>1
      <4> HIDE DEF l
      <4>3. \A i \in DOMAIN c2s' : i < l => c2s'[i].type = "INPUT"
        BY <1>r, <4>1, <4>2
      <4>4. \A i \in DOMAIN c2s' : l < i => c2s'[i].type # "CONFIRM_ACTIVE"
        BY <1>r, <4>1, <4>2
      <4> QED BY <3>2, <4>1, <4>2, <4>3, <4>4
    <3>5. OneActivation'
      <4>1. InFlight(s2c, "DEMAND_ACTIVE")' =>
              sState' = "CAPABILITIES_EXCHANGE" /\ AllInput(c2s)'
        BY <1>2, <1>3, <1>r, <2>4, <3>1 DEF OneActivation
      <4>2. sState' = "ACTIVE" => AllInput(c2s)'
        BY <1>2, <1>3, <1>r, <2>4 DEF OneActivation
      <4>3. InFlight(c2s, "CONFIRM_ACTIVE")' => sState' = "CAPABILITIES_EXCHANGE"
        BY <1>2, <1>3, <1>r, <2>4 DEF OneActivation
      <4>4. \A i, j \in DOMAIN s2c' : s2c'[i].type = "DEMAND_ACTIVE" => j <= i
        BY <1>2, <1>3, <2>4 DEF OneActivation
      <4> QED BY <1>3, <3>1, <3>3, <3>4, <4>1, <4>2, <4>3, <4>4 DEF OneActivation
    <3>6. Finalizing'
      BY <1>1, <1>3, <2>4, <3>2 DEF Finalizing, Comes, InFlight
    <3> QED BY <3>5, <3>6
  <2>5. OneActivation' /\ Finalizing'
    BY <1>1, <2>4 DEF OneActivation, Finalizing
  <2>6. Told'
    BY <1>1 DEF Told
  <2> QED BY <1>2, <2>1, <2>2, <2>3, <2>5, <2>6, InsideSession
<1>4. CASE resizeOnInput /\ ServerReactivate(<<>>)
  <2>1. PICK p \in Seq(Pdus) :
          /\ s2c' = s2c \o p /\ Paired(p) /\ LastDemand(p) /\ p[Len(p)].arg = sGen'
          /\ DOMAIN p = {1, 2} /\ p[1].type = "DEACTIVATE_ALL"
          /\ p[2].type = "DEMAND_ACTIVE"
          /\ sGen' \in Gens /\ sState' = "CAPABILITIES_EXCHANGE"
          /\ AwaitCapabilities' = TRUE /\ activated' = FALSE
    BY <1>4, Reactivated
  <2>2. \A m \in DOMAIN p :
          p[m].type \in FinalizeComplete \cup {"DEACTIVATE_ALL", "DEMAND_ACTIVE"}
    BY <2>1
  <2>3. SessionPdus' /\ Pairing' /\ Shares' /\ FontMaps' /\ Told'
    BY <1>1, <1>2, <1>r, <2>1, <2>2, ReactivateParts
  <2>4. Queues'
    BY <1>r, <2>1, Sent DEF Queues
  <2>5. OneActivation' /\ Finalizing'
    BY <1>1, <1>4 DEF OneActivation, Finalizing
  <2> QED BY <1>2, <2>3, <2>4, <2>5, InsideSession
<1> QED BY <1>3, <1>4 DEF ServerInput

LEMMA ServerResizeCore ==
    ASSUME Core, TypeOK, ServerResize PROVE Core'
<1> USE DEF Core, SessionInv
<1>1. /\ ~resizeOnInput /\ activated /\ ServerReactivate(<<>>)
      /\ UNCHANGED <<c2s, cState, cJoined, finalize, reactivation, frames,
                     resizeOnInput, sJoined, cGen, everActive, events>>
  BY DEF ServerResize, client, settings, ghosts
<1>2. cState \in Session /\ cState' \in Session
  BY <1>1 DEF Handshake
<1>3. sState = "ACTIVE"
  BY <1>1, <1>2 DEF SessionPdus
<1>4. AllInput(c2s) /\ ~InFlight(s2c, "DEMAND_ACTIVE")
  BY <1>1, <1>2, <1>3 DEF OneActivation
<1>5. PICK p \in Seq(Pdus) :
        /\ s2c' = s2c \o p /\ Paired(p) /\ LastDemand(p) /\ p[Len(p)].arg = sGen'
        /\ DOMAIN p = {1, 2} /\ p[1].type = "DEACTIVATE_ALL"
        /\ p[2].type = "DEMAND_ACTIVE"
        /\ sGen' \in Gens /\ sState' = "CAPABILITIES_EXCHANGE"
        /\ AwaitCapabilities' = TRUE /\ activated' = FALSE
  BY <1>1, Reactivated
<1>6. \A m \in DOMAIN p :
        p[m].type \in FinalizeComplete \cup {"DEACTIVATE_ALL", "DEMAND_ACTIVE"}
  BY <1>5
<1>7. SessionPdus' /\ Pairing' /\ Shares' /\ FontMaps' /\ Told'
  BY <1>1, <1>2, <1>5, <1>6, ReactivateParts
<1>8. Queues'
  BY <1>1, <1>5, Sent DEF Queues
<1>9. OneActivation'
  <2>1. AllInput(c2s)' /\ c2s' \in Seq(Pdus)
    BY <1>1, <1>4 DEF AllInput, Queues
  <2> QED BY <1>1, <1>2, <1>4, <1>5, <2>1, ReactivateOne
<1>10. Finalizing'
  <2> SUFFICES ASSUME cState = "FINALIZATION" PROVE Finalizing'
    BY <1>1 DEF Finalizing
  <2>1. /\ \A i \in DOMAIN s2c : /\ i \in DOMAIN s2c' /\ s2c'[i] = s2c[i]
                                 /\ i \in Nat /\ i <= Len(s2c)
        /\ \A m \in DOMAIN p : m \in Nat /\ 1 <= m
        /\ Len(s2c) \in Nat
        /\ \A i \in DOMAIN s2c' :
             \/ i \in DOMAIN s2c /\ s2c'[i] = s2c[i]
             \/ \E m \in DOMAIN p : i = Len(s2c) + m /\ s2c'[i] = p[m]
    BY <1>5, Sent
  <2>2. ASSUME NEW i \in DOMAIN s2c', s2c'[i].type = "FONT_MAP",
               NEW t \in FinalizeComplete \ {"FONT_MAP"}
        PROVE  Comes(t, i)'
    <3>1. i \in DOMAIN s2c /\ s2c[i].type = "FONT_MAP"
      BY <1>5, <2>1, <2>2
    <3>2. Comes(t, i)
      BY <1>1, <3>1 DEF Finalizing
    <3> QED BY <1>1, <1>5, <3>2, ComesSent
  <2>3. PICK j \in DOMAIN s2c : s2c[j].type = "FONT_MAP"
    BY <1>1, <1>3 DEF Finalizing, InFlight
  <2>4. ASSUME NEW i \in DOMAIN s2c', s2c'[i].type = "DEACTIVATE_ALL"
        PROVE  \E l \in DOMAIN s2c' : l < i /\ s2c'[l].type = "FONT_MAP"
    <3>1. CASE i \in DOMAIN s2c /\ s2c'[i] = s2c[i]
      <4>1. PICK l \in DOMAIN s2c : l < i /\ s2c[l].type = "FONT_MAP"
        BY <1>1, <2>4, <3>1 DEF Finalizing
      <4> QED BY <2>1, <4>1
    <3>2. ASSUME NEW m \in DOMAIN p, i = Len(s2c) + m
          PROVE  j < i
      BY <2>1, <3>2
    <3> QED BY <2>1, <2>3, <3>1, <3>2
  <2> QED BY <1>5, <2>2, <2>4 DEF Finalizing
<1> QED BY <1>2, <1>7, <1>8, <1>9, <1>10, InsideSession

\* Steps that change neither side's state: a server that leaves, and others.
LEMMA IdleCore ==
    ASSUME Core, UNCHANGED <<client, settings, c2s, s2c, server, ghosts>>
    PROVE  Core'
<1>1. UNCHANGED <<cState, cJoined, finalize, reactivation, frames, resizeOnInput,
                  useRdpSecurity, c2s, s2c, sState, sJoined, AwaitCapabilities,
                  activated, sGen, cGen, everActive, events>>
  BY DEF client, settings, server, ghosts
<1>2. Queues' /\ Told'
  BY <1>1 DEF Core, Queues, Told
<1>3. Handshake'
  BY <1>1 DEF Core, Handshake
<1>4. Joining'
  BY <1>1 DEF Core, Joining
<1>5. SessionInv'
  BY <1>1 DEF Core, SessionInv, SessionPdus, Pairing, Shares, FontMaps, OneActivation,
              Finalizing, InFlight, AllInput, Comes
<1> QED BY <1>2, <1>3, <1>4, <1>5 DEF Core

-----------------------------------------------------------------------------
(***************************************************************************)
(* The inductive invariant.                                                *)
(***************************************************************************)

LEMMA InitCore == Init => Core
<1> SUFFICES ASSUME Init PROVE Core
  OBVIOUS
<1>1. Queues
  BY PduFacts DEF Init, Queues
<1>2. cState = "INITIAL" /\ frames = <<>>
  BY DEF Init
<1>3. SessionInv
  BY <1>2 DEF SessionInv, SessionPdus, Pairing, Shares, FontMaps, OneActivation,
              Finalizing, Session
<1>4. Handshake
  BY DEF Init, Handshake, Session
<1>5. Joining /\ Told
  BY <1>2 DEF Joining, Told
<1> QED BY <1>1, <1>3, <1>4, <1>5 DEF Core

LEMMA RestartCore ==
    ASSUME Reconnect \/ Disconnect \/ TransportFailure PROVE Core'
BY FreshCore DEF Reconnect, Disconnect, TransportFailure

LEMMA StepCore ==
    ASSUME Core, TypeOK, [Next]_vars
    PROVE  Core'
<1>1. CASE Connect
  BY <1>1, FreshCore DEF Connect
<1>2. CASE NegoDone
  BY <1>2, NegoDoneCore
<1>3. CASE ClientRecv
  BY <1>3, ClientConnectResponseCore, ClientAttachUserConfirmCore, ClientJoinConfirmCore,
     ClientLicenseCore, ClientDemandActiveCore, ClientDataPduCore,
     ClientFinalizeDoneCore, ClientDeactivateAllCore
  DEF ClientRecv
<1>4. CASE ClientInput
  BY <1>4, ClientInputCore
<1>5. CASE EndOfStream
  BY <1>5, RestartCore DEF EndOfStream, LinkDown
<1>6. CASE ServerRecv
  <2>1. CASE ServerRefuses
    BY <2>1, IdleCore DEF ServerRefuses
  <2> QED
    BY <1>6, <2>1, ServerConnectInitialCore, ServerErectDomainCore, ServerAttachUserCore,
       ServerJoinCore, ServerEstablishKeysCore, ServerClientInfoCore,
       ServerConfirmActiveCore, ServerRequestControlCore, ServerDataPduCore,
       ServerFontListCore, ServerInputCore
    DEF ServerRecv
<1>7. CASE ServerResize
  BY <1>7, ServerResizeCore
<1>8. CASE Failures
  BY <1>8, RestartCore, IdleCore
  DEF Failures, NegoFailed, ActivationTimeout, LinkDown, Abort, ServerLeaves
<1>9. CASE UNCHANGED vars
  BY <1>9, IdleCore DEF vars
<1> QED
  BY <1>1, <1>2, <1>3, <1>4, <1>5, <1>6, <1>7, <1>8, <1>9 DEF Next

LEMMA InitType == Init => TypeOK
<1> SUFFICES ASSUME Init PROVE TypeOK
  OBVIOUS
<1>1. frames \in Seq({"FINALIZATION", "ACTIVE"})
  BY DEF Init
<1>2. /\ useRdpSecurity \in BOOLEAN /\ {sUp, resizeOnInput} \subseteq BOOLEAN
      /\ {AwaitCapabilities, connected, activated, everActive} \subseteq BOOLEAN
      /\ reactivation \in BOOLEAN
  BY DEF Init
<1>3. sGen \in Gens /\ cGen \in Gens /\ {events, cPosts, sPosts} \subseteq Nat
  BY DEF Init, Gens
<1>4. cJoined \subseteq ToJoin /\ sJoined \subseteq ToJoin /\ finalize \subseteq FinalizeComplete
  BY DEF Init
<1>5. cState \in ClientStates /\ sState \in ServerStates
  BY DEF Init, ClientStates, ServerStates
<1> QED BY <1>1, <1>2, <1>3, <1>4, <1>5 DEF Init, TypeOK

\* The queues, the channels joined and the number of events stay what they are
\* because of the rest of the invariant.
LEMMA JoinedType ==
    ASSUME Core, cState \in ClientStates
    PROVE  cJoined \subseteq ToJoin /\ sJoined \subseteq ToJoin
<1>1. CASE cState \in Session
  BY <1>1 DEF Core, SessionInv, SessionPdus
<1>2. CASE cState \in {"INITIAL", "NEGO", "MCS_CONNECT", "MCS_ATTACH_USER", "LICENSING"}
  BY <1>2 DEF Core, Handshake
<1>3. CASE cState = "MCS_CHANNEL_JOIN"
  <2>1. PICK n \in 0..(Len(JoinOrder) - 1) :
          cJoined = Joined(n) /\ (sJoined = Joined(n) \/ sJoined = Joined(n + 1))
    BY <1>3 DEF Core, Joining
  <2>2. Joined(n + 1) \subseteq ToJoin /\ Joined(n) \subseteq ToJoin
    BY JoinedFacts
  <2> QED BY <2>1, <2>2
<1> QED BY <1>1, <1>2, <1>3 DEF ClientStates, Session

\* A new connection, and none.
LEMMA FreshType ==
    ASSUME TypeOK, NEW st \in {"INITIAL", "NEGO"}, FreshConnection(st),
           api' \in {"off", "connect", "reconnect", "run"},
           callbackState' \in {"PRECONNECT_PASSED", "POSTCONNECT_PASSED"},
           UNCHANGED settings, cPosts' \in Nat
    PROVE  TypeOK'
<1>1. (frames \in Seq({"FINALIZATION", "ACTIVE"}))'
  BY DEF FreshConnection
<1>2. /\ useRdpSecurity' \in BOOLEAN /\ {sUp', resizeOnInput'} \subseteq BOOLEAN
      /\ {AwaitCapabilities', connected', activated', everActive'} \subseteq BOOLEAN
      /\ reactivation' \in BOOLEAN
  BY DEF FreshConnection, TypeOK, settings
<1>3. sGen' \in Gens /\ cGen' \in Gens /\ {events', cPosts', sPosts'} \subseteq Nat
  BY DEF FreshConnection, Gens
<1>4. cJoined' \subseteq ToJoin /\ sJoined' \subseteq ToJoin
      /\ finalize' \subseteq FinalizeComplete
  BY DEF FreshConnection
<1>5. cState' \in ClientStates /\ sState' \in ServerStates
  BY DEF FreshConnection, ClientStates, ServerStates
<1> QED BY <1>1, <1>2, <1>3, <1>4, <1>5 DEF TypeOK

LEMMA RestartType ==
    ASSUME TypeOK, Reconnect \/ Disconnect \/ TransportFailure
    PROVE  TypeOK'
<1>1. CASE Reconnect
  BY <1>1, FreshType DEF Reconnect, TypeOK
<1>2. CASE Disconnect
  BY <1>2, FreshType DEF Disconnect, TypeOK
<1> QED BY <1>1, <1>2 DEF TransportFailure

\* Steps that leave the settings and the histories alone.
LEMMA QuietType ==
    ASSUME TypeOK, Core', cState' \in ClientStates, sState' \in ServerStates,
           finalize' \subseteq FinalizeComplete, reactivation' \in BOOLEAN,
           frames' \in Seq({"FINALIZATION", "ACTIVE"}), useRdpSecurity' \in BOOLEAN,
           {AwaitCapabilities', connected', activated'} \subseteq BOOLEAN,
           sGen' \in Gens, cGen' \in Gens, events' \in Nat, sPosts' \in Nat, cPosts' \in Nat,
           sUp' \in BOOLEAN, everActive' \in BOOLEAN, resizeOnInput' = resizeOnInput,
           api' \in {"off", "connect", "reconnect", "run"},
           callbackState' \in {"PRECONNECT_PASSED", "POSTCONNECT_PASSED"}
    PROVE  TypeOK'
<1>1. cJoined' \subseteq ToJoin /\ sJoined' \subseteq ToJoin
  <2>1. (cState \in ClientStates)'
    BY DEF ClientStates
  <2>2. (cJoined \subseteq ToJoin /\ sJoined \subseteq ToJoin)'
    BY <2>1, JoinedType, PTL
  <2> QED BY <2>2
<1> QED BY <1>1 DEF TypeOK

LEMMA StepType ==
    ASSUME Core, Core', TypeOK, PostConnectInv', [Next]_vars
    PROVE  TypeOK'
<1>a. /\ api' \in {"off", "connect", "reconnect", "run"}
      /\ callbackState' \in {"PRECONNECT_PASSED", "POSTCONNECT_PASSED"}
      /\ connected' \in BOOLEAN /\ activated' \in BOOLEAN
      /\ sPosts' \in Nat /\ cPosts' \in Nat
  BY DEF PostConnectInv
<1>t. /\ cState \in ClientStates /\ sState \in ServerStates
      /\ finalize \subseteq FinalizeComplete /\ reactivation \in BOOLEAN
      /\ frames \in Seq({"FINALIZATION", "ACTIVE"}) /\ useRdpSecurity \in BOOLEAN
      /\ AwaitCapabilities \in BOOLEAN /\ sGen \in Gens /\ cGen \in Gens
      /\ events \in Nat /\ sUp \in BOOLEAN /\ everActive \in BOOLEAN
  BY DEF TypeOK
<1> DEFINE SettingsOK ==
             useRdpSecurity' \in BOOLEAN /\ resizeOnInput' = resizeOnInput /\ sUp' \in BOOLEAN
           ServerOK ==
             sState' \in ServerStates /\ AwaitCapabilities' \in BOOLEAN /\ sGen' \in Gens
           ClientOK ==
             /\ cState' \in ClientStates /\ finalize' \subseteq FinalizeComplete
             /\ reactivation' \in BOOLEAN /\ frames' \in Seq({"FINALIZATION", "ACTIVE"})
           GhostsOK == cGen' \in Gens /\ events' \in Nat /\ everActive' \in BOOLEAN
<1>b. ASSUME SettingsOK, ServerOK, ClientOK, GhostsOK PROVE TypeOK'
  BY <1>a, <1>b, QuietType
<1>c. UNCHANGED server => ServerOK
  BY <1>t DEF server
<1>d. UNCHANGED client => ClientOK
  BY <1>t DEF client
<1>e. UNCHANGED ghosts => GhostsOK
  BY <1>t DEF ghosts
<1>f. UNCHANGED <<settings, sUp>> => SettingsOK
  BY <1>t DEF settings
<1>1. CASE Connect
  BY <1>1, FreshType DEF Connect
<1>2. CASE NegoDone
  <2>1. SettingsOK /\ ClientOK
    BY <1>2, <1>t DEF NegoDone, ClientStates
  <2>2. ServerOK /\ GhostsOK
    BY <1>2, <1>c, <1>e DEF NegoDone
  <2> QED BY <1>b, <2>1, <2>2
<1>3. CASE ClientRecv
  <2>1. UNCHANGED <<settings, sUp, server>>
    BY <1>3 DEF ClientRecv, ClientConnectResponse, ClientAttachUserConfirm,
                ClientJoinConfirm, ClientLicense, ClientDemandActive, ClientDataPdu,
                ClientFinalizeDone, ClientDeactivateAll
  <2>2. SettingsOK /\ ServerOK
    BY <1>c, <1>f, <2>1
  <2> HIDE DEF SettingsOK, ServerOK
  <2>3. CASE ClientConnectResponse \/ ClientAttachUserConfirm \/ ClientJoinConfirm
             \/ ClientLicense
    <3>1. ClientOK
      BY <1>t, <2>3 DEF ClientConnectResponse, ClientAttachUserConfirm, ClientJoinConfirm,
                        ClientLicense, ClientStates
    <3>2. UNCHANGED ghosts
      BY <2>3 DEF ClientConnectResponse, ClientAttachUserConfirm, ClientJoinConfirm,
                  ClientLicense
    <3>3. GhostsOK
      BY <1>e, <3>2
    <3> QED BY <1>b, <2>2, <3>1, <3>3
  <2>4. CASE ClientDemandActive
    <3>1. ClientOK
      BY <1>t, <2>4 DEF ClientDemandActive, ClientStates
    <3>2. cState = "CAPABILITIES_EXCHANGE" /\ s2c # <<>> /\ cGen' = Head(s2c).arg
          /\ Head(s2c).type = "DEMAND_ACTIVE"
      BY <2>4 DEF ClientDemandActive, ClientReads, ServerPdu
    <3>3. 1 \in DOMAIN s2c /\ Head(s2c) = s2c[1]
      BY <3>2, ReadFacts DEF Core, Queues
    <3>4. cGen' \in Gens
      BY <3>2, <3>3 DEF Core, SessionInv, Shares, Session
    <3>5. events' \in Nat /\ everActive' \in BOOLEAN
      BY <1>t, <2>4 DEF ClientDemandActive
    <3>6. GhostsOK
      BY <3>4, <3>5
    <3> QED BY <1>b, <2>2, <3>1, <3>6
  <2>5. CASE ClientDataPdu
    <3>1. ClientOK
      BY <1>t, <2>5 DEF ClientDataPdu, IsFinalizePdu
    <3>2. GhostsOK
      BY <1>e, <2>5 DEF ClientDataPdu
    <3> QED BY <1>b, <2>2, <3>1, <3>2
  <2>6. CASE ClientFinalizeDone
    <3>1. ClientOK
      BY <1>t, <2>6 DEF ClientFinalizeDone, ClientStates
    <3> DEFINE F == {i \in DOMAIN frames : frames[i] = "FINALIZATION"}
    <3>2. events' = 1 + Cardinality(F) /\ everActive' = TRUE /\ cGen' = cGen
      BY <2>6 DEF ClientFinalizeDone
    <3>3. Cardinality(F) \in Nat
      <4>1. Len(frames) \in Nat /\ DOMAIN frames = 1..Len(frames)
        BY <1>t
      <4>2. IsFiniteSet(1..Len(frames))
        BY <4>1, FS_Interval
      <4>3. F \subseteq 1..Len(frames)
        BY <4>1
      <4> HIDE DEF F
      <4>4. IsFiniteSet(F)
        BY <4>2, <4>3, FS_Subset
      <4> QED BY <4>4, FS_CardinalityType
    <3> HIDE DEF F
    <3>4. GhostsOK
      BY <1>t, <3>2, <3>3
    <3> QED BY <1>b, <2>2, <3>1, <3>4
  <2>7. CASE ClientDeactivateAll
    <3>1. frames' \in Seq({"FINALIZATION", "ACTIVE"})
      BY <1>t, <2>7 DEF ClientDeactivateAll
    <3>2. reactivation' \in BOOLEAN
      BY <2>7 DEF ClientDeactivateAll
    <3>3. ClientOK
      BY <1>t, <2>7, <3>1, <3>2 DEF ClientDeactivateAll, ClientStates
    <3>4. GhostsOK
      BY <1>e, <2>7 DEF ClientDeactivateAll
    <3> QED BY <1>b, <2>2, <3>3, <3>4
  <2> QED BY <1>3, <2>3, <2>4, <2>5, <2>6, <2>7 DEF ClientRecv
<1>4. CASE ClientInput
  BY <1>4, <1>b, <1>c, <1>d, <1>e, <1>f DEF ClientInput
<1>5. CASE EndOfStream
  BY <1>5, RestartType DEF EndOfStream, LinkDown
<1>6. CASE ServerRecv \/ ServerResize
  <2>1. UNCHANGED <<client, settings, ghosts>> /\ sUp' \in BOOLEAN
    BY <1>6, <1>t
    DEF ServerRecv, ServerResize, ServerConnectInitial, ServerErectDomain, ServerAttachUser,
        ServerJoin, ServerEstablishKeys, ServerClientInfo, ServerConfirmActive,
        ServerRequestControl, ServerDataPdu, ServerFontList, ServerInput, ServerRefuses
  <2>2. ClientOK /\ GhostsOK /\ SettingsOK
    BY <1>d, <1>e, <1>t, <2>1 DEF settings
  <2>3. ASSUME NEW q, ServerReactivate(q) PROVE ServerOK
    <3>1. sGen' \in Gens
      BY <1>t, <2>3 DEF ServerReactivate, Gens
    <3>2. sState' \in ServerStates /\ AwaitCapabilities' \in BOOLEAN
      BY <2>3 DEF ServerReactivate, ServerStates
    <3> QED BY <3>1, <3>2
  <2>4. CASE ServerFontList
    <3>1. (sState' = "ACTIVE" /\ UNCHANGED <<AwaitCapabilities, sGen>>)
          \/ ServerReactivate(<<Pdu("FONT_MAP", sGen)>>)
      BY <2>4 DEF ServerFontList
    <3>2. ServerOK
      BY <1>t, <2>3, <3>1 DEF ServerStates
    <3> QED BY <1>b, <2>2, <3>2
  <2>5. CASE ServerInput
    <3>1. UNCHANGED <<sState, AwaitCapabilities, sGen>> \/ ServerReactivate(<<>>)
      BY <2>5 DEF ServerInput
    <3>2. ServerOK
      BY <1>t, <2>3, <3>1
    <3> QED BY <1>b, <2>2, <3>2
  <2>6. CASE ServerResize
    <3>1. ServerOK
      BY <2>3, <2>6 DEF ServerResize
    <3> QED BY <1>b, <2>2, <3>1
  <2>7. CASE ServerConnectInitial \/ ServerErectDomain \/ ServerAttachUser \/ ServerJoin
             \/ ServerEstablishKeys \/ ServerClientInfo \/ ServerConfirmActive
             \/ ServerRequestControl \/ ServerDataPdu \/ ServerRefuses
    <3>1. sState' \in ServerStates /\ AwaitCapabilities' \in BOOLEAN /\ sGen' = sGen
      BY <1>t, <2>7
      DEF ServerConnectInitial, ServerErectDomain, ServerAttachUser, ServerJoin,
          ServerEstablishKeys, ServerClientInfo, ServerConfirmActive,
          ServerRequestControl, ServerDataPdu, ServerRefuses, ServerStates, server
    <3> QED BY <1>b, <1>t, <2>2, <3>1
  <2> QED BY <1>6, <2>4, <2>5, <2>6, <2>7 DEF ServerRecv
<1>7. CASE Failures
  <2>1. CASE ServerLeaves
    <3>1. SettingsOK
      BY <2>1, <1>t DEF ServerLeaves, settings
    <3> QED BY <2>1, <3>1, <1>b, <1>c, <1>d, <1>e DEF ServerLeaves
  <2> QED
    BY <1>7, <2>1, RestartType
    DEF Failures, NegoFailed, ActivationTimeout, LinkDown, Abort
<1>8. CASE UNCHANGED vars
  BY <1>8, <1>b, <1>c, <1>d, <1>e, <1>f DEF vars
<1> QED
  BY <1>1, <1>2, <1>3, <1>4, <1>5, <1>6, <1>7, <1>8 DEF Next

\* The inductive invariant of the connection.
ConnectionInv == TypeOK /\ PostConnectInv /\ Core

\* Whatever the channels and the application of the server: client and server
\* (rdp_recv_callback, peer_recv_callback) and what is on its way between them
\* fit in every phase, from the MCS Connect Initial over the joins and the
\* license to the activation, the reactivations and the reconnects.
THEOREM ConnectionInvariant == Spec => []ConnectionInv
<1>1. Init => ConnectionInv
  BY InitType, InitPostConnect, InitCore DEF ConnectionInv
<1>2. ConnectionInv /\ [Next]_vars => ConnectionInv'
  <2> SUFFICES ASSUME ConnectionInv, [Next]_vars PROVE ConnectionInv'
    OBVIOUS
  <2>1. PostConnectInv'
    BY StepPostConnect DEF ConnectionInv
  <2>2. Core'
    BY StepCore DEF ConnectionInv
  <2>3. TypeOK'
    BY <2>1, <2>2, StepType DEF ConnectionInv
  <2> QED BY <2>1, <2>2, <2>3 DEF ConnectionInv
<1> QED BY <1>1, <1>2, PTL DEF Spec

\* Inv: the state has its types, and the calls of PostConnect are booked on
\* both sides (freerdp_connect, freerdp_reconnect, rdp_server_transition_to_state).
THEOREM InvHolds == Spec => []Inv
<1>1. ConnectionInv => Inv
  BY DEF ConnectionInv, Inv
<1> QED BY <1>1, ConnectionInvariant, PTL

LEMMA JoinPdus ==
    \A c \in Names :
      /\ Pdu("JOIN", c) \in Pdus /\ Pdu("JOIN", c).type = "JOIN"
      /\ Pdu("JOIN_CONFIRM", c) \in Pdus
      /\ Pdu("JOIN_CONFIRM", c).type = "JOIN_CONFIRM"
      /\ Pdu("JOIN_CONFIRM", c).arg = c
<1>1. "JOIN" \in PduTypes /\ "JOIN_CONFIRM" \in PduTypes
  BY DEF PduTypes
<1> SUFFICES ASSUME NEW c \in Nat \cup Names
             PROVE  /\ Pdu("JOIN", c) \in Pdus /\ Pdu("JOIN", c).type = "JOIN"
                    /\ Pdu("JOIN_CONFIRM", c) \in Pdus
                    /\ Pdu("JOIN_CONFIRM", c).type = "JOIN_CONFIRM"
                    /\ Pdu("JOIN_CONFIRM", c).arg = c
  OBVIOUS
<1> HIDE DEF PduTypes
<1> QED BY <1>1, PduFacts, Zenon

\* What the client finds in each of its states is what it expects there.
LEMMA ClientFinds ==
    ASSUME ConnectionInv PROVE ClientNeverRefuses
<1> SUFFICES ASSUME cState \notin {"INITIAL", "NEGO"}, s2c # <<>> PROVE ClientAccepts
  BY DEF ClientNeverRefuses
<1> USE DEF ConnectionInv, Core
<1>1. Head(s2c) = s2c[1] /\ 1 \in DOMAIN s2c
  BY ReadFacts DEF Queues
<1>2. CASE cState = "MCS_CONNECT"
  <2>1. s2c = <<Pdu("CONNECT_RESPONSE", 0)>>
    BY <1>2 DEF Handshake
  <2>2. Head(s2c).type = "CONNECT_RESPONSE"
    BY <2>1, HandshakePdus DEF PduTypes
  <2> QED BY <1>2, <2>2 DEF ClientAccepts, ServerPdu
<1>3. CASE cState = "MCS_ATTACH_USER"
  <2>1. s2c = <<Pdu("ATTACH_USER_CONFIRM", 0)>>
    BY <1>3 DEF Handshake
  <2>2. Head(s2c).type = "ATTACH_USER_CONFIRM"
    BY <2>1, HandshakePdus DEF PduTypes
  <2> QED BY <1>3, <2>2 DEF ClientAccepts, ServerPdu
<1>4. CASE cState = "MCS_CHANNEL_JOIN"
  <2>1. PICK n \in 0..(Len(JoinOrder) - 1) :
          Cardinality(cJoined) = n /\ s2c = <<Pdu("JOIN_CONFIRM", JoinOrder[n + 1])>>
    BY <1>4 DEF Joining
  <2>2. ExpectedJoin = JoinOrder[n + 1]
    BY <1>4, <2>1, Expected
  <2>3. JoinOrder[n + 1] \in Names
    BY JoinedFacts
  <2> HIDE DEF JoinOrder, ExpectedJoin
  <2>4. /\ Pdu("JOIN_CONFIRM", JoinOrder[n + 1]) \in Pdus
        /\ Pdu("JOIN_CONFIRM", JoinOrder[n + 1]).type = "JOIN_CONFIRM"
        /\ Pdu("JOIN_CONFIRM", JoinOrder[n + 1]).arg = JoinOrder[n + 1]
    BY <2>3, JoinPdus, Zenon
  <2>5. Head(s2c).type = "JOIN_CONFIRM" /\ Head(s2c).arg = ExpectedJoin
    BY <2>1, <2>2, <2>4, PduFacts
  <2> QED BY <1>4, <2>5 DEF ClientAccepts, ServerPdu
<1>5. CASE cState = "LICENSING"
  <2>1. s2c = <<Pdu("LICENSE_VALID_CLIENT", 0), Pdu("DEMAND_ACTIVE", sGen)>>
    BY <1>5 DEF Handshake
  <2>2. sGen \in Nat
    BY DEF TypeOK, Gens
  <2>3. /\ Pdu("LICENSE_VALID_CLIENT", 0) \in Pdus /\ Pdu("DEMAND_ACTIVE", sGen) \in Pdus
        /\ Pdu("LICENSE_VALID_CLIENT", 0).type = "LICENSE_VALID_CLIENT"
    BY <2>2, PduFacts DEF PduTypes
  <2>4. Head(s2c).type = "LICENSE_VALID_CLIENT"
    BY <2>1, <2>3, PduFacts
  <2> QED BY <1>5, <2>4 DEF ClientAccepts, ServerPdu
<1>6. CASE cState = "CAPABILITIES_EXCHANGE"
  <2>1. s2c[1].type = "DEMAND_ACTIVE"
    BY <1>6 DEF SessionInv, Pairing, Session
  <2> QED BY <1>1, <1>6, <2>1 DEF ClientAccepts, ServerPdu
<1>7. CASE cState \in {"FINALIZATION", "ACTIVE"}
  BY <1>7 DEF ClientAccepts
<1> QED BY <1>2, <1>3, <1>4, <1>5, <1>6, <1>7 DEF TypeOK, ClientStates

\* The same of the shadow server.
LEMMA ServerFinds ==
    ASSUME ConnectionInv, ~resizeOnInput, c2s # <<>> PROVE ServerAccepts
<1> USE DEF ConnectionInv, Core
<1>1. Head(c2s) = c2s[1] /\ 1 \in DOMAIN c2s
  BY ReadFacts DEF Queues
<1>2. CASE sState \notin Session
  <2>1. cState \in {"MCS_CONNECT", "MCS_ATTACH_USER", "MCS_CHANNEL_JOIN", "LICENSING"}
    BY <1>2, ServerInHandshake DEF TypeOK
  <2>2. CASE cState = "MCS_CONNECT"
    <3>1. sState = "NEGO" /\ c2s = <<Pdu("CONNECT_INITIAL", 0)>>
      BY <2>2 DEF Handshake
    <3>2. Head(c2s).type = "CONNECT_INITIAL"
      BY <3>1, HandshakePdus DEF PduTypes
    <3> QED BY <3>1, <3>2 DEF ServerAccepts, ClientPdu
  <2>3. CASE cState = "MCS_ATTACH_USER"
    <3>1. \/ /\ sState = "MCS_CONNECT"
             /\ c2s = <<Pdu("ERECT_DOMAIN", 0), Pdu("ATTACH_USER", 0)>>
          \/ sState = "MCS_ERECT_DOMAIN" /\ c2s = <<Pdu("ATTACH_USER", 0)>>
      BY <2>3 DEF Handshake
    <3>2. \/ sState = "MCS_CONNECT" /\ Head(c2s).type = "ERECT_DOMAIN"
          \/ sState = "MCS_ERECT_DOMAIN" /\ Head(c2s).type = "ATTACH_USER"
      BY <3>1, HandshakePdus DEF PduTypes
    <3> QED BY <3>2 DEF ServerAccepts, ClientPdu
  <2>4. CASE cState = "MCS_CHANNEL_JOIN"
    <3>1. PICK n \in 0..(Len(JoinOrder) - 1) :
            c2s = <<Pdu("JOIN", JoinOrder[n + 1])>> /\ sState = "MCS_ATTACH_USER"
      BY <2>4 DEF Joining
    <3>2. JoinOrder[n + 1] \in Names
      BY JoinedFacts
    <3> HIDE DEF JoinOrder
    <3>3. /\ Pdu("JOIN", JoinOrder[n + 1]) \in Pdus
          /\ Pdu("JOIN", JoinOrder[n + 1]).type = "JOIN"
      BY <3>2, JoinPdus, Zenon
    <3>4. Head(c2s).type = "JOIN"
      BY <3>1, <3>3, PduFacts
    <3> QED BY <3>1, <3>4 DEF ServerAccepts, ClientPdu
  <2>5. CASE cState = "LICENSING"
    <3>1. \/ /\ sState = "RDP_SECURITY_COMMENCEMENT" /\ useRdpSecurity
             /\ c2s = <<Pdu("SECURITY_EXCHANGE", 0), Pdu("CLIENT_INFO", 0)>>
          \/ /\ sState = "RDP_SECURITY_COMMENCEMENT" /\ ~useRdpSecurity
             /\ c2s = <<Pdu("CLIENT_INFO", 0)>>
          \/ sState = "SECURE_SETTINGS_EXCHANGE" /\ c2s = <<Pdu("CLIENT_INFO", 0)>>
      BY <2>5 DEF Handshake
    <3>2. \/ /\ sState = "RDP_SECURITY_COMMENCEMENT" /\ useRdpSecurity
             /\ Head(c2s).type = "SECURITY_EXCHANGE"
          \/ /\ sState = "RDP_SECURITY_COMMENCEMENT" /\ ~useRdpSecurity
             /\ Head(c2s).type = "CLIENT_INFO"
          \/ sState = "SECURE_SETTINGS_EXCHANGE" /\ Head(c2s).type = "CLIENT_INFO"
      BY <3>1, HandshakePdus DEF PduTypes
    <3> QED BY <3>2 DEF ServerAccepts, ClientPdu
  <2> QED BY <2>1, <2>2, <2>3, <2>4, <2>5
<1>3. CASE sState \in Session
  <2>1. cState \in Session
    BY <1>3, ServerInSession
  <2>2. CASE sState = "CAPABILITIES_EXCHANGE"
    BY <2>2 DEF ServerAccepts
  <2>3. CASE sState \in {"FINALIZATION", "ACTIVE"}
    <3>1. c2s[1].type # "CONFIRM_ACTIVE"
      BY <1>1, <2>1, <2>3 DEF SessionInv, OneActivation, InFlight
    <3> QED BY <1>1, <2>3, <3>1 DEF ServerAccepts, ClientPdu
  <2> QED BY <1>3, <2>2, <2>3 DEF Session
<1> QED BY <1>2, <1>3

\* NoRefusal: no interleaving of typing, resizing and activation brings
\* rdp_recv_callback, or the shadow server's peer_recv_callback, a PDU that it
\* refuses in the state it is in.
THEOREM NoRefusalHolds == Spec => []NoRefusal
<1>1. ConnectionInv => NoRefusal
  BY ClientFinds, ServerFinds DEF NoRefusal
<1> QED BY <1>1, ConnectionInvariant, PTL

\* ActiveAgrees: a client that is active is so in the share of the server's
\* latest Demand Active, unless a Deactivate All is on its way, and an activated
\* shadow server has the client's answer to its latest Demand Active.
THEOREM ActiveAgreesHolds == Spec => []ActiveAgrees
<1>1. ASSUME ConnectionInv PROVE ActiveAgrees
  <2> USE DEF ConnectionInv, Core, SessionInv
  <2>q. \A i \in DOMAIN s2c : i \in Nat /\ 1 <= i
    BY <1>1 DEF Queues
  <2>1. ASSUME cState = "ACTIVE" PROVE ClientActiveAgrees
    <3>1. cState \in Session
      BY <2>1 DEF Session
    <3>2. CASE InFlight(s2c, "DEMAND_ACTIVE")
      <4>1. PICK i \in DOMAIN s2c : s2c[i].type = "DEMAND_ACTIVE"
        BY <3>2 DEF InFlight
      <4>2. i # 1
        <5>1. ~(s2c # <<>> /\ s2c[1].type = "DEMAND_ACTIVE")
          BY <1>1, <2>1, <3>1 DEF Pairing
        <5>2. s2c # <<>>
          BY <1>1, <4>1 DEF Queues
        <5> QED BY <4>1, <5>1, <5>2
      <4>3. s2c[i - 1].type = "DEACTIVATE_ALL" /\ i - 1 \in DOMAIN s2c
        <5>1. i - 1 \in DOMAIN s2c
          BY <1>1, <4>1, <4>2 DEF Queues
        <5>2. s2c[i - 1].type = "DEACTIVATE_ALL"
          BY <1>1, <3>1, <4>1, <4>2 DEF Pairing
        <5> QED BY <5>1, <5>2
      <4>4. InFlight(s2c, "DEACTIVATE_ALL")
        BY <4>3 DEF InFlight
      <4> QED BY <4>4 DEF ClientActiveAgrees
    <3>3. CASE ~InFlight(s2c, "DEMAND_ACTIVE")
      <4>1. cGen = sGen
        BY <1>1, <3>1, <3>3 DEF Shares
      <4>2. sState = "ACTIVE"
        BY <1>1, <2>1, <3>1, <3>3 DEF FontMaps
      <4>3. activated
        BY <1>1, <3>1, <4>2 DEF SessionPdus
      <4> QED BY <4>1, <4>2, <4>3 DEF ClientActiveAgrees
    <3> QED BY <3>2, <3>3
  <2>2. ASSUME ~resizeOnInput, activated
        PROVE  /\ cGen = sGen /\ cState \in {"FINALIZATION", "ACTIVE"}
               /\ cState = "FINALIZATION" => InFlight(s2c, "FONT_MAP")
    <3>1. cState \in Session
      BY <1>1, <2>2 DEF Handshake
    <3>2. sState = "ACTIVE"
      BY <1>1, <2>2, <3>1 DEF SessionPdus
    <3>3. ~InFlight(s2c, "DEMAND_ACTIVE")
      BY <1>1, <2>2, <3>1, <3>2 DEF OneActivation
    <3>4. cGen = sGen
      BY <1>1, <3>1, <3>3 DEF Shares
    <3>5. cState # "CAPABILITIES_EXCHANGE"
      <4>1. ASSUME s2c # <<>>, s2c[1].type = "DEMAND_ACTIVE" PROVE FALSE
        <5>1. 1 \in DOMAIN s2c
          BY <1>1, <4>1 DEF Queues
        <5> QED BY <3>3, <4>1, <5>1 DEF InFlight
      <4> QED BY <1>1, <3>1, <4>1 DEF Pairing
    <3>6. cState = "FINALIZATION" => InFlight(s2c, "FONT_MAP")
      BY <1>1, <2>2, <3>2 DEF Finalizing
    <3> QED BY <3>1, <3>4, <3>5, <3>6 DEF Session
  <2> QED BY <2>1, <2>2 DEF ActiveAgrees, ClientActiveAgrees, ServerActiveAgrees
<1> QED BY <1>1, ConnectionInvariant, PTL

\* ActivationsTold: with a server that resizes only an activated client the
\* application hears of each activation once (PubSub_OnActivated), and
\* deactivation_reactivation tells the first one from the others.
THEOREM ActivationsToldHolds == Spec => []ActivationsTold
<1>1. ASSUME ConnectionInv PROVE ActivationsTold
  <2>1. ActivatedOnce
    BY <1>1 DEF ConnectionInv, Core, Told, ActivatedOnce
  <2>2. FirstActivationTold
    BY <1>1 DEF ConnectionInv, Core, Told, FirstActivationTold
  <2> QED BY <2>1, <2>2 DEF ActivationsTold
<1> QED BY <1>1, ConnectionInvariant, PTL
=============================================================================

--------------------------- MODULE MC_SecurityNego ---------------------------
(* Instances of SecurityNego for TLC. *)
EXTENDS SecurityNego

Host(kind, protocols, level, local) ==
    [kind |-> kind, protocols |-> protocols, level |-> level,
     LocalConnection |-> local]

Client(protocols, methods, negotiate, preconnection) ==
    [protocols |-> protocols, methods |-> methods,
     NegotiateSecurityLayer |-> negotiate, SendPreconnectionPdu |-> preconnection]

\* This repository's servers: every set of protocols; the levels that select
\* differently; a local peer.
FreeRdpHosts ==
    {Host("freerdp", p, "NONE", FALSE) : p \in SUBSET {"NLA", "TLS", "RDP"}}
    \cup {Host("freerdp", {"RDP", "TLS"}, l, FALSE) : l \in {"LOW", "HIGH", "FIPS"}}
    \cup {Host("freerdp", {"RDP"}, "HIGH", TRUE)}

OtherHosts ==
    {Host("other", p, "CLIENT_COMPATIBLE", FALSE) :
        p \in {{"EXT", "NLA", "TLS"}, {"TLS", "RDP"}, {"RDP"}}}

AllHosts == FreeRdpHosts \cup OtherHosts

\* Every set of protocols, with and without methods of the implementation's own,
\* negotiated; and not negotiated, with and without a preconnection PDU.
AllClients ==
    {Client(p, m, TRUE, FALSE) :
        p \in SUBSET Protocols, m \in {{}, {"40BIT", "56BIT"}}}
    \cup {Client({p}, {}, n, TRUE) : p \in Protocols, n \in BOOLEAN}
    \cup {Client({"TLS", "RDP"}, {}, FALSE, FALSE)}

\* The smallest hosts and clients that show each disagreement.
TlsOrRdpElsewhere == {Host("other", {"TLS", "RDP"}, "CLIENT_COMPATIBLE", FALSE)}
TlsThenRdp ==
    {Host("freerdp", p, "CLIENT_COMPATIBLE", FALSE) : p \in {{"TLS"}, {"RDP"}}}
NlaAndRdpClient == {Client({"NLA", "RDP"}, {}, TRUE, FALSE)}
OneMethodClient == {Client({"TLS", "RDP"}, {"128BIT"}, TRUE, FALSE)}
=============================================================================

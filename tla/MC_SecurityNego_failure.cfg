SPECIFICATION Spec
CONSTANTS
    Hosts <- TlsThenRdp
    Clients <- OneMethodClient
INVARIANTS
    FailureEndsNegotiation

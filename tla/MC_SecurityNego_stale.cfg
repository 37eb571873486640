SPECIFICATION Spec
CONSTANTS
    Hosts <- TlsOrRdpElsewhere
    Clients <- NlaAndRdpClient
INVARIANTS
    DisabledNeverSelected

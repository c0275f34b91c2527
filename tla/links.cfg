CONSTANTS
    a = a
    b = b
    Node <- Two
    Conn = {1, 2}
    None = None
    Scenarios <- Everything
SPECIFICATION FairSpec
CHECK_DEADLOCK FALSE
INVARIANTS TypeOK RegistryOwner PresenceMatchesPump NoAbandonedSocket
PROPERTIES PresenceSpec HalfOpenResolves

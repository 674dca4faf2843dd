SPECIFICATION Spec
CONSTANTS
    AddressSpace = 8
    SocketNum <- MCSocketNum
    RouterId = {0, 1}
    Ranges <- MCRanges
    BusRanges <- MCBusRanges
    MaxRouters = 2
    NULL = NULL
    OWN = OWN
INVARIANT
    NonMemoryToBus
CHECK_DEADLOCK FALSE

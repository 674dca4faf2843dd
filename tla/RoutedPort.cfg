SPECIFICATION FairSpec
CONSTANTS
    k1 = k1
    k2 = k2
    k3 = k3
    k4 = k4
    Packet = {k1, k2, k3, k4}
    Payload = {p1, p2}
    SocketNum = 2
    SocketOf <- MCSocketOf
    NeedsResponse <- MCNeedsResponse
    NULL = NULL
INVARIANTS
    TypeOK
    ResponsesInTurn
    OneRequestWaits
    ExecutesLiveTransaction
PROPERTIES
    ImplementsSlavePort
    EveryPacketFinished

SPECIFICATION FairSpec
CONSTANTS
    k1 = k1
    k2 = k2
    k3 = k3
    Packet = {k1, k2, k3}
    Payload = {p1, p2}
    SocketNum = 2
    SocketOf <- MCSocketOf
    NeedsResponse <- MCNeedsResponse
    Reply <- MCReply
    RetryTakesAll = TRUE
    NULL = NULL
INVARIANTS
    TypeOK
    NoLostRetry
    NoStaleRetry
    RequestExclusion
    PayloadAccounting
    NoDanglingPayload
    OneCarrierPerPacket
    NoAssertionFails
    IndInv
PROPERTIES
    RetryArrives
    EveryPacketFinished

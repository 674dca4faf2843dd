SPECIFICATION Spec
CONSTANTS
    k1 = k1
    k2 = k2
    k3 = k3
    Packet = {k1, k2, k3}
    Payload = {p1, p2, p3}
    SocketNum = 2
    SocketOf <- MCSocketOf
    NeedsResponse <- MCNeedsResponse
    Reply <- MCReplyCompleted
    RetryTakesAll = TRUE
    NULL = NULL
SYMMETRY PayloadSymmetry
INVARIANT
    OneCarrierPerPacket

SPECIFICATION FairSpec
\* Each payload that ends with END_RESP, and each posted request, is lost for
\* good: after three of them the initiator has none left and the model stops.
CHECK_DEADLOCK FALSE
CONSTANTS
    Trans = {t1, t2, t3}
    Kinds = {"generated", "piped", "posted"}
    Answers = {"COMPLETED", "UPDATED", "ACCEPTED"}
    RetrySendsOne = TRUE
    NULL = NULL
INVARIANTS
    TypeOK
    ResponseExclusion
    NoLostRespRetry
    NoStaleRespRetry
    ReferenceBalance
    PacketLifetime
    NoAssertionFails
PROPERTIES
    EveryRequestAnswered
    RespRetryArrives

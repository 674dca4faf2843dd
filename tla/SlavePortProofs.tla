-------------------------- MODULE SlavePortProofs --------------------------
(***************************************************************************)
(* Proofs of the safety properties of SlavePort for any number of sockets, *)
(* packets and payloads. IndInv is inductive under GoodNeighbours; there   *)
(* is one lemma per action, with one step per conjunct of IndInv.          *)
(***************************************************************************)
EXTENDS SlavePort, TLAPS

\* Every socket id is a key of the maps of BlockingPacketHelper, and NULL is
\* neither a payload, a packet nor a socket.
LEMMA Constants ==
    /\ Socket \subseteq Key
    /\ NULL \notin Payload /\ NULL \notin Packet /\ NULL \notin Socket
    /\ \A k \in Packet : SocketOf[k] \in Socket
    /\ NeedsResponse \subseteq Packet
  BY SocketNumAssumption, SocketOfAssumption, PacketAssumption, NullAssumption DEF Socket, Key

\* The initial state, in which nothing is in flight, satisfies the invariant.
LEMMA InitInv == Init => IndInv
  <1> SUFFICES ASSUME Init PROVE IndInv
    OBVIOUS
  <1> USE DEF Init
  <1>1. TypeOK
    <2>1. /\ blockingRequestMap \in [Key -> Payload \cup {NULL}]
          /\ blockingResponseMap \in [Key -> Payload \cup {NULL}]
          /\ needToSendRequestRetryMap \in [Key -> BOOLEAN]
      OBVIOUS
    <2>2. /\ refCount \in [Payload -> 0 .. 2]
          /\ extPacket \in [Payload -> Packet \cup {NULL}]
          /\ extCoreID \in [Payload -> Socket \cup {NULL}]
          /\ pe \in [Payload -> SUBSET Phase]
      OBVIOUS
    <2>3. tgt \in [Payload -> {"idle", "req", "ended", "resp"}]
      OBVIOUS
    <2> QED
      BY <2>1, <2>2, <2>3 DEF TypeOK
  <1>2. NoAssertionFails /\ IdleInv /\ ExtensionInv
    BY Constants DEF NoAssertionFails, IdleInv, ExtensionInv, InFlight
  <1>3. BlockingInv /\ PhaseInv /\ ResponseInv
    BY Constants DEF BlockingInv, PhaseInv, ResponseInv
  <1>4. RetryInv
    BY Constants DEF RetryInv
  <1>5. PayloadAccounting /\ OneCarrierPerPacket
    BY DEF PayloadAccounting, OneCarrierPerPacket, InFlight, Bit
  <1> QED
    BY <1>1, <1>2, <1>3, <1>4, <1>5 DEF IndInv

\* A request that the target takes with TLM_ACCEPTED: a payload without
\* references starts a transaction that blocks its socket.
LEMMA AcceptedInv ==
    ASSUME IndInv, GoodNeighbours, NEW k \in Packet, RecvTimingReqAccepted(k)
    PROVE  IndInv'
  <1> USE Constants DEF IndInv, RecvTimingReqAccepted, recvTimingReq_accepted, forward,
        prepare, Allocatable, CanSend, helperVars, mmVars, payVars, frameVars, peerVars,
        tgtVars
  <1>1. TypeOK'
    BY DEF TypeOK
  <1>2. IdleInv'
    BY DEF IdleInv, TypeOK
  <1>3. ExtensionInv'
    BY DEF ExtensionInv, TypeOK, InFlight
  <1>4. BlockingInv'
    BY DEF BlockingInv, TypeOK, IdleInv, PayloadAccounting, InFlight, Bit, isBlockedPort
  <1>5. PhaseInv'
    BY DEF PhaseInv, PayloadAccounting, InFlight, Bit
  <1>6. ResponseInv'
    BY DEF ResponseInv, TypeOK, PayloadAccounting, InFlight, Bit
  <1>7. PayloadAccounting'
    BY DEF PayloadAccounting, TypeOK, InFlight, Bit
  <1>8. OneCarrierPerPacket'
    BY DEF OneCarrierPerPacket, TypeOK, PayloadAccounting, InFlight, Bit
  <1>9. NoAssertionFails' /\ RetryInv'
    BY DEF NoAssertionFails, RetryInv, isBlockedPort
  <1> QED
    BY <1>1, <1>2, <1>3, <1>4, <1>5, <1>6, <1>7, <1>8, <1>9

\* A request answered with TLM_UPDATED and BEGIN_RESP: the response is queued
\* and the socket stays free.
LEMMA UpdatedInv ==
    ASSUME IndInv, GoodNeighbours, NEW k \in Packet, RecvTimingReqUpdated(k)
    PROVE  IndInv'
  <1> USE Constants DEF IndInv, RecvTimingReqUpdated, recvTimingReq_updated, forward,
        prepare, ResponseFree, Allocatable, CanSend, helperVars, mmVars, payVars, frameVars,
        peerVars, tgtVars
  <1>1. TypeOK'
    BY DEF TypeOK, Phase
  <1>2. IdleInv'
    BY DEF IdleInv, TypeOK
  <1>3. ExtensionInv'
    BY DEF ExtensionInv, TypeOK, InFlight
  <1>4. BlockingInv'
    BY DEF BlockingInv, TypeOK, IdleInv, PayloadAccounting, InFlight, Bit, GoodNeighbours
  <1>5. PhaseInv'
    BY DEF PhaseInv, TypeOK
  <1>6. ResponseInv'
    BY DEF ResponseInv, TypeOK, PayloadAccounting, InFlight, Bit
  <1>7. PayloadAccounting'
    BY DEF PayloadAccounting, TypeOK, InFlight, Bit
  <1>8. OneCarrierPerPacket'
    <2>1. PICK p \in Payload :
             /\ tgt[p] = "idle"
             /\ tgt' = [tgt EXCEPT ![p] = "resp"]
             /\ extPacket' = [extPacket EXCEPT ![p] = k]
      BY DEF TypeOK, PayloadAccounting, InFlight, Bit, GoodNeighbours
    <2>2. InFlight' = InFlight \cup {p} /\ p \notin InFlight
      BY <2>1 DEF TypeOK, InFlight
    <2>3. sent' = sent \cup {k} /\ k \notin sent
      OBVIOUS
    <2>4. \A q \in InFlight' : extPacket'[q] = IF q = p THEN k ELSE extPacket[q]
      BY <2>1, <2>2 DEF TypeOK, InFlight
    <2> QED
      BY <2>2, <2>3, <2>4 DEF OneCarrierPerPacket
  <1>9. NoAssertionFails' /\ RetryInv'
    BY DEF NoAssertionFails, RetryInv, isBlockedPort
  <1> QED
    BY <1>1, <1>2, <1>3, <1>4, <1>5, <1>6, <1>7, <1>8, <1>9

\* A request without a response that the target completes at once.
LEMMA CompletedInv ==
    ASSUME IndInv, GoodNeighbours, NEW k \in Packet, RecvTimingReqCompleted(k)
    PROVE  IndInv'
  <1> USE Constants DEF IndInv, RecvTimingReqCompleted, recvTimingReq_completed, forward,
        prepareAndRelease, Allocatable, CanSend, helperVars, mmVars, payVars, frameVars,
        peerVars, tgtVars
  <1>1. TypeOK'
    BY DEF TypeOK
  <1>2. ResponseInv'
    BY DEF ResponseInv, TypeOK
  <1>3. OneCarrierPerPacket'
    BY DEF OneCarrierPerPacket, InFlight, GoodNeighbours
  <1>4. /\ NoAssertionFails' /\ IdleInv' /\ ExtensionInv' /\ BlockingInv'
        /\ PhaseInv' /\ RetryInv' /\ PayloadAccounting'
    BY DEF NoAssertionFails, IdleInv, ExtensionInv, InFlight, BlockingInv, PhaseInv, RetryInv, isBlockedPort, PayloadAccounting
  <1> QED
    BY <1>1, <1>2, <1>3, <1>4

\* A refused request marks its socket, which is blocked, and makes gem5 wait;
\* no other socket was marked since gem5 was not waiting.
LEMMA RefusedInv ==
    ASSUME IndInv, GoodNeighbours, NEW k \in Packet, RecvTimingReqRefused(k)
    PROVE  IndInv'
  <1> USE Constants DEF IndInv, RecvTimingReqRefused, recvTimingReq_refused, updateRetryMap,
        CanSend, isBlockedPort, helperVars, mmVars, payVars, frameVars, peerVars, tgtVars
  <1>1. TypeOK'
    BY DEF TypeOK
  <1>2. RetryInv'
    BY DEF RetryInv, TypeOK
  <1>3. /\ NoAssertionFails' /\ IdleInv' /\ ExtensionInv' /\ BlockingInv'
        /\ PhaseInv' /\ ResponseInv' /\ PayloadAccounting' /\ OneCarrierPerPacket'
    BY DEF NoAssertionFails, IdleInv, ExtensionInv, InFlight, BlockingInv, PhaseInv, ResponseInv, PayloadAccounting, OneCarrierPerPacket
  <1> QED
    BY <1>1, <1>2, <1>3

\* recvFunctional leaves a payload without references in the free list.
LEMMA FunctionalInv ==
    ASSUME IndInv, GoodNeighbours, RecvFunctional
    PROVE  IndInv'
  <1> USE Constants DEF IndInv, RecvFunctional, recvFunctional, prepareAndRelease,
        Allocatable, helperVars, mmVars, payVars, frameVars, peerVars, tgtVars
  <1>1. TypeOK'
    BY DEF TypeOK
  <1>2. /\ NoAssertionFails' /\ IdleInv' /\ ExtensionInv' /\ BlockingInv'
        /\ PhaseInv' /\ ResponseInv' /\ RetryInv' /\ PayloadAccounting'
        /\ OneCarrierPerPacket'
    BY DEF NoAssertionFails, IdleInv, ExtensionInv, InFlight, BlockingInv, PhaseInv, ResponseInv, RetryInv, isBlockedPort, PayloadAccounting, OneCarrierPerPacket
  <1> QED
    BY <1>1, <1>2

\* recvAtomic leaves a payload without references in the free list.
LEMMA AtomicInv ==
    ASSUME IndInv, GoodNeighbours, RecvAtomic
    PROVE  IndInv'
  <1> USE Constants DEF IndInv, RecvAtomic, recvAtomic, prepareAndRelease, Allocatable,
        helperVars, mmVars, payVars, frameVars, peerVars, tgtVars
  <1>1. TypeOK'
    BY DEF TypeOK
  <1>2. /\ NoAssertionFails' /\ IdleInv' /\ ExtensionInv' /\ BlockingInv'
        /\ PhaseInv' /\ ResponseInv' /\ RetryInv' /\ PayloadAccounting'
        /\ OneCarrierPerPacket'
    BY DEF NoAssertionFails, IdleInv, ExtensionInv, InFlight, BlockingInv, PhaseInv, ResponseInv, RetryInv, isBlockedPort, PayloadAccounting, OneCarrierPerPacket
  <1> QED
    BY <1>1, <1>2

\* pec() for END_REQ: the transaction blocks its socket, so the assertion
\* holds; if the socket was marked, no mark is left and gem5 goes on.
LEMMA EndReqInv ==
    ASSUME IndInv, GoodNeighbours, NEW p \in Payload, PecEndReq(p)
    PROVE  IndInv'
  <1> USE Constants DEF IndInv, PecEndReq, pec_END_REQ, unblock, retryOwed, updateRetryMap,
        isBlockingTrans, Ready, Running, helperVars, mmVars, payVars, frameVars, peerVars,
        tgtVars
  <1>1. TypeOK'
    <2>1. blockingRequestMap' \in [Key -> Payload \cup {NULL}]
      BY DEF TypeOK
    <2>2. needToSendRequestRetryMap' \in [Key -> BOOLEAN]
      BY DEF TypeOK
    <2>3. peerBlocked' \in BOOLEAN /\ pe' \in [Payload -> SUBSET Phase]
      BY DEF TypeOK
    <2> QED
      BY <2>1, <2>2, <2>3 DEF TypeOK
  <1>2. NoAssertionFails'
    BY DEF NoAssertionFails, TypeOK, ExtensionInv, BlockingInv, PhaseInv, InFlight
  <1>3. BlockingInv'
    BY DEF BlockingInv, TypeOK, PhaseInv
  <1>4. RetryInv'
    BY DEF RetryInv, TypeOK, ExtensionInv, BlockingInv, PhaseInv, InFlight, isBlockedPort
  <1>5. /\ IdleInv' /\ ExtensionInv' /\ PhaseInv' /\ ResponseInv'
        /\ PayloadAccounting' /\ OneCarrierPerPacket'
    BY DEF IdleInv, ExtensionInv, InFlight, PhaseInv, ResponseInv, PayloadAccounting, OneCarrierPerPacket
  <1> QED
    BY <1>1, <1>2, <1>3, <1>4, <1>5

\* The first half of pec() for BEGIN_RESP.
LEMMA BeginRespInv ==
    ASSUME IndInv, GoodNeighbours, NEW p \in Payload, PecBeginResp(p)
    PROVE  IndInv'
  <1> USE Constants DEF IndInv, PecBeginResp, pec_BEGIN_RESP, unblock, retryOwed,
        updateRetryMap, isBlockingTrans, Ready, Running, helperVars, mmVars, payVars,
        frameVars, peerVars, tgtVars
  <1>1. TypeOK'
    <2>1. blockingRequestMap' \in [Key -> Payload \cup {NULL}]
      BY DEF TypeOK
    <2>2. needToSendRequestRetryMap' \in [Key -> BOOLEAN]
      BY DEF TypeOK
    <2>3. peerBlocked' \in BOOLEAN /\ pe' \in [Payload -> SUBSET Phase]
      BY DEF TypeOK
    <2>4. retrying' \in BOOLEAN
      <3>1. CASE isBlockingTrans(p)
        <4>1. extCoreID[p] \in Key
          BY <3>1 DEF TypeOK, BlockingInv
        <4> QED
          BY <3>1, <4>1 DEF TypeOK
      <3>2. CASE ~isBlockingTrans(p)
        BY <3>2
      <3> QED
        BY <3>1, <3>2
    <2> QED
      BY <2>1, <2>2, <2>3, <2>4 DEF TypeOK
  <1>2. IdleInv'
    BY DEF IdleInv, TypeOK
  <1>3. BlockingInv'
    BY DEF BlockingInv, TypeOK, ExtensionInv, PhaseInv, InFlight
  <1>4. ResponseInv'
    BY DEF ResponseInv, TypeOK, PhaseInv, Phase
  <1>5. RetryInv'
    BY DEF RetryInv, TypeOK, ExtensionInv, BlockingInv, PhaseInv, InFlight, isBlockedPort
  <1>6. /\ NoAssertionFails' /\ ExtensionInv' /\ PhaseInv' /\ PayloadAccounting'
        /\ OneCarrierPerPacket'
    BY DEF NoAssertionFails, ExtensionInv, InFlight, PhaseInv, PayloadAccounting, OneCarrierPerPacket
  <1> QED
    BY <1>1, <1>2, <1>3, <1>4, <1>5, <1>6

\* A refused response is parked; by the response exclusion rule no other
\* response of the socket is parked already.
LEMMA PecRefusedInv ==
    ASSUME IndInv, GoodNeighbours, NEW p \in Payload, PecRefused(p)
    PROVE  IndInv'
  <1> USE Constants DEF IndInv, PecRefused, pec_refused, Running, helperVars, mmVars,
        payVars, frameVars, peerVars, tgtVars
  <1>1. TypeOK'
    BY DEF TypeOK
  <1>2. NoAssertionFails'
    BY DEF NoAssertionFails, TypeOK, ExtensionInv, ResponseInv, InFlight
  <1>3. /\ IdleInv' /\ ExtensionInv' /\ BlockingInv' /\ PhaseInv'
        /\ ResponseInv' /\ RetryInv' /\ PayloadAccounting' /\ OneCarrierPerPacket'
    BY DEF IdleInv, ExtensionInv, InFlight, BlockingInv, PhaseInv, ResponseInv, RetryInv, isBlockedPort, PayloadAccounting, OneCarrierPerPacket
  <1> QED
    BY <1>1, <1>2, <1>3

\* A response that gem5 took: the transaction ends and the payload is freed
\* unless the target still holds it.
LEMMA RespondedInv ==
    ASSUME IndInv, GoodNeighbours, NEW p \in Payload, PecResponded(p)
    PROVE  IndInv'
  <1> USE Constants DEF IndInv, PecResponded, pec_responded, release, LastReference, Running,
        helperVars, mmVars, payVars, frameVars, peerVars, tgtVars
  <1>1. TypeOK'
    <2>1. refCount' \in [Payload -> 0 .. 2]
      BY DEF TypeOK, PayloadAccounting, ResponseInv, InFlight, Bit
    <2>2. extPacket' \in [Payload -> Packet \cup {NULL}] /\ extCoreID' \in [Payload -> Socket \cup {NULL}]
      BY DEF TypeOK
    <2>3. freePayloads' \subseteq allocated'
      BY DEF TypeOK, PayloadAccounting
    <2> QED
      BY <2>1, <2>2, <2>3 DEF TypeOK
  <1>2. NoAssertionFails'
    BY DEF NoAssertionFails, TypeOK, ExtensionInv, ResponseInv, InFlight
  <1>3. IdleInv'
    BY DEF IdleInv, BlockingInv, ResponseInv
  <1>4. ExtensionInv'
    BY DEF ExtensionInv, TypeOK, InFlight
  <1>5. BlockingInv'
    BY DEF BlockingInv, ResponseInv
  <1>6. PhaseInv'
    BY DEF PhaseInv, ResponseInv
  <1>7. ResponseInv'
    BY DEF ResponseInv, TypeOK
  <1>8. PayloadAccounting'
    BY DEF PayloadAccounting, TypeOK, ResponseInv, InFlight, Bit
  <1>9. OneCarrierPerPacket'
    BY DEF OneCarrierPerPacket, TypeOK, ResponseInv, InFlight
  <1>10. RetryInv'
    BY DEF RetryInv, isBlockedPort
  <1> QED
    BY <1>1, <1>2, <1>3, <1>4, <1>5, <1>6, <1>7, <1>8, <1>9, <1>10

\* recvRespRetry ends the transactions of all parked responses.
LEMMA RespRetryInv ==
    ASSUME IndInv, GoodNeighbours, RecvRespRetry
    PROVE  IndInv'
  <1>0. /\ Ready
        /\ BlockingResponses # {}
        /\ aborted' = aborted
        /\ blockingResponseMap' = [s \in Key |-> NULL]
        /\ release(BlockingResponses)
        /\ sent' = sent \ {extPacket[p] : p \in BlockingResponses}
        /\ UNCHANGED <<blockingRequestMap, needToSendRequestRetryMap, pe, frameVars, peerBlocked>>
        /\ tgt' = [p \in Payload |-> IF p \in BlockingResponses THEN "idle" ELSE tgt[p]]
        /\ UNCHANGED tgtHolds
    <2>1. PICK taken \in SUBSET BlockingResponses :
             /\ recvRespRetry(taken)
             /\ tgt' = [p \in Payload |-> IF p \in taken THEN "idle" ELSE tgt[p]]
      BY DEF RecvRespRetry
    <2>2. taken = BlockingResponses
      BY <2>1 DEF recvRespRetry, GoodNeighbours
    <2> QED  BY <2>1, <2>2 DEF recvRespRetry, RecvRespRetry
  <1> USE <1>0, Constants DEF IndInv, BlockingResponses, release,
        LastReference, Ready, Running, helperVars, mmVars, payVars, frameVars, peerVars,
        tgtVars
  <1>1. TypeOK'
    BY DEF TypeOK, PayloadAccounting, ResponseInv, InFlight, Bit
  <1>2. NoAssertionFails'
    BY DEF NoAssertionFails, GoodNeighbours
  <1>3. IdleInv'
    BY DEF IdleInv, TypeOK, BlockingInv, ResponseInv
  <1>4. BlockingInv'
    BY DEF BlockingInv, TypeOK, ResponseInv
  <1>5. PhaseInv'
    BY DEF PhaseInv, ResponseInv
  <1>6. PayloadAccounting'
    BY DEF PayloadAccounting, TypeOK, ResponseInv, InFlight, Bit
  <1>7. OneCarrierPerPacket'
    <2>1. \A p \in InFlight' : p \in InFlight /\ p \notin BlockingResponses
      BY DEF InFlight, TypeOK
    <2>2. \A p \in InFlight \ BlockingResponses : p \in InFlight' /\ extPacket'[p] = extPacket[p]
      BY DEF InFlight, TypeOK
    <2>3. BlockingResponses \subseteq InFlight
      BY DEF InFlight, ResponseInv
    <2>4. \A k \in sent' : \E p \in InFlight' : extPacket'[p] = k
      <3> TAKE k \in sent'
      <3>1. k \in sent /\ \A p \in BlockingResponses : extPacket[p] # k
        OBVIOUS
      <3>2. PICK p \in InFlight : extPacket[p] = k
        BY <3>1 DEF OneCarrierPerPacket
      <3> QED
        BY <2>2, <3>1, <3>2
    <2>5. \A p \in InFlight' : extPacket'[p] \in sent'
      BY <2>1, <2>2, <2>3 DEF OneCarrierPerPacket
    <2>6. \A p, q \in InFlight' : extPacket'[p] = extPacket'[q] => p = q
      BY <2>1, <2>2 DEF OneCarrierPerPacket
    <2> QED
      BY <2>4, <2>5, <2>6 DEF OneCarrierPerPacket
  <1>8. ExtensionInv' /\ ResponseInv' /\ RetryInv'
    BY DEF ExtensionInv, InFlight, ResponseInv, RetryInv, isBlockedPort
  <1> QED
    BY <1>1, <1>2, <1>3, <1>4, <1>5, <1>6, <1>7, <1>8

\* The target takes a reference.
LEMMA AcquireInv ==
    ASSUME IndInv, GoodNeighbours, NEW p \in Payload, TargetAcquire(p)
    PROVE  IndInv'
  <1> USE Constants DEF IndInv, TargetAcquire, hold, targetFrame, helperVars, mmVars,
        payVars, frameVars, peerVars, tgtVars
  <1>1. TypeOK'
    BY DEF TypeOK, PayloadAccounting, Bit
  <1>2. PayloadAccounting'
    BY DEF PayloadAccounting, TypeOK, InFlight, Bit
  <1>3. /\ NoAssertionFails' /\ IdleInv' /\ ExtensionInv' /\ BlockingInv'
        /\ PhaseInv' /\ ResponseInv' /\ RetryInv' /\ OneCarrierPerPacket'
    BY DEF NoAssertionFails, IdleInv, ExtensionInv, InFlight, BlockingInv, PhaseInv, ResponseInv, RetryInv, isBlockedPort, OneCarrierPerPacket
  <1> QED
    BY <1>1, <1>2, <1>3

\* The target sends END_REQ.
LEMMA TargetEndReqInv ==
    ASSUME IndInv, GoodNeighbours, NEW p \in Payload, TargetEndReq(p)
    PROVE  IndInv'
  <1> USE Constants DEF IndInv, TargetEndReq, nb_transport_bw, hold, targetFrame, helperVars,
        mmVars, payVars, frameVars, peerVars, tgtVars
  <1>1. TypeOK'
    BY DEF TypeOK, PayloadAccounting, Bit, Phase
  <1>2. BlockingInv'
    BY DEF BlockingInv, TypeOK, PhaseInv
  <1>3. PhaseInv'
    BY DEF PhaseInv, TypeOK
  <1>4. PayloadAccounting'
    BY DEF PayloadAccounting, TypeOK, InFlight, Bit
  <1>5. /\ NoAssertionFails' /\ IdleInv' /\ ExtensionInv' /\ ResponseInv'
        /\ RetryInv' /\ OneCarrierPerPacket'
    BY DEF NoAssertionFails, IdleInv, ExtensionInv, InFlight, ResponseInv, RetryInv, isBlockedPort, OneCarrierPerPacket
  <1> QED
    BY <1>1, <1>2, <1>3, <1>4, <1>5

\* The target sends BEGIN_RESP when no other response of the socket is open.
LEMMA TargetBeginRespInv ==
    ASSUME IndInv, GoodNeighbours, NEW p \in Payload, TargetBeginResp(p)
    PROVE  IndInv'
  <1> USE Constants DEF IndInv, TargetBeginResp, ResponseFree, nb_transport_bw, hold,
        targetFrame, helperVars, mmVars, payVars, frameVars, peerVars, tgtVars
  <1>1. TypeOK'
    BY DEF TypeOK, PayloadAccounting, Bit, Phase
  <1>2. BlockingInv'
    BY DEF BlockingInv, TypeOK, PhaseInv
  <1>3. PhaseInv'
    BY DEF PhaseInv, TypeOK
  <1>4. ResponseInv'
    BY DEF ResponseInv, TypeOK
  <1>5. PayloadAccounting'
    BY DEF PayloadAccounting, TypeOK, InFlight, Bit
  <1>6. /\ NoAssertionFails' /\ IdleInv' /\ ExtensionInv' /\ RetryInv'
        /\ OneCarrierPerPacket'
    BY DEF NoAssertionFails, IdleInv, ExtensionInv, InFlight, RetryInv, isBlockedPort, OneCarrierPerPacket
  <1> QED
    BY <1>1, <1>2, <1>3, <1>4, <1>5, <1>6

\* The target gives up its reference, perhaps the last one.
LEMMA ReleaseInv ==
    ASSUME IndInv, GoodNeighbours, NEW p \in Payload, TargetRelease(p)
    PROVE  IndInv'
  <1> USE Constants DEF IndInv, TargetRelease, release, LastReference, helperVars, mmVars,
        payVars, frameVars, peerVars, tgtVars
  <1>1. TypeOK'
    BY DEF TypeOK, PayloadAccounting, Bit
  <1>2. ExtensionInv'
    BY DEF ExtensionInv, PayloadAccounting, InFlight, Bit
  <1>3. BlockingInv'
    BY DEF BlockingInv, IdleInv, PayloadAccounting, InFlight, Bit
  <1>4. ResponseInv'
    BY DEF ResponseInv, TypeOK, IdleInv, PayloadAccounting, InFlight, Bit
  <1>5. PayloadAccounting'
    BY DEF PayloadAccounting, InFlight, Bit
  <1>6. OneCarrierPerPacket'
    BY DEF OneCarrierPerPacket, PayloadAccounting, InFlight, Bit
  <1>7. NoAssertionFails' /\ IdleInv' /\ PhaseInv' /\ RetryInv'
    BY DEF NoAssertionFails, IdleInv, PhaseInv, RetryInv, isBlockedPort
  <1> QED
    BY <1>1, <1>2, <1>3, <1>4, <1>5, <1>6, <1>7

\* IndInv is inductive: every step of gem5, of the event queue and of the
\* target, and every stuttering step, preserves it.
LEMMA NextInv ==
    ASSUME IndInv, GoodNeighbours, [Next]_vars
    PROVE  IndInv'
  <1>1. ASSUME NEW k \in Packet, RecvTimingReqRefused(k) PROVE IndInv'
    BY <1>1, RefusedInv
  <1>2. ASSUME NEW k \in Packet, RecvTimingReqAccepted(k) PROVE IndInv'
    BY <1>2, AcceptedInv
  <1>3. ASSUME NEW k \in Packet, RecvTimingReqUpdated(k) PROVE IndInv'
    BY <1>3, UpdatedInv
  <1>4. ASSUME NEW k \in Packet, RecvTimingReqCompleted(k) PROVE IndInv'
    BY <1>4, CompletedInv
  <1>5. CASE RecvFunctional
    BY <1>5, FunctionalInv
  <1>6. CASE RecvAtomic
    BY <1>6, AtomicInv
  <1>7. CASE RecvRespRetry
    BY <1>7, RespRetryInv
  <1>8. ASSUME NEW p \in Payload, PecEndReq(p) PROVE IndInv'
    BY <1>8, EndReqInv
  <1>9. ASSUME NEW p \in Payload, PecBeginResp(p) PROVE IndInv'
    BY <1>9, BeginRespInv
  <1>10. ASSUME NEW p \in Payload, PecRefused(p) PROVE IndInv'
    BY <1>10, PecRefusedInv
  <1>11. ASSUME NEW p \in Payload, PecResponded(p) PROVE IndInv'
    BY <1>11, RespondedInv
  <1>12. ASSUME NEW p \in Payload, TargetAcquire(p) PROVE IndInv'
    BY <1>12, AcquireInv
  <1>13. ASSUME NEW p \in Payload, TargetEndReq(p) PROVE IndInv'
    BY <1>13, TargetEndReqInv
  <1>14. ASSUME NEW p \in Payload, TargetBeginResp(p) PROVE IndInv'
    BY <1>14, TargetBeginRespInv
  <1>15. ASSUME NEW p \in Payload, TargetRelease(p) PROVE IndInv'
    BY <1>15, ReleaseInv
  <1>16. CASE UNCHANGED vars
    <2> USE <1>16 DEF vars, portVars, helperVars, mmVars, payVars, frameVars, peerVars, tgtVars
    <2>1. TypeOK' /\ NoAssertionFails'
      BY DEF IndInv, TypeOK, NoAssertionFails
    <2>2. IdleInv' /\ ExtensionInv' /\ BlockingInv' /\ PhaseInv' /\ ResponseInv' /\ RetryInv'
      BY DEF IndInv, IdleInv, ExtensionInv, BlockingInv, PhaseInv, ResponseInv, RetryInv,
             isBlockedPort, InFlight
    <2>3. PayloadAccounting' /\ OneCarrierPerPacket'
      BY DEF IndInv, PayloadAccounting, OneCarrierPerPacket, InFlight
    <2> QED
      BY <2>1, <2>2, <2>3 DEF IndInv
  <1> QED
    BY <1>1, <1>2, <1>3, <1>4, <1>5, <1>6, <1>7, <1>8, <1>9, <1>10, <1>11, <1>12, <1>13,
       <1>14, <1>15, <1>16
       DEF Next, GemNext, EventNext, TargetNext

\* Every reachable state of the slave port satisfies the inductive invariant,
\* whatever the number of sockets, packets and payloads.
THEOREM Invariance ==
    ASSUME GoodNeighbours
    PROVE  Spec => []IndInv
  <1>1. Init => IndInv
    BY InitInv
  <1>2. IndInv /\ [Next]_vars => IndInv'
    BY NextInv
  <1> QED
    BY <1>1, <1>2, PTL DEF Spec

\* The variables of the slave port keep their types; in particular a payload
\* never has more than two references, nor fewer than none.
THEOREM TypeCorrect ==
    ASSUME GoodNeighbours
    PROVE  Spec => []TypeOK
  <1>1. IndInv => TypeOK
    BY DEF IndInv
  <1> QED
    BY <1>1, Invariance, PTL

\* A gem5 port that waits for sendRetryReq() has a blocked socket that will
\* send it.
THEOREM RetryNotLost ==
    ASSUME GoodNeighbours
    PROVE  Spec => []NoLostRetry
  <1>1. IndInv => NoLostRetry
    BY Constants DEF IndInv, RetryInv, NoLostRetry
  <1> QED
    BY <1>1, Invariance, PTL

\* sendRetryReq() is never sent to a gem5 port that does not wait for it.
THEOREM RetryNotStale ==
    ASSUME GoodNeighbours
    PROVE  Spec => []NoStaleRetry
  <1>1. IndInv => NoStaleRetry
    BY DEF IndInv, RetryInv, NoStaleRetry
  <1> QED
    BY <1>1, Invariance, PTL

\* The port keeps the request exclusion rule of the TLM base protocol on every
\* socket.
THEOREM RequestsExclude ==
    ASSUME GoodNeighbours
    PROVE  Spec => []RequestExclusion
  <1>1. IndInv => RequestExclusion
    BY DEF IndInv, BlockingInv, RequestExclusion
  <1> QED
    BY <1>1, Invariance, PTL

\* Payloads are neither leaked nor freed early.
THEOREM PayloadsAccounted ==
    ASSUME GoodNeighbours
    PROVE  Spec => []PayloadAccounting
  <1>1. IndInv => PayloadAccounting
    BY DEF IndInv
  <1> QED
    BY <1>1, Invariance, PTL

\* No map, queued event or running handler refers to a recycled payload.
THEOREM NothingDangles ==
    ASSUME GoodNeighbours
    PROVE  Spec => []NoDanglingPayload
  <1>1. ASSUME IndInv PROVE NoDanglingPayload
    <2> USE <1>1 DEF IndInv
    <2> SUFFICES ASSUME NEW p \in Payload
                 PROVE /\ (pe[p] # {} \/ pecFrame = p) => refCount[p] > 0 /\ extPacket[p] # NULL
                       /\ \A s \in Key : (blockingRequestMap[s] = p \/ blockingResponseMap[s] = p)
                              => refCount[p] > 0 /\ extCoreID[p] = s
      BY DEF NoDanglingPayload
    <2>1. p \in InFlight => refCount[p] > 0 /\ extPacket[p] # NULL
      BY Constants DEF PayloadAccounting, ExtensionInv, Bit, TypeOK
    <2>2. (pe[p] # {} \/ pecFrame = p) => p \in InFlight
      BY DEF IdleInv, InFlight
    <2>3. \A s \in Key : (blockingRequestMap[s] = p \/ blockingResponseMap[s] = p)
              => p \in InFlight /\ extCoreID[p] = s
      BY DEF IdleInv, InFlight, BlockingInv, ResponseInv
    <2> QED
      BY <2>1, <2>2, <2>3
  <1> QED
    BY <1>1, Invariance, PTL

\* Each packet gem5 waits for is carried by exactly one transaction.
THEOREM PacketsCarried ==
    ASSUME GoodNeighbours
    PROVE  Spec => []OneCarrierPerPacket
  <1>1. IndInv => OneCarrierPerPacket
    BY DEF IndInv
  <1> QED
    BY <1>1, Invariance, PTL

\* The assertions of pec() and recvRespRetry() hold.
THEOREM AssertionsHold ==
    ASSUME GoodNeighbours
    PROVE  Spec => []NoAssertionFails
  <1>1. IndInv => NoAssertionFails
    BY DEF IndInv
  <1> QED
    BY <1>1, Invariance, PTL
=============================================================================

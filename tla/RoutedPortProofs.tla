-------------------------- MODULE RoutedPortProofs -------------------------
(***************************************************************************)
(* Proofs about RoutedPort for any number of sockets, packets and          *)
(* payloads: the slave port with the repository's routers behind it        *)
(* implements SlavePort, whose safety properties therefore hold of it, and *)
(* no router mixes up its transactions. The invariant of SlavePort is      *)
(* taken from SlavePortProofs by instantiation.                            *)
(***************************************************************************)
EXTENDS RoutedPort, TLAPS

SPP == INSTANCE SlavePortProofs WITH Reply <- RouterReply, RetryTakesAll <- TRUE

\* A router is free, executes its transaction (the thread is running or is
\* going to be woken), or waits for the END_RESP of its response.
RouterOK(s) ==
    /\ next_response_pending[s] = NULL
    /\ transaction_in_progress[s] = NULL => ~response_in_progress[s] /\ end_req_pending[s] = NULL
    /\ (target_done_event[s] \/ thread[s] = "execute")
           <=> transaction_in_progress[s] # NULL /\ ~response_in_progress[s]
    /\ ~(target_done_event[s] /\ thread[s] = "execute")

RouterInv == \A s \in Socket : RouterOK(s)

\* The router of a socket deals with transactions of that socket. END_RESP is
\* for the transaction in progress; until it is sent, the transaction is not
\* also a request that waits.
QueueOK(s, p) ==
    /\ <<p, "END_RESP">> \in m_peq[s] => response_in_progress[s] /\ transaction_in_progress[s] = p
    /\ <<p, "BEGIN_REQ">> \in m_peq[s] => extCoreID[p] = s /\ end_req_pending[s] # p
    /\ end_req_pending[s] = p => extCoreID[p] = s
    /\ Served(s, p) => extCoreID[p] = s /\ ~Requested(p)

QueueInv == \A s \in Socket, p \in Payload : QueueOK(s, p)

IndInv ==
    /\ SP!IndInv
    /\ R!RouterTypeOK
    /\ RouterInv
    /\ QueueInv
    /\ fatal = "none"

(***************************************************************************)
(* What SlavePortProofs proves of the port, stated of the instance SP.     *)
(***************************************************************************)
\* The assumptions of SlavePort hold of this instance of it.
LEMMA PortAssumptions ==
    /\ SocketNum \in Nat \ {0} /\ SocketOf \in [Packet -> SPP!Socket]
    /\ NeedsResponse \subseteq Packet
    /\ RouterReply \in [Packet -> SUBSET SPP!Replies]
    /\ TRUE \in BOOLEAN
    /\ NULL \notin Payload /\ NULL \notin Packet /\ NULL \notin Int
  BY SocketNumAssumption, SocketOfAssumption, PacketAssumption, NullAssumption
     DEF Socket, SPP!Socket, RouterReply, SPP!Replies

\* A router, which always answers TLM_ACCEPTED, is a good neighbour.
LEMMA GoodRouter == SPP!GoodNeighbours
  BY DEF SPP!GoodNeighbours, RouterReply

\* The two instances of SlavePort have the same steps ...
LEMMA SameSteps ==
    /\ SP!Init <=> SPP!Init
    /\ SP!Next <=> SPP!Next
    /\ SP!vars = SPP!vars /\ SP!vars' = SPP!vars'
  <1>1. SP!Init <=> SPP!Init
    BY DEF SP!Init, SPP!Init, SP!Key, SPP!Key
  <1>2. SP!Next <=> SPP!Next
    BY DEF SP!Socket, SPP!Socket, SP!Phase, SPP!Phase, SP!Key, SPP!Key, SP!helperVars,
         SPP!helperVars, SP!mmVars, SPP!mmVars, SP!payVars, SPP!payVars, SP!frameVars,
         SPP!frameVars, SP!peerVars, SPP!peerVars, SP!tgtVars, SPP!tgtVars, SP!portVars,
         SPP!portVars, SP!vars, SPP!vars, SP!isBlockedPort, SPP!isBlockedPort,
         SP!isBlockingTrans, SPP!isBlockingTrans, SP!BlockingResponses,
         SPP!BlockingResponses, SP!updateRetryMap, SPP!updateRetryMap, SP!Allocatable,
         SPP!Allocatable, SP!prepare, SPP!prepare, SP!LastReference, SPP!LastReference,
         SP!release, SPP!release, SP!Running, SPP!Running, SP!Ready, SPP!Ready,
         SP!Reentrant, SPP!Reentrant, SP!CanSend, SPP!CanSend, SP!recvTimingReq_refused,
         SPP!recvTimingReq_refused, SP!forward, SPP!forward, SP!recvTimingReq_accepted,
         SPP!recvTimingReq_accepted, SP!recvTimingReq_updated, SPP!recvTimingReq_updated,
         SP!prepareAndRelease, SPP!prepareAndRelease, SP!recvTimingReq_completed,
         SPP!recvTimingReq_completed, SP!recvFunctional, SPP!recvFunctional, SP!recvAtomic,
         SPP!recvAtomic, SP!nb_transport_bw, SPP!nb_transport_bw, SP!retryOwed,
         SPP!retryOwed, SP!unblock, SPP!unblock, SP!pec_END_REQ, SPP!pec_END_REQ,
         SP!pec_BEGIN_RESP, SPP!pec_BEGIN_RESP, SP!pec_refused, SPP!pec_refused,
         SP!pec_responded, SPP!pec_responded, SP!recvRespRetry, SPP!recvRespRetry,
         SP!RecvTimingReqRefused, SPP!RecvTimingReqRefused, SP!RecvTimingReqAccepted,
         SPP!RecvTimingReqAccepted, SP!ResponseFree, SPP!ResponseFree,
         SP!RecvTimingReqUpdated, SPP!RecvTimingReqUpdated, SP!RecvTimingReqCompleted,
         SPP!RecvTimingReqCompleted, SP!RecvFunctional, SPP!RecvFunctional, SP!RecvAtomic,
         SPP!RecvAtomic, SP!PecEndReq, SPP!PecEndReq, SP!PecBeginResp, SPP!PecBeginResp,
         SP!PecRefused, SPP!PecRefused, SP!PecResponded, SPP!PecResponded, SP!RecvRespRetry,
         SPP!RecvRespRetry, SP!hold, SPP!hold, SP!targetFrame, SPP!targetFrame,
         SP!TargetAcquire, SPP!TargetAcquire, SP!TargetEndReq, SPP!TargetEndReq,
         SP!TargetBeginResp, SPP!TargetBeginResp, SP!TargetRelease, SPP!TargetRelease,
         SP!GemNext, SPP!GemNext, SP!EventNext, SPP!EventNext, SP!TargetNext,
         SPP!TargetNext, SP!Next, SPP!Next
  <1>3. SP!vars = SPP!vars /\ SP!vars' = SPP!vars'
    BY DEF SP!helperVars, SPP!helperVars, SP!mmVars, SPP!mmVars, SP!payVars, SPP!payVars,
         SP!frameVars, SPP!frameVars, SP!peerVars, SPP!peerVars, SP!tgtVars, SPP!tgtVars,
         SP!portVars, SPP!portVars, SP!vars, SPP!vars
  <1> QED
    BY <1>1, <1>2, <1>3

\* ... and the same invariant.
LEMMA SameInvariant ==
    /\ SP!IndInv <=> SPP!IndInv
    /\ SP!IndInv' <=> SPP!IndInv'
  BY DEF SP!IndInv, SPP!IndInv, SP!TypeOK, SPP!TypeOK, SP!NoAssertionFails,
         SPP!NoAssertionFails, SP!IdleInv, SPP!IdleInv, SP!ExtensionInv, SPP!ExtensionInv,
         SP!BlockingInv, SPP!BlockingInv, SP!PhaseInv, SPP!PhaseInv, SP!ResponseInv,
         SPP!ResponseInv, SP!RetryInv, SPP!RetryInv, SP!PayloadAccounting,
         SPP!PayloadAccounting, SP!OneCarrierPerPacket, SPP!OneCarrierPerPacket,
         SP!InFlight, SPP!InFlight, SP!Bit, SPP!Bit, SP!isBlockedPort, SPP!isBlockedPort,
         SP!Key, SPP!Key, SP!Socket, SPP!Socket, SP!Phase, SPP!Phase

\* The port's invariant holds in the initial states of SlavePort ...
LEMMA PortInit == SP!Init => SP!IndInv
  BY PortAssumptions, SameSteps, SameInvariant, SPP!InitInv

\* ... and is kept by every step of it.
LEMMA PortStep ==
    ASSUME SP!IndInv, SP!Next \/ UNCHANGED SP!vars
    PROVE  SP!IndInv'
  <1>1. SPP!IndInv /\ [SPP!Next]_(SPP!vars)
    BY SameSteps, SameInvariant
  <1>2. SPP!IndInv'
    BY <1>1, PortAssumptions, GoodRouter, SPP!NextInv
  <1> QED
    BY <1>2, SameInvariant

(***************************************************************************)
(* Reading the target off the routers.                                     *)
(***************************************************************************)
\* The facts about the constants that the steps use.
LEMMA Constants ==
    /\ NULL \notin Payload /\ NULL \notin Packet /\ NULL \notin Socket
    /\ Socket \subseteq SP!Key /\ SP!Socket = Socket
    /\ \A k \in Packet : SocketOf[k] \in Socket
  BY SocketNumAssumption, SocketOfAssumption, NullAssumption DEF Socket, SP!Key, SP!Socket

\* Where the target is with a payload: no two cases of tgt meet.
LEMMA Progress ==
    ASSUME QueueInv, NEW p \in Payload
    PROVE  /\ tgt[p] = "req" <=> Requested(p)
           /\ tgt[p] = "ended" <=> \E s \in Socket : Served(s, p) /\ ~response_in_progress[s]
           /\ tgt[p] = "resp" <=> \E s \in Socket : Served(s, p) /\ response_in_progress[s]
           /\ tgt[p] = "idle" <=> ~Requested(p) /\ \A s \in Socket : ~Served(s, p)
  <1> DEFINE A == Requested(p)
             B == \E s \in Socket : Served(s, p) /\ ~response_in_progress[s]
             C == \E s \in Socket : Served(s, p) /\ response_in_progress[s]
  <1>1. ~(A /\ B) /\ ~(A /\ C) /\ ~(B /\ C)
    <2>1. \A s \in Socket : Served(s, p) => extCoreID[p] = s /\ ~Requested(p)
      BY Zenon DEF QueueInv, QueueOK
    <2> QED
      BY <2>1, Zenon
  <1>2. (\A s \in Socket : ~Served(s, p)) <=> ~B /\ ~C
    OBVIOUS
  <1>3. tgt[p] = CASE A -> "req" [] B -> "ended" [] C -> "resp" [] OTHER -> "idle"
    BY DEF tgt
  <1> HIDE DEF A, B, C
  <1>4. /\ tgt[p] = "req" <=> A
        /\ tgt[p] = "ended" <=> B
        /\ tgt[p] = "resp" <=> C
        /\ tgt[p] = "idle" <=> ~A /\ ~B /\ ~C
    BY <1>1, <1>3
  <1> QED
    BY <1>2, <1>4 DEF A, B, C

\* The same of the state after a step.
LEMMA ProgressAfter ==
    ASSUME QueueInv', NEW p \in Payload
    PROVE  /\ tgt'[p] = "req" <=> Requested(p)'
           /\ tgt'[p] = "ended" <=> \E s \in Socket : Served(s, p)' /\ ~response_in_progress'[s]
           /\ tgt'[p] = "resp" <=> \E s \in Socket : Served(s, p)' /\ response_in_progress'[s]
           /\ tgt'[p] = "idle" <=> ~Requested(p)' /\ \A s \in Socket : ~Served(s, p)'
  <1> DEFINE A == Requested(p)'
             B == \E s \in Socket : Served(s, p)' /\ ~response_in_progress'[s]
             C == \E s \in Socket : Served(s, p)' /\ response_in_progress'[s]
  <1>1. ~(A /\ B) /\ ~(A /\ C) /\ ~(B /\ C)
    <2>1. \A s \in Socket : Served(s, p)' => extCoreID'[p] = s /\ ~Requested(p)'
      BY Zenon DEF QueueInv, QueueOK
    <2> QED
      BY <2>1, Zenon
  <1>2. (\A s \in Socket : ~Served(s, p)') <=> ~B /\ ~C
    OBVIOUS
  <1>3. tgt'[p] = CASE A -> "req" [] B -> "ended" [] C -> "resp" [] OTHER -> "idle"
    BY DEF tgt
  <1> HIDE DEF A, B, C
  <1>4. /\ tgt'[p] = "req" <=> A
        /\ tgt'[p] = "ended" <=> B
        /\ tgt'[p] = "resp" <=> C
        /\ tgt'[p] = "idle" <=> ~A /\ ~B /\ ~C
    BY <1>1, <1>3
  <1> QED
    BY <1>2, <1>4 DEF A, B, C

\* tgt has a value for every payload, before and after a step.
LEMMA TgtFunction ==
    /\ tgt \in [Payload -> {"req", "ended", "resp", "idle"}]
    /\ tgt' \in [Payload -> {"req", "ended", "resp", "idle"}]
  BY DEF tgt

\* Payloads that nobody holds, among them those that mm.allocate() returns, are
\* no transaction of a router.
LEMMA Unused ==
    ASSUME IndInv, NEW p \in SP!Allocatable
    PROVE  /\ p \in Payload /\ tgt[p] = "idle" /\ p \notin tgtHolds
           /\ ~Requested(p) /\ \A s \in Socket : ~Served(s, p)
  <1>1. p \in Payload /\ refCount[p] = 0
    BY DEF IndInv, SP!IndInv, SP!TypeOK, SP!PayloadAccounting, SP!Allocatable
  <1>2. tgt[p] = "idle" /\ p \notin tgtHolds
    BY <1>1 DEF IndInv, SP!IndInv, SP!PayloadAccounting, SP!Bit, SP!InFlight
  <1> QED
    BY <1>1, <1>2, Progress DEF IndInv

(***************************************************************************)
(* The steps of the port that send nothing to a router.                    *)
(***************************************************************************)
\* A step that leaves the routers alone leaves the target alone.
LEMMA Untouched ==
    ASSUME UNCHANGED routerVars
    PROVE  /\ tgt' = tgt /\ tgtHolds' = tgtHolds
           /\ \A p \in Payload : Requested(p)' <=> Requested(p)
           /\ \A s \in Socket, p \in Payload : Served(s, p)' <=> Served(s, p)
  BY DEF routerVars, tgt, tgtHolds, Requested, Served, EndRespQueued

\* An initiator that sends nothing leaves the routers alone.
LEMMA NothingSent ==
    ASSUME R!RouterTypeOK, R!nb_transport_fw(nothing)
    PROVE  UNCHANGED routerVars
  BY DEF R!RouterTypeOK, R!nb_transport_fw, nothing, routerVars

\* Such a step of the port, if it does not change the socket of a transaction
\* either, preserves the invariant.
LEMMA StillInv ==
    ASSUME IndInv, UNCHANGED <<routerVars, fatal, extCoreID>>, SP!Next \/ UNCHANGED SP!vars
    PROVE  IndInv'
  <1>1. SP!IndInv'
    BY PortStep DEF IndInv
  <1>2. R!RouterTypeOK' /\ RouterInv'
    BY DEF IndInv, R!RouterTypeOK, RouterInv, RouterOK, routerVars
  <1>3. QueueInv'
    BY Untouched DEF IndInv, QueueInv, QueueOK, routerVars
  <1> QED
    BY <1>1, <1>2, <1>3 DEF IndInv

\* A refused request only marks its socket.
LEMMA RefusedStep ==
    ASSUME IndInv, UNCHANGED fatal, NEW k \in Packet, SP!recvTimingReq_refused(k),
           R!nb_transport_fw(nothing)
    PROVE  SP!Next /\ IndInv'
  <1>1. UNCHANGED routerVars
    BY NothingSent DEF IndInv
  <1>2. SP!RecvTimingReqRefused(k)
    BY <1>1, Untouched DEF SP!RecvTimingReqRefused, SP!tgtVars
  <1>3. SP!Next
    BY <1>2 DEF SP!Next, SP!GemNext
  <1>4. extCoreID' = extCoreID
    BY DEF SP!recvTimingReq_refused, SP!payVars
  <1> QED
    BY <1>1, <1>3, <1>4, StillInv

\* b_transport and transport_dbg leave no trace in a router.
LEMMA UntimedStep ==
    ASSUME IndInv, RecvUntimed
    PROVE  SP!Next /\ IndInv'
  <1>1. UNCHANGED routerVars /\ UNCHANGED fatal
    BY DEF RecvUntimed
  <1>2. PICK p \in Payload : SP!recvFunctional(p) \/ SP!recvAtomic(p)
    BY DEF RecvUntimed
  <1>3. UNCHANGED SP!tgtVars
    BY <1>1, Untouched DEF SP!tgtVars
  <1>4. SP!RecvFunctional \/ SP!RecvAtomic
    BY <1>2, <1>3 DEF SP!RecvFunctional, SP!RecvAtomic
  <1>5. SP!Next
    BY <1>4 DEF SP!Next, SP!GemNext
  <1>6. extCoreID' = extCoreID
    BY <1>2 DEF SP!recvFunctional, SP!recvAtomic, SP!prepareAndRelease, SP!payVars
  <1> QED
    BY <1>1, <1>5, <1>6, StillInv

\* So do END_REQ, BEGIN_RESP and a response that gem5 refuses.
LEMMA PecQuietStep ==
    ASSUME IndInv, UNCHANGED fatal, NEW p \in Payload, R!nb_transport_fw(nothing),
           SP!pec_END_REQ(p) \/ SP!pec_BEGIN_RESP(p) \/ SP!pec_refused(p)
    PROVE  SP!Next /\ IndInv'
  <1>1. UNCHANGED routerVars
    BY NothingSent DEF IndInv
  <1>2. UNCHANGED SP!tgtVars
    BY <1>1, Untouched DEF SP!tgtVars
  <1>3. SP!PecEndReq(p) \/ SP!PecBeginResp(p) \/ SP!PecRefused(p)
    BY <1>2 DEF SP!PecEndReq, SP!PecBeginResp, SP!PecRefused
  <1>4. SP!Next
    BY <1>3 DEF SP!Next, SP!EventNext
  <1>5. extCoreID' = extCoreID
    BY DEF SP!pec_END_REQ, SP!pec_BEGIN_RESP, SP!pec_refused, SP!payVars
  <1> QED
    BY <1>1, <1>4, <1>5, StillInv

(***************************************************************************)
(* The steps of the port that send a phase.                                *)
(***************************************************************************)
\* BEGIN_REQ: an unused payload becomes a request of its socket.
LEMMA AcceptedStep ==
    ASSUME IndInv, UNCHANGED fatal, NEW k \in Packet, NEW p \in Payload,
           SP!recvTimingReq_accepted(k, p),
           R!nb_transport_fw(toRouter(SocketOf[k], p, "BEGIN_REQ"))
    PROVE  SP!Next /\ IndInv'
  <1> DEFINE t == SocketOf[k]
  <1>1. t \in Socket /\ p \in SP!Allocatable
    BY Constants DEF SP!recvTimingReq_accepted, SP!forward
  <1>2. /\ tgt[p] = "idle" /\ ~Requested(p) /\ \A s \in Socket : ~Served(s, p)
    BY <1>1, Unused
  <1>3. /\ UNCHANGED <<transaction_in_progress, response_in_progress, next_response_pending,
                       end_req_pending, target_done_event, thread>>
        /\ m_peq' \in [Socket -> SUBSET (Payload \X {"BEGIN_REQ", "END_RESP"})]
        /\ \A s \in Socket : m_peq'[s] = IF s = t THEN m_peq[s] \cup {<<p, "BEGIN_REQ">>} ELSE m_peq[s]
    BY <1>1 DEF IndInv, R!RouterTypeOK, R!nb_transport_fw, toRouter
  <1>4. /\ extCoreID' = [extCoreID EXCEPT ![p] = t]
        /\ extCoreID \in [Payload -> Socket \cup {NULL}]
    BY Constants DEF SP!recvTimingReq_accepted, SP!prepare, IndInv, SP!IndInv, SP!TypeOK
  <1> HIDE DEF t
  <1>e. \A s \in Socket, q \in Payload :
            /\ <<q, "END_RESP">> \in m_peq'[s] <=> <<q, "END_RESP">> \in m_peq[s]
            /\ <<q, "BEGIN_REQ">> \in m_peq'[s] <=> <<q, "BEGIN_REQ">> \in m_peq[s] \/ (s = t /\ q = p)
    BY <1>3
  <1>5. \A s \in Socket : EndRespQueued(s)' <=> EndRespQueued(s)
    BY <1>e DEF EndRespQueued
  <1>6. \A q \in Payload : Requested(q)' <=> (Requested(q) \/ q = p)
    BY <1>1, <1>3 DEF Requested
  <1>7. \A s \in Socket, q \in Payload : Served(s, q)' <=> Served(s, q)
    BY <1>3, <1>5 DEF Served
  <1>8. R!RouterTypeOK' /\ RouterInv'
    BY <1>3 DEF IndInv, R!RouterTypeOK, RouterInv, RouterOK
  <1>9. QueueInv'
    <2> SUFFICES ASSUME NEW s \in Socket, NEW q \in Payload
                 PROVE  QueueOK(s, q)'
      BY Zenon DEF QueueInv
    <2>1. <<q, "END_RESP">> \in m_peq'[s] => response_in_progress'[s] /\ transaction_in_progress'[s] = q
      BY <1>3, <1>e DEF IndInv, QueueInv, QueueOK
    <2>2. <<q, "BEGIN_REQ">> \in m_peq'[s] => extCoreID'[q] = s /\ end_req_pending'[s] # q
      <3>1. CASE q = p
        <4>1. <<p, "BEGIN_REQ">> \notin m_peq[s] /\ end_req_pending[s] # p
          BY <1>2 DEF Requested
        <4> QED
          BY <1>3, <1>4, <1>e, <3>1, <4>1
      <3>2. CASE q # p
        <4>1. <<q, "BEGIN_REQ">> \in m_peq[s] => extCoreID[q] = s /\ end_req_pending[s] # q
          BY DEF IndInv, QueueInv, QueueOK
        <4> QED
          BY <1>3, <1>4, <1>e, <3>2, <4>1
      <3> QED
        BY <3>1, <3>2
    <2>3. end_req_pending'[s] = q => extCoreID'[q] = s
      BY <1>2, <1>3, <1>4 DEF IndInv, QueueInv, QueueOK, Requested
    <2>4. Served(s, q)' => extCoreID'[q] = s /\ ~Requested(q)'
      <3>1. Served(s, q)' => q # p /\ extCoreID[q] = s /\ ~Requested(q)
        BY <1>2, <1>7, Zenon DEF IndInv, QueueInv, QueueOK
      <3> QED
        BY <1>4, <1>6, <3>1
    <2> QED
      BY <2>1, <2>2, <2>3, <2>4 DEF QueueOK
  <1>10. tgt' = [tgt EXCEPT ![p] = "req"]
    <2>1. tgt'[p] = "req"
      BY <1>6, <1>9, ProgressAfter
    <2>2. \A q \in Payload \ {p} : tgt'[q] = tgt[q]
      <3> TAKE q \in Payload \ {p}
      <3>1. Requested(q)' <=> Requested(q)
        BY <1>6
      <3>2. \A s \in Socket : Served(s, q)' <=> Served(s, q)
        BY <1>7
      <3>3. QueueInv /\ response_in_progress' = response_in_progress
        BY <1>3 DEF IndInv
      <3> QED
        BY <1>9, <3>1, <3>2, <3>3, Progress, ProgressAfter, TgtFunction
    <2> QED
      BY <2>1, <2>2, TgtFunction
  <1>11. tgtHolds' = tgtHolds
    BY <1>3 DEF tgtHolds
  <1>12. SP!Next
    <2>1. SP!RecvTimingReqAccepted(k)
      BY <1>10, <1>11 DEF SP!RecvTimingReqAccepted, RouterReply
    <2> QED
      BY <2>1 DEF SP!Next, SP!GemNext
  <1>13. SP!IndInv'
    BY <1>12, PortStep DEF IndInv
  <1> QED
    BY <1>8, <1>9, <1>12, <1>13 DEF IndInv

\* END_RESP: the response of the socket's router ends. S are the transactions
\* that a step of the port ends, no two of one socket.
LEMMA EndRespStep ==
    ASSUME IndInv, NEW S \in SUBSET Payload,
           \A p \in S : tgt[p] = "resp",
           SP!release(S),
           R!nb_transport_fw([s \in Socket |-> {<<p, "END_RESP">> : p \in {q \in S : extCoreID[q] = s}}])
    PROVE  /\ tgt' = [p \in Payload |-> IF p \in S THEN "idle" ELSE tgt[p]]
           /\ tgtHolds' = tgtHolds
           /\ R!RouterTypeOK' /\ RouterInv' /\ QueueInv'
  <1>1. /\ UNCHANGED <<transaction_in_progress, response_in_progress, next_response_pending,
                       end_req_pending, target_done_event, thread>>
        /\ m_peq' \in [Socket -> SUBSET (Payload \X {"BEGIN_REQ", "END_RESP"})]
        /\ \A s \in Socket : m_peq'[s] =
               m_peq[s] \cup {<<p, "END_RESP">> : p \in {q \in S : extCoreID[q] = s}}
    BY DEF IndInv, R!RouterTypeOK, R!nb_transport_fw
  <1>2. \A s \in Socket, q \in Payload :
            /\ <<q, "END_RESP">> \in m_peq'[s] <=>
                   <<q, "END_RESP">> \in m_peq[s] \/ (q \in S /\ extCoreID[q] = s)
            /\ <<q, "BEGIN_REQ">> \in m_peq'[s] <=> <<q, "BEGIN_REQ">> \in m_peq[s]
    BY <1>1
  <1>3. \A p \in S : /\ extCoreID[p] \in Socket /\ ~Requested(p)
                     /\ Served(extCoreID[p], p) /\ response_in_progress[extCoreID[p]]
    <2> TAKE p \in S
    <2>1. PICK s \in Socket : Served(s, p) /\ response_in_progress[s]
      BY Progress DEF IndInv
    <2>2. extCoreID[p] = s /\ ~Requested(p)
      BY <2>1, Zenon DEF IndInv, QueueInv, QueueOK
    <2> QED
      BY <2>1, <2>2
  <1>4. \A q \in Payload \ S : extCoreID'[q] = extCoreID[q]
    BY DEF SP!release, SP!LastReference
  <1>5. \A q \in Payload : Requested(q)' <=> Requested(q)
    BY <1>1, <1>2 DEF Requested
  <1>6. \A s \in Socket, q \in Payload : Served(s, q)' <=> Served(s, q) /\ q \notin S
    <2> TAKE s \in Socket, q \in Payload
    <2>1. CASE q \in S
      <3>1. Served(s, q) => extCoreID[q] = s
        BY Zenon DEF IndInv, QueueInv, QueueOK
      <3>2. ASSUME Served(s, q)' PROVE FALSE
        <4>1. transaction_in_progress[s] = q /\ ~EndRespQueued(s)'
          BY <1>1, <3>2 DEF Served
        <4>2. ~EndRespQueued(s) /\ extCoreID[q] # s
          BY <1>2, <2>1, <4>1 DEF EndRespQueued
        <4> QED
          BY <3>1, <4>1, <4>2 DEF Served
      <3> QED
        BY <2>1, <3>2
    <2>2. CASE q \notin S
      <3>1. ASSUME Served(s, q) PROVE Served(s, q)'
        <4>1. transaction_in_progress[s] = q /\ ~EndRespQueued(s)
          BY <3>1 DEF Served
        <4>2. \A p \in S : extCoreID[p] # s
          BY <1>3, <2>2, <4>1 DEF Served
        <4>3. ~EndRespQueued(s)'
          BY <1>2, <4>1, <4>2 DEF EndRespQueued
        <4> QED
          BY <1>1, <4>1, <4>3 DEF Served
      <3>2. ASSUME Served(s, q)' PROVE Served(s, q)
        BY <1>1, <1>2, <3>2 DEF Served, EndRespQueued
      <3> QED
        BY <2>2, <3>1, <3>2
    <2> QED
      BY <2>1, <2>2
  <1>7. R!RouterTypeOK' /\ RouterInv'
    BY <1>1 DEF IndInv, R!RouterTypeOK, RouterInv, RouterOK
  <1>8. QueueInv'
    <2> SUFFICES ASSUME NEW s \in Socket, NEW q \in Payload
                 PROVE  QueueOK(s, q)'
      BY Zenon DEF QueueInv
    <2>1. <<q, "END_RESP">> \in m_peq'[s] => response_in_progress'[s] /\ transaction_in_progress'[s] = q
      <3>1. CASE <<q, "END_RESP">> \in m_peq[s]
        BY <1>1, <3>1 DEF IndInv, QueueInv, QueueOK
      <3>2. CASE q \in S /\ extCoreID[q] = s
        BY <1>1, <1>3, <3>2 DEF Served
      <3> QED
        BY <1>2, <3>1, <3>2
    <2>2. <<q, "BEGIN_REQ">> \in m_peq'[s] => extCoreID'[q] = s /\ end_req_pending'[s] # q
      <3>1. <<q, "BEGIN_REQ">> \in m_peq[s] => q \notin S /\ extCoreID[q] = s /\ end_req_pending[s] # q
        BY <1>3 DEF IndInv, QueueInv, QueueOK, Requested
      <3> QED
        BY <1>1, <1>2, <1>4, <3>1
    <2>3. end_req_pending'[s] = q => extCoreID'[q] = s
      <3>1. end_req_pending[s] = q => q \notin S /\ extCoreID[q] = s
        BY <1>3 DEF IndInv, QueueInv, QueueOK, Requested
      <3> QED
        BY <1>1, <1>4, <3>1
    <2>4. Served(s, q)' => extCoreID'[q] = s /\ ~Requested(q)'
      <3>1. Served(s, q) => extCoreID[q] = s /\ ~Requested(q)
        BY Zenon DEF IndInv, QueueInv, QueueOK
      <3> QED
        BY <1>4, <1>5, <1>6, <3>1
    <2> QED
      BY <2>1, <2>2, <2>3, <2>4 DEF QueueOK
  <1>9. ASSUME NEW q \in Payload PROVE tgt'[q] = IF q \in S THEN "idle" ELSE tgt[q]
    <2>1. CASE q \in S
      BY <1>3, <1>5, <1>6, <1>8, <2>1, ProgressAfter
    <2>2. CASE q \notin S
      <3>1. Requested(q)' <=> Requested(q)
        BY <1>5
      <3>2. \A s \in Socket : Served(s, q)' <=> Served(s, q)
        BY <1>6, <2>2
      <3>3. QueueInv /\ response_in_progress' = response_in_progress
        BY <1>1 DEF IndInv
      <3> QED
        BY <1>8, <2>2, <3>1, <3>2, <3>3, Progress, ProgressAfter, TgtFunction
    <2> QED
      BY <2>1, <2>2
  <1>10. tgt' = [p \in Payload |-> IF p \in S THEN "idle" ELSE tgt[p]]
    BY <1>9, TgtFunction
  <1>11. tgtHolds' = tgtHolds
    BY <1>1 DEF tgtHolds
  <1> QED
    BY <1>7, <1>8, <1>10, <1>11

\* pec() ends the response it has passed on.
LEMMA RespondedStep ==
    ASSUME IndInv, UNCHANGED fatal, NEW p \in Payload, SP!pec_responded(p),
           R!nb_transport_fw(toRouter(extCoreID[p], p, "END_RESP"))
    PROVE  SP!Next /\ IndInv'
  <1>1. tgt[p] = "resp" /\ SP!release({p})
    BY DEF SP!pec_responded, IndInv, SP!IndInv, SP!ResponseInv
  <1>2. R!nb_transport_fw([s \in Socket |->
            {<<r, "END_RESP">> : r \in {q \in {p} : extCoreID[q] = s}}])
    <2>1. toRouter(extCoreID[p], p, "END_RESP")
              = [s \in Socket |-> {<<r, "END_RESP">> : r \in {q \in {p} : extCoreID[q] = s}}]
      BY DEF toRouter
    <2> QED
      BY <2>1
  <1>3. /\ tgt' = [q \in Payload |-> IF q \in {p} THEN "idle" ELSE tgt[q]]
        /\ tgtHolds' = tgtHolds
        /\ R!RouterTypeOK' /\ RouterInv' /\ QueueInv'
    BY <1>1, <1>2, EndRespStep
  <1>4. SP!PecResponded(p)
    <2>1. tgt' = [tgt EXCEPT ![p] = "idle"]
      BY <1>3, TgtFunction
    <2> QED
      BY <1>3, <2>1 DEF SP!PecResponded
  <1>5. SP!Next
    BY <1>4 DEF SP!Next, SP!EventNext
  <1>6. SP!IndInv'
    BY <1>5, PortStep DEF IndInv
  <1> QED
    BY <1>3, <1>5, <1>6 DEF IndInv

\* recvRespRetry ends all refused responses.
LEMMA RespRetryStep ==
    ASSUME IndInv, RecvRespRetry
    PROVE  SP!Next /\ IndInv'
  <1> DEFINE S == SP!BlockingResponses
  <1>1. S \in SUBSET Payload /\ \A p \in S : tgt[p] = "resp"
    BY DEF SP!BlockingResponses, IndInv, SP!IndInv, SP!ResponseInv
  <1>2. SP!recvRespRetry(S) /\ SP!release(S) /\ UNCHANGED fatal
    BY DEF RecvRespRetry, SP!recvRespRetry
  <1>3. R!nb_transport_fw([s \in Socket |-> {<<p, "END_RESP">> : p \in {q \in S : extCoreID[q] = s}}])
    BY DEF RecvRespRetry
  <1>4. /\ tgt' = [p \in Payload |-> IF p \in S THEN "idle" ELSE tgt[p]]
        /\ tgtHolds' = tgtHolds
        /\ R!RouterTypeOK' /\ RouterInv' /\ QueueInv'
    <2> HIDE DEF S
    <2> QED
      BY <1>1, <1>2, <1>3, EndRespStep
  <1>5. SP!RecvRespRetry
    BY <1>2, <1>4 DEF SP!RecvRespRetry
  <1>6. SP!Next
    BY <1>5 DEF SP!Next, SP!GemNext
  <1>7. SP!IndInv'
    BY <1>6, PortStep DEF IndInv
  <1> QED
    BY <1>2, <1>4, <1>6, <1>7 DEF IndInv

(***************************************************************************)
(* The steps of the routers.                                               *)
(***************************************************************************)
\* The target stays where it is with a payload that a step leaves alone.
LEMMA TgtKept ==
    ASSUME QueueInv, QueueInv', NEW q \in Payload,
           Requested(q)' <=> Requested(q),
           \A s \in Socket : Served(s, q)' <=> Served(s, q),
           \A s \in Socket : Served(s, q) => (response_in_progress'[s] <=> response_in_progress[s])
    PROVE  tgt'[q] = tgt[q]
  BY Progress, ProgressAfter, TgtFunction

\* A request in m_peq is the only one of its socket that waits, and the router
\* has not acquired it yet.
LEMMA NewRequest ==
    ASSUME IndInv, NEW s \in Socket, NEW p \in Payload, <<p, "BEGIN_REQ">> \in m_peq[s]
    PROVE  /\ tgt[p] = "req" /\ Requested(p) /\ extCoreID[p] = s
           /\ p \notin tgtHolds
           /\ end_req_pending[s] = NULL
           /\ \A t \in Socket, q \in Payload :
                  <<q, "BEGIN_REQ">> \in m_peq[t] /\ (q = p \/ t = s) => q = p /\ t = s
  <1>1. Requested(p) /\ tgt[p] = "req"
    BY Progress DEF IndInv, Requested
  <1>2. extCoreID[p] = s /\ end_req_pending[s] # p
    BY DEF IndInv, QueueInv, QueueOK
  <1>3. \A q \in Payload : tgt[q] = "req" /\ extCoreID[q] = s => q = p
    BY <1>1, <1>2 DEF IndInv, SP!IndInv, SP!BlockingInv
  <1>4. \A q \in Payload : Requested(q) => tgt[q] = "req"
    BY Progress DEF IndInv
  <1>5. end_req_pending[s] = NULL
    <2>1. end_req_pending[s] \in Payload \cup {NULL}
      BY DEF IndInv, R!RouterTypeOK
    <2>2. ASSUME NEW q \in Payload, end_req_pending[s] = q PROVE FALSE
      <3>1. Requested(q) /\ extCoreID[q] = s
        BY <2>2 DEF Requested, IndInv, QueueInv, QueueOK
      <3> QED
        BY <1>2, <1>3, <1>4, <2>2, <3>1
    <2> QED
      BY <2>1, <2>2
  <1>6. \A t \in Socket : end_req_pending[t] # p
    BY <1>2 DEF IndInv, QueueInv, QueueOK
  <1>7. \A t \in Socket : transaction_in_progress[t] = p => response_in_progress[t]
    <2> SUFFICES ASSUME NEW t \in Socket, transaction_in_progress[t] = p, ~response_in_progress[t]
                 PROVE  FALSE
      OBVIOUS
    <2>1. ~EndRespQueued(t)
      BY DEF IndInv, QueueInv, QueueOK, EndRespQueued
    <2>2. Served(t, p)
      BY <2>1 DEF Served
    <2> QED
      BY <1>1, <2>2, Zenon DEF IndInv, QueueInv, QueueOK
  <1>8. p \notin tgtHolds
    BY <1>6, <1>7 DEF tgtHolds
  <1>9. \A t \in Socket, q \in Payload : <<q, "BEGIN_REQ">> \in m_peq[t] => extCoreID[q] = t /\ Requested(q)
    BY DEF IndInv, QueueInv, QueueOK, Requested
  <1> QED
    BY <1>1, <1>2, <1>3, <1>4, <1>5, <1>8, <1>9

\* peq_cb(BEGIN_REQ) when the router is busy: the request is acquired and waits.
LEMMA RequestWaitsStep ==
    ASSUME IndInv, NEW s \in Socket, NEW p \in Payload, PeqBeginReq(s, p), ~R!free(s)
    PROVE  SP!Next /\ IndInv'
  <1>1. <<p, "BEGIN_REQ">> \in m_peq[s]
    BY DEF PeqBeginReq, R!peq_cb_BEGIN_REQ, R!take
  <1>2. /\ tgt[p] = "req" /\ Requested(p) /\ extCoreID[p] = s /\ p \notin tgtHolds
        /\ end_req_pending[s] = NULL
        /\ \A t \in Socket, q \in Payload :
               <<q, "BEGIN_REQ">> \in m_peq[t] /\ (q = p \/ t = s) => q = p /\ t = s
    BY <1>1, NewRequest
  <1>3. /\ m_peq' = [m_peq EXCEPT ![s] = @ \ {<<p, "BEGIN_REQ">>}]
        /\ end_req_pending' = [end_req_pending EXCEPT ![s] = p]
        /\ UNCHANGED <<transaction_in_progress, response_in_progress, next_response_pending,
                       target_done_event, thread, fatal, extCoreID>>
    BY DEF PeqBeginReq, R!peq_cb_BEGIN_REQ, R!take
  <1>4. R!RouterTypeOK'
    BY <1>3 DEF IndInv, R!RouterTypeOK
  <1>5. /\ \A t \in Socket : end_req_pending'[t] = IF t = s THEN p ELSE end_req_pending[t]
        /\ \A t \in Socket, q \in Payload :
               /\ <<q, "END_RESP">> \in m_peq'[t] <=> <<q, "END_RESP">> \in m_peq[t]
               /\ <<q, "BEGIN_REQ">> \in m_peq'[t] <=> <<q, "BEGIN_REQ">> \in m_peq[t] /\ t # s
    BY <1>2, <1>3 DEF IndInv, R!RouterTypeOK
  <1>6. \A q \in Payload : Requested(q)' <=> Requested(q)
    BY <1>2, <1>5, Constants DEF Requested
  <1>7. \A t \in Socket, q \in Payload : Served(t, q)' <=> Served(t, q)
    BY <1>3, <1>5 DEF Served, EndRespQueued
  <1>8. RouterInv'
    BY <1>3, <1>5 DEF IndInv, RouterInv, RouterOK, R!free
  <1>9. QueueInv'
    <2> SUFFICES ASSUME NEW t \in Socket, NEW q \in Payload
                 PROVE  QueueOK(t, q)'
      BY Zenon DEF QueueInv
    <2>0. /\ <<q, "END_RESP">> \in m_peq[t] => response_in_progress[t] /\ transaction_in_progress[t] = q
          /\ <<q, "BEGIN_REQ">> \in m_peq[t] => extCoreID[q] = t /\ end_req_pending[t] # q
          /\ end_req_pending[t] = q => extCoreID[q] = t
          /\ Served(t, q) => extCoreID[q] = t /\ ~Requested(q)
      BY Zenon DEF IndInv, QueueInv, QueueOK
    <2>1. Served(t, q)' => extCoreID'[q] = t /\ ~Requested(q)'
      BY <1>3, <1>6, <1>7, <2>0
    <2> QED
      BY <1>2, <1>3, <1>5, <2>0, <2>1 DEF QueueOK
  <1>10. tgt' = tgt
    <2>1. ASSUME NEW q \in Payload PROVE tgt'[q] = tgt[q]
      BY <1>3, <1>6, <1>7, <1>9, TgtKept DEF IndInv
    <2> QED
      BY <2>1, TgtFunction
  <1>11. tgtHolds' = tgtHolds \cup {p}
    BY <1>2, <1>3, <1>5, Constants DEF tgtHolds
  <1>12. SP!Next
    <2>1. refCount' = [refCount EXCEPT ![p] = @ + 1 - 0]
      BY DEF PeqBeginReq, IndInv, SP!IndInv, SP!TypeOK
    <2>2. SP!hold(p, TRUE)
      BY <1>2, <1>11, <2>1 DEF SP!hold
    <2>3. SP!targetFrame /\ UNCHANGED pe /\ SP!Ready
      BY DEF PeqBeginReq, routerFrame, helperVars, frameVars, SP!targetFrame, SP!helperVars,
             SP!mmVars, SP!frameVars, SP!peerVars
    <2>4. SP!TargetAcquire(p)
      BY <1>2, <1>10, <2>2, <2>3 DEF SP!TargetAcquire
    <2> QED
      BY <2>4 DEF SP!Next, SP!TargetNext
  <1>13. SP!IndInv'
    BY <1>12, PortStep DEF IndInv
  <1> QED
    BY <1>3, <1>4, <1>8, <1>9, <1>12, <1>13 DEF IndInv

\* peq_cb(BEGIN_REQ) when the router is free: END_REQ at once.
LEMMA RequestBeginsStep ==
    ASSUME IndInv, NEW s \in Socket, NEW p \in Payload, PeqBeginReq(s, p), R!free(s)
    PROVE  SP!Next /\ IndInv'
  <1>1. <<p, "BEGIN_REQ">> \in m_peq[s]
    BY DEF PeqBeginReq, R!peq_cb_BEGIN_REQ, R!take
  <1>2. /\ tgt[p] = "req" /\ Requested(p) /\ extCoreID[p] = s /\ p \notin tgtHolds
        /\ end_req_pending[s] = NULL
        /\ \A t \in Socket, q \in Payload :
               <<q, "BEGIN_REQ">> \in m_peq[t] /\ (q = p \/ t = s) => q = p /\ t = s
    BY <1>1, NewRequest
  <1>3. /\ m_peq' = [m_peq EXCEPT ![s] = @ \ {<<p, "BEGIN_REQ">>}]
        /\ transaction_in_progress' = [transaction_in_progress EXCEPT ![s] = p]
        /\ target_done_event' = [target_done_event EXCEPT ![s] = TRUE]
        /\ UNCHANGED <<end_req_pending, response_in_progress, next_response_pending,
                       thread, fatal, extCoreID>>
    BY DEF PeqBeginReq, R!peq_cb_BEGIN_REQ, R!take, R!send_end_req
  <1>4. R!RouterTypeOK'
    BY <1>3 DEF IndInv, R!RouterTypeOK
  <1>5. /\ \A t \in Socket : /\ transaction_in_progress'[t] = IF t = s THEN p ELSE transaction_in_progress[t]
                             /\ target_done_event'[t] = IF t = s THEN TRUE ELSE target_done_event[t]
        /\ \A t \in Socket, q \in Payload :
               /\ <<q, "END_RESP">> \in m_peq'[t] <=> <<q, "END_RESP">> \in m_peq[t]
               /\ <<q, "BEGIN_REQ">> \in m_peq'[t] <=> <<q, "BEGIN_REQ">> \in m_peq[t] /\ t # s
    BY <1>2, <1>3 DEF IndInv, R!RouterTypeOK
  <1>a. /\ transaction_in_progress[s] = NULL /\ ~response_in_progress[s]
        /\ ~target_done_event[s] /\ thread[s] # "execute" /\ next_response_pending[s] = NULL
    BY DEF R!free, IndInv, RouterInv, RouterOK
  <1>b. ~EndRespQueued(s)
    BY <1>a DEF IndInv, QueueInv, QueueOK, EndRespQueued
  <1>c. \A t \in Socket : end_req_pending[t] # p
    <2>1. \A t \in Socket : end_req_pending[t] = p => extCoreID[p] = t
      BY DEF IndInv, QueueInv, QueueOK
    <2> QED
      BY <1>2, <2>1, Constants
  <1>6. \A q \in Payload : Requested(q)' <=> Requested(q) /\ q # p
    BY <1>2, <1>3, <1>5, <1>c DEF Requested
  <1>7. \A t \in Socket, q \in Payload : Served(t, q)' <=> Served(t, q) \/ (t = s /\ q = p)
    <2>1. \A t \in Socket : EndRespQueued(t)' <=> EndRespQueued(t)
      BY <1>5 DEF EndRespQueued
    <2> QED
      BY <1>5, <1>a, <1>b, <2>1, Constants DEF Served
  <1>8. RouterInv'
    <2> SUFFICES ASSUME NEW t \in Socket
                 PROVE  RouterOK(t)'
      BY DEF RouterInv
    <2>1. CASE t = s
      BY <1>3, <1>5, <1>a, <2>1, Constants DEF RouterOK
    <2>2. CASE t # s
      BY <1>3, <1>5, <2>2 DEF IndInv, RouterInv, RouterOK
    <2> QED
      BY <2>1, <2>2 DEF RouterOK
  <1>9. QueueInv'
    <2> SUFFICES ASSUME NEW t \in Socket, NEW q \in Payload
                 PROVE  QueueOK(t, q)'
      BY Zenon DEF QueueInv
    <2>0. /\ <<q, "END_RESP">> \in m_peq[t] => response_in_progress[t] /\ transaction_in_progress[t] = q
          /\ <<q, "BEGIN_REQ">> \in m_peq[t] => extCoreID[q] = t /\ end_req_pending[t] # q
          /\ end_req_pending[t] = q => extCoreID[q] = t
          /\ Served(t, q) => extCoreID[q] = t /\ ~Requested(q)
      BY Zenon DEF IndInv, QueueInv, QueueOK
    <2>1. Served(t, q)' => extCoreID'[q] = t /\ ~Requested(q)'
      BY <1>2, <1>3, <1>6, <1>7, <2>0
    <2> QED
      BY <1>3, <1>5, <1>a, <2>0, <2>1 DEF QueueOK
  <1>10. tgt' = [tgt EXCEPT ![p] = "ended"]
    <2>1. ASSUME NEW q \in Payload, q # p PROVE tgt'[q] = tgt[q]
      BY <1>3, <1>6, <1>7, <1>9, <2>1, TgtKept DEF IndInv
    <2>2. Served(s, p)' /\ ~response_in_progress'[s]
      BY <1>3, <1>7, <1>a
    <2>3. tgt'[p] = "ended"
      BY <1>9, <2>2, ProgressAfter
    <2> QED
      BY <2>1, <2>3, TgtFunction
  <1>11. tgtHolds' = tgtHolds \cup {p}
    <2>1. \A t \in Socket, q \in Payload :
              (transaction_in_progress'[t] = q /\ ~response_in_progress'[t])
                  <=> (transaction_in_progress[t] = q /\ ~response_in_progress[t]) \/ (t = s /\ q = p)
      BY <1>3, <1>5, <1>a, Constants
    <2> QED
      BY <1>3, <2>1 DEF tgtHolds
  <1>12. SP!Next
    <2>1. refCount' = [refCount EXCEPT ![p] = @ + 1 - 0]
      BY DEF PeqBeginReq, IndInv, SP!IndInv, SP!TypeOK
    <2>2. SP!hold(p, TRUE)
      BY <1>2, <1>11, <2>1 DEF SP!hold
    <2>3. SP!targetFrame /\ SP!nb_transport_bw(p, "END_REQ") /\ SP!Ready
      BY DEF PeqBeginReq, routerFrame, helperVars, frameVars, SP!targetFrame, SP!helperVars,
             SP!mmVars, SP!frameVars, SP!peerVars
    <2>4. SP!TargetEndReq(p)
      BY <1>2, <1>10, <2>2, <2>3 DEF SP!TargetEndReq
    <2> QED
      BY <2>4 DEF SP!Next, SP!TargetNext
  <1>13. SP!IndInv'
    BY <1>12, PortStep DEF IndInv
  <1> QED
    BY <1>3, <1>4, <1>8, <1>9, <1>12, <1>13 DEF IndInv

\* peq_cb(END_RESP) ends the response in progress; the router is free, or the
\* request that waited begins.
LEMMA PeqEndRespStep ==
    ASSUME IndInv, NEW s \in Socket, NEW p \in Payload, PeqEndResp(s, p)
    PROVE  (SP!Next \/ UNCHANGED SP!vars) /\ IndInv'
  <1>r. PICK r \in Payload \cup {NULL} : end_req_pending[s] = r
    BY DEF IndInv, R!RouterTypeOK
  <1>1. <<p, "END_RESP">> \in m_peq[s]
    BY DEF PeqEndResp, R!peq_cb_END_RESP, R!take
  <1>2. /\ response_in_progress[s] /\ transaction_in_progress[s] = p
        /\ next_response_pending[s] = NULL /\ ~target_done_event[s] /\ thread[s] # "execute"
    BY <1>1 DEF IndInv, QueueInv, QueueOK, RouterInv, RouterOK
  <1>4. /\ m_peq' = [m_peq EXCEPT ![s] = @ \ {<<p, "END_RESP">>}]
        /\ response_in_progress' = [response_in_progress EXCEPT ![s] = FALSE]
        /\ next_response_pending' = [next_response_pending EXCEPT ![s] = NULL]
        /\ end_req_pending' = [end_req_pending EXCEPT ![s] = NULL]
        /\ transaction_in_progress' = [transaction_in_progress EXCEPT ![s] = r]
        /\ target_done_event' = [target_done_event EXCEPT ![s] = (r # NULL)]
        /\ UNCHANGED <<thread, fatal>>
    <2>1. target_done_event = [target_done_event EXCEPT ![s] = FALSE]
      BY <1>2 DEF IndInv, R!RouterTypeOK
    <2>2. CASE r = NULL
      BY <1>r, <1>2, <2>1, <2>2 DEF PeqEndResp, R!peq_cb_END_RESP, R!take, R!next_request
    <2>3. CASE r # NULL
      BY <1>r, <1>2, <2>3 DEF PeqEndResp, R!peq_cb_END_RESP, R!take, R!next_request, R!send_end_req
    <2> QED
      BY <2>2, <2>3
  <1>5. /\ UNCHANGED <<refCount, allocated, freePayloads, extPacket, extCoreID>>
        /\ pe' = [q \in Payload |-> pe[q] \cup (IF q = r THEN {"END_REQ"} ELSE {})]
    <2>1. {next_response_pending[s]} \cap Payload = {}
      BY <1>2, Constants
    <2>2. SP!release({})
      BY <2>1 DEF PeqEndResp
    <2>3. SP!LastReference({}) = {}
      BY DEF SP!LastReference
    <2>4. UNCHANGED <<refCount, allocated, freePayloads, extPacket, extCoreID>>
      BY <2>2, <2>3 DEF SP!release, IndInv, SP!IndInv, SP!TypeOK
    <2>5. pe' = [q \in Payload |-> pe[q] \cup {} \cup (IF q = r THEN {"END_REQ"} ELSE {})]
      BY <1>r, <1>2, Constants DEF PeqEndResp
    <2> QED
      BY <2>4, <2>5
  <1>6. R!RouterTypeOK'
    BY <1>4 DEF IndInv, R!RouterTypeOK
  <1>7. /\ \A t \in Socket :
               /\ transaction_in_progress'[t] = IF t = s THEN r ELSE transaction_in_progress[t]
               /\ target_done_event'[t] = IF t = s THEN (r # NULL) ELSE target_done_event[t]
               /\ response_in_progress'[t] = IF t = s THEN FALSE ELSE response_in_progress[t]
               /\ end_req_pending'[t] = IF t = s THEN NULL ELSE end_req_pending[t]
               /\ next_response_pending'[t] = IF t = s THEN NULL ELSE next_response_pending[t]
               /\ thread'[t] = thread[t]
    BY <1>4 DEF IndInv, R!RouterTypeOK
  <1>8. \A t \in Socket, q \in Payload :
            /\ <<q, "END_RESP">> \in m_peq'[t] <=> <<q, "END_RESP">> \in m_peq[t] /\ t # s
            /\ <<q, "BEGIN_REQ">> \in m_peq'[t] <=> <<q, "BEGIN_REQ">> \in m_peq[t]
    <2>1. \A q \in Payload : <<q, "END_RESP">> \in m_peq[s] => q = p
      BY <1>2 DEF IndInv, QueueInv, QueueOK
    <2> QED
      BY <1>4, <2>1 DEF IndInv, R!RouterTypeOK
  <1>9. RouterInv'
    <2> SUFFICES ASSUME NEW t \in Socket
                 PROVE  RouterOK(t)'
      BY DEF RouterInv
    <2>1. CASE t = s
      BY <1>2, <1>7, <2>1 DEF RouterOK
    <2>2. CASE t # s
      BY <1>7, <2>2 DEF IndInv, RouterInv, RouterOK
    <2> QED
      BY <2>1, <2>2 DEF RouterOK
  <1>10. /\ EndRespQueued(s) /\ ~EndRespQueued(s)'
         /\ \A t \in Socket \ {s} : EndRespQueued(t)' <=> EndRespQueued(t)
    BY <1>1, <1>8 DEF EndRespQueued
  <1>11. \A t \in Socket, q \in Payload : Served(t, q)' <=> Served(t, q) \/ (t = s /\ q = r)
    BY <1>7, <1>10 DEF Served
  <1>12. r # NULL => /\ r \in Payload /\ extCoreID[r] = s /\ tgt[r] = "req" /\ Requested(r)
                     /\ \A t \in Socket : <<r, "BEGIN_REQ">> \notin m_peq[t]
                     /\ \A t \in Socket : end_req_pending[t] = r <=> t = s
    <2> SUFFICES ASSUME r # NULL
                 PROVE  /\ r \in Payload /\ extCoreID[r] = s /\ tgt[r] = "req" /\ Requested(r)
                        /\ \A t \in Socket : <<r, "BEGIN_REQ">> \notin m_peq[t]
                        /\ \A t \in Socket : end_req_pending[t] = r <=> t = s
      OBVIOUS
    <2>1. r \in Payload /\ end_req_pending[s] = r
      BY <1>r
    <2>2. Requested(r)
      BY <2>1 DEF Requested
    <2>3. tgt[r] = "req"
      BY <2>1, <2>2, Progress DEF IndInv
    <2>4. \A t \in Socket : /\ <<r, "BEGIN_REQ">> \in m_peq[t] => extCoreID[r] = t /\ end_req_pending[t] # r
                            /\ end_req_pending[t] = r => extCoreID[r] = t
      BY <2>1 DEF IndInv, QueueInv, QueueOK
    <2> QED
      BY <2>1, <2>2, <2>3, <2>4
  <1>13. \A q \in Payload : Requested(q)' <=> Requested(q) /\ q # r
    <2> TAKE q \in Payload
    <2>1. CASE q = r
      <3>1. r # NULL
        BY <2>1, Constants
      <3> QED
        <4>1. \A t \in Socket : end_req_pending'[t] # r /\ <<r, "BEGIN_REQ">> \notin m_peq'[t]
          <5> TAKE t \in Socket
          <5>1. r \in Payload /\ <<r, "BEGIN_REQ">> \notin m_peq[t] /\ (end_req_pending[t] = r <=> t = s)
            BY <1>12, <3>1
          <5>2. end_req_pending'[t] # r
            BY <1>7, <3>1, <5>1
          <5> QED
            BY <1>8, <5>1, <5>2
        <4> QED
          BY <2>1, <4>1 DEF Requested
    <2>2. CASE q # r
      <3>1. end_req_pending[s] # q
        BY <1>r, <2>2
      <3> QED
        BY <1>7, <1>8, <2>2, <3>1, Constants DEF Requested
    <2> QED
      BY <2>1, <2>2
  <1>14. QueueInv'
    <2> SUFFICES ASSUME NEW t \in Socket, NEW q \in Payload
                 PROVE  QueueOK(t, q)'
      BY Zenon DEF QueueInv
    <2>0. /\ <<q, "END_RESP">> \in m_peq[t] => response_in_progress[t] /\ transaction_in_progress[t] = q
          /\ <<q, "BEGIN_REQ">> \in m_peq[t] => extCoreID[q] = t /\ end_req_pending[t] # q
          /\ end_req_pending[t] = q => extCoreID[q] = t
          /\ Served(t, q) => extCoreID[q] = t /\ ~Requested(q)
      BY Zenon DEF IndInv, QueueInv, QueueOK
    <2>1. Served(t, q)' => extCoreID'[q] = t /\ ~Requested(q)'
      BY <1>5, <1>11, <1>12, <1>13, <2>0, Constants
    <2>2. <<q, "END_RESP">> \in m_peq'[t] => response_in_progress'[t] /\ transaction_in_progress'[t] = q
      BY <1>7, <1>8, <2>0
    <2>3. <<q, "BEGIN_REQ">> \in m_peq'[t] => extCoreID'[q] = t /\ end_req_pending'[t] # q
      BY <1>5, <1>7, <1>8, <2>0, Constants
    <2>4. end_req_pending'[t] = q => extCoreID'[q] = t
      BY <1>5, <1>7, <2>0, Constants
    <2> QED
      BY <2>1, <2>2, <2>3, <2>4 DEF QueueOK
  <1>15. \A q \in Payload : q # r => tgt'[q] = tgt[q]
    <2> SUFFICES ASSUME NEW q \in Payload, q # r PROVE tgt'[q] = tgt[q]
      OBVIOUS
    <2>1. \A t \in Socket : Served(t, q)' <=> Served(t, q)
      BY <1>11
    <2>2. \A t \in Socket : Served(t, q) => (response_in_progress'[t] <=> response_in_progress[t])
      BY <1>7, <1>10 DEF Served
    <2> QED
      BY <1>13, <1>14, <2>1, <2>2, TgtKept DEF IndInv
  <1>16. tgtHolds' = tgtHolds
    <2> SUFFICES ASSUME NEW q \in Payload PROVE q \in tgtHolds' <=> q \in tgtHolds
      BY DEF tgtHolds
    <2>1. q \in tgtHolds <=> \E t \in Socket : \/ end_req_pending[t] = q
                                               \/ transaction_in_progress[t] = q /\ ~response_in_progress[t]
      BY DEF tgtHolds
    <2>2. q \in tgtHolds' <=> \E t \in Socket : \/ end_req_pending'[t] = q
                                                \/ transaction_in_progress'[t] = q /\ ~response_in_progress'[t]
      BY DEF tgtHolds
    <2> QED
      <3>1. ASSUME NEW t \in Socket
            PROVE  (end_req_pending'[t] = q \/ (transaction_in_progress'[t] = q /\ ~response_in_progress'[t]))
                   <=> (end_req_pending[t] = q \/ (transaction_in_progress[t] = q /\ ~response_in_progress[t]))
        <4>1. CASE t = s
          BY <1>r, <1>2, <1>7, <4>1, Constants
        <4>2. CASE t # s
          BY <1>7, <4>2
        <4> QED
          BY <4>1, <4>2
      <3> QED
        BY <2>1, <2>2, <3>1
  <1>17. SP!targetFrame /\ SP!Ready
    BY <1>5 DEF PeqEndResp, routerFrame, helperVars, frameVars, SP!targetFrame, SP!helperVars,
           SP!mmVars, SP!frameVars, SP!peerVars
  <1>18. SP!Next \/ UNCHANGED SP!vars
    <2>1. CASE r = NULL
      <3>1. tgt' = tgt
        BY <1>15, <2>1, Constants, TgtFunction
      <3>2. pe' = pe
        BY <1>5, <2>1, Constants DEF IndInv, SP!IndInv, SP!TypeOK
      <3> QED
        BY <1>5, <1>16, <1>17, <3>1, <3>2 DEF SP!vars, SP!portVars, SP!tgtVars, SP!targetFrame,
           SP!helperVars, SP!mmVars, SP!payVars, SP!frameVars, SP!peerVars
    <2>2. CASE r # NULL
      <3>1. tgt' = [tgt EXCEPT ![r] = "ended"]
        <4>1. Served(s, r)' /\ ~response_in_progress'[s]
          BY <1>7, <1>11, <1>12, <2>2
        <4>2. tgt'[r] = "ended"
          BY <1>12, <1>14, <2>2, <4>1, ProgressAfter
        <4> QED
          BY <1>15, <4>2, TgtFunction
      <3>2. r \in tgtHolds
        BY <1>12, <2>2 DEF tgtHolds
      <3>3. refCount' = [refCount EXCEPT ![r] = @ + 1 - 1]
        BY <1>5, <1>12, <2>2 DEF IndInv, SP!IndInv, SP!TypeOK
      <3>4. SP!hold(r, TRUE)
        BY <1>16, <3>2, <3>3 DEF SP!hold
      <3>5. SP!nb_transport_bw(r, "END_REQ")
        BY <1>5, <1>12, <2>2 DEF SP!nb_transport_bw, IndInv, SP!IndInv, SP!TypeOK
      <3>6. SP!TargetEndReq(r)
        BY <1>12, <1>17, <2>2, <3>1, <3>4, <3>5 DEF SP!TargetEndReq
      <3> QED
        BY <1>12, <2>2, <3>6 DEF SP!Next, SP!TargetNext
    <2> QED
      BY <2>1, <2>2
  <1>19. SP!IndInv'
    BY <1>18, PortStep DEF IndInv
  <1> QED
    BY <1>4, <1>6, <1>9, <1>14, <1>18, <1>19 DEF IndInv

\* target_done_event wakes the thread; the port and the target see nothing.
LEMMA TargetDoneStep ==
    ASSUME IndInv, NEW s \in Socket, TargetDone(s)
    PROVE  UNCHANGED SP!vars /\ IndInv'
  <1>1. /\ target_done_event[s]
        /\ target_done_event' = [target_done_event EXCEPT ![s] = FALSE]
        /\ thread' = [thread EXCEPT ![s] = "execute"]
        /\ UNCHANGED <<transaction_in_progress, response_in_progress, next_response_pending,
                       end_req_pending, m_peq, portVars, fatal>>
    BY DEF TargetDone, R!target_done
  <1>2. tgt' = tgt /\ tgtHolds' = tgtHolds
    BY <1>1 DEF tgt, tgtHolds, Requested, Served, EndRespQueued
  <1>3. UNCHANGED SP!vars
    BY <1>1, <1>2 DEF portVars, helperVars, payVars, frameVars, SP!vars, SP!portVars, SP!tgtVars,
       SP!helperVars, SP!mmVars, SP!payVars, SP!frameVars, SP!peerVars
  <1>4. R!RouterTypeOK'
    BY <1>1 DEF IndInv, R!RouterTypeOK
  <1>5. RouterInv'
    <2> SUFFICES ASSUME NEW t \in Socket
                 PROVE  RouterOK(t)'
      BY DEF RouterInv
    <2>1. /\ target_done_event'[t] = IF t = s THEN FALSE ELSE target_done_event[t]
          /\ thread'[t] = IF t = s THEN "execute" ELSE thread[t]
      BY <1>1 DEF IndInv, R!RouterTypeOK
    <2>2. /\ next_response_pending[t] = NULL
          /\ transaction_in_progress[t] = NULL => ~response_in_progress[t] /\ end_req_pending[t] = NULL
          /\ (target_done_event[t] \/ thread[t] = "execute")
                 <=> transaction_in_progress[t] # NULL /\ ~response_in_progress[t]
          /\ ~(target_done_event[t] /\ thread[t] = "execute")
      BY DEF IndInv, RouterInv, RouterOK
    <2> QED
      BY <1>1, <2>1, <2>2 DEF RouterOK
  <1>6. QueueInv'
    BY <1>1 DEF IndInv, QueueInv, QueueOK, Requested, Served, EndRespQueued, portVars, payVars
  <1>7. SP!IndInv'
    BY <1>3, PortStep DEF IndInv
  <1> QED
    BY <1>1, <1>3, <1>4, <1>5, <1>6, <1>7 DEF IndInv

\* The thread of a router works on the transaction in progress, which the
\* router holds and to which no response has been sent.
LEMMA Executing ==
    ASSUME IndInv, NEW s \in Socket, target_done_event[s] \/ thread[s] = "execute",
           NEW p, p = transaction_in_progress[s]
    PROVE  /\ p \in Payload /\ ~response_in_progress[s] /\ ~EndRespQueued(s) /\ Served(s, p)
           /\ extCoreID[p] = s /\ tgt[p] = "ended" /\ p \in tgtHolds /\ refCount[p] = 2
  <1>1. p # NULL /\ ~response_in_progress[s]
    BY DEF IndInv, RouterInv, RouterOK
  <1>2. p \in Payload
    BY <1>1 DEF IndInv, R!RouterTypeOK
  <1>3. ~EndRespQueued(s)
    BY <1>1 DEF IndInv, QueueInv, QueueOK, EndRespQueued
  <1>4. Served(s, p)
    BY <1>3 DEF Served
  <1>5. extCoreID[p] = s
    BY <1>2, <1>4, Zenon DEF IndInv, QueueInv, QueueOK
  <1>6. tgt[p] = "ended"
    BY <1>1, <1>2, <1>4, Progress DEF IndInv
  <1>7. p \in tgtHolds
    BY <1>1, <1>2 DEF tgtHolds
  <1>8. refCount[p] = 2
    BY <1>2, <1>6, <1>7 DEF IndInv, SP!IndInv, SP!PayloadAccounting, SP!Bit, SP!InFlight
  <1> QED
    BY <1>1, <1>2, <1>3, <1>4, <1>5, <1>6, <1>7, <1>8

\* The thread sends BEGIN_RESP, which no other response of the socket can
\* delay, and gives up the router's reference, which is not the last one.
LEMMA ExecuteStep ==
    ASSUME IndInv, NEW s \in Socket, ExecuteTransaction(s)
    PROVE  SP!Next /\ IndInv'
  <1>p. PICK p : p = transaction_in_progress[s]
    OBVIOUS
  <1>1. thread[s] = "execute"
    BY DEF ExecuteTransaction, R!execute_transaction_process
  <1>2. /\ p \in Payload /\ ~response_in_progress[s] /\ ~EndRespQueued(s) /\ Served(s, p)
        /\ extCoreID[p] = s /\ tgt[p] = "ended" /\ p \in tgtHolds /\ refCount[p] = 2
    BY <1>p, <1>1, Executing
  <1>3. /\ response_in_progress' = [response_in_progress EXCEPT ![s] = TRUE]
        /\ thread' = [thread EXCEPT ![s] = "wait"]
        /\ UNCHANGED <<transaction_in_progress, end_req_pending, m_peq, target_done_event,
                       next_response_pending, fatal>>
        /\ SP!nb_transport_bw(p, "BEGIN_RESP") /\ SP!release({p})
    BY <1>p, <1>2 DEF ExecuteTransaction, R!execute_transaction_process
  <1>4. /\ refCount' = [refCount EXCEPT ![p] = @ - 1]
        /\ UNCHANGED <<allocated, freePayloads, extPacket, extCoreID>>
    <2>1. SP!LastReference({p}) = {}
      BY <1>2 DEF SP!LastReference
    <2> QED
      BY <1>2, <1>3, <2>1 DEF SP!release, IndInv, SP!IndInv, SP!TypeOK
  <1>5. R!RouterTypeOK'
    BY <1>3 DEF IndInv, R!RouterTypeOK
  <1>6. \A t \in Socket : /\ response_in_progress'[t] = IF t = s THEN TRUE ELSE response_in_progress[t]
                          /\ thread'[t] = IF t = s THEN "wait" ELSE thread[t]
    BY <1>3 DEF IndInv, R!RouterTypeOK
  <1>7. RouterInv'
    <2> SUFFICES ASSUME NEW t \in Socket
                 PROVE  RouterOK(t)'
      BY DEF RouterInv
    <2>1. /\ next_response_pending[t] = NULL
          /\ transaction_in_progress[t] = NULL => ~response_in_progress[t] /\ end_req_pending[t] = NULL
          /\ (target_done_event[t] \/ thread[t] = "execute")
                 <=> transaction_in_progress[t] # NULL /\ ~response_in_progress[t]
          /\ ~(target_done_event[t] /\ thread[t] = "execute")
      BY DEF IndInv, RouterInv, RouterOK
    <2>2. CASE t = s
      <3>1. transaction_in_progress[t] # NULL /\ ~target_done_event[t]
        BY <1>1, <2>1, <2>2 DEF RouterOK
      <3>2. response_in_progress'[t] /\ thread'[t] = "wait"
        BY <1>6, <2>2 DEF RouterOK
      <3> QED
        BY <1>3, <2>1, <3>1, <3>2 DEF RouterOK
    <2>3. CASE t # s
      BY <1>3, <1>6, <2>1, <2>3 DEF RouterOK
    <2> QED
      BY <2>2, <2>3 DEF RouterOK
  <1>8. /\ \A q \in Payload : Requested(q)' <=> Requested(q)
        /\ \A t \in Socket, q \in Payload : Served(t, q)' <=> Served(t, q)
    BY <1>3 DEF Requested, Served, EndRespQueued
  <1>9. QueueInv'
    <2> SUFFICES ASSUME NEW t \in Socket, NEW q \in Payload
                 PROVE  QueueOK(t, q)'
      BY Zenon DEF QueueInv
    <2>0. /\ <<q, "END_RESP">> \in m_peq[t] => response_in_progress[t] /\ transaction_in_progress[t] = q
          /\ <<q, "BEGIN_REQ">> \in m_peq[t] => extCoreID[q] = t /\ end_req_pending[t] # q
          /\ end_req_pending[t] = q => extCoreID[q] = t
          /\ Served(t, q) => extCoreID[q] = t /\ ~Requested(q)
      BY Zenon DEF IndInv, QueueInv, QueueOK
    <2>1. Served(t, q)' => extCoreID'[q] = t /\ ~Requested(q)'
      BY <1>4, <1>8, <2>0
    <2> QED
      BY <1>3, <1>4, <1>6, <2>0, <2>1 DEF QueueOK
  <1>10. tgt' = [tgt EXCEPT ![p] = "resp"]
    <2>1. ASSUME NEW q \in Payload, q # p PROVE tgt'[q] = tgt[q]
      <3>1. \A t \in Socket : Served(t, q) => (response_in_progress'[t] <=> response_in_progress[t])
        BY <1>p, <1>6, <2>1 DEF Served
      <3> QED
        BY <1>8, <1>9, <3>1, TgtKept DEF IndInv
    <2>2. Served(s, p)' /\ response_in_progress'[s]
      BY <1>2, <1>6, <1>8
    <2>3. tgt'[p] = "resp"
      BY <1>2, <1>9, <2>2, ProgressAfter
    <2> QED
      BY <2>1, <2>3, TgtFunction
  <1>11. tgtHolds' = tgtHolds \ {p}
    <2>1. \A t \in Socket : end_req_pending[t] # p /\ (transaction_in_progress[t] = p /\ ~response_in_progress[t] => t = s)
      <3> TAKE t \in Socket
      <3>1. ~Requested(p)
        BY <1>2, Zenon DEF IndInv, QueueInv, QueueOK
      <3>2. end_req_pending[t] # p
        BY <3>1 DEF Requested
      <3>3. ASSUME transaction_in_progress[t] = p, ~response_in_progress[t] PROVE t = s
        <4>1. Served(t, p)
          BY <1>2, <3>3 DEF Served, IndInv, QueueInv, QueueOK, EndRespQueued
        <4> QED
          BY <1>2, <4>1, Zenon DEF IndInv, QueueInv, QueueOK
      <3> QED
        BY <3>2, <3>3
    <2> QED
      BY <1>p, <1>3, <1>6, <2>1 DEF tgtHolds
  <1>12. SP!Next
    <2>1. refCount' = [refCount EXCEPT ![p] = @ + 0 - 1]
      BY <1>2, <1>4 DEF IndInv, SP!IndInv, SP!TypeOK
    <2>2. SP!hold(p, FALSE)
      BY <1>2, <1>11, <2>1 DEF SP!hold
    <2>3. SP!ResponseFree(extCoreID[p])
      <3> SUFFICES ASSUME NEW q \in Payload, tgt[q] = "resp", extCoreID[q] = s PROVE FALSE
        BY <1>2 DEF SP!ResponseFree
      <3>1. PICK t \in Socket : Served(t, q) /\ response_in_progress[t]
        BY Progress DEF IndInv
      <3>2. extCoreID[q] = t
        BY <3>1, Zenon DEF IndInv, QueueInv, QueueOK
      <3> QED
        BY <1>2, <3>1, <3>2
    <2>4. SP!targetFrame /\ SP!Ready
      BY <1>4 DEF ExecuteTransaction, routerFrame, helperVars, frameVars, SP!targetFrame,
         SP!helperVars, SP!mmVars, SP!frameVars, SP!peerVars
    <2>5. SP!TargetBeginResp(p)
      BY <1>2, <1>3, <1>10, <2>2, <2>3, <2>4 DEF SP!TargetBeginResp
    <2> QED
      BY <1>2, <2>5 DEF SP!Next, SP!TargetNext
  <1>13. SP!IndInv'
    BY <1>12, PortStep DEF IndInv
  <1> QED
    BY <1>3, <1>5, <1>7, <1>9, <1>12, <1>13 DEF IndInv

(***************************************************************************)
(* Every step, and the theorems.                                           *)
(***************************************************************************)
\* The initial states of the composition are initial states of SlavePort.
LEMMA InitStep == Init => SP!Init /\ IndInv
  <1> SUFFICES ASSUME Init PROVE SP!Init /\ IndInv
    OBVIOUS
  <1>1. SP!Init /\ SP!IndInv
    BY PortInit DEF Init
  <1>2. R!RouterTypeOK /\ RouterInv
    BY DEF Init, R!RouterInit, R!RouterTypeOK, RouterInv, RouterOK
  <1>3. QueueInv
    BY Constants DEF Init, R!RouterInit, QueueInv, QueueOK, Served
  <1> QED
    BY <1>1, <1>2, <1>3 DEF IndInv, Init

\* Every step of the composition is a step of SlavePort or leaves it alone, and
\* preserves the invariant.
LEMMA NextStep ==
    ASSUME IndInv, [Next]_vars
    PROVE  (SP!Next \/ UNCHANGED SP!vars) /\ IndInv'
  <1>1. ASSUME NEW k \in Packet, RecvTimingReq(k) PROVE SP!Next /\ IndInv'
    BY <1>1, RefusedStep, AcceptedStep DEF RecvTimingReq
  <1>2. CASE RecvUntimed
    BY <1>2, UntimedStep
  <1>3. CASE RecvRespRetry
    BY <1>3, RespRetryStep
  <1>4. ASSUME NEW p \in Payload, Pec(p) PROVE SP!Next /\ IndInv'
    BY <1>4, PecQuietStep, RespondedStep DEF Pec
  <1>5. ASSUME NEW s \in Socket, NEW p \in Payload, PeqBeginReq(s, p) PROVE SP!Next /\ IndInv'
    BY <1>5, RequestWaitsStep, RequestBeginsStep
  <1>6. ASSUME NEW s \in Socket, NEW p \in Payload, PeqEndResp(s, p)
        PROVE  (SP!Next \/ UNCHANGED SP!vars) /\ IndInv'
    BY <1>6, PeqEndRespStep
  <1>7. ASSUME NEW s \in Socket, TargetDone(s) PROVE UNCHANGED SP!vars /\ IndInv'
    BY <1>7, TargetDoneStep
  <1>8. ASSUME NEW s \in Socket, ExecuteTransaction(s) PROVE SP!Next /\ IndInv'
    BY <1>8, ExecuteStep
  <1>9. CASE UNCHANGED vars
    <2>1. UNCHANGED <<routerVars, fatal, extCoreID>> /\ UNCHANGED portVars
      BY <1>9 DEF vars, portVars, payVars
    <2>2. UNCHANGED SP!vars
      BY <2>1, Untouched DEF portVars, helperVars, payVars, frameVars, SP!vars, SP!portVars,
         SP!tgtVars, SP!helperVars, SP!mmVars, SP!payVars, SP!frameVars, SP!peerVars
    <2> QED
      BY <2>1, <2>2, StillInv
  <1> QED
    BY <1>1, <1>2, <1>3, <1>4, <1>5, <1>6, <1>7, <1>8, <1>9 DEF Next, PeqStep

\* Every reachable state of the port and its routers satisfies the inductive
\* invariant.
THEOREM Invariance == Spec => []IndInv
  <1>1. Init => IndInv
    BY InitStep
  <1>2. IndInv /\ [Next]_vars => IndInv'
    BY NextStep
  <1> QED
    BY <1>1, <1>2, PTL DEF Spec

\* The repository's routers are a target as SlavePort asks for: the port with a
\* router behind every socket implements SlavePort, for any number of sockets,
\* packets and payloads.
THEOREM Refinement == Spec => ImplementsSlavePort
  <1>1. Init => SP!Init
    BY InitStep
  <1>2. IndInv /\ [Next]_vars => [SP!Next]_(SP!vars)
    BY NextStep
  <1> QED
    BY <1>1, <1>2, Invariance, PTL DEF Spec, ImplementsSlavePort, SP!Spec

\* The port and the routers keep their types.
THEOREM TypeCorrect == Spec => []TypeOK
  <1>1. IndInv => TypeOK
    BY DEF IndInv, SP!IndInv, TypeOK
  <1> QED
    BY <1>1, Invariance, PTL

\* Neither fatal report of a router is reached, and no response has to wait.
THEOREM InTurn == Spec => []ResponsesInTurn
  <1>1. IndInv => ResponsesInTurn
    BY DEF IndInv, RouterInv, RouterOK, ResponsesInTurn
  <1> QED
    BY <1>1, Invariance, PTL

\* At most one request of a socket waits for END_REQ: end_req_pending is never
\* overwritten.
THEOREM OneWaits == Spec => []OneRequestWaits
  <1>1. ASSUME IndInv PROVE OneRequestWaits
    <2> SUFFICES ASSUME NEW s \in Socket, NEW p \in Payload, NEW q \in Payload,
                        <<p, "BEGIN_REQ">> \in m_peq[s]
                 PROVE  /\ <<q, "BEGIN_REQ">> \in m_peq[s] => p = q
                        /\ end_req_pending[s] = NULL
      BY DEF OneRequestWaits
    <2>1. /\ end_req_pending[s] = NULL
          /\ \A t \in Socket, r \in Payload :
                 <<r, "BEGIN_REQ">> \in m_peq[t] /\ (r = p \/ t = s) => r = p /\ t = s
      BY <1>1, NewRequest
    <2> QED
      BY <2>1
  <1> QED
    BY <1>1, Invariance, PTL

\* The thread of a router only works on a live transaction of its own socket.
THEOREM LiveTransaction == Spec => []ExecutesLiveTransaction
  <1>1. ASSUME IndInv PROVE ExecutesLiveTransaction
    <2> SUFFICES ASSUME NEW s \in Socket, target_done_event[s] \/ thread[s] = "execute"
                 PROVE  /\ transaction_in_progress[s] # NULL
                        /\ refCount[transaction_in_progress[s]] = 2
                        /\ extCoreID[transaction_in_progress[s]] = s
      BY DEF ExecutesLiveTransaction
    <2> QED
      BY <1>1, Executing, Constants
  <1> QED
    BY <1>1, Invariance, PTL

\* What SlavePort promises when its neighbours are good holds without that
\* assumption once the routers are its target: no retry is lost or sent in
\* vain, every payload reference is accounted for, nothing refers to a recycled
\* payload, every packet that gem5 waits for has one carrier, and no assertion
\* of the port fails.
THEOREM PortKeepsPromises ==
    Spec => [](/\ SP!NoLostRetry /\ SP!NoStaleRetry /\ SP!RequestExclusion
               /\ SP!PayloadAccounting /\ SP!NoDanglingPayload
               /\ SP!OneCarrierPerPacket /\ SP!NoAssertionFails)
  <1>1. ASSUME IndInv
        PROVE  /\ SP!NoLostRetry /\ SP!NoStaleRetry /\ SP!RequestExclusion
               /\ SP!PayloadAccounting /\ SP!NoDanglingPayload
               /\ SP!OneCarrierPerPacket /\ SP!NoAssertionFails
    <2> USE <1>1 DEF IndInv, SP!IndInv
    <2>1. SP!NoLostRetry /\ SP!NoStaleRetry
      BY Constants DEF SP!RetryInv, SP!NoLostRetry, SP!NoStaleRetry
    <2>2. SP!RequestExclusion
      BY DEF SP!BlockingInv, SP!RequestExclusion
    <2>3. SP!NoDanglingPayload
      <3> SUFFICES ASSUME NEW p \in Payload
                   PROVE /\ (pe[p] # {} \/ pecFrame = p) => refCount[p] > 0 /\ extPacket[p] # NULL
                         /\ \A s \in SP!Key :
                                (blockingRequestMap[s] = p \/ blockingResponseMap[s] = p)
                                    => refCount[p] > 0 /\ extCoreID[p] = s
        BY DEF SP!NoDanglingPayload
      <3>1. p \in SP!InFlight => refCount[p] > 0 /\ extPacket[p] # NULL
        BY Constants DEF SP!PayloadAccounting, SP!ExtensionInv, SP!Bit, SP!TypeOK
      <3>2. (pe[p] # {} \/ pecFrame = p) => p \in SP!InFlight
        BY DEF SP!IdleInv, SP!InFlight
      <3>3. \A s \in SP!Key : (blockingRequestMap[s] = p \/ blockingResponseMap[s] = p)
                => p \in SP!InFlight /\ extCoreID[p] = s
        BY DEF SP!IdleInv, SP!InFlight, SP!BlockingInv, SP!ResponseInv
      <3> QED
        BY <3>1, <3>2, <3>3
    <2> QED
      BY <2>1, <2>2, <2>3
  <1> QED
    BY <1>1, Invariance, PTL

=============================================================================

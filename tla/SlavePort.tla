----------------------------- MODULE SlavePort -----------------------------
(***************************************************************************)
(* SCSlavePort (src/src/sc_slave_port.cc): the bridge that turns the       *)
(* timing requests of a gem5 port into TLM-2.0 approximately-timed         *)
(* transactions, together with the state it keeps in other classes:        *)
(*                                                                         *)
(*   - BlockingPacketHelper: which transaction blocks each socket, which   *)
(*     response gem5 has refused, which socket owes gem5 a request retry;  *)
(*   - MemoryManager and the reference count of tlm_generic_payload: which *)
(*     payloads exist, which are in the free list;                         *)
(*   - Gem5Extension: the packet and the core id attached to a payload;    *)
(*   - PayloadEvent: the phases that wait in gem5's event queue.           *)
(*                                                                         *)
(* Two neighbours are external: the gem5 port that sends requests and      *)
(* takes responses (sent, peerBlocked), and the TLM target behind the      *)
(* sockets (tgt, tgtHolds), here any target that keeps the base protocol.  *)
(* RoutedPort replaces the target by the repository's TxnRouter.           *)
(*                                                                         *)
(* usingGem5Cache is FALSE in this build: isUsingGem5Cache() returns false *)
(* (include/slave_transactor.hh), so blockingRequest, blockingResponse,    *)
(* needToSendRequestRetry and isSystemPortBlocked keep their initial       *)
(* values and every branch on them is dead.                                *)
(***************************************************************************)
EXTENDS Integers

CONSTANTS
    Packet,         \* packets (slots) the gem5 port may have in flight
    Payload,        \* the payloads that mm.allocate() may ever create
    SocketNum,      \* number of sockets of the transactor
    SocketOf,       \* socket id computed for the requestor of a packet
    NeedsResponse,  \* packets with needsResponse()
    Reply,          \* what the target's nb_transport_fw(BEGIN_REQ) may answer
    RetryTakesAll,  \* gem5 takes every response sent inside recvRespRetry
    NULL

Socket == 0 .. SocketNum - 1
Phase  == {"END_REQ", "BEGIN_RESP"}
Replies == {"ACCEPTED", "UPDATED_END_REQ", "UPDATED_BEGIN_RESP", "COMPLETED"}

ASSUME SocketNumAssumption == SocketNum \in Nat \ {0}
ASSUME SocketOfAssumption  == SocketOf \in [Packet -> Socket]
ASSUME PacketAssumption    == NeedsResponse \subseteq Packet
ASSUME ReplyAssumption     == Reply \in [Packet -> SUBSET Replies]
ASSUME FlagAssumption      == RetryTakesAll \in BOOLEAN
ASSUME NullAssumption      == NULL \notin Payload /\ NULL \notin Packet /\ NULL \notin Int

\* BlockingPacketHelper::init inserts one key more than there are sockets.
Key == 0 .. SocketNum

VARIABLES
    blockingRequestMap,        \* the transaction whose BEGIN_REQ blocks a socket
    blockingResponseMap,       \* the response of a socket that gem5 refused
    needToSendRequestRetryMap, \* a request was refused while the socket blocked
    allocated,    \* payloads created so far (numberOfAllocations counts them)
    freePayloads, \* free list of the MemoryManager
    refCount,     \* reference count of each payload
    extPacket,    \* Gem5Extension: the packet of a payload
    extCoreID,    \* Gem5Extension: the core id of a payload
    pe,           \* PayloadEvents of a payload that wait in the event queue
    pecFrame,     \* payload whose BEGIN_RESP pec() is handling
    retrying,     \* that pec() is inside sendRetryReq()
    aborted,      \* the assertion that stopped the program, or "none"
    sent,         \* external: packets gem5 handed over and has not got back
    peerBlocked,  \* external: gem5 waits for sendRetryReq() before it sends
    tgt,          \* external: where the target is with a payload
    tgtHolds      \* external: payloads the target has acquired

helperVars == <<blockingRequestMap, blockingResponseMap, needToSendRequestRetryMap>>
mmVars     == <<allocated, freePayloads>>
payVars    == <<refCount, extPacket, extCoreID>>
frameVars  == <<pecFrame, retrying>>
peerVars   == <<sent, peerBlocked>>
tgtVars    == <<tgt, tgtHolds>>
portVars   == <<helperVars, mmVars, payVars, pe, frameVars, aborted, peerVars>>
vars       == <<portVars, tgtVars>>

\* The variables keep their types; in particular a payload has at most two
\* references, and never fewer than none.
TypeOK ==
    /\ blockingRequestMap \in [Key -> Payload \cup {NULL}]
    /\ blockingResponseMap \in [Key -> Payload \cup {NULL}]
    /\ needToSendRequestRetryMap \in [Key -> BOOLEAN]
    /\ allocated \subseteq Payload
    /\ freePayloads \subseteq allocated
    /\ refCount \in [Payload -> 0 .. 2]
    /\ extPacket \in [Payload -> Packet \cup {NULL}]
    /\ extCoreID \in [Payload -> Socket \cup {NULL}]
    /\ pe \in [Payload -> SUBSET Phase]
    /\ pecFrame \in Payload \cup {NULL}
    /\ retrying \in BOOLEAN
    /\ aborted \in {"none", "isBlockingTrans", "getBlockingTrans", "need_retry"}
    /\ sent \subseteq Packet
    /\ peerBlocked \in BOOLEAN
    /\ tgt \in [Payload -> {"idle", "req", "ended", "resp"}]
    /\ tgtHolds \subseteq Payload

Init ==
    /\ blockingRequestMap = [s \in Key |-> NULL]
    /\ blockingResponseMap = [s \in Key |-> NULL]
    /\ needToSendRequestRetryMap = [s \in Key |-> FALSE]
    /\ allocated = {}
    /\ freePayloads = {}
    /\ refCount = [p \in Payload |-> 0]
    /\ extPacket = [p \in Payload |-> NULL]
    /\ extCoreID = [p \in Payload |-> NULL]
    /\ pe = [p \in Payload |-> {}]
    /\ pecFrame = NULL
    /\ retrying = FALSE
    /\ aborted = "none"
    /\ sent = {}
    /\ peerBlocked = FALSE
    /\ tgt = [p \in Payload |-> "idle"]
    /\ tgtHolds = {}

----------------------------------------------------------------------------
(* BlockingPacketHelper *)

mut_isBlockedPort_response(s) == blockingResponseMap[s] # NULL
isBlockedPort(s) == blockingRequestMap[s] # NULL

mut_isBlockingTrans_stops_early(p) == \E s \in 0 .. SocketNum - 2 : blockingRequestMap[s] = p
isBlockingTrans(p) == \E s \in Key : blockingRequestMap[s] = p

\* The responses that getBlockingResponse() returns one after the other.
mut_BlockingResponses_first_key == {p \in Payload : blockingResponseMap[0] = p}
BlockingResponses == {p \in Payload : \E s \in Key : blockingResponseMap[s] = p}

mut_updateRetryMap_never_clears(s, state) ==
    needToSendRequestRetryMap' = [needToSendRequestRetryMap EXCEPT ![s] = @ \/ state]
updateRetryMap(s, state) ==
    needToSendRequestRetryMap' = [needToSendRequestRetryMap EXCEPT ![s] = state]

----------------------------------------------------------------------------
(* MemoryManager, tlm_generic_payload and Gem5Extension *)

\* mm.allocate(): the free list first, a new payload only when it is empty.
Allocatable == IF freePayloads # {} THEN freePayloads ELSE Payload \ allocated

\* allocate(), acquire() and set_auto_extension() of a Gem5Extension.
prepare(p, k) ==
    /\ allocated' = allocated \cup {p}
    /\ freePayloads' = freePayloads \ {p}
    /\ refCount' = [refCount EXCEPT ![p] = 1]
    /\ extPacket' = [extPacket EXCEPT ![p] = k]
    /\ extCoreID' = [extCoreID EXCEPT ![p] = SocketOf[k]]

\* The payloads of S whose last reference release() gives up.
mut_LastReference_any(S) == S
LastReference(S) == {p \in S : refCount[p] = 1}

\* release() of every payload of S. At zero references MemoryManager::free
\* resets the payload, which clears its extension, and puts it on the list.
mut_release_twice(S) ==
    /\ refCount' = [p \in Payload |-> IF p \in S THEN refCount[p] - 2 ELSE refCount[p]]
    /\ freePayloads' = freePayloads \cup LastReference(S)
    /\ UNCHANGED <<allocated, extPacket, extCoreID>>
release(S) ==
    LET freed == LastReference(S)
    IN  /\ refCount' = [p \in Payload |-> IF p \in S THEN refCount[p] - 1 ELSE refCount[p]]
        /\ freePayloads' = freePayloads \cup freed
        /\ extPacket' = [p \in Payload |-> IF p \in freed THEN NULL ELSE extPacket[p]]
        /\ extCoreID' = [p \in Payload |-> IF p \in freed THEN NULL ELSE extCoreID[p]]
        /\ UNCHANGED allocated

----------------------------------------------------------------------------
(* SCSlavePort. The operators of this section say nothing of the target. *)

Running == aborted = "none"

\* The event queue runs one event at a time; pec() is one of its events.
Ready == Running /\ pecFrame = NULL

\* gem5 calls into the port from an event of its own, or from inside the
\* sendRetryReq() of pec().
Reentrant == Running /\ (pecFrame = NULL \/ retrying)

\* gem5's port may send: after a refusal it waits for the retry.
CanSend(k) == Reentrant /\ k \notin sent /\ ~peerBlocked

\* recvTimingReq: the socket is blocked, remember the retry and return false.
recvTimingReq_refused(k) ==
    /\ CanSend(k)
    /\ isBlockedPort(SocketOf[k])
    /\ updateRetryMap(SocketOf[k], TRUE)
    /\ peerBlocked' = TRUE
    /\ UNCHANGED <<blockingRequestMap, blockingResponseMap, mmVars, payVars, pe,
                   frameVars, aborted, sent>>

\* recvTimingReq up to the call of nb_transport_fw(BEGIN_REQ).
forward(k, p) ==
    /\ CanSend(k)
    /\ ~isBlockedPort(SocketOf[k])
    /\ p \in Allocatable
    /\ UNCHANGED <<blockingResponseMap, needToSendRequestRetryMap, frameVars,
                   aborted, peerBlocked>>

\* TLM_ACCEPTED: the transaction blocks its socket until END_REQ.
recvTimingReq_accepted(k, p) ==
    /\ forward(k, p)
    /\ prepare(p, k)
    /\ blockingRequestMap' = [blockingRequestMap EXCEPT ![SocketOf[k]] = p]
    /\ sent' = sent \cup {k}
    /\ UNCHANGED pe

\* TLM_UPDATED: the phase is put into the event queue.
recvTimingReq_updated(k, p, phase) ==
    /\ forward(k, p)
    /\ prepare(p, k)
    /\ pe' = [pe EXCEPT ![p] = {phase}]
    /\ sent' = sent \cup {k}
    /\ UNCHANGED blockingRequestMap

\* allocate(), acquire(), transport and release() within one call: the
\* payload ends in the free list. This is TLM_COMPLETED in recvTimingReq, and
\* the whole of recvAtomic and recvFunctional.
prepareAndRelease(p) ==
    /\ allocated' = allocated \cup {p}
    /\ freePayloads' = freePayloads \cup {p}
    /\ UNCHANGED <<payVars, pe>>

\* TLM_COMPLETED: the payload is released and no response is sent, so gem5
\* goes on waiting for one if the packet needs it.
recvTimingReq_completed(k, p) ==
    /\ forward(k, p)
    /\ prepareAndRelease(p)
    /\ sent' = IF k \in NeedsResponse THEN sent \cup {k} ELSE sent
    /\ UNCHANGED blockingRequestMap

\* recvFunctional, which gem5 may call at any time. The answer is in the
\* packet when the call returns.
recvFunctional(p) ==
    /\ Reentrant
    /\ p \in Allocatable
    /\ prepareAndRelease(p)
    /\ UNCHANGED <<helperVars, frameVars, aborted, peerVars>>

\* recvAtomic: as recvFunctional, but a gem5 system in atomic mode has no
\* timing request in flight.
recvAtomic(p) ==
    /\ Ready
    /\ sent = {}
    /\ ~peerBlocked
    /\ p \in Allocatable
    /\ prepareAndRelease(p)
    /\ UNCHANGED <<helperVars, frameVars, aborted, peerVars>>

\* nb_transport_bw: queue a PayloadEvent for the phase, return TLM_ACCEPTED.
nb_transport_bw(p, phase) == pe' = [pe EXCEPT ![p] = @ \cup {phase}]

\* The first half of pec(): unblock the socket of p and, if a request was
\* refused meanwhile, clear the mark and call sendRetryReq().
mut_retryOwed_next_core(p) == needToSendRequestRetryMap[extCoreID[p] + 1]
mut_retryOwed_never(p) == FALSE
retryOwed(p) == needToSendRequestRetryMap[extCoreID[p]]

mut_unblock_keeps_socket(p) ==
    /\ UNCHANGED <<aborted, blockingRequestMap, needToSendRequestRetryMap, peerBlocked>>
unblock(p) ==
    /\ aborted' = IF isBlockingTrans(p) THEN aborted ELSE "isBlockingTrans"
    /\ blockingRequestMap' = [blockingRequestMap EXCEPT ![extCoreID[p]] = NULL]
    /\ IF retryOwed(p)
       THEN /\ updateRetryMap(extCoreID[p], FALSE)
            /\ peerBlocked' = FALSE
       ELSE UNCHANGED <<needToSendRequestRetryMap, peerBlocked>>

\* pec() for END_REQ. sendRetryReq() is its last call, so the requests gem5
\* sends from inside it come after this step.
pec_END_REQ(p) ==
    /\ Ready
    /\ "END_REQ" \in pe[p]
    /\ pe' = [pe EXCEPT ![p] = @ \ {"END_REQ"}]
    /\ unblock(p)
    /\ UNCHANGED <<blockingResponseMap, mmVars, payVars, frameVars, sent>>

\* pec() for BEGIN_RESP, up to the return of sendRetryReq(). A BEGIN_RESP of
\* the blocking transaction implies its END_REQ. The END_REQ of a payload
\* carries an earlier time than its BEGIN_RESP.
pec_BEGIN_RESP(p) ==
    /\ Ready
    /\ "BEGIN_RESP" \in pe[p]
    /\ "END_REQ" \notin pe[p]
    /\ pe' = [pe EXCEPT ![p] = @ \ {"BEGIN_RESP"}]
    /\ pecFrame' = p
    /\ IF isBlockingTrans(p)
       THEN /\ unblock(p)
            /\ retrying' = retryOwed(p)
       ELSE /\ retrying' = FALSE
            /\ UNCHANGED <<aborted, blockingRequestMap, needToSendRequestRetryMap, peerBlocked>>
    /\ UNCHANGED <<blockingResponseMap, mmVars, payVars, sent>>

\* The second half of pec() for BEGIN_RESP, when gem5 refuses the response:
\* it is kept until recvRespRetry.
mut_pec_refused_drops(p) ==
    /\ Running /\ pecFrame = p /\ extPacket[p] \in NeedsResponse
    /\ release({p})
    /\ pecFrame' = NULL
    /\ retrying' = FALSE
    /\ UNCHANGED <<helperVars, pe, aborted, peerVars>>
pec_refused(p) ==
    /\ Running
    /\ pecFrame = p
    /\ extPacket[p] \in NeedsResponse
    /\ aborted' = IF blockingResponseMap[extCoreID[p]] = NULL THEN aborted ELSE "getBlockingTrans"
    /\ blockingResponseMap' = [blockingResponseMap EXCEPT ![extCoreID[p]] = p]
    /\ pecFrame' = NULL
    /\ retrying' = FALSE
    /\ UNCHANGED <<blockingRequestMap, needToSendRequestRetryMap, mmVars, payVars,
                   pe, peerVars>>

\* The second half when gem5 takes the response, or when the packet needs
\* none: END_RESP goes to the target and the payload is released.
pec_responded(p) ==
    /\ Running
    /\ pecFrame = p
    /\ aborted' = IF blockingResponseMap[extCoreID[p]] = NULL THEN aborted ELSE "getBlockingTrans"
    /\ release({p})
    /\ sent' = sent \ {extPacket[p]}
    /\ pecFrame' = NULL
    /\ retrying' = FALSE
    /\ UNCHANGED <<helperVars, pe, peerBlocked>>

\* recvRespRetry: send every refused response, lowest socket first. gem5
\* calls it only after a refusal, and takes at least the response it asks for.
\* Each one it takes gets its END_RESP and is released; one that is refused
\* again fails the assertion, and those of higher sockets stay where they are.
recvRespRetry(taken) ==
    LET refused == BlockingResponses \ taken IN
    /\ Ready
    /\ taken # {}
    /\ refused # {} => ~RetryTakesAll
    /\ \A p \in taken, q \in refused : extCoreID[p] < extCoreID[q]
    /\ aborted' = IF refused = {} THEN aborted ELSE "need_retry"
    /\ blockingResponseMap' = [s \in Key |->
           IF \E q \in refused : extCoreID[q] < s THEN blockingResponseMap[s] ELSE NULL]
    /\ release(taken)
    /\ sent' = sent \ {extPacket[p] : p \in taken}
    /\ UNCHANGED <<blockingRequestMap, needToSendRequestRetryMap, pe, frameVars, peerBlocked>>

----------------------------------------------------------------------------
(* The actions, with what each one means for the target (external). *)

RecvTimingReqRefused(k) == recvTimingReq_refused(k) /\ UNCHANGED tgtVars

RecvTimingReqAccepted(k) ==
    /\ "ACCEPTED" \in Reply[k]
    /\ \E p \in Payload :
           /\ recvTimingReq_accepted(k, p)
           /\ tgt' = [tgt EXCEPT ![p] = "req"]
    /\ UNCHANGED tgtHolds

\* The phase handed back with TLM_UPDATED is the target's END_REQ or its
\* BEGIN_RESP; the latter obeys the rule of one response per socket.
ResponseFree(s) == \A q \in Payload : ~(tgt[q] = "resp" /\ extCoreID[q] = s)

RecvTimingReqUpdated(k) ==
    \E p \in Payload :
        /\ \/ /\ "UPDATED_END_REQ" \in Reply[k]
              /\ recvTimingReq_updated(k, p, "END_REQ")
              /\ tgt' = [tgt EXCEPT ![p] = "ended"]
           \/ /\ "UPDATED_BEGIN_RESP" \in Reply[k]
              /\ ResponseFree(SocketOf[k])
              /\ recvTimingReq_updated(k, p, "BEGIN_RESP")
              /\ tgt' = [tgt EXCEPT ![p] = "resp"]
        /\ UNCHANGED tgtHolds

RecvTimingReqCompleted(k) ==
    /\ "COMPLETED" \in Reply[k]
    /\ \E p \in Payload : recvTimingReq_completed(k, p)
    /\ UNCHANGED tgtVars

RecvFunctional == \E p \in Payload : recvFunctional(p) /\ UNCHANGED tgtVars

RecvAtomic == \E p \in Payload : recvAtomic(p) /\ UNCHANGED tgtVars

PecEndReq(p) == pec_END_REQ(p) /\ UNCHANGED tgtVars

PecBeginResp(p) == pec_BEGIN_RESP(p) /\ UNCHANGED tgtVars

PecRefused(p) == pec_refused(p) /\ UNCHANGED tgtVars

PecResponded(p) ==
    /\ pec_responded(p)
    /\ tgt' = [tgt EXCEPT ![p] = "idle"]
    /\ UNCHANGED tgtHolds

RecvRespRetry ==
    /\ \E taken \in SUBSET BlockingResponses :
           /\ recvRespRetry(taken)
           /\ tgt' = [p \in Payload |-> IF p \in taken THEN "idle" ELSE tgt[p]]
    /\ UNCHANGED tgtHolds

\* The target takes or drops its reference to p while the port has one too.
hold(p, h) ==
    /\ tgtHolds' = IF h THEN tgtHolds \cup {p} ELSE tgtHolds \ {p}
    /\ refCount' = [refCount EXCEPT ![p] = @ + (IF h THEN 1 ELSE 0)
                                             - (IF p \in tgtHolds THEN 1 ELSE 0)]

targetFrame == UNCHANGED <<helperVars, mmVars, extPacket, extCoreID, frameVars, aborted, peerVars>>

TargetAcquire(p) ==
    /\ Ready
    /\ tgt[p] = "req"
    /\ p \notin tgtHolds
    /\ hold(p, TRUE)
    /\ targetFrame
    /\ UNCHANGED <<pe, tgt>>

TargetEndReq(p) ==
    /\ Ready
    /\ tgt[p] = "req"
    /\ tgt' = [tgt EXCEPT ![p] = "ended"]
    /\ nb_transport_bw(p, "END_REQ")
    /\ \E h \in BOOLEAN : hold(p, h)
    /\ targetFrame

TargetBeginResp(p) ==
    /\ Ready
    /\ tgt[p] \in {"req", "ended"}
    /\ ResponseFree(extCoreID[p])
    /\ tgt' = [tgt EXCEPT ![p] = "resp"]
    /\ nb_transport_bw(p, "BEGIN_RESP")
    /\ \E h \in BOOLEAN : hold(p, h)
    /\ targetFrame

TargetRelease(p) ==
    /\ Ready
    /\ p \in tgtHolds
    /\ tgt[p] \in {"resp", "idle"}
    /\ tgtHolds' = tgtHolds \ {p}
    /\ release({p})
    /\ UNCHANGED <<helperVars, pe, frameVars, aborted, peerVars, tgt>>

GemNext ==
    \/ \E k \in Packet : \/ RecvTimingReqRefused(k)
                         \/ RecvTimingReqAccepted(k)
                         \/ RecvTimingReqUpdated(k)
                         \/ RecvTimingReqCompleted(k)
    \/ RecvFunctional
    \/ RecvAtomic
    \/ RecvRespRetry

EventNext == \E p \in Payload : \/ PecEndReq(p)
                                \/ PecBeginResp(p)
                                \/ PecRefused(p)
                                \/ PecResponded(p)

TargetNext == \E p \in Payload : \/ TargetAcquire(p)
                                 \/ TargetEndReq(p)
                                 \/ TargetBeginResp(p)
                                 \/ TargetRelease(p)

Next == GemNext \/ EventNext \/ TargetNext

Spec == Init /\ [][Next]_vars
----------------------------------------------------------------------------
(* Fairness. An event of gem5's queue has a fixed time and time advances,   *)
(* so other events cannot put off a queued pec() for ever although each of  *)
(* them may run before it (strong fairness); a running pec() returns; a     *)
(* gem5 port that refused a response calls recvRespRetry. Of the target     *)
(* only the base protocol's promise is used: every request is answered in   *)
(* the end, whatever responses stand before it.                             *)

Fairness ==
    /\ \A p \in Payload : /\ SF_vars(PecEndReq(p))
                          /\ SF_vars(PecBeginResp(p))
                          /\ WF_vars(PecRefused(p) \/ PecResponded(p))
                          /\ SF_vars(TargetBeginResp(p))
    /\ SF_vars(RecvRespRetry)

FairSpec == Spec /\ Fairness

----------------------------------------------------------------------------
(* Properties *)

Bit(b) == IF b THEN 1 ELSE 0

\* The payloads of transactions that have begun and not got END_RESP yet.
InFlight == {p \in Payload : tgt[p] # "idle"}

\* A refused request is never forgotten: while gem5 waits for sendRetryReq(),
\* some socket is marked for a retry and still has the blocking transaction
\* whose END_REQ or BEGIN_RESP will make pec() send it.
NoLostRetry ==
    peerBlocked => \E s \in Socket : needToSendRequestRetryMap[s] /\ isBlockedPort(s)

\* sendRetryReq() is only ever sent to a gem5 port that waits for it: a mark
\* left behind by an earlier refusal would make pec() send a second retry.
NoStaleRetry == \A s \in Key : needToSendRequestRetryMap[s] => peerBlocked

\* The request exclusion rule of the TLM base protocol, which recvTimingReq
\* keeps through isBlockedPort: a socket has at most one transaction between
\* BEGIN_REQ and END_REQ.
RequestExclusion ==
    \A p, q \in Payload :
        tgt[p] = "req" /\ tgt[q] = "req" /\ extCoreID[p] = extCoreID[q] => p = q

\* Every reference is accounted for: the port owns one for each transaction in
\* flight, the target one for each payload it acquired, and a payload without
\* references is in the free list of the MemoryManager or was never made.
PayloadAccounting ==
    \A p \in Payload :
        /\ refCount[p] = Bit(p \in InFlight) + Bit(p \in tgtHolds)
        /\ refCount[p] = 0 <=> p \in freePayloads \/ p \notin allocated

\* Nothing refers to a recycled payload: a payload that blocks a socket, is a
\* refused response, waits in the event queue or is being handled by pec() is
\* referenced, and its extension names the socket it is filed under.
NoDanglingPayload ==
    \A p \in Payload :
        /\ (pe[p] # {} \/ pecFrame = p) => refCount[p] > 0 /\ extPacket[p] # NULL
        /\ \A s \in Key : (blockingRequestMap[s] = p \/ blockingResponseMap[s] = p)
                              => refCount[p] > 0 /\ extCoreID[p] = s

\* No packet is lost or answered twice: each packet that gem5 waits for is
\* carried by exactly one transaction in flight, and each transaction in
\* flight carries a packet that gem5 waits for.
OneCarrierPerPacket ==
    /\ \A k \in sent : \E p \in InFlight : extPacket[p] = k
    /\ \A p \in InFlight : extPacket[p] \in sent
    /\ \A p, q \in InFlight : extPacket[p] = extPacket[q] => p = q

\* No sc_assert of pec() or recvRespRetry() fails.
NoAssertionFails == aborted = "none"

\* A gem5 port that was refused gets its sendRetryReq().
RetryArrives == peerBlocked ~> ~peerBlocked

\* Every packet that recvTimingReq took is finished: answered, or, when it
\* needs no response, ended.
EveryPacketFinished == \A k \in Packet : k \in sent ~> k \notin sent

----------------------------------------------------------------------------
(* The inductive invariant behind the safety properties. *)

\* What the proofs ask of the two neighbours: the target uses TLM_UPDATED only
\* to hand back BEGIN_RESP and TLM_COMPLETED only for packets without a
\* response, and gem5 takes every response of a recvRespRetry.
GoodNeighbours ==
    /\ RetryTakesAll
    /\ \A k \in Packet : /\ "UPDATED_END_REQ" \notin Reply[k]
                         /\ "COMPLETED" \in Reply[k] => k \notin NeedsResponse

\* A payload that is not in flight is referred to by nothing.
IdleInv ==
    \A p \in Payload : tgt[p] = "idle" =>
        /\ pe[p] = {}
        /\ pecFrame # p
        /\ \A s \in Key : blockingRequestMap[s] # p /\ blockingResponseMap[s] # p

\* The extension of a payload in flight is set.
ExtensionInv ==
    \A p \in InFlight : /\ extPacket[p] \in Packet
                        /\ extCoreID[p] = SocketOf[extPacket[p]]

\* A socket is blocked by its own transaction, from BEGIN_REQ until the event
\* for END_REQ or BEGIN_RESP has been handled.
BlockingInv ==
    /\ \A s \in Key, p \in Payload : blockingRequestMap[s] = p =>
           extCoreID[p] = s /\ (tgt[p] = "req" \/ pe[p] # {})
    /\ \A p \in Payload : (tgt[p] = "req" \/ "END_REQ" \in pe[p]) =>
           blockingRequestMap[extCoreID[p]] = p

\* The queued phases agree with the progress of the target.
PhaseInv ==
    \A p \in Payload : /\ "END_REQ" \in pe[p] => tgt[p] \in {"ended", "resp"}
                       /\ "BEGIN_RESP" \in pe[p] => tgt[p] = "resp"

\* A response is queued, being handled or refused, in one of these places.
ResponseInv ==
    /\ \A p \in Payload : pecFrame = p => tgt[p] = "resp" /\ pe[p] = {}
    /\ \A s \in Key, p \in Payload : blockingResponseMap[s] = p =>
           extCoreID[p] = s /\ tgt[p] = "resp" /\ pe[p] = {} /\ pecFrame # p
    /\ \A p, q \in Payload :
           tgt[p] = "resp" /\ tgt[q] = "resp" /\ extCoreID[p] = extCoreID[q] => p = q

\* At most one socket owes a retry; it is blocked and gem5 waits.
RetryInv ==
    /\ \A s \in Key : needToSendRequestRetryMap[s] => peerBlocked /\ isBlockedPort(s)
    /\ \A s, t \in Key : needToSendRequestRetryMap[s] /\ needToSendRequestRetryMap[t] => s = t
    /\ peerBlocked => \E s \in Socket : needToSendRequestRetryMap[s]

\* TypeOK and the safety properties follow from this invariant, and every
\* action of the port, of gem5 and of the target preserves it.
IndInv ==
    /\ TypeOK
    /\ NoAssertionFails
    /\ IdleInv
    /\ ExtensionInv
    /\ BlockingInv
    /\ PhaseInv
    /\ ResponseInv
    /\ RetryInv
    /\ PayloadAccounting
    /\ OneCarrierPerPacket
=============================================================================

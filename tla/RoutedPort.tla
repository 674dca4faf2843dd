----------------------------- MODULE RoutedPort ----------------------------
(***************************************************************************)
(* The slave port with a TxnRouter behind every socket, as the wrapper     *)
(* binds them (Gem5Wrapper::bindTxnRouter2Transactor). SlavePort leaves    *)
(* the target open and only asks it to keep the base protocol; here the    *)
(* target is the repository's own. The module states that the composition  *)
(* implements SlavePort, and what the router relies on the port for: that  *)
(* a second request is not sent before END_REQ, and that a payload lives   *)
(* as long as the router works on it.                                      *)
(***************************************************************************)
EXTENDS Integers

CONSTANTS
    Packet, Payload, SocketNum, SocketOf, NeedsResponse, NULL

Socket == 0 .. SocketNum - 1

ASSUME SocketNumAssumption == SocketNum \in Nat \ {0}
ASSUME SocketOfAssumption  == SocketOf \in [Packet -> Socket]
ASSUME PacketAssumption    == NeedsResponse \subseteq Packet
ASSUME NullAssumption      == NULL \notin Payload /\ NULL \notin Packet /\ NULL \notin Int

\* A router always answers TLM_ACCEPTED.
RouterReply == [k \in Packet |-> {"ACCEPTED"}]

VARIABLES
    blockingRequestMap, blockingResponseMap, needToSendRequestRetryMap,
    allocated, freePayloads, refCount, extPacket, extCoreID, pe, pecFrame, retrying,
    aborted, sent, peerBlocked,
    transaction_in_progress, response_in_progress, next_response_pending,
    end_req_pending, m_peq, target_done_event, thread,
    fatal           \* the SC_REPORT_FATAL of a router, or "none"

R == INSTANCE TxnRouter

----------------------------------------------------------------------------
(* The target of SlavePort, read off the routers. END_RESP is sent when it *)
(* enters m_peq, so a router that has not taken it from there yet still    *)
(* has the transaction in transaction_in_progress; the payload may have    *)
(* been released, and even carry a new request, by then.                   *)

EndRespQueued(s) == \E q \in Payload : <<q, "END_RESP">> \in m_peq[s]

Requested(p) ==
    \E s \in Socket : <<p, "BEGIN_REQ">> \in m_peq[s] \/ end_req_pending[s] = p

Served(s, p) == transaction_in_progress[s] = p /\ ~EndRespQueued(s)

tgt == [p \in Payload |->
           CASE Requested(p) -> "req"
             [] \E s \in Socket : Served(s, p) /\ ~response_in_progress[s] -> "ended"
             [] \E s \in Socket : Served(s, p) /\ response_in_progress[s] -> "resp"
             [] OTHER -> "idle"]

\* A router acquires a payload in peq_cb(BEGIN_REQ) and releases it in
\* send_response.
tgtHolds ==
    {p \in Payload : \E s \in Socket :
        \/ end_req_pending[s] = p
        \/ transaction_in_progress[s] = p /\ ~response_in_progress[s]}

SP == INSTANCE SlavePort WITH Reply <- RouterReply, RetryTakesAll <- TRUE

helperVars == <<blockingRequestMap, blockingResponseMap, needToSendRequestRetryMap>>
payVars    == <<allocated, freePayloads, refCount, extPacket, extCoreID>>
frameVars  == <<pecFrame, retrying, aborted, sent, peerBlocked>>
portVars   == <<helperVars, payVars, frameVars, pe>>
routerVars == <<transaction_in_progress, response_in_progress, next_response_pending,
                end_req_pending, m_peq, target_done_event, thread>>
vars       == <<portVars, routerVars, fatal>>

Init ==
    /\ R!RouterInit
    /\ SP!Init
    /\ fatal = "none"

----------------------------------------------------------------------------
(* gem5 and the event queue call the port. *)

Running == fatal = "none"

\* The phases one transaction, or none, sends to its router.
nothing == [s \in Socket |-> {}]
toRouter(t, p, phase) == [s \in Socket |-> IF s = t THEN {<<p, phase>>} ELSE {}]

RecvTimingReq(k) ==
    /\ Running
    /\ UNCHANGED fatal
    /\ \/ SP!recvTimingReq_refused(k) /\ R!nb_transport_fw(nothing)
       \/ \E p \in Payload :
              /\ SP!recvTimingReq_accepted(k, p)
              /\ R!nb_transport_fw(toRouter(SocketOf[k], p, "BEGIN_REQ"))

\* b_transport and transport_dbg of the router pass the payload on and return.
RecvUntimed ==
    /\ Running
    /\ \E p \in Payload : SP!recvFunctional(p) \/ SP!recvAtomic(p)
    /\ UNCHANGED <<routerVars, fatal>>

Pec(p) ==
    /\ Running
    /\ UNCHANGED fatal
    /\ \/ SP!pec_END_REQ(p) /\ R!nb_transport_fw(nothing)
       \/ SP!pec_BEGIN_RESP(p) /\ R!nb_transport_fw(nothing)
       \/ SP!pec_refused(p) /\ R!nb_transport_fw(nothing)
       \/ SP!pec_responded(p) /\ R!nb_transport_fw(toRouter(extCoreID[p], p, "END_RESP"))

RecvRespRetry ==
    /\ Running
    /\ UNCHANGED fatal
    /\ SP!recvRespRetry(SP!BlockingResponses)
    /\ R!nb_transport_fw([s \in Socket |->
           {<<p, "END_RESP">> : p \in {q \in SP!BlockingResponses : extCoreID[q] = s}}])

----------------------------------------------------------------------------
(* The processes of the routers. *)

routerFrame == UNCHANGED <<helperVars, frameVars>>

\* peq_cb(BEGIN_REQ): acquire, then END_REQ if the router is free.
PeqBeginReq(s, p) ==
    /\ Running /\ SP!Ready
    /\ R!peq_cb_BEGIN_REQ(s, p)
    /\ refCount' = [refCount EXCEPT ![p] = @ + 1]
    /\ IF R!free(s) THEN SP!nb_transport_bw(p, "END_REQ") ELSE UNCHANGED pe
    /\ routerFrame
    /\ UNCHANGED <<allocated, freePayloads, extPacket, extCoreID, fatal>>

\* peq_cb(END_RESP): the waiting response and the waiting request go on.
PeqEndResp(s, p) ==
    /\ Running /\ SP!Ready
    /\ R!peq_cb_END_RESP(s, p)
    /\ fatal' = IF response_in_progress[s] THEN fatal ELSE "Illegal transaction phase END RESP"
    /\ pe' = [q \in Payload |-> pe[q]
                 \cup (IF q = next_response_pending[s] THEN {"BEGIN_RESP"} ELSE {})
                 \cup (IF q = end_req_pending[s] THEN {"END_REQ"} ELSE {})]
    /\ SP!release({next_response_pending[s]} \cap Payload)
    /\ routerFrame

TargetDone(s) ==
    /\ Running /\ SP!Ready
    /\ R!target_done(s)
    /\ UNCHANGED <<portVars, fatal>>

\* The thread ends its transaction: send_response, which releases the
\* payload, or the response waits.
ExecuteTransaction(s) ==
    LET p == transaction_in_progress[s]
    IN  /\ Running /\ SP!Ready
        /\ R!execute_transaction_process(s)
        /\ fatal' = IF response_in_progress[s] /\ next_response_pending[s] # NULL
                    THEN "Attempt to have two pending responses in target" ELSE fatal
        /\ IF response_in_progress[s]
           THEN UNCHANGED <<pe, payVars>>
           ELSE SP!nb_transport_bw(p, "BEGIN_RESP") /\ SP!release({p})
        /\ routerFrame

PeqStep(s) == \E p \in Payload : PeqBeginReq(s, p) \/ PeqEndResp(s, p)

Next ==
    \/ \E k \in Packet : RecvTimingReq(k)
    \/ RecvUntimed
    \/ RecvRespRetry
    \/ \E p \in Payload : Pec(p)
    \/ \E s \in Socket : PeqStep(s) \/ TargetDone(s) \/ ExecuteTransaction(s)

Spec == Init /\ [][Next]_vars

----------------------------------------------------------------------------
(* Fairness: the processes of a router run when their event is due, and the *)
(* memory's b_transport returns; the port and gem5 as in SlavePort. Nothing *)
(* is assumed of the target any more.                                       *)

PecEvent(p)  == Pec(p) /\ pecFrame = NULL
PecReturn(p) == Pec(p) /\ pecFrame = p

Fairness ==
    /\ \A p \in Payload : SF_vars(PecEvent(p)) /\ WF_vars(PecReturn(p))
    /\ SF_vars(RecvRespRetry)
    /\ \A s \in Socket : SF_vars(PeqStep(s)) /\ SF_vars(TargetDone(s)) /\ SF_vars(ExecuteTransaction(s))

FairSpec == Spec /\ Fairness

----------------------------------------------------------------------------
(* Properties *)

\* The state of the port and of the routers has its type.
TypeOK == SP!TypeOK /\ R!RouterTypeOK

\* The composition implements SlavePort: a TxnRouter keeps the rules that the
\* slave port asks of its target (one response per socket at a time, END_REQ
\* and BEGIN_RESP once, references given back).
ImplementsSlavePort == SP!Spec

\* A router serves one transaction until END_RESP: END_RESP only comes while a
\* response is in progress, and the response that execute_transaction_process
\* finishes never has to wait for another one, so that neither fatal report is
\* reached and next_response_pending is never used.
ResponsesInTurn ==
    fatal = "none" /\ \A s \in Socket : next_response_pending[s] = NULL

\* A request kept in end_req_pending is not overwritten by the next BEGIN_REQ:
\* at most one request of a socket waits for END_REQ, in m_peq or in the router.
OneRequestWaits ==
    \A s \in Socket, p, q \in Payload :
        /\ <<p, "BEGIN_REQ">> \in m_peq[s] /\ <<q, "BEGIN_REQ">> \in m_peq[s] => p = q
        /\ <<p, "BEGIN_REQ">> \in m_peq[s] => end_req_pending[s] = NULL

\* The thread of a router, from the moment it is woken, works on a transaction
\* of its own socket that nobody has released: transaction_in_progress, which
\* goes stale after the response, is not used then.
ExecutesLiveTransaction ==
    \A s \in Socket : (target_done_event[s] \/ thread[s] = "execute") =>
        LET p == transaction_in_progress[s]
        IN  p # NULL /\ refCount[p] = 2 /\ extCoreID[p] = s

\* Every packet that the port took is finished by its router and the port.
EveryPacketFinished == \A k \in Packet : k \in sent ~> k \notin sent
=============================================================================

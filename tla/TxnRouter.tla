----------------------------- MODULE TxnRouter -----------------------------
(***************************************************************************)
(* TxnRouter (src/include/txn_router.h): the TLM target that the wrapper   *)
(* binds to each socket of the slave transactor. A router serves one       *)
(* transaction at a time: it answers BEGIN_REQ with END_REQ at once if it  *)
(* is free and otherwise keeps the request in end_req_pending, executes    *)
(* the transaction in a thread of its own and sends BEGIN_RESP; END_RESP   *)
(* makes it free again.                                                    *)
(*                                                                         *)
(* The operators of this module change the state of the router of socket   *)
(* s. What they do to the payload (acquire, release) and to the initiator  *)
(* (nb_transport_bw) is the caller's: RoutedPort joins the two.            *)
(***************************************************************************)
EXTENDS Integers

CONSTANTS
    Payload,    \* transactions
    Socket,     \* sockets of the transactor, each bound to a router
    NULL

VARIABLES
    transaction_in_progress,  \* the transaction a router serves
    response_in_progress,     \* BEGIN_RESP sent and END_RESP not yet seen
    next_response_pending,    \* executed, waits for the response before it
    end_req_pending,          \* request that waits for its END_REQ
    m_peq,                    \* phases in the payload event queue
    target_done_event,        \* the event is notified and has not fired
    thread                    \* execute_transaction_process

\* The state of the routers has its type.
RouterTypeOK ==
    /\ transaction_in_progress \in [Socket -> Payload \cup {NULL}]
    /\ response_in_progress \in [Socket -> BOOLEAN]
    /\ next_response_pending \in [Socket -> Payload \cup {NULL}]
    /\ end_req_pending \in [Socket -> Payload \cup {NULL}]
    /\ m_peq \in [Socket -> SUBSET (Payload \X {"BEGIN_REQ", "END_RESP"})]
    /\ target_done_event \in [Socket -> BOOLEAN]
    /\ thread \in [Socket -> {"wait", "execute"}]

RouterInit ==
    /\ transaction_in_progress = [s \in Socket |-> NULL]
    /\ response_in_progress = [s \in Socket |-> FALSE]
    /\ next_response_pending = [s \in Socket |-> NULL]
    /\ end_req_pending = [s \in Socket |-> NULL]
    /\ m_peq = [s \in Socket |-> {}]
    /\ target_done_event = [s \in Socket |-> FALSE]
    /\ thread = [s \in Socket |-> "wait"]

\* nb_transport_fw: m_peq.notify and TLM_ACCEPTED. N gives, for each socket,
\* the phases that one step of the initiator sends to its router. A BEGIN_REQ
\* carries the payload delay of its packet, so an END_RESP sent after it may
\* leave the queue before it: the queue is a set.
nb_transport_fw(N) ==
    /\ m_peq' = [s \in Socket |-> m_peq[s] \cup N[s]]
    /\ UNCHANGED <<transaction_in_progress, response_in_progress, next_response_pending,
                   end_req_pending, target_done_event, thread>>

\* peq_with_cb_and_phase hands a phase to peq_cb once.
mut_take_again(s, p, phase) == <<p, phase>> \in m_peq[s] /\ UNCHANGED m_peq
take(s, p, phase) ==
    /\ <<p, phase>> \in m_peq[s]
    /\ m_peq' = [m_peq EXCEPT ![s] = @ \ {<<p, phase>>}]

\* send_end_req, after which the thread is woken.
send_end_req(s, p) ==
    /\ transaction_in_progress' = [transaction_in_progress EXCEPT ![s] = p]
    /\ target_done_event' = [target_done_event EXCEPT ![s] = TRUE]

\* !transaction_in_progress
mut_free_after_response(s) == transaction_in_progress[s] = NULL \/ response_in_progress[s]
mut_free_before_response(s) == ~response_in_progress[s]
free(s) == transaction_in_progress[s] = NULL

\* peq_cb for BEGIN_REQ.
peq_cb_BEGIN_REQ(s, p) ==
    /\ take(s, p, "BEGIN_REQ")
    /\ IF free(s)
       THEN send_end_req(s, p) /\ UNCHANGED end_req_pending
       ELSE /\ end_req_pending' = [end_req_pending EXCEPT ![s] = p]
            /\ UNCHANGED <<transaction_in_progress, target_done_event>>
    /\ UNCHANGED <<response_in_progress, next_response_pending, thread>>

\* The router becomes free and issues the END_REQ of a request that waited.
mut_next_request_cleared(s) ==
    /\ transaction_in_progress' = [transaction_in_progress EXCEPT ![s] = NULL]
    /\ target_done_event' = [target_done_event EXCEPT ![s] = end_req_pending[s] # NULL]
next_request(s) ==
    IF end_req_pending[s] # NULL
    THEN send_end_req(s, end_req_pending[s])
    ELSE /\ transaction_in_progress' = [transaction_in_progress EXCEPT ![s] = NULL]
         /\ UNCHANGED target_done_event

\* peq_cb for END_RESP: the router is free; it sends a response that waited
\* (response_in_progress is true again) and lets a request that waited begin.
peq_cb_END_RESP(s, p) ==
    /\ take(s, p, "END_RESP")
    /\ response_in_progress' = [response_in_progress EXCEPT ![s] = next_response_pending[s] # NULL]
    /\ next_response_pending' = [next_response_pending EXCEPT ![s] = NULL]
    /\ next_request(s)
    /\ end_req_pending' = [end_req_pending EXCEPT ![s] = NULL]
    /\ UNCHANGED thread

\* target_done_event fires. It wakes the thread if the thread waits for it;
\* a thread that is still executing does not see it.
target_done(s) ==
    /\ target_done_event[s]
    /\ target_done_event' = [target_done_event EXCEPT ![s] = FALSE]
    /\ thread' = [thread EXCEPT ![s] = "execute"]
    /\ UNCHANGED <<transaction_in_progress, response_in_progress, next_response_pending,
                   end_req_pending, m_peq>>

\* The end of execute_transaction: b_transport, which may have waited, has
\* returned. The response is sent, or kept if another one is in progress.
execute_transaction_process(s) ==
    /\ thread[s] = "execute"
    /\ IF response_in_progress[s]
       THEN /\ next_response_pending' = [next_response_pending EXCEPT
                                            ![s] = transaction_in_progress[s]]
            /\ UNCHANGED response_in_progress
       ELSE /\ response_in_progress' = [response_in_progress EXCEPT ![s] = TRUE]
            /\ UNCHANGED next_response_pending
    /\ thread' = [thread EXCEPT ![s] = "wait"]
    /\ UNCHANGED <<transaction_in_progress, end_req_pending, m_peq, target_done_event>>
=============================================================================

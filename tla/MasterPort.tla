----------------------------- MODULE MasterPort -----------------------------
(***************************************************************************)
(* SCMasterPort (src/src/sc_master_port.cc): the bridge in the other       *)
(* direction. A SystemC initiator sends TLM transactions to the socket of  *)
(* a Gem5MasterTransactor; the port turns each into a gem5 packet, or      *)
(* takes the packet out of the payload's extension when the transaction    *)
(* came from a slave port ("pipe through"), and turns the response of gem5 *)
(* back into BEGIN_RESP.                                                   *)
(*                                                                         *)
(* Two neighbours are external: the initiator, which keeps the base        *)
(* protocol (ini), and the gem5 port, which may refuse requests and then   *)
(* owes a recvReqRetry (owesRetry), and sends responses (inGem5,           *)
(* peerWaits). A packet is named by the transaction in its TlmSenderState. *)
(*                                                                         *)
(* peq_cb lets gem5 catch up before it handles a phase: the responses that *)
(* gem5 sends meanwhile are steps of their own, before that of peq_cb.     *)
(* b_transport and transport_dbg (atomic mode, debug accesses) make and    *)
(* destroy their packet in one call and leave nothing of this state        *)
(* changed.                                                                *)
(***************************************************************************)
EXTENDS Integers

CONSTANTS
    Trans,         \* payload objects of the initiator
    Kinds,         \* kinds of transaction the initiator may send
    Answers,       \* what the initiator may return for BEGIN_RESP
    RetrySendsOne, \* gem5 sends one response from inside recvRespRetry
    NULL

ASSUME KindsAssumption   == Kinds \subseteq {"generated", "piped", "posted"}
ASSUME AnswersAssumption == Answers \subseteq {"COMPLETED", "UPDATED", "ACCEPTED"}
ASSUME RetryAssumption   == RetrySendsOne \in BOOLEAN
ASSUME NullAssumption    == NULL \notin Trans

VARIABLES
    peq,                \* phases of a transaction that wait in the peq
    waitForRetry,
    pendingRequest,     \* transaction whose END_REQ waits for recvReqRetry
    pendingPacket,      \* packet that gem5 refused
    needToSendRetry,    \* a response of gem5 was refused
    responseInProgress, \* BEGIN_RESP was sent and END_RESP not yet handled
    retry,              \* handleEndResp is inside sendRetryResp()
    packets,            \* packets of generatePacket() that are not destroyed
    senderStates,       \* TlmSenderStates that are not deleted
    aborted,            \* the assertion that stopped the program, or "none"
    refCount,           \* reference count of each payload
    status,             \* its response status
    kind,               \* no extension; an extension; one whose packet needs no response
    ini,                \* external: where the initiator is with a transaction
    inGem5,             \* external: packets that gem5 will answer
    owesRetry,          \* external: gem5 refused a request and will retry
    peerWaits           \* external: gem5 waits for sendRetryResp()

reqVars  == <<waitForRetry, pendingRequest, pendingPacket>>
respVars == <<needToSendRetry, responseInProgress, retry>>
heapVars == <<packets, senderStates>>
gem5Vars == <<inGem5, owesRetry, peerWaits>>
vars     == <<peq, reqVars, respVars, heapVars, aborted, refCount, status, kind, ini, gem5Vars>>

\* The variables keep their types; in particular no reference count is
\* negative and a payload never has more than three references.
TypeOK ==
    /\ peq \in [Trans -> SUBSET {"BEGIN_REQ", "END_RESP"}]
    /\ waitForRetry \in BOOLEAN
    /\ pendingRequest \in Trans \cup {NULL}
    /\ pendingPacket \in Trans \cup {NULL}
    /\ needToSendRetry \in BOOLEAN
    /\ responseInProgress \in BOOLEAN
    /\ retry \in {"no", "open", "used"}
    /\ packets \subseteq Trans
    /\ senderStates \subseteq Trans
    /\ aborted \in {"none", "handleBeginReq", "handleEndResp", "checkTransaction",
                    "recvTimingResp", "recvReqRetry"}
    /\ refCount \in [Trans -> 0 .. 3]
    /\ status \in [Trans -> {"incomplete", "ok", "error"}]
    /\ kind \in [Trans -> {"generated", "piped", "posted"}]
    /\ ini \in [Trans -> {"idle", "req", "ended", "resp"}]
    /\ inGem5 \subseteq Trans
    /\ owesRetry \in BOOLEAN
    /\ peerWaits \in BOOLEAN

Init ==
    /\ peq = [t \in Trans |-> {}]
    /\ waitForRetry = FALSE
    /\ pendingRequest = NULL
    /\ pendingPacket = NULL
    /\ needToSendRetry = FALSE
    /\ responseInProgress = FALSE
    /\ retry = "no"
    /\ packets = {}
    /\ senderStates = {}
    /\ aborted = "none"
    /\ refCount = [t \in Trans |-> 0]
    /\ status = [t \in Trans |-> "incomplete"]
    /\ kind = [t \in Trans |-> "generated"]
    /\ ini = [t \in Trans |-> "idle"]
    /\ inGem5 = {}
    /\ owesRetry = FALSE
    /\ peerWaits = FALSE

Running == aborted = "none"

\* No call of the port is on the stack.
Ready == Running /\ retry = "no"

failUnless(cond, where) == aborted' = IF cond THEN aborted ELSE where

----------------------------------------------------------------------------
(* Calls of the initiator *)

\* nb_transport_fw: the references it takes before it queues the phase.
mut_acquired_none == 0
acquired == 1

\* A transaction with byte enables or a streaming width shorter than its data
\* is refused with TLM_COMPLETED and an error status; it is not queued.
nb_transport_fw_error(t) ==
    /\ Ready
    /\ refCount[t] = 0
    /\ status' = [status EXCEPT ![t] = "error"]
    /\ UNCHANGED <<peq, reqVars, respVars, heapVars, aborted, refCount, kind, ini, gem5Vars>>

\* BEGIN_REQ. The initiator takes a free payload, sets it up and keeps the
\* request exclusion rule.
nb_transport_fw_BEGIN_REQ(t) ==
    /\ Ready
    /\ refCount[t] = 0
    /\ \A u \in Trans : ini[u] # "req"
    /\ \E k \in Kinds : kind' = [kind EXCEPT ![t] = k]
    /\ status' = [status EXCEPT ![t] = "incomplete"]
    /\ ini' = [ini EXCEPT ![t] = "req"]
    /\ refCount' = [refCount EXCEPT ![t] = 1 + acquired]
    /\ peq' = [peq EXCEPT ![t] = @ \cup {"BEGIN_REQ"}]
    /\ UNCHANGED <<reqVars, respVars, heapVars, aborted, gem5Vars>>

\* END_RESP. The initiator gives its own reference back when the call returns.
nb_transport_fw_END_RESP(t) ==
    /\ Ready
    /\ ini[t] = "resp"
    /\ ini' = [ini EXCEPT ![t] = "idle"]
    /\ refCount' = [refCount EXCEPT ![t] = @ + acquired - 1]
    /\ peq' = [peq EXCEPT ![t] = @ \cup {"END_RESP"}]
    /\ UNCHANGED <<reqVars, respVars, heapVars, aborted, status, kind, gem5Vars>>

----------------------------------------------------------------------------
(* Callbacks of the peq *)

\* sendTimingReq(pkt) returned true: END_REQ goes to the initiator and gem5
\* owns the packet. It answers it, or drops it if it needs no response.
taken(t) ==
    /\ ini' = [ini EXCEPT ![t] = "ended"]
    /\ inGem5' = IF kind[t] = "posted" THEN inGem5 ELSE inGem5 \cup {t}

\* The packet made for t; one that was piped through is in the extension.
generatePacket(t) == IF kind[t] = "generated" THEN {t} ELSE {}

\* peq_cb(BEGIN_REQ). acquire() and release() cancel out if gem5 takes the
\* packet at once.
handleBeginReq(t, success) ==
    /\ Ready
    /\ "BEGIN_REQ" \in peq[t]
    /\ peq' = [peq EXCEPT ![t] = @ \ {"BEGIN_REQ"}]
    /\ failUnless(~waitForRetry /\ pendingRequest = NULL /\ pendingPacket = NULL, "handleBeginReq")
    /\ packets' = packets \cup generatePacket(t)
    /\ senderStates' = senderStates \cup {t}
    /\ IF success
       THEN /\ taken(t)
            /\ UNCHANGED <<reqVars, refCount, owesRetry>>
       ELSE /\ waitForRetry' = TRUE
            /\ pendingRequest' = t
            /\ pendingPacket' = t
            /\ refCount' = [refCount EXCEPT ![t] = @ + 1]
            /\ owesRetry' = TRUE
            /\ UNCHANGED <<ini, inGem5>>
    /\ UNCHANGED <<respVars, status, kind, peerWaits>>

\* peq_cb(END_RESP), up to the call of sendRetryResp() if there is one. The
\* reference that nb_transport_fw took for END_RESP is not given back.
mut_handleEndResp_no_retry(t) ==
    /\ Ready
    /\ "END_RESP" \in peq[t]
    /\ peq' = [peq EXCEPT ![t] = @ \ {"END_RESP"}]
    /\ responseInProgress' = FALSE
    /\ UNCHANGED <<reqVars, needToSendRetry, retry, heapVars, aborted, refCount, status, kind,
                   ini, gem5Vars>>
handleEndResp(t) ==
    /\ Ready
    /\ "END_RESP" \in peq[t]
    /\ peq' = [peq EXCEPT ![t] = @ \ {"END_RESP"}]
    /\ aborted' = IF ~responseInProgress THEN "handleEndResp"
                  ELSE IF status[t] # "ok" THEN "checkTransaction"
                  ELSE aborted
    /\ responseInProgress' = FALSE
    /\ IF needToSendRetry
       THEN retry' = "open" /\ peerWaits' = FALSE
       ELSE UNCHANGED <<retry, peerWaits>>
    /\ UNCHANGED <<reqVars, needToSendRetry, heapVars, refCount, status, kind, ini, inGem5,
                   owesRetry>>

\* sendRetryResp() returns, and only then is the mark cleared.
mut_sendRetryResp_keeps_mark ==
    /\ Running /\ retry # "no" /\ retry' = "no"
    /\ UNCHANGED <<peq, reqVars, needToSendRetry, responseInProgress, heapVars, aborted,
                   refCount, status, kind, ini, gem5Vars>>
sendRetryResp_returns ==
    /\ Running
    /\ retry # "no"
    /\ retry' = "no"
    /\ needToSendRetry' = FALSE
    /\ UNCHANGED <<peq, reqVars, responseInProgress, heapVars, aborted, refCount, status, kind,
                   ini, gem5Vars>>

----------------------------------------------------------------------------
(* Calls of gem5 *)

\* recvReqRetry: the pending packet is sent again, and may be refused again.
mut_recvReqRetry_no_release(success) ==
    /\ Ready /\ owesRetry /\ success
    /\ waitForRetry' = FALSE /\ pendingPacket' = NULL /\ pendingRequest' = NULL
    /\ taken(pendingRequest)
    /\ owesRetry' = FALSE
    /\ UNCHANGED <<peq, respVars, heapVars, aborted, refCount, status, kind, peerWaits>>
mut_recvReqRetry_keeps_wait(success) ==
    /\ Ready /\ owesRetry /\ success
    /\ pendingPacket' = NULL /\ pendingRequest' = NULL
    /\ taken(pendingRequest)
    /\ refCount' = [refCount EXCEPT ![pendingRequest] = @ - 1]
    /\ owesRetry' = FALSE
    /\ UNCHANGED <<peq, waitForRetry, respVars, heapVars, aborted, status, kind, peerWaits>>
recvReqRetry(success) ==
    /\ Ready
    /\ owesRetry
    /\ failUnless(waitForRetry /\ pendingRequest # NULL /\ pendingPacket # NULL, "recvReqRetry")
    /\ IF success
       THEN /\ waitForRetry' = FALSE
            /\ pendingPacket' = NULL
            /\ pendingRequest' = NULL
            /\ taken(pendingRequest)
            /\ refCount' = [refCount EXCEPT ![pendingRequest] = @ - 1]
            /\ owesRetry' = FALSE
       ELSE UNCHANGED <<reqVars, ini, inGem5, refCount, owesRetry>>
    /\ UNCHANGED <<peq, respVars, heapVars, status, kind, peerWaits>>

\* gem5 may send a response: not while it waits for a retry; from inside
\* sendRetryResp() once, or as often as it likes.
canRespond == Running /\ ~peerWaits /\ ~(RetrySendsOne /\ retry = "used")

useRetry == retry' = IF retry = "no" THEN "no" ELSE "used"

\* The exclusion rule of recvTimingResp: END_RESP of the last response is due.
mut_mustWait_never == FALSE
mustWait == responseInProgress

\* recvTimingResp returns false.
recvTimingResp_refused(t) ==
    /\ canRespond
    /\ t \in inGem5
    /\ mustWait
    /\ failUnless(~needToSendRetry, "recvTimingResp")
    /\ needToSendRetry' = TRUE
    /\ peerWaits' = TRUE
    /\ useRetry
    /\ UNCHANGED <<peq, reqVars, responseInProgress, heapVars, refCount, status, kind, ini,
                   inGem5, owesRetry>>

\* recvTimingResp returns true: the sender state goes, and the packet unless
\* it was piped through; BEGIN_RESP goes to the initiator, which ends the
\* transaction at once and releases it, or answers TLM_ACCEPTED. With the
\* last reference the extension goes too.
destroyPacket(t) == IF kind[t] = "generated" THEN {t} ELSE {}

mut_recvTimingResp_keeps_packet(t, answer) ==
    /\ canRespond /\ t \in inGem5 /\ ~mustWait
    /\ inGem5' = inGem5 \ {t}
    /\ senderStates' = senderStates \ {t}
    /\ status' = [status EXCEPT ![t] = "ok"]
    /\ responseInProgress' = (answer = "ACCEPTED")
    /\ ini' = [ini EXCEPT ![t] = IF answer = "ACCEPTED" THEN "resp" ELSE "idle"]
    /\ refCount' = [refCount EXCEPT ![t] = @ - (IF answer = "ACCEPTED" THEN 1 ELSE 2)]
    /\ useRetry
    /\ UNCHANGED <<peq, reqVars, needToSendRetry, packets, aborted, kind, owesRetry, peerWaits>>
recvTimingResp(t, answer) ==
    /\ canRespond
    /\ t \in inGem5
    /\ ~mustWait
    /\ inGem5' = inGem5 \ {t}
    /\ senderStates' = senderStates \ {t}
    /\ packets' = packets \ destroyPacket(t)
    /\ status' = [status EXCEPT ![t] = "ok"]
    /\ responseInProgress' = (answer = "ACCEPTED")
    /\ ini' = [ini EXCEPT ![t] = IF answer = "ACCEPTED" THEN "resp" ELSE "idle"]
    /\ refCount' = [refCount EXCEPT ![t] = @ - (IF answer = "ACCEPTED" THEN 1 ELSE 2)]
    /\ kind' = IF answer = "ACCEPTED" THEN kind ELSE [kind EXCEPT ![t] = "generated"]
    /\ useRetry
    /\ UNCHANGED <<peq, reqVars, needToSendRetry, aborted, owesRetry, peerWaits>>

----------------------------------------------------------------------------

InitiatorNext == \E t \in Trans : \/ nb_transport_fw_error(t)
                                  \/ nb_transport_fw_BEGIN_REQ(t)
                                  \/ nb_transport_fw_END_RESP(t)

PeqNext == \/ \E t \in Trans : \/ \E success \in BOOLEAN : handleBeginReq(t, success)
                               \/ handleEndResp(t)
           \/ sendRetryResp_returns

Gem5Next == \/ \E success \in BOOLEAN : recvReqRetry(success)
            \/ \E t \in Trans : \/ recvTimingResp_refused(t)
                                \/ \E answer \in Answers : recvTimingResp(t, answer)

Next == InitiatorNext \/ PeqNext \/ Gem5Next

Spec == Init /\ [][Next]_vars

(* Fairness. A phase in the peq has a fixed time, so its callback runs      *)
(* whatever else runs before it; a call returns. Of gem5: it answers every  *)
(* packet it took, repeats a refused response after the retry, and retries  *)
(* a refused request until it takes it. The initiator sends END_RESP. The   *)
(* base protocol leaves one BEGIN_REQ, one END_RESP in the peq at a time,   *)
(* so fairness for each transaction and for all of them is the same there.  *)
Fairness ==
    /\ SF_vars(\E t \in Trans, success \in BOOLEAN : handleBeginReq(t, success))
    /\ SF_vars(\E t \in Trans : handleEndResp(t))
    /\ SF_vars(\E t \in Trans : nb_transport_fw_END_RESP(t))
    /\ \A t \in Trans : SF_vars(\E answer \in Answers : recvTimingResp(t, answer))
    /\ SF_vars(recvReqRetry(TRUE))
    /\ WF_vars(sendRetryResp_returns)

FairSpec == Spec /\ Fairness

----------------------------------------------------------------------------
(* Properties *)

Bit(b) == IF b THEN 1 ELSE 0

\* The transaction is between BEGIN_RESP and the handling of its END_RESP.
Responding(t) == ini[t] = "resp" \/ "END_RESP" \in peq[t]

\* The response exclusion rule of the base protocol, and the reason why
\* recvTimingResp may trust its flag: responseInProgress holds exactly while
\* one transaction is between BEGIN_RESP and the end of its END_RESP.
ResponseExclusion ==
    /\ responseInProgress <=> \E t \in Trans : Responding(t)
    /\ \A t, u \in Trans : Responding(t) /\ Responding(u) => t = u

\* A refused response is not forgotten: while gem5 waits for sendRetryResp()
\* the port knows it owes one and an END_RESP that will trigger it is due.
NoLostRespRetry == peerWaits => needToSendRetry /\ responseInProgress

\* A mark that nobody waits for would make handleEndResp send a retry that
\* gem5 did not ask for, and fail the assertion of the next refusal.
NoStaleRespRetry == needToSendRetry => peerWaits \/ retry # "no"

\* The references of the initiator and of the port to t.
IniRefs(t) == Bit(ini[t] # "idle")
PortRefs(t) == Bit("BEGIN_REQ" \in peq[t] \/ t \in senderStates) + Bit(pendingRequest = t)

\* The payload of a transaction that gem5 or the peq still refers to is not
\* recycled, and until END_RESP each reference has an owner. From END_RESP on
\* there is one reference more, which is never given back.
ReferenceBalance ==
    \A t \in Trans :
        /\ "END_RESP" \in peq[t] => refCount[t] = 1
        /\ ini[t] # "idle" => refCount[t] = IniRefs(t) + PortRefs(t)
        /\ ini[t] = "idle" => PortRefs(t) = 0 /\ refCount[t] <= 1

\* "The packet will be deleted when it returns from the gem5 world as a
\* response": a generated packet, and the sender state of any packet, exists
\* while the packet is refused or in gem5, and no longer; the packet of a
\* posted request leaves its sender state behind.
PacketLifetime ==
    /\ packets = {t \in senderStates : kind[t] = "generated"}
    /\ \A t \in Trans : (t \in inGem5 \/ pendingPacket = t) => t \in senderStates
    /\ \A t \in senderStates : t \in inGem5 \/ pendingPacket = t \/ kind[t] = "posted"

\* No sc_assert of the port fails, and checkTransaction finds no error status
\* in a transaction that ends.
NoAssertionFails == aborted = "none"

\* Every request of the initiator is answered, if its packet needs a response.
EveryRequestAnswered ==
    \A t \in Trans : ini[t] = "req" /\ kind[t] # "posted" ~> ini[t] = "idle"

\* A gem5 port whose response was refused gets its sendRetryResp().
RespRetryArrives == peerWaits ~> ~peerWaits

----------------------------------------------------------------------------
(* The inductive invariant behind the safety properties. *)

\* A transaction in each place of the port is in the matching phase at the
\* initiator.
PlaceInv ==
    \A t \in Trans :
        /\ "BEGIN_REQ" \in peq[t] => ini[t] = "req" /\ t \notin senderStates
        /\ "END_RESP" \in peq[t] => ini[t] = "idle" /\ status[t] = "ok"
        /\ ini[t] = "resp" => status[t] = "ok"
        /\ pendingRequest = t => ini[t] = "req" /\ t \in senderStates
        /\ t \in inGem5 => ini[t] = "ended"
        /\ t \in senderStates => ini[t] \in {"req", "ended"}
        /\ ini[t] \in {"idle", "resp"} => t \notin senderStates
        /\ ini[t] = "req" => "BEGIN_REQ" \in peq[t] \/ pendingRequest = t
        /\ ini[t] = "ended" => t \in senderStates

\* The initiator has one request at a time.
OneRequest == \A t, u \in Trans : ini[t] = "req" /\ ini[u] = "req" => t = u

\* The three fields of a pending request agree with each other and with gem5.
PendingInv ==
    /\ pendingRequest = pendingPacket
    /\ waitForRetry <=> pendingRequest # NULL
    /\ owesRetry <=> pendingRequest # NULL

\* sendRetryResp() runs with the mark still set.
RetryInv ==
    /\ retry # "no" => needToSendRetry /\ ~peerWaits
    /\ retry = "open" => ~responseInProgress

\* TypeOK and the safety properties follow from this invariant, and every
\* action of the port, of the initiator and of gem5 preserves it if gem5
\* sends one response for each retry.
IndInv ==
    /\ TypeOK
    /\ NoAssertionFails
    /\ PlaceInv
    /\ OneRequest
    /\ PendingInv
    /\ RetryInv
    /\ ResponseExclusion
    /\ NoLostRespRetry
    /\ NoStaleRespRetry
    /\ ReferenceBalance
    /\ PacketLifetime
=============================================================================

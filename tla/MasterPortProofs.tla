-------------------------- MODULE MasterPortProofs --------------------------
(***************************************************************************)
(* Proofs of the safety properties of MasterPort for any number of         *)
(* payloads, any kinds of transaction and any answers of the initiator, if *)
(* gem5 sends one response for each retry. IndInv is inductive; there is   *)
(* one lemma per action, with one step per conjunct that needs more than   *)
(* the definition of the action.                                           *)
(***************************************************************************)
EXTENDS MasterPort, TLAPS

\* The initial state, in which no transaction has begun, satisfies the
\* invariant.
LEMMA InitInv == Init => IndInv
  <1> SUFFICES ASSUME Init PROVE IndInv
    OBVIOUS
  <1> USE NullAssumption DEF Init
  <1>1. TypeOK
    <2>1. /\ peq \in [Trans -> SUBSET {"BEGIN_REQ", "END_RESP"}]
          /\ refCount \in [Trans -> 0 .. 3]
          /\ status \in [Trans -> {"incomplete", "ok", "error"}]
      OBVIOUS
    <2>2. /\ kind \in [Trans -> {"generated", "piped", "posted"}]
          /\ ini \in [Trans -> {"idle", "req", "ended", "resp"}]
      OBVIOUS
    <2> QED
      BY <2>1, <2>2 DEF TypeOK
  <1>2. NoAssertionFails /\ PlaceInv /\ OneRequest /\ PendingInv /\ RetryInv
    BY DEF NoAssertionFails, PlaceInv, OneRequest, PendingInv, RetryInv
  <1>3. ResponseExclusion /\ NoLostRespRetry /\ NoStaleRespRetry
    BY DEF ResponseExclusion, Responding, NoLostRespRetry, NoStaleRespRetry
  <1>4. ReferenceBalance /\ PacketLifetime
    BY DEF ReferenceBalance, IniRefs, PortRefs, Bit, PacketLifetime
  <1> QED
    BY <1>1, <1>2, <1>3, <1>4 DEF IndInv

\* A transaction that is refused with an error only changes the status of a
\* payload that nobody uses.
LEMMA ErrorInv ==
    ASSUME IndInv, RetrySendsOne, NEW t \in Trans, nb_transport_fw_error(t)
    PROVE  IndInv'
  <1> USE NullAssumption, KindsAssumption DEF IndInv, nb_transport_fw_error, Ready, Running,
        reqVars, respVars, heapVars, gem5Vars
  <1>1. TypeOK'
    BY DEF TypeOK
  <1>2. PlaceInv'
    BY DEF PlaceInv, TypeOK, ReferenceBalance, IniRefs, PortRefs, Bit
  <1>3. NoAssertionFails' /\ OneRequest' /\ PendingInv' /\ RetryInv'
    BY DEF NoAssertionFails, OneRequest, PendingInv, RetryInv
  <1>4. ResponseExclusion' /\ NoLostRespRetry' /\ NoStaleRespRetry' /\ ReferenceBalance'
    BY DEF ResponseExclusion, Responding, NoLostRespRetry, NoStaleRespRetry,
           ReferenceBalance, IniRefs, PortRefs, Bit
  <1>5. PacketLifetime'
    BY DEF PacketLifetime
  <1> QED
    BY <1>1, <1>2, <1>3, <1>4, <1>5

\* BEGIN_REQ: a payload without references, which therefore is in no place of
\* the port, enters the peq.
LEMMA BeginReqInv ==
    ASSUME IndInv, RetrySendsOne, NEW t \in Trans, nb_transport_fw_BEGIN_REQ(t)
    PROVE  IndInv'
  <1> USE NullAssumption, KindsAssumption DEF IndInv, nb_transport_fw_BEGIN_REQ, acquired,
        Ready, Running, reqVars, respVars, heapVars, gem5Vars
  <1>1. TypeOK'
    BY DEF TypeOK
  <1>2. PlaceInv'
    BY DEF PlaceInv, TypeOK, ReferenceBalance, IniRefs, PortRefs, Bit
  <1>3. ResponseExclusion'
    BY DEF ResponseExclusion, Responding, TypeOK, PlaceInv, ReferenceBalance, IniRefs,
           PortRefs, Bit
  <1>4. ReferenceBalance'
    BY DEF ReferenceBalance, IniRefs, PortRefs, Bit, TypeOK
  <1>5. PacketLifetime'
    BY DEF PacketLifetime, TypeOK, PlaceInv, ReferenceBalance, IniRefs, PortRefs, Bit
  <1>6. NoAssertionFails' /\ OneRequest' /\ PendingInv' /\ RetryInv'
    BY DEF NoAssertionFails, OneRequest, PendingInv, RetryInv
  <1>7. NoLostRespRetry' /\ NoStaleRespRetry'
    BY DEF NoLostRespRetry, NoStaleRespRetry
  <1> QED
    BY <1>1, <1>2, <1>3, <1>4, <1>5, <1>6, <1>7

\* END_RESP: the reference of the initiator becomes that of the peq.
LEMMA EndRespInv ==
    ASSUME IndInv, RetrySendsOne, NEW t \in Trans, nb_transport_fw_END_RESP(t)
    PROVE  IndInv'
  <1> USE NullAssumption, KindsAssumption DEF IndInv, nb_transport_fw_END_RESP, acquired,
        Ready, Running, reqVars, respVars, heapVars, gem5Vars
  <1>1. TypeOK'
    BY DEF TypeOK
  <1>2. PlaceInv'
    BY DEF PlaceInv, TypeOK
  <1>3. ResponseExclusion'
    BY DEF ResponseExclusion, Responding, TypeOK
  <1>4. ReferenceBalance'
    BY DEF ReferenceBalance, IniRefs, PortRefs, Bit, PlaceInv
  <1>5. NoAssertionFails' /\ OneRequest' /\ PendingInv' /\ RetryInv'
    BY DEF NoAssertionFails, OneRequest, PendingInv, RetryInv
  <1>6. NoLostRespRetry' /\ NoStaleRespRetry' /\ PacketLifetime'
    BY DEF NoLostRespRetry, NoStaleRespRetry, PacketLifetime
  <1> QED
    BY <1>1, <1>2, <1>3, <1>4, <1>5, <1>6

\* peq_cb(BEGIN_REQ): by the request exclusion rule no request is pending.
LEMMA HandleBeginReqInv ==
    ASSUME IndInv, RetrySendsOne, NEW t \in Trans, NEW success \in BOOLEAN, handleBeginReq(t, success)
    PROVE  IndInv'
  <1> USE NullAssumption, KindsAssumption DEF IndInv, handleBeginReq, generatePacket,
        failUnless, taken, Ready, Running, reqVars, respVars, heapVars, gem5Vars
  <1>1. TypeOK'
    <2>1. refCount[t] <= 2
      BY DEF PlaceInv, ReferenceBalance, IniRefs, PortRefs, Bit
    <2>2. refCount' \in [Trans -> 0 .. 3]
      BY <2>1 DEF TypeOK
    <2>3. aborted' = aborted
      BY DEF PlaceInv, PendingInv, OneRequest, TypeOK
    <2>4. CASE success
      BY <2>2, <2>3, <2>4 DEF TypeOK
    <2>5. CASE ~success
      BY <2>2, <2>3, <2>5 DEF TypeOK
    <2> QED
      BY <2>4, <2>5
  <1>2. NoAssertionFails'
    BY DEF NoAssertionFails, TypeOK, PlaceInv, OneRequest, PendingInv
  <1>3. PlaceInv'
    BY DEF PlaceInv, TypeOK, OneRequest, PendingInv
  <1>4. OneRequest'
    BY DEF OneRequest, TypeOK
  <1>5. ResponseExclusion'
    BY DEF ResponseExclusion, Responding, TypeOK, PlaceInv
  <1>6. ReferenceBalance'
    BY DEF ReferenceBalance, IniRefs, PortRefs, Bit, TypeOK, PlaceInv, OneRequest,
           PendingInv
  <1>7. PacketLifetime'
    BY DEF PacketLifetime, TypeOK, PlaceInv, OneRequest, PendingInv
  <1>8. PendingInv' /\ RetryInv' /\ NoLostRespRetry' /\ NoStaleRespRetry'
    BY DEF PendingInv, RetryInv, NoLostRespRetry, NoStaleRespRetry
  <1> QED
    BY <1>1, <1>2, <1>3, <1>4, <1>5, <1>6, <1>7, <1>8

\* peq_cb(END_RESP): the response in progress is this one, and since the peq
\* holds a reference its status is still the one of recvTimingResp.
LEMMA HandleEndRespInv ==
    ASSUME IndInv, RetrySendsOne, NEW t \in Trans, handleEndResp(t)
    PROVE  IndInv'
  <1> USE NullAssumption, KindsAssumption DEF IndInv, handleEndResp, Ready, Running, reqVars,
        respVars, heapVars, gem5Vars
  <1>1. TypeOK'
    BY DEF TypeOK
  <1>2. NoAssertionFails'
    BY DEF NoAssertionFails, TypeOK, PlaceInv, ResponseExclusion, Responding
  <1>3. ResponseExclusion'
    BY DEF ResponseExclusion, Responding, TypeOK, PlaceInv
  <1>4. PlaceInv' /\ OneRequest' /\ PendingInv' /\ RetryInv'
    BY DEF PlaceInv, OneRequest, PendingInv, RetryInv
  <1>5. NoLostRespRetry' /\ NoStaleRespRetry' /\ ReferenceBalance' /\ PacketLifetime'
    BY DEF NoLostRespRetry, NoStaleRespRetry, ReferenceBalance, IniRefs, PortRefs, Bit,
           PacketLifetime
  <1> QED
    BY <1>1, <1>2, <1>3, <1>4, <1>5

\* sendRetryResp() returns and the mark is cleared; nothing was refused
\* meanwhile, since gem5 sent one response at most.
LEMMA RetryReturnsInv ==
    ASSUME IndInv, RetrySendsOne, sendRetryResp_returns
    PROVE  IndInv'
  <1> USE NullAssumption, KindsAssumption DEF IndInv, sendRetryResp_returns, Running,
        reqVars, respVars, heapVars, gem5Vars
  <1>1. TypeOK'
    BY DEF TypeOK
  <1>2. NoLostRespRetry'
    BY DEF NoLostRespRetry, ResponseExclusion, Responding, RetryInv
  <1>3. NoAssertionFails' /\ PlaceInv' /\ OneRequest' /\ PendingInv'
    BY DEF NoAssertionFails, PlaceInv, OneRequest, PendingInv
  <1>4. RetryInv' /\ ResponseExclusion' /\ NoStaleRespRetry' /\ ReferenceBalance'
    BY DEF RetryInv, ResponseExclusion, Responding, NoStaleRespRetry, ReferenceBalance,
           IniRefs, PortRefs, Bit
  <1>5. PacketLifetime'
    BY DEF PacketLifetime
  <1> QED
    BY <1>1, <1>2, <1>3, <1>4, <1>5

\* recvReqRetry: the packet that gem5 refused is the pending one.
LEMMA ReqRetryInv ==
    ASSUME IndInv, RetrySendsOne, NEW success \in BOOLEAN, recvReqRetry(success)
    PROVE  IndInv'
  <1> USE NullAssumption DEF IndInv, recvReqRetry, failUnless, taken, Ready, Running,
        reqVars, respVars, heapVars, gem5Vars
  <1>1. PICK t \in Trans : pendingRequest = t /\ pendingPacket = t /\ waitForRetry
    BY DEF PendingInv, TypeOK
  <1>2. /\ ini[t] = "req" /\ t \in senderStates /\ "BEGIN_REQ" \notin peq[t]
        /\ t \notin inGem5 /\ refCount[t] = 3 /\ aborted' = aborted
    BY <1>1 DEF PlaceInv, ReferenceBalance, IniRefs, PortRefs, Bit
  <1>3. CASE ~success
    <2> USE <1>2, <1>3
    <2>1. TypeOK' /\ NoAssertionFails' /\ PlaceInv' /\ OneRequest' /\ PendingInv' /\ RetryInv'
      BY DEF TypeOK, NoAssertionFails, PlaceInv, OneRequest, PendingInv, RetryInv
    <2>2. ResponseExclusion' /\ NoLostRespRetry' /\ NoStaleRespRetry'
      BY DEF ResponseExclusion, Responding, NoLostRespRetry, NoStaleRespRetry
    <2>3. ReferenceBalance' /\ PacketLifetime'
      BY DEF ReferenceBalance, IniRefs, PortRefs, Bit, PacketLifetime
    <2> QED
      BY <2>1, <2>2, <2>3
  <1>4. CASE success
    <2>1. /\ ini' = [ini EXCEPT ![t] = "ended"]
          /\ refCount' = [refCount EXCEPT ![t] = @ - 1]
          /\ pendingRequest' = NULL /\ pendingPacket' = NULL
          /\ ~waitForRetry' /\ ~owesRetry'
          /\ inGem5' = IF kind[t] = "posted" THEN inGem5 ELSE inGem5 \cup {t}
          /\ UNCHANGED <<peq, respVars, heapVars, aborted, status, kind, peerWaits>>
      BY <1>1, <1>2, <1>4
    <2> HIDE DEF recvReqRetry
    <2> USE <1>1, <1>2, <2>1
    <2>2. TypeOK'
      <3>1. refCount' \in [Trans -> 0 .. 3] /\ ini' \in [Trans -> {"idle", "req", "ended", "resp"}]
        BY DEF TypeOK
      <3>2. inGem5' \subseteq Trans
        BY DEF TypeOK
      <3>3. waitForRetry' \in BOOLEAN /\ owesRetry' \in BOOLEAN
        BY <1>4 DEF recvReqRetry
      <3> QED
        BY <3>1, <3>2, <3>3 DEF TypeOK
    <2>3. NoAssertionFails' /\ PendingInv' /\ RetryInv' /\ NoLostRespRetry' /\ NoStaleRespRetry'
      BY DEF NoAssertionFails, PendingInv, RetryInv, NoLostRespRetry, NoStaleRespRetry
    <2>4. PlaceInv'
      BY DEF PlaceInv, TypeOK
    <2>5. OneRequest'
      BY DEF OneRequest, TypeOK
    <2>6. ResponseExclusion'
      <3>1. \A u \in Trans : Responding(u)' <=> Responding(u)
        BY DEF Responding, TypeOK
      <3> QED
        BY <3>1 DEF ResponseExclusion
    <2>7. ReferenceBalance'
      BY DEF ReferenceBalance, IniRefs, PortRefs, Bit, TypeOK
    <2>8. PacketLifetime'
      BY DEF PacketLifetime
    <2> QED
      BY <2>2, <2>3, <2>4, <2>5, <2>6, <2>7, <2>8
  <1> QED
    BY <1>3, <1>4

\* A response is refused while END_RESP is due; no other one was refused.
LEMMA RespRefusedInv ==
    ASSUME IndInv, RetrySendsOne, NEW t \in Trans, recvTimingResp_refused(t)
    PROVE  IndInv'
  <1> USE NullAssumption, KindsAssumption DEF IndInv, recvTimingResp_refused, failUnless,
        canRespond, mustWait, useRetry, Running, reqVars, respVars, heapVars, gem5Vars
  <1>1. TypeOK'
    BY DEF TypeOK
  <1>2. NoAssertionFails'
    BY DEF NoAssertionFails, TypeOK, PlaceInv, ResponseExclusion, Responding, RetryInv,
           NoLostRespRetry, NoStaleRespRetry
  <1>3. RetryInv'
    BY DEF RetryInv, TypeOK
  <1>4. PlaceInv' /\ OneRequest' /\ PendingInv' /\ ResponseExclusion'
    BY DEF PlaceInv, OneRequest, PendingInv, ResponseExclusion, Responding
  <1>5. NoLostRespRetry' /\ NoStaleRespRetry' /\ ReferenceBalance' /\ PacketLifetime'
    BY DEF NoLostRespRetry, NoStaleRespRetry, ReferenceBalance, IniRefs, PortRefs, Bit,
           PacketLifetime
  <1> QED
    BY <1>1, <1>2, <1>3, <1>4, <1>5

\* A response is passed on as BEGIN_RESP; no other one is in progress.
LEMMA RespTakenInv ==
    ASSUME IndInv, RetrySendsOne, NEW t \in Trans, NEW answer \in Answers, recvTimingResp(t, answer)
    PROVE  IndInv'
  <1> USE NullAssumption, KindsAssumption DEF IndInv, recvTimingResp, canRespond, mustWait,
        useRetry, destroyPacket, Running, reqVars, respVars, heapVars, gem5Vars
  <1>1. TypeOK'
    BY DEF TypeOK, PlaceInv, ReferenceBalance, IniRefs, PortRefs, Bit
  <1>2. PlaceInv'
    BY DEF PlaceInv, TypeOK
  <1>3. ResponseExclusion'
    <2>1. \A u \in Trans : ~Responding(u)
      BY DEF ResponseExclusion
    <2>2. \A u \in Trans : Responding(u)' => u = t /\ answer = "ACCEPTED"
      BY <2>1 DEF Responding, TypeOK
    <2>3. answer = "ACCEPTED" => Responding(t)'
      BY DEF Responding, TypeOK
    <2>4. responseInProgress' <=> answer = "ACCEPTED"
      OBVIOUS
    <2> QED
      BY <2>2, <2>3, <2>4, Zenon DEF ResponseExclusion
  <1>4. ReferenceBalance'
    BY DEF ReferenceBalance, IniRefs, PortRefs, Bit, TypeOK, PlaceInv
  <1>5. PacketLifetime'
    BY DEF PacketLifetime, TypeOK, PlaceInv, PendingInv
  <1>6. NoAssertionFails' /\ OneRequest' /\ PendingInv' /\ RetryInv'
    BY DEF NoAssertionFails, OneRequest, PendingInv, RetryInv
  <1>7. NoLostRespRetry' /\ NoStaleRespRetry'
    BY DEF NoLostRespRetry, NoStaleRespRetry
  <1> QED
    BY <1>1, <1>2, <1>3, <1>4, <1>5, <1>6, <1>7

\* IndInv is inductive: every step of the initiator, of the peq and of gem5,
\* and every stuttering step, preserves it.
LEMMA NextInv ==
    ASSUME IndInv, RetrySendsOne, [Next]_vars
    PROVE  IndInv'
  <1>1. ASSUME NEW t \in Trans, nb_transport_fw_error(t) PROVE IndInv'
    BY <1>1, ErrorInv
  <1>2. ASSUME NEW t \in Trans, nb_transport_fw_BEGIN_REQ(t) PROVE IndInv'
    BY <1>2, BeginReqInv
  <1>3. ASSUME NEW t \in Trans, nb_transport_fw_END_RESP(t) PROVE IndInv'
    BY <1>3, EndRespInv
  <1>4. ASSUME NEW t \in Trans, NEW success \in BOOLEAN, handleBeginReq(t, success)
        PROVE IndInv'
    BY <1>4, HandleBeginReqInv
  <1>5. ASSUME NEW t \in Trans, handleEndResp(t) PROVE IndInv'
    BY <1>5, HandleEndRespInv
  <1>6. CASE sendRetryResp_returns
    BY <1>6, RetryReturnsInv
  <1>7. ASSUME NEW success \in BOOLEAN, recvReqRetry(success) PROVE IndInv'
    BY <1>7, ReqRetryInv
  <1>8. ASSUME NEW t \in Trans, recvTimingResp_refused(t) PROVE IndInv'
    BY <1>8, RespRefusedInv
  <1>9. ASSUME NEW t \in Trans, NEW answer \in Answers, recvTimingResp(t, answer)
        PROVE IndInv'
    BY <1>9, RespTakenInv
  <1>10. CASE UNCHANGED vars
    <2> USE <1>10 DEF IndInv, vars, reqVars, respVars, heapVars, gem5Vars
    <2>1. TypeOK' /\ NoAssertionFails' /\ PlaceInv' /\ OneRequest' /\ PendingInv' /\ RetryInv'
      BY DEF TypeOK, NoAssertionFails, PlaceInv, OneRequest, PendingInv, RetryInv
    <2>2. ResponseExclusion' /\ NoLostRespRetry' /\ NoStaleRespRetry'
      BY DEF ResponseExclusion, Responding, NoLostRespRetry, NoStaleRespRetry
    <2>3. ReferenceBalance' /\ PacketLifetime'
      BY DEF ReferenceBalance, IniRefs, PortRefs, Bit, PacketLifetime
    <2> QED
      BY <2>1, <2>2, <2>3
  <1> QED
    BY <1>1, <1>2, <1>3, <1>4, <1>5, <1>6, <1>7, <1>8, <1>9, <1>10
       DEF Next, InitiatorNext, PeqNext, Gem5Next

\* Every reachable state of the master port satisfies the inductive invariant,
\* whatever the number of payloads.
THEOREM Invariance ==
    ASSUME RetrySendsOne
    PROVE  Spec => []IndInv
  <1>1. Init => IndInv
    BY InitInv
  <1>2. IndInv /\ [Next]_vars => IndInv'
    BY NextInv
  <1> QED
    BY <1>1, <1>2, PTL DEF Spec

\* The fields of the master port keep their types; a payload has at most three
\* references, and never fewer than none.
THEOREM TypeCorrect ==
    ASSUME RetrySendsOne
    PROVE  Spec => []TypeOK
  <1>1. IndInv => TypeOK
    BY DEF IndInv
  <1> QED
    BY <1>1, Invariance, PTL

\* The master port has one response at a time between BEGIN_RESP and the end of
\* its END_RESP.
THEOREM ResponsesExclude ==
    ASSUME RetrySendsOne
    PROVE  Spec => []ResponseExclusion
  <1>1. IndInv => ResponseExclusion
    BY DEF IndInv
  <1> QED
    BY <1>1, Invariance, PTL

\* A gem5 port that waits for sendRetryResp() has an END_RESP that will send it.
THEOREM RespRetryNotLost ==
    ASSUME RetrySendsOne
    PROVE  Spec => []NoLostRespRetry
  <1>1. IndInv => NoLostRespRetry
    BY DEF IndInv
  <1> QED
    BY <1>1, Invariance, PTL

\* The master port owes a retry only to a gem5 port that waits for it.
THEOREM RespRetryNotStale ==
    ASSUME RetrySendsOne
    PROVE  Spec => []NoStaleRespRetry
  <1>1. IndInv => NoStaleRespRetry
    BY DEF IndInv
  <1> QED
    BY <1>1, Invariance, PTL

\* No payload is recycled while the peq or gem5 refers to it, and only END_RESP
\* leaves a reference behind.
THEOREM ReferencesBalance ==
    ASSUME RetrySendsOne
    PROVE  Spec => []ReferenceBalance
  <1>1. IndInv => ReferenceBalance
    BY DEF IndInv
  <1> QED
    BY <1>1, Invariance, PTL

\* Each generated packet is destroyed when its response returns.
THEOREM PacketsDestroyed ==
    ASSUME RetrySendsOne
    PROVE  Spec => []PacketLifetime
  <1>1. IndInv => PacketLifetime
    BY DEF IndInv
  <1> QED
    BY <1>1, Invariance, PTL

\* The assertions of the master port hold.
THEOREM AssertionsHold ==
    ASSUME RetrySendsOne
    PROVE  Spec => []NoAssertionFails
  <1>1. IndInv => NoAssertionFails
    BY DEF IndInv
  <1> QED
    BY <1>1, Invariance, PTL
=============================================================================

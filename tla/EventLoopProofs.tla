-------------------------- MODULE EventLoopProofs --------------------------
(***************************************************************************)
(* Proofs about EventLoop for every set of events, every time bound, every *)
(* argument of simulate() and all delays: SystemC time never passes a gem5 *)
(* event, the loop is never left asleep, catchup() holds until simulate()  *)
(* has returned, and simulate() finds its exit event unless SystemC code   *)
(* scheduled an event for the very tick of it.                             *)
(***************************************************************************)
EXTENDS EventLoop, WellFoundedInduction, TLAPS

\* The thread simulate(): before it starts nothing else has run; the loop is
\* only entered while it waits.
SimulateInv ==
    /\ simulate = "start" => run = {"simulate"} /\ now = 0 /\ enterAt = NONE
    /\ in_simulate <=> simulate = "waiting"
    /\ active => in_simulate

\* eventLoopEnterEvent is notified for a later time, except between the start
\* of simulate() and the next delta cycle, when nothing is runnable. So the
\* loop is never woken together with a simulate() that is about to return.
NotifyInv ==
    /\ enterAt # NONE => in_simulate /\ enterAt >= now
    /\ enterAt = now => run = {} /\ ~active /\ ~eventLoopExitEvent
    /\ "eventLoop" \in run => in_simulate /\ "simulate" \notin run

IndInv ==
    /\ TypeOK
    /\ SimulateInv
    /\ NotifyInv
    /\ NoEventOverdue
    /\ NeverAsleep
    /\ NoMissedEvent

\* From the exit event until simulate() has run, exitEvent names it and every
\* other event but an exit event lies in the future.
ExitInv ==
    ExitPending /\ fatal = "none" /\ ~sameTick =>
        /\ exitEvent \in Exit
        /\ \A e \in Work : when[e] # NONE => when[e] > now

ExitIndInv == IndInv /\ ExitInv /\ SimulateFindsExit

(***************************************************************************)
(* The earliest event.                                                     *)
(***************************************************************************)
\* A set of natural numbers that is not empty has a least element.
LEMMA NatMin ==
    ASSUME NEW S \in SUBSET Nat, S # {}
    PROVE  /\ Min(S) \in S
           /\ \A x \in S : Min(S) <= x
  <1>1. \E x \in S : \A y \in S : ~(<<y, x>> \in OpToRel(<, Nat))
    BY NatLessThanWellFounded, WFMin, Zenon
  <1>2. \A x, y \in Nat : <<y, x>> \in OpToRel(<, Nat) <=> y < x
    BY Zenon DEF OpToRel
  <1>3. \E x \in S : \A y \in S : ~(y < x)
    BY <1>1, <1>2, Zenon
  <1>4. \E x \in S : \A y \in S : x <= y
    BY <1>3
  <1> QED
    BY <1>4 DEF Min

\* Times are natural numbers, and NONE is not one of them.
LEMMA Times ==
    /\ Time \subseteq Nat /\ NONE \notin Time /\ 0 \in Time /\ MaxTick \in Time /\ NONE \in Int
    /\ \A t \in Time : t \in Nat /\ t <= MaxTick /\ t # NONE
  BY BoundAssumption DEF Time, NONE

\* The queue's next tick is the tick of one of its events, and of no later one.
LEMMA NextTick ==
    ASSUME NEW w \in [Event -> Time \cup {NONE}]
    PROVE  /\ \A e \in Scheduled(w) : e \in Event /\ w[e] \in Time /\ w[e] \in Nat
           /\ Scheduled(w) # {} =>
                  /\ nextTick(w) \in Time /\ nextTick(w) \in Nat
                  /\ \E e \in Scheduled(w) : nextTick(w) = w[e]
                  /\ \A e \in Scheduled(w) : nextTick(w) <= w[e]
  <1> DEFINE S == {w[e] : e \in Scheduled(w)}
  <1>1. \A e \in Scheduled(w) : e \in Event /\ w[e] \in Time
    BY DEF Scheduled
  <1>2. \A e \in Scheduled(w) : w[e] \in Nat
    BY <1>1, Times
  <1>3. ASSUME Scheduled(w) # {}
        PROVE  Min(S) \in S /\ \A x \in S : Min(S) <= x
    <2>1. S \in SUBSET Nat /\ S # {}
      BY <1>2, <1>3
    <2> QED
      BY <2>1, NatMin
  <1> QED
    BY <1>1, <1>2, <1>3 DEF nextTick

\* An sc_event keeps the earlier of two notifications.
LEMMA EarlierNotification ==
    ASSUME TypeOK, NEW t \in Time, enterNotify(t)
    PROVE  /\ enterAt' \in Time
           /\ enterAt' <= t
           /\ enterAt' \in {enterAt, t}
  <1>1. Time \subseteq Nat /\ NONE \notin Time
    BY BoundAssumption DEF Time, NONE
  <1>2. CASE enterAt = NONE
    BY <1>1, <1>2 DEF enterNotify
  <1>3. CASE enterAt # NONE
    <2>1. enterAt \in Time
      BY <1>3 DEF TypeOK
    <2>2. {enterAt, t} \in SUBSET Nat /\ {enterAt, t} # {}
      BY <1>1, <2>1
    <2>3. Min({enterAt, t}) \in {enterAt, t} /\ Min({enterAt, t}) <= t
      BY <2>2, NatMin
    <2> QED
      BY <1>3, <2>1, <2>3 DEF enterNotify
  <1> QED
    BY <1>2, <1>3

(***************************************************************************)
(* The initial state and the steps of simulate().                          *)
(***************************************************************************)
\* The same of the variables that are times.
LEMMA TypedTimes ==
    ASSUME TypeOK
    PROVE  /\ now \in Time /\ curTick \in Time /\ now \in Nat /\ curTick \in Nat /\ enterAt \in Int
           /\ when \in [Event -> Time \cup {NONE}]
           /\ \A e \in Scheduled(when) : e \in Event /\ when[e] \in Time /\ when[e] \in Nat
  <1>1. now \in Time /\ curTick \in Time /\ when \in [Event -> Time \cup {NONE}]
    BY DEF TypeOK
  <1>2. enterAt \in Time \cup {NONE}
    BY DEF TypeOK
  <1>3. enterAt \in Int
    BY <1>2, Times
  <1>4. now \in Nat /\ curTick \in Nat
    BY <1>1, Times
  <1>5. \A e \in Scheduled(when) : e \in Event /\ when[e] \in Time /\ when[e] \in Nat
    BY <1>1, NextTick
  <1> QED
    BY <1>1, <1>3, <1>4, <1>5

\* Before simulate() starts the invariant holds.
LEMMA InitInv == Init => IndInv /\ ExitInv /\ SimulateFindsExit
  <1> SUFFICES ASSUME Init PROVE IndInv /\ ExitInv /\ SimulateFindsExit
    OBVIOUS
  <1> USE Times DEF Init
  <1>1. TypeOK
    BY DEF TypeOK
  <1>2. SimulateInv /\ NotifyInv
    BY DEF SimulateInv, NotifyInv
  <1>3. NoEventOverdue /\ NeverAsleep /\ NoMissedEvent
    BY DEF NoEventOverdue, NeverAsleep, NoMissedEvent
  <1>4. ExitInv /\ SimulateFindsExit
    BY DEF ExitInv, ExitPending, SimulateFindsExit
  <1> QED
    BY <1>1, <1>2, <1>3, <1>4 DEF IndInv

\* The limit event lies between the present tick and MaxTick: the sum cannot
\* overflow.
LEMMA LimitTick ==
    ASSUME TypeOK, NEW n \in Cycles
    PROVE  limitTick(n) \in Time /\ limitTick(n) >= curTick
  <1>1. curTick \in Nat /\ curTick <= MaxTick
    BY TypedTimes, Times
  <1>2. n \in Nat /\ MaxTick \in Nat
    BY BoundAssumption
  <1>3. CASE n < MaxTick - curTick
    BY <1>1, <1>2, <1>3 DEF limitTick, Time
  <1>4. CASE ~(n < MaxTick - curTick)
    BY <1>1, <1>2, <1>4 DEF limitTick, Time
  <1> QED
    BY <1>3, <1>4

\* simulate() starts at time 0, where no event can be overdue, and the loop is
\* going to be entered at once.
LEMMA SimulateStartInv ==
    ASSUME IndInv, SimulateStart
    PROVE  IndInv'
  <1> USE Times, EventAssumption DEF IndInv, SimulateStart, Dispatch
  <1>0. /\ run' = {} /\ now = 0 /\ now' = 0 /\ enterAt' = 0 /\ active' = FALSE
        /\ eventLoopExitEvent' = FALSE /\ in_simulate' = TRUE
    BY DEF SimulateInv, TypeOK
  <1>1. TypeOK'
    BY LimitTick DEF TypeOK, Event
  <1>2. SimulateInv'
    BY DEF SimulateInv
  <1>3. NotifyInv'
    BY <1>0 DEF NotifyInv
  <1>4. NoEventOverdue'
    <2>1. when' \in [Event -> Time \cup {NONE}]
      BY <1>1 DEF TypeOK
    <2>2. \A e \in Scheduled(when') : when'[e] \in Nat
      BY <2>1, NextTick
    <2>3. curTick' <= now'
      BY DEF NoEventOverdue
    <2>4. \A e \in Scheduled(when') : when'[e] >= now'
      BY <1>0, <2>2
    <2> QED
      BY <2>3, <2>4 DEF NoEventOverdue
  <1>5. NeverAsleep'
    <2>1. when' \in [Event -> Time \cup {NONE}]
      BY <1>1 DEF TypeOK
    <2>2. Scheduled(when') # {} => nextTick(when') \in Nat
      BY <2>1, NextTick
    <2>3. Scheduled(when') # {} => enterAt' # NONE /\ enterAt' <= nextTick(when')
      <3> HIDE DEF IndInv, SimulateStart, Dispatch
      <3> QED
        BY <1>0, <2>2
    <2> QED
      BY <2>3 DEF NeverAsleep
  <1>6. NoMissedEvent'
    BY DEF NoMissedEvent, Running
  <1> QED
    BY <1>1, <1>2, <1>3, <1>4, <1>5, <1>6

\* simulate() returns: the loop is not going to be entered any more.
LEMMA SimulateReturnInv ==
    ASSUME IndInv, SimulateReturn
    PROVE  IndInv'
  <1> USE Times, EventAssumption DEF IndInv, SimulateReturn, Dispatch
  <1>1. TypeOK'
    BY DEF TypeOK, Event
  <1>2. SimulateInv'
    BY DEF SimulateInv
  <1>3. NotifyInv'
    BY DEF NotifyInv, TypeOK
  <1>4. NoEventOverdue'
    BY DEF NoEventOverdue
  <1>5. NeverAsleep' /\ NoMissedEvent'
    BY DEF NeverAsleep, NoMissedEvent, Running
  <1> QED
    BY <1>1, <1>2, <1>3, <1>4, <1>5

(***************************************************************************)
(* The steps of the event loop.                                            *)
(***************************************************************************)
\* Until simulate() returns no event of the queue is missed.
LEMMA NotMissed ==
    ASSUME TypeOK, SimulateInv, NoEventOverdue, Running, simulate # "done"
    PROVE  /\ ~missed
           /\ in_simulate /\ Scheduled(when) # {} => nextTick(when) >= now
  <1>1. when \in [Event -> Time \cup {NONE}] /\ now \in Nat /\ curTick \in Nat
    BY TypedTimes
  <1>2. Scheduled(when) # {} => nextTick(when) \in Nat
    BY <1>1, NextTick
  <1>3. in_simulate /\ Scheduled(when) # {} => nextTick(when) >= now
    <2> SUFFICES ASSUME in_simulate, Scheduled(when) # {} PROVE nextTick(when) >= now
      OBVIOUS
    <2>1. PICK e \in Scheduled(when) : nextTick(when) = when[e]
      BY <1>1, NextTick
    <2> QED
      BY <2>1 DEF NoEventOverdue
  <1>4. curTick <= now
    BY DEF NoEventOverdue
  <1>5. ~in_simulate => now = 0
    BY DEF SimulateInv, TypeOK, Running
  <1>6. ~missed
    <2>1. CASE in_simulate
      BY <1>1, <1>2, <1>3, <1>4, <2>1 DEF missed
    <2>2. CASE ~in_simulate
      BY <1>1, <1>2, <1>4, <1>5, <2>2 DEF missed
    <2> QED
      BY <2>1, <2>2
  <1> QED
    BY <1>3, <1>6

\* What catchup() does: its checks hold until simulate() has returned, and the
\* first of them always.
LEMMA Catchup ==
    ASSUME IndInv, Running, catchup
    PROVE  /\ curTick' = now
           /\ fatal' \in {"none", "missed"}
           /\ simulate # "done" => fatal' = fatal
  <1>1. now \in Nat /\ curTick \in Nat /\ curTick <= now
    BY TypedTimes DEF IndInv, NoEventOverdue
  <1>2. ~(curTick > now)
    BY <1>1
  <1>3. fatal' = IF missed THEN "missed" ELSE fatal
    BY <1>2 DEF catchup
  <1>4. simulate # "done" => ~missed
    BY NotMissed DEF IndInv
  <1> QED
    BY <1>3, <1>4 DEF catchup, Running

\* The exit event that an interrupt schedules is not overdue, and it leaves the
\* other events alone.
LEMMA AsyncEvent ==
    ASSUME IndInv, Running, serviceAsyncEvent
    PROVE  /\ when' \in [Event -> Time \cup {NONE}]
           /\ \A e \in Event : when'[e] \in {when[e], now}
           /\ in_simulate => \A e \in Scheduled(when') : when'[e] >= now
           /\ \A e \in Event \ {UserExit} : when'[e] = when[e]
           /\ curTick' \in Time /\ curTick' <= now
           /\ async_event' \in BOOLEAN
           /\ fatal' \in {"none", "missed"}
           /\ simulate # "done" => fatal' = fatal
  <1>1. /\ now \in Nat /\ now \in Time /\ when \in [Event -> Time \cup {NONE}]
        /\ curTick \in Time /\ curTick <= now
    BY TypedTimes DEF IndInv, NoEventOverdue
  <1>2. when' = when \/ when' = [when EXCEPT ![UserExit] = now]
    BY DEF serviceAsyncEvent, exitSimLoop
  <1>3. /\ when' \in [Event -> Time \cup {NONE}]
        /\ \A e \in Event : when'[e] \in {when[e], now}
        /\ \A e \in Event \ {UserExit} : when'[e] = when[e]
    BY <1>1, <1>2 DEF Event
  <1>4. ASSUME in_simulate, NEW e \in Scheduled(when')
        PROVE  when'[e] >= now
    <2>1. e \in Event /\ when'[e] # NONE
      BY DEF Scheduled
    <2>2. CASE when'[e] = now
      BY <1>1, <2>2
    <2>3. CASE when'[e] = when[e]
      BY <1>4, <2>1, <2>3 DEF IndInv, NoEventOverdue, Scheduled
    <2> QED
      BY <1>3, <2>1, <2>2, <2>3
  <1>5. /\ curTick' \in {curTick, now} /\ fatal' \in {"none", "missed"}
        /\ simulate # "done" => fatal' = fatal
    <2>1. CASE async_event
      BY <2>1, Catchup DEF serviceAsyncEvent
    <2>2. CASE ~async_event
      BY <2>2 DEF serviceAsyncEvent, Running
    <2> QED
      BY <2>1, <2>2
  <1>6. curTick' \in Time /\ curTick' <= now
    BY <1>1, <1>5
  <1>7. async_event' \in BOOLEAN
    BY DEF serviceAsyncEvent, IndInv, TypeOK
  <1> QED
    BY <1>3, <1>4, <1>5, <1>6, <1>7

\* The loop is only woken while simulate() waits.
LEMMA EnterEventLoopInv ==
    ASSUME IndInv, EnterEventLoop
    PROVE  IndInv'
  <1>0. in_simulate /\ simulate = "waiting" /\ enterAt # now /\ Running
    BY DEF IndInv, EnterEventLoop, Dispatch, NotifyInv, SimulateInv, TypeOK
  <1>a. serviceAsyncEvent /\ active' = TRUE
    BY <1>0 DEF EnterEventLoop
  <1>b. fatal' = fatal
    BY <1>0, <1>a, AsyncEvent
  <1>1. TypeOK'
    <2>1. /\ when' \in [Event -> Time \cup {NONE}] /\ curTick' \in Time /\ async_event' \in BOOLEAN
      BY <1>0, <1>a, AsyncEvent
    <2> QED
      BY <1>a, <1>b, <2>1 DEF IndInv, EnterEventLoop, Dispatch, TypeOK
  <1>2. SimulateInv' /\ NotifyInv'
    BY <1>0, <1>a DEF IndInv, EnterEventLoop, Dispatch, SimulateInv, NotifyInv
  <1>3. NoEventOverdue'
    <2>1. curTick' <= now /\ \A e \in Scheduled(when') : when'[e] >= now
      BY <1>0, <1>a, AsyncEvent
    <2> QED
      BY <2>1 DEF EnterEventLoop, NoEventOverdue
  <1>4. NeverAsleep' /\ NoMissedEvent'
    BY <1>0, <1>a, <1>b DEF IndInv, NeverAsleep, NoMissedEvent, Running
  <1> QED
    BY <1>1, <1>2, <1>3, <1>4 DEF IndInv

\* serviceExternalEvent leaves the loop alone only if there is no event.
LEMMA ServiceExternalInv ==
    ASSUME IndInv, serviceExternalEvent
    PROVE  IndInv'
  <1>0. /\ active' = (in_simulate /\ Scheduled(when') # {})
        /\ enterAt # now /\ Running /\ serviceAsyncEvent
    BY DEF IndInv, serviceExternalEvent, Dispatch, NotifyInv, callsEventLoop
  <1>a. fatal' \in {"none", "missed"} /\ (simulate # "done" => fatal' = "none")
    BY <1>0, AsyncEvent DEF Running
  <1>1. TypeOK'
    <2>1. /\ when' \in [Event -> Time \cup {NONE}] /\ curTick' \in Time /\ async_event' \in BOOLEAN
      BY <1>0, AsyncEvent
    <2>2. active' \in BOOLEAN
      BY <1>0 DEF IndInv, TypeOK
    <2> QED
      BY <1>a, <2>1, <2>2 DEF IndInv, serviceExternalEvent, Dispatch, TypeOK
  <1>2. SimulateInv' /\ NotifyInv'
    BY <1>0 DEF IndInv, serviceExternalEvent, Dispatch, SimulateInv, NotifyInv
  <1>3. NoEventOverdue'
    <2>1. curTick' <= now /\ (in_simulate => \A e \in Scheduled(when') : when'[e] >= now)
      BY <1>0, AsyncEvent
    <2> QED
      BY <2>1 DEF serviceExternalEvent, NoEventOverdue
  <1>4. NeverAsleep' /\ NoMissedEvent'
    BY <1>0, <1>a DEF IndInv, serviceExternalEvent, NeverAsleep, NoMissedEvent, SimulateInv
  <1> QED
    BY <1>1, <1>2, <1>3, <1>4 DEF IndInv

\* The loop stops with a notification for a later time, no later than the
\* first event.
LEMMA LoopWaitInv ==
    ASSUME IndInv, LoopWait
    PROVE  IndInv'
  <1> USE Times DEF IndInv, LoopWait
  <1>0. in_simulate /\ enterAt # now /\ nextTick(when) \in Time /\ now \in Nat
    BY NextTick DEF SimulateInv, NotifyInv, TypeOK
  <1>a. fatal' = fatal /\ curTick' = now
    BY Catchup DEF SimulateInv
  <1>b. enterAt' \in Time /\ enterAt' <= nextTick(when) /\ enterAt' \in {enterAt, nextTick(when)}
    BY <1>0, EarlierNotification
  <1>c. enterAt' > now
    BY <1>0, <1>b DEF NotifyInv
  <1>1. TypeOK'
    BY <1>a, <1>b DEF TypeOK
  <1>2. SimulateInv'
    BY <1>0 DEF SimulateInv
  <1>3. NotifyInv'
    <2>1. enterAt' >= now' /\ enterAt' # now'
      BY <1>0, <1>b, <1>c
    <2> QED
      BY <1>0, <2>1 DEF NotifyInv
  <1>4. NoEventOverdue'
    BY <1>0, <1>a DEF NoEventOverdue, Running
  <1>5. NeverAsleep'
    BY <1>b DEF NeverAsleep
  <1>6. NoMissedEvent'
    BY <1>a DEF NoMissedEvent, Running
  <1> QED
    BY <1>1, <1>2, <1>3, <1>4, <1>5, <1>6

\* Servicing an event: the loop goes on, or it ends with eventLoopExitEvent
\* notified. The handler's own event is not overdue.
LEMMA LoopServiceInv ==
    ASSUME IndInv, NEW e \in Event, LoopService(e)
    PROVE  IndInv'
  <1> USE Times, EventAssumption DEF IndInv, LoopService
  <1>0. /\ in_simulate /\ enterAt # now /\ now \in Nat /\ now \in Time
        /\ when \in [Event -> Time \cup {NONE}] /\ Running
    BY TypedTimes DEF SimulateInv, NotifyInv
  <1>a. fatal' = fatal /\ curTick' = now
    <2>1. simulate # "done"
      BY <1>0 DEF SimulateInv
    <2>2. when[e] = nextTick(when) /\ when[e] >= now
      BY <1>0, <2>1, NotMissed DEF Head
    <2>3. when[e] \in Nat
      BY <1>0, <2>2, NextTick
    <2>4. catchup
      BY <1>0, <2>2, <2>3
    <2> QED
      BY <1>0, <2>1, <2>4, Catchup
  <1>b. when' \in [Event -> Time \cup {NONE}] /\ \A f \in Event : when'[f] \in {when[f], NONE} \/ when'[f] >= now
    <2>1. CASE when' = [when EXCEPT ![e] = NONE]
      BY <1>0, <2>1
    <2>2. ASSUME NEW f \in Event, NEW d \in InnerDelay, now + d <= MaxTick,
                 when' = [when EXCEPT ![e] = NONE, ![f] = now + d]
          PROVE  when' \in [Event -> Time \cup {NONE}] /\ \A g \in Event : when'[g] \in {when[g], NONE} \/ when'[g] >= now
      <3>1. now + d \in Time /\ now + d >= now
        BY <1>0, <2>2, DelayAssumption, BoundAssumption DEF Time
      <3> QED
        BY <1>0, <2>2, <3>1
    <2> QED
      BY <2>1, <2>2
  <1>1. TypeOK'
    <2>1. active' \in BOOLEAN /\ eventLoopExitEvent' \in BOOLEAN /\ exitEvent' \in Event \cup {NULL}
      BY DEF TypeOK, exitsLoop
    <2>2. curTick' \in Time
      BY <1>0, <1>a
    <2> QED
      BY <1>a, <1>b, <2>1, <2>2 DEF TypeOK
  <1>2. SimulateInv' /\ NotifyInv'
    BY <1>0 DEF SimulateInv, NotifyInv
  <1>3. NoEventOverdue'
    <2>1. curTick' <= now'
      BY <1>0, <1>a
    <2>2. \A f \in Scheduled(when') : when'[f] >= now'
      BY <1>0, <1>b DEF Scheduled, NoEventOverdue
    <2> QED
      BY <2>1, <2>2 DEF NoEventOverdue
  <1>4. NeverAsleep' /\ NoMissedEvent'
    BY <1>a DEF NeverAsleep, NoMissedEvent, Running
  <1> QED
    BY <1>1, <1>2, <1>3, <1>4

\* The queue runs empty: gem5 stops.
LEMMA LoopEmptyInv ==
    ASSUME IndInv, LoopEmpty
    PROVE  IndInv'
  <1> USE DEF IndInv, LoopEmpty
  <1>1. TypeOK' /\ SimulateInv' /\ NotifyInv'
    BY DEF TypeOK, SimulateInv, NotifyInv
  <1>2. NoEventOverdue' /\ NeverAsleep' /\ NoMissedEvent'
    BY DEF NoEventOverdue, NeverAsleep, NoMissedEvent, Running
  <1> QED
    BY <1>1, <1>2

(***************************************************************************)
(* The steps of the SystemC world.                                         *)
(***************************************************************************)
\* An event scheduled from outside lies at or after the present time.
LEMMA Schedule ==
    ASSUME TypeOK, NEW e \in Work, schedule(e)
    PROVE  /\ when' \in [Event -> Time \cup {NONE}]
           /\ \A f \in Event : when'[f] = when[f] \/ when'[f] >= now
           /\ sameTick' \in BOOLEAN
  <1>1. now \in Nat /\ when \in [Event -> Time \cup {NONE}] /\ e \in Event
    BY TypedTimes DEF Event
  <1>2. PICK d \in OuterDelay : now + d <= MaxTick /\ when' = [when EXCEPT ![e] = now + d]
    BY DEF schedule
  <1>3. now + d \in Time /\ now + d >= now
    BY <1>1, <1>2, DelayAssumption, BoundAssumption DEF Time
  <1>4. sameTick' \in BOOLEAN
    BY DEF schedule, TypeOK
  <1> QED
    BY <1>1, <1>2, <1>3, <1>4

\* wakeup() keeps the loop awake for the event.
LEMMA NotifyEventInv ==
    ASSUME IndInv, NEW e \in Work, notify(e)
    PROVE  IndInv'
  <1> USE DEF IndInv, notify, wakeup
  <1>a. /\ when' \in [Event -> Time \cup {NONE}] /\ sameTick' \in BOOLEAN
        /\ \A f \in Event : when'[f] = when[f] \/ when'[f] >= now
    BY Schedule
  <1>1. TypeOK'
    BY <1>a DEF TypeOK
  <1>2. SimulateInv' /\ NotifyInv'
    BY DEF SimulateInv, NotifyInv
  <1>3. NoEventOverdue'
    <2>1. in_simulate => \A f \in Scheduled(when') : when'[f] >= now'
      BY <1>a DEF Scheduled, NoEventOverdue
    <2> QED
      BY <2>1 DEF NoEventOverdue
  <1>4. NeverAsleep' /\ NoMissedEvent'
    BY DEF NeverAsleep, NoMissedEvent
  <1> QED
    BY <1>1, <1>2, <1>3, <1>4

\* A callback of the master port: before simulate() returns its catchup()
\* holds, afterwards it may find an event missed.
LEMMA PeqCbInv ==
    ASSUME IndInv, peq_cb
    PROVE  IndInv'
  <1> USE Times DEF IndInv, peq_cb, wakeup
  <1>0. now \in Nat /\ now \in Time /\ when \in [Event -> Time \cup {NONE}] /\ sameTick \in BOOLEAN
    BY TypedTimes DEF TypeOK
  <1>a. /\ when' \in [Event -> Time \cup {NONE}] /\ sameTick' \in BOOLEAN
        /\ \A f \in Event : when'[f] = when[f] \/ when'[f] >= now
    <2>1. CASE \E e \in Work : schedule(e)
      BY <2>1, Schedule
    <2>2. CASE UNCHANGED <<when, sameTick>>
      BY <1>0, <2>2
    <2> QED
      BY <2>1, <2>2
  <1>b. /\ curTick' = now /\ fatal' \in {"none", "missed"}
        /\ simulate # "done" => fatal' = "none"
    BY Catchup DEF Running
  <1>1. TypeOK'
    BY <1>0, <1>a, <1>b DEF TypeOK
  <1>2. SimulateInv' /\ NotifyInv'
    BY DEF SimulateInv, NotifyInv
  <1>3. NoEventOverdue'
    <2>1. curTick' <= now'
      BY <1>0, <1>b
    <2>2. in_simulate => \A f \in Scheduled(when') : when'[f] >= now'
      BY <1>a DEF Scheduled, NoEventOverdue
    <2> QED
      BY <2>1, <2>2 DEF NoEventOverdue
  <1>4. NeverAsleep'
    BY DEF NeverAsleep
  <1>5. NoMissedEvent'
    BY <1>b DEF NoMissedEvent
  <1> QED
    BY <1>1, <1>2, <1>3, <1>4, <1>5

\* An interrupt only records itself and wakes the queue.
LEMMA InterruptInv ==
    ASSUME IndInv, Interrupt
    PROVE  IndInv'
  <1> USE DEF IndInv, Interrupt, wakeup
  <1>1. TypeOK' /\ SimulateInv' /\ NotifyInv'
    BY DEF TypeOK, SimulateInv, NotifyInv
  <1>2. NoEventOverdue' /\ NeverAsleep' /\ NoMissedEvent'
    BY DEF NoEventOverdue, NeverAsleep, NoMissedEvent, Running
  <1> QED
    BY <1>1, <1>2

\* A delta cycle that wakes the loop does not wake simulate().
LEMMA DeltaInv ==
    ASSUME IndInv, Delta
    PROVE  IndInv'
  <1> USE Times DEF IndInv, Delta
  <1>0. now \in Time /\ enterAt \in Int
    BY TypedTimes
  <1>1. TypeOK'
    <2>1. run' \subseteq {"eventLoop", "serviceExternalEvent", "simulate"}
      BY DEF Woken
    <2> QED
      BY <2>1 DEF TypeOK
  <1>2. SimulateInv'
    BY DEF SimulateInv
  <1>3. NotifyInv'
    <2>1. "eventLoop" \in run' => enterAt = now
      BY DEF Woken
    <2>2. "simulate" \in run' => eventLoopExitEvent
      BY DEF Woken
    <2>3. enterAt' # now
      BY <1>0
    <2> QED
      BY <1>0, <2>1, <2>2, <2>3 DEF NotifyInv
  <1>4. NoEventOverdue' /\ NoMissedEvent'
    BY DEF NoEventOverdue, NoMissedEvent, Running
  <1>5. NeverAsleep'
    <2>1. simulate = "waiting" => run' # {}
      BY DEF Due, Woken
    <2> QED
      BY <2>1 DEF NeverAsleep
  <1> QED
    BY <1>1, <1>2, <1>3, <1>4, <1>5

\* Time does not pass the notification of the loop, hence no event.
LEMMA AdvanceTimeInv ==
    ASSUME IndInv, NEW t \in Time, AdvanceTime(t)
    PROVE  IndInv'
  <1> USE Times DEF IndInv, AdvanceTime
  <1>0. /\ now \in Nat /\ t \in Nat /\ enterAt \in Int /\ curTick \in Nat
        /\ when \in [Event -> Time \cup {NONE}]
    BY TypedTimes
  <1>a. ~externalSchedulingEvent /\ ~eventLoopExitEvent /\ enterAt # now /\ ~active /\ run = {}
    BY DEF Rests, Due
  <1>b. run' = IF enterAt = t THEN {"eventLoop"} ELSE {}
    BY <1>a DEF Woken
  <1>c. in_simulate /\ Scheduled(when) # {} => enterAt # NONE /\ enterAt <= nextTick(when)
    BY <1>a DEF NeverAsleep, SimulateInv, Running
  <1>1. TypeOK'
    BY <1>b DEF TypeOK
  <1>2. SimulateInv'
    BY <1>a DEF SimulateInv
  <1>3. NotifyInv'
    <2>1. enterAt' # NONE => enterAt' > now' /\ in_simulate'
      BY <1>0 DEF NotifyInv
    <2>2. "eventLoop" \in run' => in_simulate' /\ "simulate" \notin run'
      BY <1>b DEF NotifyInv
    <2> QED
      BY <1>0, <2>1, <2>2 DEF NotifyInv
  <1>4. NoEventOverdue'
    <2>1. curTick' <= now'
      BY <1>0 DEF NoEventOverdue
    <2>2. ASSUME in_simulate, NEW e \in Scheduled(when) PROVE when[e] >= t
      <3>1. t <= enterAt /\ enterAt <= nextTick(when)
        BY <1>c, <2>2
      <3>2. nextTick(when) \in Nat /\ nextTick(when) <= when[e] /\ when[e] \in Nat
        BY <1>0, NextTick
      <3> QED
        BY <1>0, <3>1, <3>2
    <2> QED
      BY <2>1, <2>2 DEF NoEventOverdue
  <1>5. NeverAsleep'
    BY <1>b, <1>c DEF NeverAsleep, SimulateInv
  <1>6. NoMissedEvent'
    BY DEF NoMissedEvent
  <1> QED
    BY <1>1, <1>2, <1>3, <1>4, <1>5, <1>6

\* IndInv is inductive.
LEMMA NextInv ==
    ASSUME IndInv, [Next]_vars
    PROVE  IndInv'
  <1>1. CASE SimulateStart
    BY <1>1, SimulateStartInv
  <1>2. CASE SimulateReturn
    BY <1>2, SimulateReturnInv
  <1>3. CASE EnterEventLoop
    BY <1>3, EnterEventLoopInv
  <1>4. CASE serviceExternalEvent
    BY <1>4, ServiceExternalInv
  <1>5. CASE LoopWait
    BY <1>5, LoopWaitInv
  <1>6. ASSUME NEW e \in Event, LoopService(e) PROVE IndInv'
    BY <1>6, LoopServiceInv
  <1>7. CASE LoopEmpty
    BY <1>7, LoopEmptyInv
  <1>8. ASSUME NEW e \in Work, notify(e) PROVE IndInv'
    BY <1>8, NotifyEventInv
  <1>8a. CASE peq_cb
    BY <1>8a, PeqCbInv
  <1>9. CASE Interrupt
    BY <1>9, InterruptInv
  <1>10. CASE Delta
    BY <1>10, DeltaInv
  <1>11. ASSUME NEW t \in Time, AdvanceTime(t) PROVE IndInv'
    BY <1>11, AdvanceTimeInv
  <1>12. CASE UNCHANGED vars
    <2>0. TypeOK
      BY DEF IndInv
    <2>0a. /\ now' = now /\ run' = run /\ active' = active /\ when' = when /\ curTick' = curTick
           /\ enterAt' = enterAt /\ externalSchedulingEvent' = externalSchedulingEvent
           /\ eventLoopExitEvent' = eventLoopExitEvent /\ in_simulate' = in_simulate
           /\ exitEvent' = exitEvent /\ async_event' = async_event /\ simulate' = simulate
           /\ fatal' = fatal /\ sameTick' = sameTick
      BY <1>12 DEF vars
    <2>1. TypeOK'
      BY <2>0, <2>0a, ZenonT(60) DEF TypeOK
    <2> USE <1>12 DEF vars, IndInv
    <2>1a. SimulateInv' /\ NotifyInv'
      BY DEF SimulateInv, NotifyInv
    <2>2. NoEventOverdue' /\ NeverAsleep' /\ NoMissedEvent'
      BY DEF NoEventOverdue, NeverAsleep, NoMissedEvent, Running
    <2> QED
      BY <2>1, <2>1a, <2>2
  <1> QED
    BY <1>1, <1>2, <1>3, <1>4, <1>5, <1>6, <1>7, <1>8, <1>8a, <1>9, <1>10, <1>11, <1>12
       DEF Next, ModuleNext

(***************************************************************************)
(* The exit event that simulate() finds.                                   *)
(***************************************************************************)
\* An exit event leaves the loop with no other event at the present tick, and
\* once the loop has been left only another exit event can be serviced before
\* simulate() runs.
LEMMA LoopServiceExit ==
    ASSUME ExitIndInv, NEW e \in Event, LoopService(e)
    PROVE  ExitInv'
  <1> USE DEF ExitIndInv, IndInv
  <1>1. /\ in_simulate /\ Running /\ now \in Nat /\ when \in [Event -> Time \cup {NONE}]
        /\ simulate = "waiting" /\ fatal = "none"
    BY TypedTimes DEF SimulateInv, LoopService, Running
  <1>2. when[e] = nextTick(when) /\ nextTick(when) <= now /\ nextTick(when) >= now
        /\ nextTick(when) \in Nat /\ when[e] # NONE
    BY <1>1, NotMissed, NextTick, Times DEF LoopService, Head
  <1>3. when[e] = now
    BY <1>1, <1>2
  <1>4. CASE e \in Exit
    <2>1. \A f \in Work : when[f] # now
      BY <1>3, <1>4 DEF LoopService, Head
    <2>2. \A f \in Work : f \in Event /\ (when[f] # NONE => when[f] \in Nat /\ when[f] >= now)
      BY <1>1, TypedTimes DEF NoEventOverdue, Scheduled, Event
    <2>3. \A f \in Work : when'[f] = when[f]
      BY <1>1, <1>4, EventAssumption DEF LoopService, Event
    <2>4. \A f \in Work : when'[f] # NONE => when'[f] > now
      BY <1>1, <2>1, <2>2, <2>3
    <2>5. exitEvent' \in Exit /\ now' = now
      BY <1>4 DEF LoopService
    <2> QED
      BY <2>4, <2>5 DEF ExitInv
  <1>5. CASE e \notin Exit
    <2>1. e \in Work
      BY <1>5 DEF Event, Exit
    <2>2. ~sameTick => ~ExitPending
      BY <1>1, <1>2, <1>3, <2>1 DEF ExitInv
    <2>3. /\ eventLoopExitEvent' = eventLoopExitEvent /\ run' = run /\ sameTick' = sameTick
          /\ simulate' = simulate
      BY <1>5 DEF LoopService, exitsLoop, TypeOK
    <2> QED
      BY <2>2, <2>3 DEF ExitInv, ExitPending
  <1> QED
    BY <1>4, <1>5

\* An event that SystemC code schedules while an exit event is pending lies in
\* the future, or sameTick records it.
LEMMA ScheduleExit ==
    ASSUME ExitIndInv, NEW e \in Work, schedule(e),
           UNCHANGED <<now, run, eventLoopExitEvent, simulate, exitEvent>>, Running
    PROVE  ExitInv'
  <1> USE DEF ExitIndInv, IndInv
  <1>1. now \in Nat /\ when \in [Event -> Time \cup {NONE}]
    BY TypedTimes
  <1>2. PICK d \in OuterDelay : /\ now + d <= MaxTick /\ when' = [when EXCEPT ![e] = now + d]
                               /\ sameTick' = (sameTick \/ (d = 0 /\ ExitPending))
    BY DEF schedule
  <1>3. d \in Nat
    BY DelayAssumption
  <1>4. CASE d = 0 /\ ExitPending
    BY <1>2, <1>4 DEF ExitInv
  <1>5. CASE ~ExitPending
    BY <1>5 DEF ExitInv, ExitPending
  <1>6. CASE d # 0 /\ ExitPending
    <2>1. now + d > now
      BY <1>1, <1>3, <1>6
    <2>2. \A f \in Work : when'[f] = when[f] \/ when'[f] > now
      BY <1>1, <1>2, <2>1 DEF Event
    <2>3. sameTick' = sameTick
      BY <1>2, <1>6 DEF TypeOK
    <2> QED
      BY <1>6, <2>2, <2>3 DEF ExitInv, ExitPending, Running
  <1> QED
    BY <1>4, <1>5, <1>6

\* simulate() runs only after the loop has been left by an exit event, and the
\* other steps leave that event alone.
LEMMA NextExit ==
    ASSUME ExitIndInv, [Next]_vars
    PROVE  ExitInv' /\ SimulateFindsExit'
  <1> USE DEF ExitIndInv, IndInv
  <1>1. CASE SimulateStart
    <2>1. run' = {} /\ eventLoopExitEvent' = FALSE /\ simulate' = "waiting"
      BY <1>1 DEF SimulateStart, Dispatch, SimulateInv
    <2> QED
      BY <2>1 DEF ExitInv, ExitPending, SimulateFindsExit
  <1>2. CASE SimulateReturn
    <2>1. ExitPending /\ fatal = "none" /\ simulate' \in {"done", "crashed"} /\ sameTick' = sameTick
      BY <1>2 DEF SimulateReturn, Dispatch, Running, ExitPending
    <2>2. ~sameTick => exitEvent # NULL
      BY <2>1, EventAssumption DEF ExitInv, Event, Exit
    <2>3. ~sameTick => simulate' = "done"
      BY <1>2, <2>2 DEF SimulateReturn
    <2> QED
      BY <2>1, <2>3 DEF ExitInv, ExitPending, SimulateFindsExit
  <1>3. CASE EnterEventLoop
    <2>1. in_simulate /\ Running /\ serviceAsyncEvent
      BY <1>3 DEF EnterEventLoop, Dispatch, NotifyInv
    <2>2. \A f \in Work : when'[f] = when[f]
      BY <2>1, AsyncEvent, EventAssumption DEF Event, Exit
    <2> QED
      BY <1>3, <2>1, <2>2 DEF EnterEventLoop, Dispatch, ExitInv, ExitPending, SimulateFindsExit, Running
  <1>4. CASE serviceExternalEvent
    <2>1. Running /\ serviceAsyncEvent
      BY <1>4 DEF serviceExternalEvent, Dispatch
    <2>2. \A f \in Work : when'[f] = when[f]
      BY <2>1, AsyncEvent, EventAssumption DEF Event, Exit
    <2> QED
      BY <1>4, <2>1, <2>2 DEF serviceExternalEvent, Dispatch, ExitInv, ExitPending, SimulateFindsExit, Running
  <1>5. CASE LoopWait
    BY <1>5 DEF LoopWait, Running, ExitInv, ExitPending, SimulateFindsExit
  <1>6. ASSUME NEW e \in Event, LoopService(e) PROVE ExitInv' /\ SimulateFindsExit'
    BY <1>6, LoopServiceExit DEF LoopService, SimulateFindsExit
  <1>7. CASE LoopEmpty
    BY <1>7 DEF LoopEmpty, ExitInv, ExitPending, SimulateFindsExit
  <1>8. ASSUME NEW e \in Work, notify(e) PROVE ExitInv' /\ SimulateFindsExit'
    BY <1>8, ScheduleExit DEF notify, SimulateFindsExit, Running
  <1>9. CASE peq_cb
    <2>1. /\ Running /\ SimulateFindsExit'
          /\ UNCHANGED <<now, run, eventLoopExitEvent, simulate, exitEvent>>
      BY <1>9 DEF peq_cb, SimulateFindsExit, Running
    <2>2. CASE \E e \in Work : schedule(e)
      BY <2>1, <2>2, ScheduleExit
    <2>3. CASE UNCHANGED <<when, sameTick>>
      BY <2>1, <2>3 DEF ExitInv, ExitPending, Running
    <2> QED
      BY <1>9, <2>1, <2>2, <2>3 DEF peq_cb
  <1>10. CASE Interrupt
    BY <1>10 DEF Interrupt, ExitInv, ExitPending, SimulateFindsExit
  <1>11. CASE Delta
    <2>1. eventLoopExitEvent' = FALSE /\ ("simulate" \in run' => eventLoopExitEvent)
      BY <1>11 DEF Delta, Woken
    <2> QED
      BY <1>11, <2>1 DEF Delta, ExitInv, ExitPending, SimulateFindsExit
  <1>12. ASSUME NEW t \in Time, AdvanceTime(t) PROVE ExitInv' /\ SimulateFindsExit'
    <2>1. ~eventLoopExitEvent
      BY <1>12 DEF AdvanceTime, Rests, Due
    <2>2. eventLoopExitEvent' = eventLoopExitEvent /\ "simulate" \notin run'
      BY <1>12, <2>1 DEF AdvanceTime, Woken
    <2> QED
      BY <1>12, <2>1, <2>2 DEF AdvanceTime, ExitInv, ExitPending, SimulateFindsExit
  <1>13. CASE UNCHANGED vars
    BY <1>13 DEF vars, ExitInv, ExitPending, SimulateFindsExit
  <1> QED
    BY <1>1, <1>2, <1>3, <1>4, <1>5, <1>6, <1>7, <1>8, <1>9, <1>10, <1>11, <1>12, <1>13
       DEF Next, ModuleNext

(***************************************************************************)
(* Theorems.                                                               *)
(***************************************************************************)
\* Every reachable state of the event loop module satisfies the inductive
\* invariant, for any events, delays, time bound and argument of simulate().
THEOREM Invariance == Spec => []IndInv
  <1>1. Init => IndInv
    BY InitInv
  <1>2. IndInv /\ [Next]_vars => IndInv'
    BY NextInv
  <1> QED
    BY <1>1, <1>2, PTL DEF Spec

\* No tick that the module computes exceeds MaxTick.
THEOREM TypeCorrect == Spec => []TypeOK
  <1>1. IndInv => TypeOK
    BY DEF IndInv
  <1> QED
    BY <1>1, Invariance, PTL

\* SystemC time never passes a gem5 event while simulate() runs, and gem5 time
\* never leads SystemC time.
THEOREM EventsInTime == Spec => []NoEventOverdue
  <1>1. IndInv => NoEventOverdue
    BY DEF IndInv
  <1> QED
    BY <1>1, Invariance, PTL

\* The event loop is never left asleep while simulate() waits.
THEOREM LoopAwake == Spec => []NeverAsleep
  <1>1. IndInv => NeverAsleep
    BY DEF IndInv
  <1> QED
    BY <1>1, Invariance, PTL

\* The checks of catchup() hold for every caller until simulate() has returned;
\* gem5 time never leads and the loop is never entered outside simulate().
THEOREM CatchupHolds == Spec => []NoMissedEvent
  <1>1. IndInv => NoMissedEvent
    BY DEF IndInv
  <1> QED
    BY <1>1, Invariance, PTL

\* simulate() finds the exit event that ended the loop, unless SystemC code
\* scheduled a gem5 event for the tick of that event before it ran.
THEOREM ExitFound == Spec => []SimulateFindsExit
  <1>1. Init => ExitIndInv
    BY InitInv DEF ExitIndInv
  <1>2. ExitIndInv /\ [Next]_vars => ExitIndInv'
    BY NextInv, NextExit DEF ExitIndInv
  <1>3. ExitIndInv => SimulateFindsExit
    BY DEF ExitIndInv
  <1> QED
    BY <1>1, <1>2, <1>3, PTL DEF Spec
=============================================================================

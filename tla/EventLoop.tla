----------------------------- MODULE EventLoop -----------------------------
(***************************************************************************)
(* Gem5SystemC::Module (src/src/sc_module.cc): gem5's event queue run by   *)
(* the SystemC kernel. simulate() is a SystemC thread that starts the      *)
(* event loop and waits for it to exit; eventLoop and serviceExternalEvent *)
(* are SystemC methods. The loop services the gem5 events of the present   *)
(* time and then asks the kernel, through eventLoopEnterEvent, to be woken *)
(* at the time of the next one. SystemC code that schedules a gem5 event   *)
(* from outside calls wakeup(), which notifies externalSchedulingEvent.    *)
(*                                                                         *)
(* External: the kernel (evaluation, delta notification and time advance,  *)
(* in IEEE 1666 order; the processes of one evaluation phase run in any    *)
(* order, each without interruption) and the gem5 event queue.             *)
(***************************************************************************)
EXTENDS Integers, FiniteSetsExt

CONSTANTS
    Work,        \* gem5 events that do not end the simulation
    Limit,       \* the GlobalSimLoopExitEvent that simulate() creates
    UserExit,    \* the exit event of exitSimLoop()
    Cycles,      \* possible arguments of simulate()
    MaxTick,     \* largest time; bounds the model as it bounds the code
    InnerDelay,  \* delays with which a gem5 event schedules another
    OuterDelay,  \* delays with which SystemC code schedules a gem5 event
    NULL

Event == Work \cup {Limit, UserExit}
Exit  == {Limit, UserExit}
Time  == 0 .. MaxTick
NONE  == -1

ASSUME BoundAssumption == Cycles \subseteq Nat /\ MaxTick \in Nat
ASSUME DelayAssumption == InnerDelay \subseteq Nat /\ OuterDelay \subseteq Nat
ASSUME EventAssumption == Limit # UserExit /\ Exit \cap Work = {} /\ NULL \notin Event

VARIABLES
    now,          \* external: SystemC time
    run,          \* external: the processes that are runnable
    active,       \* external: a method is inside eventLoop's while loop
    when,         \* external: tick of each event in gem5's queue, or NONE
    curTick,      \* gem5 time
    enterAt,      \* time for which eventLoopEnterEvent is notified, or NONE
    externalSchedulingEvent, \* a delta notification is pending
    eventLoopExitEvent,      \* a delta notification is pending
    in_simulate,
    exitEvent,
    async_event,  \* a user interrupt has been recorded
    simulate,     \* where the simulate() thread is
    fatal,        \* the fatal() that stopped the program, or "none"
    sameTick      \* history: SystemC code scheduled a gem5 event for the tick of
                  \* an exit event before simulate() had returned that event

vars == <<now, run, active, when, curTick, enterAt, externalSchedulingEvent,
          eventLoopExitEvent, in_simulate, exitEvent, async_event, simulate, fatal, sameTick>>

\* The variables keep their types; in particular no tick exceeds MaxTick.
TypeOK ==
    /\ now \in Time
    /\ run \subseteq {"eventLoop", "serviceExternalEvent", "simulate"}
    /\ active \in BOOLEAN
    /\ when \in [Event -> Time \cup {NONE}]
    /\ curTick \in Time
    /\ enterAt \in Time \cup {NONE}
    /\ externalSchedulingEvent \in BOOLEAN
    /\ eventLoopExitEvent \in BOOLEAN
    /\ in_simulate \in BOOLEAN
    /\ exitEvent \in Event \cup {NULL}
    /\ async_event \in BOOLEAN
    /\ simulate \in {"start", "waiting", "done", "crashed"}
    /\ fatal \in {"none", "outside simulate", "leads", "missed", "ran out"}
    /\ sameTick \in BOOLEAN

Init ==
    /\ now = 0
    /\ run = {"simulate"}
    /\ active = FALSE
    /\ when = [e \in Event |-> NONE]
    /\ curTick = 0
    /\ enterAt = NONE
    /\ externalSchedulingEvent = FALSE
    /\ eventLoopExitEvent = FALSE
    /\ in_simulate = FALSE
    /\ exitEvent = NULL
    /\ async_event = FALSE
    /\ simulate = "start"
    /\ fatal = "none"
    /\ sameTick = FALSE

----------------------------------------------------------------------------
(* gem5's event queue *)

Scheduled(w) == {e \in Event : w[e] # NONE}
nextTick(w)  == Min({w[e] : e \in Scheduled(w)})

\* serviceOne takes an event of the earliest tick; exit events have the
\* lowest priority (Sim_Exit_Pri).
Head(e) ==
    /\ when[e] = nextTick(when)
    /\ e \in Exit => \A f \in Work : when[f] # when[e]

Running == fatal = "none" /\ simulate # "crashed"

\* A process is dispatched when no other one is running.
Dispatch(proc) ==
    /\ Running
    /\ ~active
    /\ proc \in run
    /\ run' = run \ {proc}

\* catchup: gem5 time becomes SystemC time. Two checks compare the gem5 time
\* from before with SystemC time and with the first event of the queue.
missed == Scheduled(when) # {} /\ curTick > nextTick(when)

catchup ==
    /\ curTick' = now
    /\ fatal' = IF curTick > now THEN "leads" ELSE IF missed THEN "missed" ELSE fatal

\* serviceAsyncEvent, where an async_event is pending: catch up, then
\* exitSimLoop() schedules an exit event at the present tick.
mut_exitSimLoop_behind == [when EXCEPT ![UserExit] = curTick]
exitSimLoop == [when EXCEPT ![UserExit] = now]

serviceAsyncEvent ==
    IF async_event
    THEN catchup /\ async_event' = FALSE /\ when' = IF when[UserExit] = NONE THEN exitSimLoop ELSE when
    ELSE UNCHANGED <<curTick, fatal, async_event, when>>

----------------------------------------------------------------------------
(* Module *)

\* SCEventQueue::wakeup and Module::notify: a delta notification.
mut_wakeup_lost == UNCHANGED externalSchedulingEvent
wakeup == externalSchedulingEvent' = TRUE

\* simulate(): the tick of the limit event, guarded against overflow.
mut_limitTick_unguarded(n) == curTick + n
limitTick(n) == IF n < MaxTick - curTick THEN curTick + n ELSE MaxTick

\* eventLoopEnterEvent.notify for tick t. An sc_event keeps one notification,
\* the earlier one.
mut_enterNotify_never(t) == UNCHANGED enterAt
enterNotify(t) == enterAt' = IF enterAt = NONE THEN t ELSE Min({enterAt, t})

\* serviceExternalEvent calls eventLoop if there are events in the queue w.
mut_callsEventLoop_never(w) == FALSE
callsEventLoop(w) == in_simulate /\ Scheduled(w) # {}

\* eventLoop returns and notifies eventLoopExitEvent after an exit event.
mut_exitsLoop_always(e) == TRUE
exitsLoop(e) == e \in Exit

\* simulate() up to its wait: the limit event, the cancelled notifications,
\* and a delta notification for the event loop.
SimulateStart ==
    /\ Dispatch("simulate")
    /\ simulate = "start"
    /\ \E n \in Cycles : when' = [when EXCEPT ![Limit] = limitTick(n)]
    /\ exitEvent' = NULL
    /\ eventLoopExitEvent' = FALSE
    /\ externalSchedulingEvent' = FALSE
    /\ in_simulate' = TRUE
    /\ enterAt' = now
    /\ simulate' = "waiting"
    /\ UNCHANGED <<now, active, curTick, async_event, fatal, sameTick>>

\* simulate() after its wait. It reads the global event of exitEvent, which
\* must not be NULL, and deschedules a limit event that was not reached.
SimulateReturn ==
    /\ Dispatch("simulate")
    /\ simulate = "waiting"
    /\ enterAt' = NONE
    /\ in_simulate' = FALSE
    /\ simulate' = IF exitEvent = NULL THEN "crashed" ELSE "done"
    /\ when' = IF exitEvent = Limit THEN when ELSE [when EXCEPT ![Limit] = NONE]
    /\ UNCHANGED <<now, active, curTick, externalSchedulingEvent, eventLoopExitEvent,
                   exitEvent, async_event, fatal, sameTick>>

\* eventLoop is entered by its own event.
EnterEventLoop ==
    /\ Dispatch("eventLoop")
    /\ IF in_simulate
       THEN serviceAsyncEvent /\ active' = TRUE
       ELSE fatal' = "outside simulate" /\ UNCHANGED <<active, curTick, async_event, when>>
    /\ UNCHANGED <<now, enterAt, externalSchedulingEvent, eventLoopExitEvent,
                   in_simulate, exitEvent, simulate, sameTick>>

\* serviceExternalEvent calls eventLoop if there is anything to do.
serviceExternalEvent ==
    /\ Dispatch("serviceExternalEvent")
    /\ serviceAsyncEvent
    /\ active' = callsEventLoop(when')
    /\ UNCHANGED <<now, enterAt, externalSchedulingEvent, eventLoopExitEvent,
                   in_simulate, exitEvent, simulate, sameTick>>

\* The next event lies in the future: ask to be woken then.
LoopWait ==
    /\ Running /\ active
    /\ Scheduled(when) # {} /\ nextTick(when) > now
    /\ catchup
    /\ enterNotify(nextTick(when))
    /\ active' = FALSE
    /\ UNCHANGED <<now, run, when, externalSchedulingEvent, eventLoopExitEvent,
                   in_simulate, exitEvent, async_event, simulate, sameTick>>

\* Service one event. An exit event ends the loop and wakes simulate(). The
\* handler of another event may schedule a further one, which may be an exit.
\* An event of a tick that has passed is the fatal() of eventLoop itself.
LoopService(e) ==
    /\ Running /\ active
    /\ Scheduled(when) # {} /\ nextTick(when) <= now /\ Head(e)
    /\ IF when[e] < now THEN curTick' = now /\ fatal' = "missed" ELSE catchup
    /\ exitEvent' = IF e \in Exit THEN e ELSE NULL
    /\ active' = ~exitsLoop(e)
    /\ eventLoopExitEvent' = (eventLoopExitEvent \/ exitsLoop(e))
    /\ \/ when' = [when EXCEPT ![e] = NONE]
       \/ \E f \in Event \ {Limit}, d \in InnerDelay :
              /\ e \notin Exit
              /\ f = e \/ when[f] = NONE
              /\ now + d <= MaxTick
              /\ when' = [when EXCEPT ![e] = NONE, ![f] = now + d]
    /\ UNCHANGED <<now, run, enterAt, externalSchedulingEvent, in_simulate, async_event,
                   simulate, sameTick>>

LoopEmpty ==
    /\ Running /\ active
    /\ Scheduled(when) = {}
    /\ fatal' = "ran out"
    /\ UNCHANGED <<now, run, active, when, curTick, enterAt, externalSchedulingEvent,
                   eventLoopExitEvent, in_simulate, exitEvent, async_event, simulate, sameTick>>

----------------------------------------------------------------------------
(* The SystemC world around the module *)

\* The loop has been left by an exit event that simulate() has not returned.
ExitPending == simulate = "waiting" /\ (eventLoopExitEvent \/ "simulate" \in run)

\* A gem5 event is scheduled from outside the loop.
schedule(e) ==
    /\ when[e] = NONE
    /\ \E d \in OuterDelay :
           /\ now + d <= MaxTick
           /\ when' = [when EXCEPT ![e] = now + d]
           /\ sameTick' = (sameTick \/ (d = 0 /\ ExitPending))

\* PayloadEvent::notify wakes the queue and schedules its event. It does not
\* catch up: the tick is computed from SystemC time.
notify(e) ==
    /\ Running /\ ~active
    /\ wakeup
    /\ schedule(e)
    /\ UNCHANGED <<now, run, active, curTick, enterAt, eventLoopExitEvent, in_simulate,
                   exitEvent, async_event, simulate, fatal>>

\* The master port's peq_cb catches up, calls into gem5, which may schedule an
\* event, and notifies the module.
peq_cb ==
    /\ Running /\ ~active
    /\ catchup
    /\ (\E e \in Work : schedule(e)) \/ UNCHANGED <<when, sameTick>>
    /\ wakeup
    /\ UNCHANGED <<now, run, active, enterAt, eventLoopExitEvent, in_simulate, exitEvent,
                   async_event, simulate>>

\* The signal handler of gem5 records an interrupt and wakes the queue.
Interrupt ==
    /\ Running /\ ~active
    /\ ~async_event /\ when[UserExit] = NONE
    /\ async_event' = TRUE
    /\ wakeup
    /\ UNCHANGED <<now, run, active, when, curTick, enterAt, eventLoopExitEvent, in_simulate,
                   exitEvent, simulate, fatal, sameTick>>

\* A notification is due at time t, and the processes it makes runnable. The
\* thread simulate() is sensitive to its event only while it waits.
Due(t) == enterAt = t \/ externalSchedulingEvent \/ eventLoopExitEvent

Woken(t) ==
    (IF enterAt = t THEN {"eventLoop"} ELSE {})
    \cup (IF externalSchedulingEvent THEN {"serviceExternalEvent"} ELSE {})
    \cup (IF eventLoopExitEvent /\ simulate = "waiting" THEN {"simulate"} ELSE {})

\* Every runnable process of this time has run.
Rests == ~active /\ run = {} /\ ~Due(now)

\* The delta notification phase, after every runnable process has run.
Delta ==
    /\ Running /\ ~active
    /\ run = {} /\ Due(now)
    /\ run' = Woken(now)
    /\ enterAt' = IF enterAt = now THEN NONE ELSE enterAt
    /\ externalSchedulingEvent' = FALSE
    /\ eventLoopExitEvent' = FALSE
    /\ UNCHANGED <<now, active, when, curTick, in_simulate, exitEvent, async_event,
                   simulate, fatal, sameTick>>

\* Nothing is left to do at this time: go to the time of a notification, the
\* module's own or one of another SystemC process.
AdvanceTime(t) ==
    /\ Running /\ Rests
    /\ t > now
    /\ enterAt # NONE => t <= enterAt
    /\ now' = t
    /\ run' = Woken(t)
    /\ enterAt' = IF enterAt = t THEN NONE ELSE enterAt
    /\ UNCHANGED <<active, when, curTick, externalSchedulingEvent, eventLoopExitEvent,
                   in_simulate, exitEvent, async_event, simulate, fatal, sameTick>>

ModuleNext ==
    \/ SimulateStart
    \/ SimulateReturn
    \/ EnterEventLoop
    \/ serviceExternalEvent
    \/ LoopWait
    \/ \E e \in Event : LoopService(e)
    \/ LoopEmpty

Next ==
    \/ ModuleNext
    \/ \E e \in Work : notify(e)
    \/ peq_cb
    \/ Interrupt
    \/ Delta
    \/ \E t \in Time : AdvanceTime(t)

Spec == Init /\ [][Next]_vars

\* The kernel runs every runnable process and lets time go on. SystemC code
\* and the user are not obliged to do anything, but neither they nor the gem5
\* handlers schedule events for the present tick without end.
FairSpec ==
    /\ Spec
    /\ WF_vars(ModuleNext) /\ WF_vars(Delta) /\ SF_vars(\E t \in Time : AdvanceTime(t))
    /\ []<>(Rests \/ ~Running)

----------------------------------------------------------------------------
(* Properties *)

\* gem5 time never leads SystemC time, and no event of the queue is overdue
\* while simulate() runs: whoever schedules an event, and however late the
\* module was going to be woken, SystemC time does not pass the event.
NoEventOverdue ==
    /\ curTick <= now
    /\ in_simulate /\ Running => \A e \in Scheduled(when) : when[e] >= now

\* The event loop is never left asleep: while simulate() waits and there are
\* events, one of the two methods is runnable or going to be, no later than
\* the time of the first event.
NeverAsleep ==
    simulate = "waiting" /\ fatal = "none" /\ ~active /\ Scheduled(when) # {} =>
        \/ run # {} \/ externalSchedulingEvent \/ eventLoopExitEvent
        \/ enterAt # NONE /\ enterAt <= nextTick(when)

\* The checks of catchup() and eventLoop() hold until simulate() has returned,
\* whoever calls catchup(): the loop, an interrupt or a callback of the master
\* port. Afterwards nobody services the events that are left, and a second
\* catchup() may find one missed (line 129); gem5 time still never leads, and
\* the loop is never entered outside simulate().
NoMissedEvent ==
    /\ fatal \notin {"leads", "outside simulate"}
    /\ fatal = "missed" => simulate = "done"

\* simulate() returns "the final event": when it is woken, exitEvent is the
\* exit event that ended the loop. The one exception is a gem5 event that
\* SystemC code schedules for the same tick in the delta cycle between, which
\* restarts the loop: it overwrites exitEvent (line 240), and simulate()
\* dereferences NULL (line 287).
SimulateFindsExit == simulate = "crashed" => sameTick

\* simulate() returns with its exit event, with that same exception: the limit
\* event, at the latest, ends the loop.
SimulateReturns == simulate = "waiting" ~> simulate = "done" \/ sameTick
=============================================================================

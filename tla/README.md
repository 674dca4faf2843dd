# TLA+ models of gem5_wrapper

gem5_wrapper couples a gem5 simulation to a SystemC/TLM-2.0 one. gem5 runs as a
guest of the SystemC kernel; its external ports are turned into TLM sockets.
This directory holds TLA+ models of the coupling, the TLC configurations that
check them, and proofs of their main safety properties.

Paths are relative to the repository's parent: `src/src/x.cc` is the file
`src/x.cc` of the repository.

## 1. Inventory

| Component | State it keeps | Operations | Module |
|---|---|---|---|
| Slave port, `SCSlavePort` (gem5 to TLM) | transactor, socket map | `recvTimingReq`, `recvAtomic`, `recvFunctional`, `recvRespRetry`, `nb_transport_bw`, `pec` | `SlavePort` |
| `BlockingPacketHelper` | blocking request, refused response and owed retry of each socket | `isBlockedPort`, `isBlockingTrans`, `updateBlockingMap`, `updateRetryMap`, `getBlockingResponse` | `SlavePort` |
| `MemoryManager`, `Gem5Extension` | free list; packet and core id of a payload | `allocate`, `free` | `SlavePort` |
| `PayloadEvent` (`sc_peq.hh`) | phases that wait in gem5's event queue | `notify`, `process` | `SlavePort`, `EventLoop` |
| Master port, `SCMasterPort` (TLM to gem5) | payload event queue, pending request, response in progress, owed retry | `nb_transport_fw`, `peq_cb`, `recvTimingResp`, `recvReqRetry` | `MasterPort` |
| `TxnRouter` | transaction and response in progress, waiting request and response, queue, thread | `nb_transport_fw`, `peq_cb`, `execute_transaction_process`, `send_response` | `TxnRouter`, `RoutedPort` |
| `Module` (event loop) | `in_simulate`, `exitEvent`, three `sc_event`s, `async_event` | `simulate`, `eventLoop`, `serviceExternalEvent`, `catchup`, `wakeup`, `notify` | `EventLoop` |
| `Gem5SimControl` | the one instance, registered ports, ids of the cores | construction, `registerSlavePort`, `getSlavePort`, elaboration callbacks, `run` | `Elaboration` (`run`: `EventLoop`) |
| Transactors (one socket, several sockets, master) | port name, sockets, socket map, the singleton | construction, `setSocketCoreMap`, `before_end_of_elaboration` | `Elaboration` |
| `Gem5Wrapper` | controller, transactors, routers, bus | creation and binding | `Elaboration`, `Wiring` |
| `SimpleBus`, `TxnRouter::ToMem` | address ranges, connections | `decode`, `transport`, `transport_dbg` | `Wiring` |
| `Gem5Control`, logger, statistics | configuration, output | | not modelled |

**How they interact.** gem5 calls `recvTimingReq`; the slave port picks a socket
from the requestor id, makes a payload and calls `nb_transport_fw(BEGIN_REQ)` on
the router behind that socket. The router queues the phase, later answers with
`nb_transport_bw(END_REQ)` and, when its thread has executed the transaction,
`nb_transport_bw(BEGIN_RESP)`. The slave port queues these phases as gem5 events;
`pec` handles them, unblocks the socket, sends an owed `sendRetryReq` and the
response, and ends the transaction with `nb_transport_fw(END_RESP)`. The master
port does the reverse for an initiator in SystemC. `Module` runs gem5's queue:
both ports schedule gem5 events from SystemC code, and wake it up.

**What is hard.** There are no OS threads, but several kinds of interleaving:
gem5 calls back from inside `sendRetryReq` and `sendRetryResp`; events, queue
callbacks and router threads run in any order that time allows; either side may
refuse and must be retried; payloads are reference counted and reused while
events and maps still name them; the SystemC kernel may run other processes
between two halves of `simulate()`. Before that, the user's program makes the
wrapper's calls in an order of its own, some members are set only by some of them,
and gem5 sends its first requests during elaboration. `PROJECT.json` lists each hazard with its
line and the properties that watch it.

**What makes each part correct.**
* Slave port: a refused request gets exactly one retry; one request per socket
  between BEGIN_REQ and END_REQ; every packet answered once; payloads neither
  leaked nor reused early; no assertion fails.
* Master port: one response between BEGIN_RESP and END_RESP; a refused response
  gets its retry; packets made are destroyed; payloads not recycled early.
* Router: keeps the base protocol towards the port, loses no waiting request,
  works on live payloads only.
* Event loop: SystemC time never passes a gem5 event; the loop is never left
  asleep; no check of `catchup()` fails while `simulate()` runs; `simulate()` returns
  and finds the exit event.
* Elaboration: gem5 starts only with transactors bound to the controller, and a port
  serves a transactor that names it; a request goes to the transactor and the socket
  meant for its core; a platform set up as the code expects gets to `run()`. That a
  port keeps its first transactor, the code does not ensure (finding 5).
* Router and bus addresses: timed, atomic and functional accesses to a memory range
  all reach memory; an id never stands for two connected routers. Where accesses
  outside memory should go, code and header disagree (finding 6).

## 2. Modules

Actions and operators keep the name of the method they model; a suffix names the
path through it (`recvTimingReq_refused`). An action is one uninterrupted call: a
method is split only where it calls back into code that may call the port again.
Operators named `mut_...` stand before the definition they distort; no model uses
them. They are plausible bugs, each of which makes TLC refute a property.

**`SlavePort`** - the slave port with its helper, memory manager, extension and
queued payload events, between two external neighbours: a gem5 port (`sent`,
`peerBlocked`) and any target that keeps the base protocol (`tgt`, `tgtHolds`).
`pec` for BEGIN_RESP is three steps: unblock and `sendRetryReq()` (`pec_BEGIN_RESP`),
the requests gem5 sends from inside it, and the response (`pec_refused`,
`pec_responded`). `Packet` is a set of slots: a packet that is finished may be sent
again. `usingGem5Cache` is false in this build (`isUsingGem5Cache()` returns
false), so the fields and branches for it are dead and left out. The constants
`Reply` and `RetryTakesAll` say which answers the target uses and whether gem5
takes every response of one `recvRespRetry`; if it does not, it takes those of the
lower sockets and refuses one, which is what the assertion of the loop meets.

**`TxnRouter`** - operators for the state of one router; **`RoutedPort`** composes
one router per socket with the port operators of `SlavePort`, defines `tgt` and
`tgtHolds` from the routers' state and states `ImplementsSlavePort`: the
composition implements `SlavePort`. `SlavePort` is thus the abstract specification
of the pair. Every address is taken to be in the router's range; `Wiring` has the
addresses.

**`MasterPort`** - the master port between an initiator that keeps the base
protocol (`ini`) and a gem5 port that may refuse requests and sends responses
(`inGem5`, `owesRetry`, `peerWaits`). `handleEndResp` is split at `sendRetryResp()`.
A transaction is `generated` (no extension), `piped` (packet from a slave port) or
`posted` (piped, and the packet needs no response).

**`EventLoop`** - `Module` under the SystemC kernel: evaluation, delta notification
and time advance in the order of IEEE 1666, with the runnable processes in any
order. `eventLoop` is stepped one gem5 event at a time; no other process runs while
`active`. The environment is SystemC code that schedules gem5 events through
`PayloadEvent::notify` (`notify`), the callback of the master port, which catches up
first (`peq_cb`), and the interrupt handler (`Interrupt`). `catchup` is one operator
with both of its `fatal_if`s, used at every place that calls it: `eventLoop`,
`serviceAsyncEvent` and `peq_cb`, the last also after `simulate()` has returned, when
nothing services the queue any more. `fatal` records which check failed. The history variable `sameTick` records that
SystemC code scheduled an event for the present tick after the loop had ended and before
`simulate()` ran.

**`Elaboration`** - the program, the wrapper, the controller, the transactors and the
ports up to the point where a request has found its socket. The program's calls
(`createSimControl`, `createTransactor`, `createSingletonTransactor`,
`setSocketCoreMap`, `bindSimControl2Transactor`, modules made without the wrapper)
come in any order; then the kernel calls the modules in the order of their
construction, `end_of_elaboration` lets gem5 make functional accesses, and `run`
timed ones. `stopped` tells why the program ended: an assertion, `exit()`, a panic,
a SystemC report, or `"wild"` for an access through an index or a pointer that is
not valid. `UNINIT` is what a member holds that no constructor has set
(`transactor_multi`, `BlockingPacketHelper::socket_num`): a read of such a pointer is
either null or not, as the step chooses. Cores are numbered in the order of the
map `cpuPorts`; gem5 is taken to give them two requestor ids each.

**`Wiring`** - routers, bus and sockets: the wrapper's calls in any order, the check of
the SystemC kernel that every socket is connected, and the decoding of addresses by
`ToMem` and by the bus, with sums modulo `AddressSpace` (2^64 in the code). It shares
no state with `Elaboration` but the number of transactors and sockets, which are
constants here.

**`SlavePortProofs`, `RoutedPortProofs`, `MasterPortProofs`, `EventLoopProofs`,
`ElaborationProofs`, `WiringProofs`** - theorems. **`MCSlavePort`,
`MCRoutedPort`, `MCElaboration`, `MCWiring`** - instances for TLC.

## 3. Runs

| Run | Configuration | Shows |
|---|---|---|
| `slave_port` | 2 sockets, 3 packets, 2 payloads | the seven safety properties and `IndInv`; `RetryArrives`, `EveryPacketFinished` |
| `slave_port_updated` | target may answer TLM_UPDATED/END_REQ | violation: assertion of `pec` |
| `slave_port_completed` | target may answer TLM_COMPLETED to a read | violation: packet without carrier |
| `slave_port_retry` | gem5 may refuse a response of `recvRespRetry`, 3 payloads | violation: assertion of `recvRespRetry` |
| `routed_port` | 2 routers, 4 packets, 2 payloads | refinement of `SlavePort`, router properties, liveness without assumptions on the target |
| `master_port` | 3 payloads, all kinds and answers | safety and liveness; the reference that END_RESP leaves behind is counted |
| `event_loop` | 2 work events, 5 ticks, delays 0 to 2 | no event overdue, loop never asleep, no missed event before `simulate()` returned; `simulate()` returns and finds the exit event, but for `sameTick` |
| `elaboration` | 2 platforms (and 3 faulty ones), 2 transactors | requests reach their sockets, a gap never misroutes, a port serves its last transactor, a good platform runs |
| `elaboration_single` | the same, 1 transactor | violation: the transactor with one socket serves no timed request |
| `elaboration_takeover` | as `elaboration` | violation: a second transactor takes the port of the first |
| `wiring` | 8 addresses, 2 routers, 1 transactor with 2 sockets | the paths agree on memory; one connected router for an id |
| `wiring_non_memory` | as `wiring` | violation: an access outside memory ends in the router |

**Bounds.** Two sockets are enough for what one socket does to another (the maps
are indexed by socket, and only `peerBlocked`, the free list and `recvRespRetry`
join them). Two packets on the same socket give a refusal, a third on the other
socket gives refused responses on both. Two payloads for three packets make the
free list run empty and payloads be reused at once, on either socket; that more
payloads change nothing is what the proofs are for. In `routed_port` three packets
share a router: one is served, one waits and one is refused. A router knows at most
two payloads, the one in progress, which the port may have freed already, and the
one that waits; two payloads force such a payload to be reused by the other router
while the first one still names it. (Without the liveness property,
which takes the time, the run also passes with three and with four payloads.) In
`master_port` one response is in progress, one is refused and one request is
pending. In `event_loop` `Cycles` has an argument of `simulate()` that ends
within the bound and one that exceeds `MaxTick`, which exercises the overflow guard; five ticks let events be scheduled before, at and after the next wake-up.
In `elaboration` one platform has two cores, a slave and a master port, the
other a core and two slave ports; a configuration with a port listed twice, one
that cannot be read and one without a mode add the ways to end early. Two
transactors can name the same port, be the same one twice, or leave a port without
one; the socket maps reverse the cores, share a socket, leave a gap and name a core
there is not; cluster ids lie inside and outside the sockets. In `wiring` the ranges lie at
the bottom, in the middle and at the top of the address space, where the sum wraps;
the bus has all addresses, exactly one router's, or a range that is refused; the two
routers may have the same id. Socket
and transactor numbers go one past those there are.

**Symmetry** of payloads is used in the three violation runs of the slave port only;
payloads occur in no constant but the set itself.

**Deadlock** is checked in the slave and routed port runs. The event loop really
stops (after `simulate()` returned, or at the last tick), and so do the programs of
`elaboration` and `wiring` once an assertion or a report has ended them. In
`master_port` the initiator's payloads run out, because those that ended with
END_RESP never become free.

**Fairness.** Queued events and queue callbacks have a fixed time and time
advances: others may run before them, but not for ever (strong fairness, as they
are disabled while another handler is on the stack). A running handler returns
(weak). gem5, having refused, calls `recvRespRetry` and `recvReqRetry`, and in the
end takes what it refused; it answers every packet it took. In `slave_port` the
target answers every request, as the base protocol demands; `routed_port`
replaces this by fairness of the router's own processes and of the memory's
`b_transport`. In the event loop the kernel runs every runnable process and
lets time advance (strong fairness: other code may again and again make a process
runnable first). Other SystemC code and gem5's handlers need not do anything, but they
do not schedule events for the present tick without end (`[]<>Rests`): in SystemC such
code stops time for everybody. In `elaboration` the
kernel, once `sc_start()` was called, goes on to the next callback.

## 4. Proofs

Every invariant that a passing run checks, except `GapNeverMisroutes`, is also proved,
`Spec => []P`, for all values of the constants; so is the refinement.

| Module | Proved | For every |
|---|---|---|
| `SlavePortProofs` | `IndInv`, `TypeOK`, the seven safety properties of `slave_port` | number of sockets, packets, payloads; map from packets to sockets |
| `RoutedPortProofs` | `ImplementsSlavePort`, `TypeOK`, `ResponsesInTurn`, `OneRequestWaits`, `ExecutesLiveTransaction`; the port's safety properties for this target (`PortKeepsPromises`) | number of routers, packets, payloads |
| `MasterPortProofs` | `IndInv`, `TypeOK`, the six safety properties of `master_port` | set of payloads, kinds, answers |
| `EventLoopProofs` | `TypeOK`, `NoEventOverdue`, `NeverAsleep`, `NoMissedEvent`, `SimulateFindsExit` | set of events, time bound, delays, argument of `simulate()` |
| `ElaborationProofs` | `TypeOK`, `RequestReachesSocket`, `StartedBound`; no good platform is stopped before `run()` (`GoodPlatformSafe`) | configuration, socket map, number of cores and transactors |
| `WiringProofs` | `TypeOK`, `OneRouterPerId`, `PathsAgree` | address space, ranges, number of routers, transactors, sockets |

*Assumptions.* The named ASSUMEs on the constants (types, `NULL` distinct, socket maps
finite as a `std::map` is), which TLC evaluates in the runs, and two hypotheses about
the environment.
`GoodNeighbours` (slave port): no TLM_UPDATED with END_REQ, no TLM_COMPLETED for a
packet that needs a response, and gem5 takes all responses of one `recvRespRetry`
(`RetryTakesAll`), of which `recvRespRetry` asserts that none is refused. Each of the
three violation runs drops one part. `RoutedPortProofs` needs no
hypothesis about the target: the router answers TLM_ACCEPTED only. The third part is
built into `RoutedPort`.
`RetrySendsOne` (master port): gem5 sends at most one response from inside
`recvRespRetry`; gem5's packet queues do, but its port protocol does not demand it. With
two, the second would be refused while `needToSendRetry` is still set, and the assertion
of `recvTimingResp` would fail.

*Slave and master port.* No safety property is inductive alone. That a mark for a retry
belongs to a blocked socket (`NoLostRetry`) needs to know that a socket is blocked by
its own transaction until the event for it was handled (`BlockingInv`), which needs
the queued phases to agree with the target's progress (`PhaseInv`), which needs that
a payload taken from the free list is in no map, queue or frame (`IdleInv`,
`PayloadAccounting`), and that extensions name the right socket (`ExtensionInv`).
`ResponseInv` gives the assertions of `pec`: by the response exclusion rule at most
one response of a socket is queued, handled or refused. `RetryInv` adds that at most
one socket owes a retry. For the master port `PlaceInv` ties the initiator's
progress to the one place the transaction has in the port, `PendingInv` makes the
three fields of a pending request agree, `RetryInv` describes the moment inside
`sendRetryResp()`. The proofs have one lemma
per action with a step per conjunct.

*Routed port.* `RoutedPortProofs` instantiates `SlavePortProofs` with the router's
answers, which gives the port's invariant for the pair as soon as every step is known to
be a step of `SlavePort` (`PortStep`). That in turn needs the routers' state: `RouterInv`
says of each router that its thread, the transaction and response in progress and the
waiting request agree, and `QueueInv` that it deals with transactions of its own
socket only and that a queued END_RESP is for the one in progress. The two inductions are therefore one: `IndInv` holds
the port's invariant, `RouterInv` and `QueueInv` together, and each action of the
composition has a lemma that names the step of `SlavePort` it implements.

*Event loop.* `NeverAsleep` and `NoEventOverdue` support each other: time does not pass an
event because the loop is notified for it, and the notification is right because nothing
was missed before. `SimulateInv` and `NotifyInv` add where `simulate()` stands and that
the loop is never runnable together with a `simulate()` about to return. `ExitInv` says
that from the exit event until `simulate()` has run `exitEvent` names it and no other event
is due, unless `sameTick`; `ExitFound` follows without a hypothesis. `CatchupHolds` takes
the checks of `catchup()` wherever it is called: `NoEventOverdue` covers the calls while
`simulate()` runs, and afterwards only the check for a missed event can fail.

*Elaboration.* A port that no called back transactor names is as it was created
(`FreshInv`), and as long as nothing stopped the program every transactor called back is
bound (`BoundInv`): a master port and a port with a transactor of one socket are found
occupied by the assertion of `bindToTransactor`, and any other slave port serves the
transactor called back last, which may have taken it from an earlier one of several
sockets. With `FreshInv` the port of a sole transactor is
known exactly (`SolePort`), and the lemmas `SoleMap` and `SoleSocket` compute what
`initSocketMap` and `getSocketId` do with it: the socket found is the one the user meant,
and it is below the number of sockets. `GoodPlatformSafe` adds that master ports are fresh
too (`MasterFreshInv`).

*Wiring.* The invariant adds four facts to the types: a router that leads to a
bus socket was bound when there was a bus (`LinkInv`), the connections were complete
when the simulation started and nothing changes them after that (`StartInv`), and the
last access is one of the three outcomes that the ranges and connections there are
give for its router and address (`AccessInv`), and a router that the wrapper has
connected is the one its id leads to (`IdInv`), which gives `OneRouterPerId`. `PathsAgree` then needs that the sum in
`ToMem` does not wrap (`ToMemRange`), which is what `Supported` asks for.

TLC was used on the inductive invariants of all modules, with the constants of the runs,
before they were proved; that of the slave port stays in its run.

*Only model-checked.* `GapNeverMisroutes`. Liveness: `RetryArrives`, `EveryPacketFinished`, `SimulateReturns`,
`EveryRequestAnswered`, `RespRetryArrives`, `GoodPlatformRuns`. Liveness under fairness
and ENABLED are out of the prover's reach. The violation runs show their
counterexamples; nothing is proved of those.

## 5. Findings

1. `sc_slave_port.cc:362`: TLM_UPDATED with END_REQ, which line 325 expects, fails
   the assertion of `pec`, since only TLM_ACCEPTED records the transaction.
2. `sc_slave_port.cc:333`: after TLM_COMPLETED no response is sent; gem5 waits for ever.
3. `sc_slave_port.cc:459`: one `recvRespRetry` sends the refused responses of all sockets;
   if gem5 takes the first and refuses the second, the assertion fails.
4. `sc_slave_port.cc:508`: binding a `Gem5SlaveTransactor`, one of the modules the
   repository's README lists, initialises no `BlockingPacketHelper`; the first timed
   request stops at its assertion or its report.
5. `sc_slave_port.cc:517`: the assertions that a port is free (506, 517) look at
   `transactor` only; a port with a transactor of several sockets is bound again, and gem5
   starts with the first transactor cut off.
6. `txn_router.h:126`: the header (lines 11-14) says that the router sends non-memory
   transactions on; `nb_transport_fw` and `transport_dbg` end the program instead.

Three more places where the code stops short are written into properties that pass,
because they say exactly when it happens:

* `sc_module.cc:240`, in `SimulateFindsExit`: an event scheduled from SystemC for the tick
  of the exit event restarts the loop, which sets `exitEvent` to NULL before `simulate()`
  dereferences it.
* `sc_module.cc:129`, in `NoMissedEvent`: once `simulate()` has returned, the kernel goes
  on; gem5 events that are left are never serviced, and the second callback of a
  master port after one is due stops with "Missed an event".
* `sc_master_port.cc:162`, in `ReferenceBalance`: the reference taken for END_RESP is never
  released, so a payload that ended that way never returns to the memory manager.

The repository's own router triggers neither 1 nor 2: it always answers
TLM_ACCEPTED. The wrapper creates only transactors with several sockets, which 4
does not concern and 5 does. The properties of `elaboration` and `wiring` also mark where
the code relies on its user: socket maps without gaps (`GoodMap`; with a gap
requests may be stopped, but `GapNeverMisroutes`), one transactor for a port (`WellBound`),
ranges that end below the top of the address space and lie in the bus's range
(`Supported`). What a range up to the top of the address space, where the sum of `ToMem` wraps
to 0, or the error status of an atomic access, which `recvAtomic` does not read, should
lead to, neither code nor documents say; no property is about them.

## 6. Not modelled

* Data, addresses, commands, annotated delays: payloads carry a packet and a socket.
  END_REQ and BEGIN_RESP of one transaction are taken to have increasing times, as
  `TxnRouter`'s delays make them.
* `b_transport` and `transport_dbg` of the master port: packet made and destroyed in
  one call, no state left.
* `Gem5Control` and its top-level module: a front end that a program uses instead of
  `Gem5SimControl`. Its methods forward to gem5's configuration manager, which is not
  part of the repository; what it keeps itself is a version and a list of functions
  that are called once.
* Debug flags, clock and statistics set-up in `Gem5SimControl`, the logger: output.
* The branches for `usingGem5Cache`, which is false in this build.

## 7. Plan

Done: `SlavePort`, `TxnRouter`, `RoutedPort`, `EventLoop`, `MasterPort`, `Elaboration`,
`Wiring` with their runs; proofs of every invariant and of the refinement. Left, in this
order:

1. Proofs of the action properties behind the liveness runs: what no step may undo
   on the way to an answer (a queued phase, an owed retry, a packet waiting).
2. `PipeThrough`: a slave port whose target is a master port; what the leak and posted
   packets mean for the pair, and which part of `SlavePort`'s target it keeps.
3. Ticks in the slave port's event queue (same-tick events run last in, first out),
   for targets whose END_REQ and BEGIN_RESP carry equal times.

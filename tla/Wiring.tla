------------------------------- MODULE Wiring ------------------------------
(***************************************************************************)
(* The memory side of a platform: the user's program creates routers and   *)
(* the bus through Gem5Wrapper and connects them, the SystemC kernel       *)
(* checks the connections, and gem5's accesses are decoded: a router sends *)
(* timed and atomic accesses to memory itself, and functional ones through *)
(* the bus. Sums of addresses wrap around at the end of the address space. *)
(*                                                                         *)
(* The transactors are those of Elaboration, with their sockets. The       *)
(* program connects the memory, and may connect sockets to modules of its  *)
(* own.                                                                    *)
(***************************************************************************)
EXTENDS Integers, Sequences

CONSTANTS
    AddressSpace, \* number of addresses; 2^64 in the code
    SocketNum,   \* sockets of each transactor: a sequence of numbers
    RouterId,    \* ids the program gives to routers
    Ranges,      \* memory ranges of routers: start, size
    BusRanges,   \* arguments of createSimpleBus: start, end
    MaxRouters,  \* bound on the routers
    NULL,
    OWN          \* a module of the program

Address == 0 .. AddressSpace - 1

ASSUME AddressSpaceAssumption == AddressSpace \in Nat \ {0}
ASSUME SocketNumAssumption == SocketNum \in Seq(Nat)
ASSUME RangesAssumption == Ranges \subseteq [start : Address, size : Address]
ASSUME BusRangesAssumption == BusRanges \subseteq [start : Address, end : Address]
ASSUME MaxRoutersAssumption == MaxRouters \in Nat
ASSUME OwnAssumption == OWN \notin Nat /\ NULL \notin [start : Address, end : Address]

VARIABLES
    stage,        \* "construct" or "run"
    stopped,      \* why the program ended, or NULL
    routers,      \* the routers in the order of their construction, with their ids
    txn_routers,  \* Gem5Wrapper::txn_routers: index of the router of an id
    busInstance,  \* Gem5Wrapper::busInstance: the range of its port, or NULL
    sockets,      \* what each transactor socket was bound to
    isock_bus,    \* what each router's bus socket was bound to
    last          \* the last access and where it ended

vars == <<stage, stopped, routers, txn_routers, busInstance, sockets, isock_bus, last>>

\* Transactor t's sockets, numbered from 0 as in the code.
TransactorSocket == UNION {{t} \X (0 .. SocketNum[t] - 1) : t \in DOMAIN SocketNum}

BusSockets == 0 .. 1

(***************************************************************************)
(* Address decoding.                                                       *)
(***************************************************************************)
\* The last address of the range compared as if it were the end.
mut_ToMem(r, addr) == r.start <= addr /\ ~(addr >= (r.start + r.size - 1) % AddressSpace)

ToMem(r, addr) == r.start <= addr /\ ~(addr >= (r.start + r.size) % AddressSpace)

\* PortMapping::contains, SimpleBus::decode for the one target of the bus.
decode(addr) == busInstance.start <= addr /\ addr <= busInstance.end

\* SimpleBus::transport and transport_dbg.
transport(addr) == IF decode(addr) THEN "memory" ELSE "address_error"

(***************************************************************************)
(* The user's calls.                                                       *)
(***************************************************************************)
Constructing == stage = "construct" /\ stopped = NULL

newTxnRouter(id, range) == [id |-> id, start |-> range.start, size |-> range.size]

\* The number of routers stored before the router is.
mut_createTxnRouter(id, range) ==
    /\ Constructing
    /\ Len(routers) < MaxRouters
    /\ routers' = Append(routers, newTxnRouter(id, range))
    /\ txn_routers' = [i \in DOMAIN txn_routers \cup {id} |-> Len(routers)]
    /\ isock_bus' = Append(isock_bus, {})
    /\ UNCHANGED <<stage, stopped, busInstance, sockets, last>>

\* An id in use given to the new router.
mut_createTxnRouter_overwrites(id, range) ==
    /\ Constructing
    /\ Len(routers) < MaxRouters
    /\ routers' = Append(routers, newTxnRouter(id, range))
    /\ txn_routers' = [i \in DOMAIN txn_routers \cup {id} |->
                          IF i = id THEN Len(routers') ELSE txn_routers[i]]
    /\ isock_bus' = Append(isock_bus, {})
    /\ UNCHANGED <<stage, stopped, busInstance, sockets, last>>

\* The map keeps the first router of an id; the program gets the new one.
createTxnRouter(id, range) ==
    /\ Constructing
    /\ Len(routers) < MaxRouters
    /\ routers' = Append(routers, newTxnRouter(id, range))
    /\ txn_routers' = [i \in DOMAIN txn_routers \cup {id} |->
                          IF i \in DOMAIN txn_routers THEN txn_routers[i] ELSE Len(routers')]
    /\ isock_bus' = Append(isock_bus, {})
    /\ UNCHANGED <<stage, stopped, busInstance, sockets, last>>

\* The first call makes the bus; PortMapping asserts that the range is one.
createSimpleBus(range) ==
    /\ Constructing
    /\ busInstance = NULL
    /\ IF range.end >= range.start
       THEN busInstance' = range /\ UNCHANGED stopped
       ELSE stopped' = "assert" /\ UNCHANGED busInstance
    /\ UNCHANGED <<stage, routers, txn_routers, sockets, isock_bus, last>>

\* Binding a socket: sc_port refuses the same target a second time.
Bind(links, i, target) ==
    IF target \in links[i]
    THEN stopped' = "sc_error" /\ UNCHANGED links
    ELSE links' = [links EXCEPT ![i] = @ \cup {target}] /\ UNCHANGED stopped

\* Asserts that the transactor and the socket exist; nothing happens for an
\* unknown id.
bindTxnRouter2Transactor(id, s, t) ==
    /\ Constructing
    /\ \/ /\ <<t, s>> \notin TransactorSocket
          /\ stopped' = "assert"
          /\ UNCHANGED sockets
       \/ /\ <<t, s>> \in TransactorSocket
          /\ id \in DOMAIN txn_routers
          /\ Bind(sockets, <<t, s>>, txn_routers[id])
    /\ UNCHANGED <<stage, routers, txn_routers, busInstance, isock_bus, last>>

\* Asserts that there is a bus, but not that it has the socket.
bindTxnRouter2Bus(id, s) ==
    /\ Constructing
    /\ \/ /\ busInstance = NULL
          /\ stopped' = "assert"
          /\ UNCHANGED isock_bus
       \/ /\ busInstance # NULL
          /\ id \in DOMAIN txn_routers
          /\ IF s \in BusSockets THEN Bind(isock_bus, txn_routers[id], s)
             ELSE stopped' = "wild" /\ UNCHANGED isock_bus
    /\ UNCHANGED <<stage, routers, txn_routers, busInstance, sockets, last>>

\* The program binds a socket itself.
bindOwn ==
    /\ Constructing
    /\ \/ /\ \E i \in TransactorSocket : Bind(sockets, i, OWN)
          /\ UNCHANGED isock_bus
       \/ /\ \E r \in DOMAIN isock_bus : Bind(isock_bus, r, OWN)
          /\ UNCHANGED sockets
    /\ UNCHANGED <<stage, routers, txn_routers, busInstance, last>>

(***************************************************************************)
(* The kernel: every initiator socket must lead to one target, and a       *)
(* target socket takes one initiator. Target sockets the wrapper left are  *)
(* the program's.                                                          *)
(***************************************************************************)
Connected(links, targets) ==
    /\ \A i \in DOMAIN links : \E x \in links[i] : links[i] = {x}
    /\ \A i, j \in DOMAIN links : i # j => links[i] \cap links[j] \cap targets = {}

sc_start ==
    /\ Constructing
    /\ IF Connected(sockets, DOMAIN routers) /\ Connected(isock_bus, BusSockets)
       THEN stage' = "run" /\ UNCHANGED stopped
       ELSE stopped' = "sc_error" /\ UNCHANGED stage
    /\ UNCHANGED <<routers, txn_routers, busInstance, sockets, isock_bus, last>>

(***************************************************************************)
(* Accesses that arrive at a router.                                       *)
(***************************************************************************)
ToBus(r, addr) == IF isock_bus[r] = {OWN} THEN "own" ELSE transport(addr)

Access(kind, r, addr, fate) == [kind |-> kind, router |-> r, addr |-> addr, fate |-> fate]

\* A report or a debug transport that is not completed ends the program.
Finish(access) ==
    /\ stage = "run"
    /\ stopped = NULL
    /\ \E i \in TransactorSocket : access.router \in sockets[i]
    /\ last' = access
    /\ IF \/ access.fate = "fatal"
          \/ access.kind = "functional" /\ access.fate = "address_error"
       THEN stopped' = "fatal" ELSE UNCHANGED stopped
    /\ UNCHANGED <<stage, routers, txn_routers, busInstance, sockets, isock_bus>>

\* Timed accesses, which RoutedPort describes further.
nb_transport_fw(r, addr) ==
    Finish(Access("timed", r, addr, IF ToMem(routers[r], addr) THEN "memory" ELSE "fatal"))

b_transport(r, addr) ==
    Finish(Access("atomic", r, addr,
                  IF ToMem(routers[r], addr) THEN "memory" ELSE ToBus(r, addr)))

\* Through the bus to memory.
transport_dbg(r, addr) ==
    Finish(Access("functional", r, addr,
                  IF ToMem(routers[r], addr) THEN ToBus(r, addr) ELSE "fatal"))

Init ==
    /\ stage = "construct"
    /\ stopped = NULL
    /\ routers = << >>
    /\ txn_routers = << >>
    /\ busInstance = NULL
    /\ sockets = [i \in TransactorSocket |-> {}]
    /\ isock_bus = << >>
    /\ last = NULL

\* Numbers the program passes, one more than there are of each.
SocketArg == 0 .. 2
TransactorArg == 1 .. Len(SocketNum) + 1

User ==
    \/ \E id \in RouterId, range \in Ranges : createTxnRouter(id, range)
    \/ \E range \in BusRanges : createSimpleBus(range)
    \/ \E id \in RouterId, s \in SocketArg, t \in TransactorArg :
          bindTxnRouter2Transactor(id, s, t)
    \/ \E id \in RouterId, s \in SocketArg : bindTxnRouter2Bus(id, s)
    \/ bindOwn
    \/ sc_start

Gem5 ==
    \E r \in DOMAIN routers, addr \in Address :
        \/ nb_transport_fw(r, addr)
        \/ b_transport(r, addr)
        \/ transport_dbg(r, addr)

Next == User \/ Gem5

Spec == Init /\ [][Next]_vars

(***************************************************************************)
(* Properties.                                                             *)
(***************************************************************************)
RouterType == [id : RouterId, start : Address, size : Address]

\* The types of the variables; ids and sockets refer to existing routers.
TypeOK ==
    /\ stage \in {"construct", "run"}
    /\ stopped \in {NULL, "assert", "sc_error", "wild", "fatal"}
    /\ routers \in Seq(RouterType) /\ Len(routers) <= MaxRouters
    /\ DOMAIN txn_routers \subseteq RouterId
    /\ \A id \in DOMAIN txn_routers : txn_routers[id] \in DOMAIN routers
    /\ busInstance \in BusRanges \cup {NULL}
    /\ sockets \in [TransactorSocket -> SUBSET (DOMAIN routers \cup {OWN})]
    /\ isock_bus \in Seq(SUBSET (BusSockets \cup {OWN}))
    /\ Len(isock_bus) = Len(routers)
    /\ last # NULL => last.router \in DOMAIN routers /\ last.addr \in Address

\* The addresses a router was created for.
MemoryRange(r) == r.start .. r.start + r.size - 1

\* The range ends below the top of the address space, and the bus has it.
Supported(r) ==
    /\ routers[r].start + routers[r].size < AddressSpace
    /\ isock_bus[r] # {OWN}
    /\ MemoryRange(routers[r]) \subseteq busInstance.start .. busInstance.end

\* The three paths agree on what is memory: timed, atomic and functional
\* accesses to a router's range all reach memory and none ends the program,
\* although the last go through the bus, which decodes with a range and a
\* comparison of its own.
PathsAgree ==
    /\ last # NULL
    /\ Supported(last.router)
    /\ last.addr \in MemoryRange(routers[last.router])
    => last.fate = "memory" /\ stopped = NULL

\* A socket of a transactor leads to the router, or the router to the bus.
Linked(r) ==
    \/ \E i \in TransactorSocket : r \in sockets[i]
    \/ isock_bus[r] \cap BusSockets # {}

\* The wrapper connects one router for an id: when the program creates a second
\* one with an id in use, between the two binding calls or before them, no
\* path gets its halves on different routers.
OneRouterPerId ==
    \A q, r \in DOMAIN routers :
        Linked(q) /\ Linked(r) /\ routers[q].id = routers[r].id => q = r

\* The router sends what is no memory transaction, such as the configuration
\* of DMA registers and CLINT events, on to the bus, as txn_router.h:11-14
\* says: no access outside its range ends in the router.
NonMemoryToBus ==
    last # NULL /\ last.addr \notin MemoryRange(routers[last.router])
        => last.fate # "fatal"

=============================================================================

---------------------------- MODULE Elaboration ----------------------------
(***************************************************************************)
(* How a co-simulation is put together: the user's program calls           *)
(* Gem5Wrapper in any order, Gem5SimControl reads gem5's configuration and *)
(* registers the external ports, and the SystemC kernel elaborates the     *)
(* modules, which is when the transactors look up their ports and the      *)
(* ports compute which socket each gem5 requestor uses. gem5 may send      *)
(* requests from initState() on.                                           *)
(*                                                                         *)
(* Cores are numbered in the order of their names, the order of the map    *)
(* cpuPorts. Calls that return without effect are left out. The routers,   *)
(* the bus and the connection of the sockets are the module Wiring.        *)
(***************************************************************************)
EXTENDS Integers, Sequences, FiniteSets

CONSTANTS
    Configs,         \* gem5 configurations: readable, slave, master, cores, mode
    PortName,        \* names the user gives to transactors
    SocketNums,      \* numbers of sockets the user asks for
    CoreMaps,        \* socket_core_map values, << >> for the default
    Clusters,        \* CPU cluster ids a packet may carry
    MaxTransactors,  \* bound on the transactors
    NULL,            \* the null pointer; no value
    UNINIT           \* the content of a member no constructor has set

ConfigType == [readable : BOOLEAN, slave : Seq(PortName),
               master : Seq(PortName), cores : Nat,
               mode : {"timing", "atomic", "other"}]

ASSUME ConfigsAssumption == Configs \subseteq ConfigType
ASSUME SocketAssumption == SocketNums \subseteq Nat /\ Clusters \subseteq Nat
ASSUME MapAssumption ==
    \A m \in CoreMaps : /\ DOMAIN m \subseteq Nat /\ IsFiniteSet(DOMAIN m)
                        /\ \A s \in DOMAIN m : m[s] \subseteq Int
ASSUME MaxAssumption == MaxTransactors \in Nat
ASSUME NullAssumption ==
    /\ NULL \notin Nat /\ UNINIT \notin Nat /\ NULL # UNINIT
    /\ NULL \notin {"exit", "panic", "sc_error", "assert", "reported", "wild"}

VARIABLES
    config,            \* the configuration file
    stage,             \* how far the program has come
    stopped,           \* why the program ended early, or NULL
    simInstance,       \* Gem5SimControl::instance exists
    simControl,        \* Gem5Wrapper::sim_control is set
    simControlBinded,  \* Gem5Wrapper::simControlBinded
    modules,           \* transactors in the order of their construction
    transactors,       \* Gem5Wrapper::transactors, as indices of modules
    instance,          \* Gem5SlaveTransactor_Multi::instance, or NULL
    slavePorts,        \* Gem5SimControl::slavePorts
    masterPorts,       \* Gem5SimControl::masterPorts: the port's transactor
    elaborated,        \* number of transactors the kernel has called back
    last               \* the last request of gem5 and what became of it

wrapper == <<simControl, simControlBinded, transactors, instance>>
ports == <<slavePorts, masterPorts>>
vars == <<config, stage, stopped, simInstance, modules, elaborated, last, wrapper, ports>>

(***************************************************************************)
(* Cores and their requestor ids.                                          *)
(***************************************************************************)
Core == 0 .. config.cores - 1

\* gem5 gives 0 to the system and two further ids to each core.
Requestor == 0 .. 2 * config.cores

\* initCoreInfo: the instruction and the data id of every core.
cpuPorts == [c \in Core |-> {2 * c + 1, 2 * c + 2}]

Least(S) == CHOOSE x \in S : \A y \in S : x <= y

\* The position of the first core with this id; 0 for any other requestor.
getCoreIDByRequestorID(id) ==
    LET found == {c \in Core : id \in cpuPorts[c]}
    IN  IF found = {} THEN 0 ELSE Least(found)

(***************************************************************************)
(* The socket map of a slave port.                                         *)
(***************************************************************************)
newSlavePort ==
    [transactor |-> NULL, transactor_multi |-> UNINIT, cpu_vec |-> << >>,
     socket_map |-> << >>, socket_num |-> UNINIT]

\* The vector of names grows with every call, the map is replaced.
updateCorePortMap(port) ==
    [port EXCEPT !.cpu_vec = @ \o [i \in 1 .. config.cores |-> i - 1]]

\* Core numbers without a name are skipped, and so are negative ones, which
\* are compared as unsigned.
ValidCores(vec, cores) == {c \in cores : c \in 0 .. Len(vec) - 1}

\* The listed sockets numbered one after the other, as a vector would.
mut_initSocketMap(port, config_map) ==
    LET Used == {s \in DOMAIN config_map : ValidCores(port.cpu_vec, config_map[s]) # {}}
        Nth(i) == CHOOSE s \in Used : Cardinality({u \in Used : u < s}) = i
    IN  IF config_map = << >> THEN cpuPorts
        ELSE [i \in 0 .. Cardinality(Used) - 1 |->
                 UNION {cpuPorts[port.cpu_vec[c + 1]] :
                          c \in ValidCores(port.cpu_vec, config_map[Nth(i)])}]

\* insert() keeps an entry that is there, operator[] extends it.
initSocketMap(port, config_map) ==
    LET old == port.socket_map
        Used == {s \in DOMAIN config_map : ValidCores(port.cpu_vec, config_map[s]) # {}}
        Added(s) == IF s \notin Used THEN {}
                    ELSE UNION {cpuPorts[port.cpu_vec[c + 1]] :
                                  c \in ValidCores(port.cpu_vec, config_map[s])}
    IN  IF config_map = << >>
        THEN [s \in DOMAIN old \cup Core |->
                 IF s \in DOMAIN old THEN old[s] ELSE cpuPorts[s]]
        ELSE [s \in DOMAIN old \cup Used |->
                 IF s \in DOMAIN old THEN old[s] \cup Added(s) ELSE Added(s)]

\* What a plausible slip would be: socket 0 reserved for the system port.
mut_getSocketId(port, id) ==
    LET found == {s \in DOMAIN port.socket_map : id \in port.socket_map[s]}
    IN  IF found = {} THEN 0 ELSE Least(found) + 1

\* The first socket whose list holds the id; the first socket for others.
getSocketId(port, id) ==
    LET found == {s \in DOMAIN port.socket_map : id \in port.socket_map[s]}
    IN  IF found = {} THEN 0 ELSE Least(found)

\* bindToTransactor for a transactor with one socket.
bindToTransactor(port, t) == [port EXCEPT !.transactor = t]

\* bindToTransactor for a transactor with several sockets, with
\* BlockingPacketHelper::init for the size of the socket map.
bindToTransactor_multi(port, t) ==
    LET map == initSocketMap(port, modules[t].socket_core_map)
    IN  [port EXCEPT !.transactor_multi = t,
                     !.socket_map = map,
                     !.socket_num = Cardinality(DOMAIN map)]

(***************************************************************************)
(* Gem5SimControl and the user's calls before sc_start().                  *)
(***************************************************************************)
Names(seq) == {seq[i] : i \in DOMAIN seq}

Distinct(seq) == \A i, j \in DOMAIN seq : seq[i] = seq[j] => i = j

Stop(why) == stopped' = why

Constructing == stage = "construct" /\ stopped = NULL

\* The ports gem5 creates for the names in its configuration. Each registers
\* itself; a second one of the same name ends the program.
getExternalPort_slave == [n \in Names(config.slave) |-> newSlavePort]
getExternalPort_master == [n \in Names(config.master) |-> NULL]
registerSlavePort == Distinct(config.slave)
registerMasterPort == Distinct(config.master)

\* The constructor.
Gem5SimControl ==
    /\ simInstance' = TRUE
    /\ IF config.readable /\ registerSlavePort /\ registerMasterPort
       THEN /\ slavePorts' = getExternalPort_slave
            /\ masterPorts' = getExternalPort_master
            /\ UNCHANGED stopped
       ELSE Stop("exit") /\ UNCHANGED ports
    /\ UNCHANGED <<config, stage, modules, elaborated, last>>

\* The instance there is, whatever its arguments were, or a new one.
getInstance ==
    IF simInstance
    THEN UNCHANGED <<config, stage, stopped, simInstance, modules, elaborated, last, ports>>
    ELSE Gem5SimControl

\* The program constructs the controller itself.
newSimControl ==
    /\ Constructing
    /\ \/ ~simInstance /\ Gem5SimControl
       \/ /\ simInstance
          /\ Stop("panic")
          /\ UNCHANGED <<config, stage, simInstance, modules, elaborated, last, ports>>
    /\ UNCHANGED wrapper

createSimControl ==
    /\ Constructing
    /\ ~simControl
    /\ simControl' = TRUE
    /\ getInstance
    /\ UNCHANGED <<simControlBinded, transactors, instance>>

newModule(kind, name, n, bound) ==
    [kind |-> kind, portName |-> name, socket_num |-> n,
     socket_core_map |-> << >>, simBound |-> bound]

\* SC_REPORT_ERROR, which throws, for an empty name.
Construct(kind, name, n, bound) ==
    /\ Constructing
    /\ Len(modules) < MaxTransactors
    /\ modules' = Append(modules, newModule(kind, name, n, bound))
    /\ IF name = "" THEN Stop("sc_error") ELSE UNCHANGED stopped
    /\ UNCHANGED <<config, stage, simInstance, elaborated, last, ports>>

createTransactor(name, n) ==
    /\ Construct("multi", name, n, FALSE)
    /\ transactors' = Append(transactors, Len(modules) + 1)
    /\ UNCHANGED <<simControl, simControlBinded, instance>>

\* The position taken after the append instead of before it.
mut_getInstance_multi(name, n) ==
    \/ /\ instance = NULL
       /\ Construct("multi", name, n, FALSE)
       /\ instance' = Len(modules) + 2
    \/ /\ Constructing
       /\ instance # NULL
       /\ UNCHANGED <<config, stage, stopped, simInstance, modules, elaborated,
                      last, ports, instance>>

\* Gem5SlaveTransactor_Multi::getInstance.
getInstance_multi(name, n) ==
    \/ /\ instance = NULL
       /\ Construct("multi", name, n, FALSE)
       /\ instance' = Len(modules) + 1
    \/ /\ Constructing
       /\ instance # NULL
       /\ UNCHANGED <<config, stage, stopped, simInstance, modules, elaborated,
                      last, ports, instance>>

\* A later call appends the one instance again.
createSingletonTransactor(name, n) ==
    /\ Len(transactors) < MaxTransactors
    /\ getInstance_multi(name, n)
    /\ transactors' = Append(transactors, instance')
    /\ UNCHANGED <<simControl, simControlBinded>>

\* Transactors the wrapper does not know; the program binds sim_control.
newTransactor(kind, name) ==
    /\ Construct(kind, name, 1, simInstance)
    /\ UNCHANGED wrapper

\* The assertion of getTransactor(i - 1).
getTransactor(i) == i \in DOMAIN transactors

\* getTransactor(i - 1)->setSocketCoreMap(map).
setSocketCoreMap(i, map) ==
    /\ Constructing
    /\ IF getTransactor(i)
       THEN /\ modules' = [modules EXCEPT ![transactors[i]].socket_core_map = map]
            /\ UNCHANGED stopped
       ELSE Stop("assert") /\ UNCHANGED modules
    /\ UNCHANGED <<config, stage, simInstance, elaborated, last, wrapper, ports>>

\* sc_port reports an error when the same interface is bound twice.
bindSimControl2Transactor ==
    /\ Constructing
    /\ simControl
    /\ ~simControlBinded
    /\ IF Distinct(transactors)
       THEN /\ modules' = [t \in DOMAIN modules |->
                 [modules[t] EXCEPT !.simBound = @ \/ t \in Names(transactors)]]
            /\ simControlBinded' = TRUE
            /\ UNCHANGED stopped
       ELSE Stop("sc_error") /\ UNCHANGED <<modules, simControlBinded>>
    /\ UNCHANGED <<config, stage, simInstance, elaborated, last,
                   simControl, transactors, instance, ports>>

(***************************************************************************)
(* Elaboration by the SystemC kernel.                                      *)
(***************************************************************************)
sc_start ==
    /\ Constructing
    /\ stage' = "before_end_of_elaboration"
    /\ UNCHANGED <<config, stopped, simInstance, modules, elaborated, last, wrapper, ports>>

\* getSlavePort or getMasterPort: the program ends when the name is unknown.
lookup(m) ==
    LET known == IF m.kind = "master" THEN DOMAIN masterPorts ELSE DOMAIN slavePorts
    IN  IF m.portName \in known THEN "found" ELSE "exit"

\* The assertions removed, as a release build might.
mut_BindAsserts(m) == TRUE

\* The assertion for several sockets about the pointer that it guards, which
\* the constructor does not set.
mut_BindAsserts_multi(m) ==
    IF m.kind = "master" THEN masterPorts[m.portName] = NULL
    ELSE IF m.kind = "single" THEN slavePorts[m.portName].transactor = NULL
    ELSE slavePorts[m.portName].transactor_multi = NULL

\* The assertion of the three bindToTransactor methods.
BindAsserts(m) ==
    IF m.kind = "master" THEN masterPorts[m.portName] = NULL
                         ELSE slavePorts[m.portName].transactor = NULL

\* The mode of the gem5 system decides which interface a master port
\* registers; without one it panics.
Registers(m) == m.kind = "master" => config.mode \in {"timing", "atomic"}

bindToTransactor_master(n, t) == masterPorts' = [masterPorts EXCEPT ![n] = t]

\* The port learns the cores from getSlavePort, then binds.
bindPort(t) ==
    LET m == modules[t]
        port == updateCorePortMap(slavePorts[m.portName])
    IN  IF m.kind = "master"
        THEN bindToTransactor_master(m.portName, t) /\ UNCHANGED slavePorts
        ELSE /\ slavePorts' = [slavePorts EXCEPT ![m.portName] =
                  IF m.kind = "single" THEN bindToTransactor(port, t)
                                       ELSE bindToTransactor_multi(port, t)]
             /\ UNCHANGED masterPorts

\* The kernel calls the modules in the order of their construction.
before_end_of_elaboration ==
    LET t == elaborated + 1
        m == modules[t]
    IN  /\ stage = "before_end_of_elaboration"
        /\ stopped = NULL
        /\ t \in DOMAIN modules
        /\ elaborated' = t
        /\ IF ~m.simBound THEN Stop("sc_error") /\ UNCHANGED ports
           ELSE IF lookup(m) = "exit" THEN Stop("exit") /\ UNCHANGED ports
           ELSE IF ~BindAsserts(m) THEN Stop("assert") /\ UNCHANGED ports
           ELSE IF ~Registers(m) THEN Stop("panic") /\ UNCHANGED ports
           ELSE bindPort(t) /\ UNCHANGED stopped
        /\ UNCHANGED <<config, stage, simInstance, modules, last, wrapper>>

\* The ports are complete: Gem5SimControl::end_of_elaboration calls
\* initState(), which loads programs through functional accesses.
end_of_elaboration ==
    /\ stage = "before_end_of_elaboration"
    /\ stopped = NULL
    /\ elaborated = Len(modules)
    /\ simInstance
    /\ stage' = "initState"
    /\ UNCHANGED <<config, stopped, simInstance, modules, elaborated, last, wrapper, ports>>

\* startup() has returned and the kernel starts the thread run().
run ==
    /\ stage = "initState"
    /\ stopped = NULL
    /\ stage' = "run"
    /\ UNCHANGED <<config, stopped, simInstance, modules, elaborated, last, wrapper, ports>>

(***************************************************************************)
(* Requests of gem5: which transactor and socket they go to.               *)
(***************************************************************************)
Request(n, id, cluster, s, fate) ==
    [port |-> n, id |-> id, cluster |-> cluster, socket |-> s, fate |-> fate]

\* A pointer that no constructor has set may be null or not.
Pointers(p) == IF p = UNINIT THEN {NULL, UNINIT} ELSE {p}

\* The access to the socket in recvAtomic, recvFunctional, recvTimingReq.
Fate(port, s, multi) ==
    IF port.transactor # NULL THEN "sent"
    ELSE IF multi = NULL THEN "reported"
    ELSE IF multi = UNINIT THEN "wild"
    ELSE IF s < modules[multi].socket_num THEN "sent" ELSE "wild"

Record(r) ==
    /\ last' = r
    /\ IF r.fate = "sent" THEN UNCHANGED stopped ELSE Stop(r.fate)
    /\ UNCHANGED <<config, stage, simInstance, modules, elaborated, wrapper, ports>>

\* recvFunctional, and recvAtomic once the simulation runs.
recvFunctional(n, id) ==
    LET port == slavePorts[n]
        s == getSocketId(port, id)
    IN  /\ stage \in {"initState", "run"}
        /\ stopped = NULL
        /\ \E multi \in Pointers(port.transactor_multi) :
              Record(Request(n, id, NULL, s, Fate(port, s, multi)))

\* recvTimingReq on a free socket: the assertion of getBlockingTrans (and
\* its report when the maps are empty), then the access. A cluster id
\* replaces the socket id.
recvTimingReq(n, id, cluster) ==
    LET port == slavePorts[n]
        s == IF cluster = NULL THEN getSocketId(port, id) ELSE cluster
    IN  /\ stage = "run"
        /\ stopped = NULL
        /\ IF port.socket_num = UNINIT \/ s >= port.socket_num
           THEN Record(Request(n, id, cluster, s, "assert"))
           ELSE \E multi \in Pointers(port.transactor_multi) :
                   Record(Request(n, id, cluster, s, Fate(port, s, multi)))

Init ==
    /\ config \in Configs
    /\ stage = "construct"
    /\ stopped = NULL
    /\ simInstance = FALSE
    /\ simControl = FALSE
    /\ simControlBinded = FALSE
    /\ modules = << >>
    /\ transactors = << >>
    /\ instance = NULL
    /\ slavePorts = << >>
    /\ masterPorts = << >>
    /\ elaborated = 0
    /\ last = NULL

User ==
    \/ newSimControl
    \/ createSimControl
    \/ \E name \in PortName, n \in SocketNums : createTransactor(name, n)
    \/ \E name \in PortName, n \in SocketNums : createSingletonTransactor(name, n)
    \/ \E kind \in {"single", "master"}, name \in PortName : newTransactor(kind, name)
    \/ \E i \in 1 .. MaxTransactors, map \in CoreMaps : setSocketCoreMap(i, map)
    \/ bindSimControl2Transactor
    \/ sc_start

Kernel == before_end_of_elaboration \/ end_of_elaboration \/ run

Gem5 ==
    \E n \in DOMAIN slavePorts, id \in Requestor :
        \/ recvFunctional(n, id)
        \/ \E cluster \in Clusters \cup {NULL} : recvTimingReq(n, id, cluster)

Next == User \/ Kernel \/ Gem5

Spec == Init /\ [][Next]_vars

\* Once sc_start() is called the kernel goes on by itself.
FairSpec == Spec /\ WF_vars(Kernel)

(***************************************************************************)
(* Properties.                                                             *)
(***************************************************************************)
TransactorType ==
    [kind : {"multi", "single", "master"}, portName : PortName, socket_num : Nat,
     socket_core_map : CoreMaps \cup {<< >>}, simBound : BOOLEAN]

SlavePortOK(port) ==
    /\ DOMAIN port = {"transactor", "transactor_multi", "cpu_vec", "socket_map", "socket_num"}
    /\ port.transactor \in DOMAIN modules \cup {NULL}
    /\ port.transactor_multi \in DOMAIN modules \cup {UNINIT}
    /\ port.cpu_vec \in Seq(Core)
    /\ DOMAIN port.socket_map \subseteq Nat
    /\ \A s \in DOMAIN port.socket_map : port.socket_map[s] \subseteq Requestor
    /\ port.socket_num \in Nat \cup {UNINIT}

RequestOK(r) ==
    /\ r.port \in DOMAIN slavePorts
    /\ r.id \in Requestor
    /\ r.cluster \in Clusters \cup {NULL}
    /\ r.socket \in Nat
    /\ r.fate \in {"sent", "reported", "assert", "wild"}

\* The types of the variables; every pointer is null, not yet set, or an
\* existing transactor.
TypeOK ==
    /\ config \in Configs
    /\ stage \in {"construct", "before_end_of_elaboration", "initState", "run"}
    /\ stopped \in {NULL, "exit", "panic", "sc_error", "assert", "reported", "wild"}
    /\ simInstance \in BOOLEAN /\ simControl \in BOOLEAN /\ simControlBinded \in BOOLEAN
    /\ modules \in Seq(TransactorType) /\ Len(modules) <= MaxTransactors
    /\ transactors \in Seq(DOMAIN modules)
    /\ instance \in DOMAIN modules \cup {NULL}
    /\ \A n \in DOMAIN slavePorts : SlavePortOK(slavePorts[n])
    /\ \A n \in DOMAIN masterPorts : masterPorts[n] \in DOMAIN modules \cup {NULL}
    /\ elaborated \in 0 .. Len(modules)
    /\ last = NULL \/ RequestOK(last)

\* The slave transactors that name a port.
Owners(n) == {t \in DOMAIN modules : modules[t].kind # "master" /\ modules[t].portName = n}

\* Sockets a transactor uses: one for each core, or those the map lists.
UsedSockets(t) ==
    IF modules[t].socket_core_map = << >> THEN Core ELSE DOMAIN modules[t].socket_core_map

\* The configuration the code supports: sockets 0 to k without a gap, each
\* of them serving a core there is, and no more than the transactor has.
GoodMap(t) ==
    /\ \E k \in 1 .. modules[t].socket_num : UsedSockets(t) = 0 .. k - 1
    /\ \A s \in DOMAIN modules[t].socket_core_map :
          modules[t].socket_core_map[s] \cap Core # {}

WellBound(n) == \E t \in Owners(n) :
    Owners(n) = {t} /\ modules[t].kind = "multi" /\ GoodMap(t)

\* The socket the user meant for a requestor.
IntendedSocket(t, id) ==
    LET map == modules[t].socket_core_map
        Serving == {s \in DOMAIN map : \E c \in map[s] \cap Core : id \in cpuPorts[c]}
    IN  IF map = << >> THEN getCoreIDByRequestorID(id)
        ELSE IF Serving = {} THEN 0 ELSE Least(Serving)

\* A request on a port that one transactor with a gapless socket map names
\* reaches the transactor on the socket of its core, and the system's
\* requests the first one: no assertion of BlockingPacketHelper fails and
\* no socket is out of range, from the functional accesses of initState()
\* on and whatever else the program created, in whatever order.
RequestReachesSocket ==
    last # NULL /\ WellBound(last.port) =>
        \A t \in Owners(last.port) :
            last.cluster \in UsedSockets(t) \cup {NULL} =>
                /\ last.fate = "sent"
                /\ slavePorts[last.port].transactor_multi = t
                /\ last.socket = IF last.cluster # NULL THEN last.cluster
                                 ELSE IntendedSocket(t, last.id)

\* The map lists only sockets the transactor has, each for a core there is.
MapInRange(t) ==
    /\ UsedSockets(t) \subseteq 0 .. modules[t].socket_num - 1
    /\ \A s \in DOMAIN modules[t].socket_core_map :
          modules[t].socket_core_map[s] \cap Core # {}

\* A socket map with a gap does not misroute: BlockingPacketHelper counts the
\* listed sockets and takes the count for their upper end, so that a request
\* for a socket behind the gap may stop at its assertion, but a request that
\* is sent goes to the socket the user meant for its core, whatever other
\* transactors, ports and calls there are.
GapNeverMisroutes ==
    last # NULL /\ last.cluster = NULL =>
        \A t \in Owners(last.port) :
            Owners(last.port) = {t} /\ modules[t].kind = "multi" /\ MapInRange(t) =>
                /\ last.socket = IntendedSocket(t, last.id)
                /\ last.fate \in {"sent", "assert"}
                /\ last.fate = "assert" => last.socket >= Cardinality(UsedSockets(t))

\* The transactor a slave port sends its requests to.
Server(port) == IF port.transactor # NULL THEN port.transactor ELSE port.transactor_multi

\* The transactors that name the port of t, from t on.
OwnersFrom(t) == {u \in Owners(modules[t].portName) : u >= t}

\* gem5 starts only with transactors bound to the controller and to an existing
\* port. A master transactor has its port. A slave port serves the last of
\* the transactors that name it, whatever the earlier ones left in it, and
\* after one with one socket there is no other. So a transactor whose port
\* no other one names is served by that port.
StartedBound ==
    stage \in {"initState", "run"} =>
        \A t \in DOMAIN modules :
            LET m == modules[t] IN
            /\ m.simBound
            /\ m.kind = "master" => masterPorts[m.portName] = t
            /\ m.kind # "master" => Server(slavePorts[m.portName]) \in OwnersFrom(t)
            /\ m.kind = "single" => OwnersFrom(t) = {t}

\* Every transactor is bound to the controller and names a port of its own
\* that gem5's mode supports, and every slave port is well bound.
GoodPlatform ==
    /\ simInstance
    /\ \A n \in DOMAIN slavePorts : WellBound(n)
    /\ \A t \in DOMAIN modules :
          LET m == modules[t] IN
          /\ m.simBound
          /\ Registers(m)
          /\ m.portName \in IF m.kind = "master" THEN DOMAIN masterPorts ELSE DOMAIN slavePorts
          /\ \A u \in DOMAIN modules \ {t} :
                modules[u].portName = m.portName => (modules[u].kind = "master") # (m.kind = "master")

\* sc_start() with such a platform gets to run(): no assertion, exit() or
\* functional access of initState() stops it on the way.
GoodPlatformRuns ==
    (stage = "before_end_of_elaboration" /\ elaborated = 0 /\ GoodPlatform) ~> (stage = "run")

\* The transactor with one socket, which README:6 lists as one of the modules
\* that manage the co-simulation, serves the port it is bound to: a request
\* there fails no assertion.
SingleTransactorServes ==
    last # NULL /\ slavePorts[last.port].transactor # NULL /\ last.cluster = NULL
        => last.fate = "sent"

\* The port of a slave transactor sends its requests to this transactor once
\* gem5 has started: no other transactor has taken the port. The assertions
\* of the bindToTransactor methods (sc_slave_port.cc:506 and 517) are there
\* to refuse a second transactor.
PortKeepsTransactor ==
    stage \in {"initState", "run"} =>
        \A t \in DOMAIN modules :
            modules[t].kind # "master" => Server(slavePorts[modules[t].portName]) = t

=============================================================================

------------------------- MODULE ElaborationProofs -------------------------
(***************************************************************************)
(* Proofs about Elaboration for every configuration of gem5, every socket  *)
(* map, any number of transactors and any order of the user's calls: the   *)
(* simulation starts only with transactors bound to the controller and     *)
(* with ports that serve the last transactor that names them, and a        *)
(* request reaches the socket that its core was mapped to.                 *)
(***************************************************************************)
EXTENDS Elaboration, FiniteSetTheorems, SequenceTheorems, WellFoundedInduction, TLAPS

Started == stage \in {"initState", "run"}

\* The kernel elaborates after the user's calls and before gem5 sends
\* requests, and gem5 starts when every transactor has been called back.
StageInv ==
    /\ stage = "construct" => elaborated = 0
    /\ ~Started => last = NULL
    /\ Started => elaborated = Len(modules)

\* A port that no called back transactor names is as it was created.
FreshInv ==
    \A n \in DOMAIN slavePorts :
        (\A t \in Owners(n) : t > elaborated) => slavePorts[n] = newSlavePort

\* The transactor t, which has been called back, is bound to the port it names.
Bound(t) ==
    LET m == modules[t] IN
    /\ m.simBound
    /\ m.portName \in IF m.kind = "master" THEN DOMAIN masterPorts ELSE DOMAIN slavePorts
    /\ m.kind = "master" => masterPorts[m.portName] = t
    /\ m.kind # "master" => Server(slavePorts[m.portName]) \in OwnersFrom(t)
    /\ m.kind = "single" =>
          /\ slavePorts[m.portName].transactor = t
          /\ \A u \in Owners(m.portName) : u <= elaborated => u <= t

\* What the port of a transactor with several sockets becomes if no other
\* transactor names it.
SolePort(t) == bindToTransactor_multi(updateCorePortMap(newSlavePort), t)

\* While no check has failed, the transactors called back so far are bound.
BoundInv ==
    stopped = NULL \/ Started =>
        /\ \A t \in 1 .. elaborated : Bound(t)
        /\ \A n \in DOMAIN slavePorts, t \in 1 .. elaborated :
               Owners(n) = {t} /\ modules[t].kind = "multi" => slavePorts[n] = SolePort(t)

FiniteInv == \A n \in DOMAIN slavePorts : IsFiniteSet(DOMAIN slavePorts[n].socket_map)

IndInv ==
    /\ TypeOK
    /\ FiniteInv
    /\ StageInv
    /\ FreshInv
    /\ BoundInv
    /\ RequestReachesSocket

\* A master port that no called back transactor names has none.
MasterFreshInv ==
    \A n \in DOMAIN masterPorts :
        (\A t \in DOMAIN modules :
            modules[t].kind = "master" /\ modules[t].portName = n => t > elaborated)
        => masterPorts[n] = NULL

\* Once sc_start() was called nothing stops a good platform before run(): the
\* safety half of GoodPlatformRuns.
GoodPlatformGoesOn ==
    stage \in {"before_end_of_elaboration", "initState"} /\ GoodPlatform => stopped = NULL

PlatformInv == IndInv /\ MasterFreshInv /\ GoodPlatformGoesOn

(***************************************************************************)
(* Cores, sockets and their maps.                                          *)
(***************************************************************************)
\* A set of natural numbers that is not empty has a least element.
LEMMA NatLeast ==
    ASSUME NEW S \in SUBSET Nat, S # {}
    PROVE  Least(S) \in S /\ \A x \in S : Least(S) <= x
  <1>1. \E x \in S : \A y \in S : ~(<<y, x>> \in OpToRel(<, Nat))
    BY NatLessThanWellFounded, WFMin, Zenon
  <1>2. \A x, y \in Nat : <<y, x>> \in OpToRel(<, Nat) <=> y < x
    BY Zenon DEF OpToRel
  <1>3. \E x \in S : \A y \in S : ~(y < x)
    BY <1>1, <1>2, Zenon
  <1>4. \E x \in S : \A y \in S : x <= y
    BY <1>3
  <1> QED
    BY <1>4 DEF Least

\* The cores are numbered from 0, and each has two requestor ids.
LEMMA Cores ==
    ASSUME config \in Configs
    PROVE  /\ config.cores \in Nat
           /\ Core \subseteq Nat /\ IsFiniteSet(Core) /\ Requestor \subseteq Nat
           /\ DOMAIN cpuPorts = Core
           /\ \A c \in Core : cpuPorts[c] \subseteq Requestor
  <1>1. config.cores \in Nat
    BY ConfigsAssumption DEF ConfigType
  <1>2. IsFiniteSet(Core)
    BY <1>1, FS_Interval DEF Core
  <1> QED
    BY <1>1, <1>2 DEF Core, Requestor, cpuPorts

\* A port and the size of its maps.
PortOK(port) == SlavePortOK(port) /\ IsFiniteSet(DOMAIN port.socket_map)

\* The vector of names that updateCorePortMap appends has all cores in order.
LEMMA CpuVec ==
    ASSUME config \in Configs, NEW vec \in Seq(Core)
    PROVE  LET new == [i \in 1 .. config.cores |-> i - 1]
           IN  /\ new \in Seq(Core) /\ Len(new) = config.cores
               /\ \A c \in Core : new[c + 1] = c
               /\ vec \o new \in Seq(Core)
               /\ << >> \o new = new
  <1> DEFINE new == [i \in 1 .. config.cores |-> i - 1]
  <1>1. config.cores \in Nat
    BY Cores
  <1>2. \A i \in 1 .. config.cores : i - 1 \in Core
    BY <1>1 DEF Core
  <1>3. new \in Seq(Core) /\ Len(new) = config.cores
    BY <1>1, <1>2, IsASeq, LenProperties
  <1>4. \A c \in Core : c + 1 \in 1 .. config.cores /\ (c + 1) - 1 = c
    BY <1>1 DEF Core
  <1>5. vec \o new \in Seq(Core)
    BY <1>3, ConcatProperties
  <1>6. << >> \o new = new
    BY <1>3, ConcatEmptySeq
  <1> QED
    BY <1>3, <1>4, <1>5, <1>6

\* getSlavePort's update of the names leaves the port well formed.
LEMMA UpdateOK ==
    ASSUME config \in Configs, NEW port, PortOK(port)
    PROVE  /\ PortOK(updateCorePortMap(port))
           /\ updateCorePortMap(port).transactor = port.transactor
           /\ updateCorePortMap(port).transactor_multi = port.transactor_multi
  <1> DEFINE new == [i \in 1 .. config.cores |-> i - 1]
             up == updateCorePortMap(port)
  <1>1. port.cpu_vec \in Seq(Core)
    BY DEF PortOK, SlavePortOK
  <1>2. port.cpu_vec \o new \in Seq(Core)
    BY <1>1, CpuVec
  <1>3. DOMAIN port = {"transactor", "transactor_multi", "cpu_vec", "socket_map", "socket_num"}
    BY DEF PortOK, SlavePortOK
  <1>4. /\ DOMAIN up = DOMAIN port
        /\ up.transactor = port.transactor /\ up.transactor_multi = port.transactor_multi
        /\ up.cpu_vec = port.cpu_vec \o new
        /\ up.socket_map = port.socket_map /\ up.socket_num = port.socket_num
    BY <1>3 DEF updateCorePortMap
  <1> QED
    BY <1>2, <1>4 DEF PortOK, SlavePortOK

\* initSocketMap leaves a finite map of sockets to requestors, whatever the
\* map of the user says.
LEMMA SocketMapOK ==
    ASSUME config \in Configs, NEW port, PortOK(port),
           NEW cm \in CoreMaps \cup {<< >>}
    PROVE  LET map == initSocketMap(port, cm)
           IN  /\ DOMAIN map \subseteq Nat /\ IsFiniteSet(DOMAIN map)
               /\ \A s \in DOMAIN map : map[s] \subseteq Requestor
  <1> DEFINE old == port.socket_map
             Used == {s \in DOMAIN cm : ValidCores(port.cpu_vec, cm[s]) # {}}
             IdSets(s) == {cpuPorts[port.cpu_vec[c + 1]] : c \in ValidCores(port.cpu_vec, cm[s])}
             Added(s) == IF s \notin Used THEN {} ELSE UNION IdSets(s)
             map == initSocketMap(port, cm)
  <1>1. /\ port.cpu_vec \in Seq(Core)
        /\ DOMAIN old \subseteq Nat /\ IsFiniteSet(DOMAIN old)
        /\ \A s \in DOMAIN old : old[s] \subseteq Requestor
    BY DEF PortOK, SlavePortOK
  <1>2. CASE cm = << >>
    <2>1. map = [s \in DOMAIN old \cup Core |-> IF s \in DOMAIN old THEN old[s] ELSE cpuPorts[s]]
      BY <1>2 DEF initSocketMap
    <2>2. IsFiniteSet(DOMAIN old \cup Core)
      BY <1>1, Cores, FS_Union
    <2> QED
      BY <1>1, <2>1, <2>2, Cores
  <1>3. CASE cm # << >>
    <2>1. map = [s \in DOMAIN old \cup Used |->
                   IF s \in DOMAIN old THEN old[s] \cup Added(s) ELSE Added(s)]
      BY <1>3 DEF initSocketMap
    <2>2. DOMAIN cm \subseteq Nat /\ IsFiniteSet(DOMAIN cm)
      BY <1>3, MapAssumption
    <2>3. Used \subseteq DOMAIN cm
      OBVIOUS
    <2>4. IsFiniteSet(DOMAIN old \cup Used)
      BY <1>1, <2>2, <2>3, FS_Union, FS_Subset
    <2>5. ASSUME NEW s \in Used PROVE UNION IdSets(s) \subseteq Requestor
      <3>1. ASSUME NEW c \in ValidCores(port.cpu_vec, cm[s])
            PROVE  cpuPorts[port.cpu_vec[c + 1]] \subseteq Requestor
        <4>1. Len(port.cpu_vec) \in Nat /\ DOMAIN port.cpu_vec = 1 .. Len(port.cpu_vec)
          BY <1>1, LenProperties
        <4>2. c \in 0 .. Len(port.cpu_vec) - 1
          BY DEF ValidCores
        <4>3. c + 1 \in 1 .. Len(port.cpu_vec)
          BY <4>1, <4>2
        <4>4. port.cpu_vec[c + 1] \in Core
          BY <1>1, <4>3, ElementOfSeq
        <4> QED
          BY <4>4, Cores
      <3> QED
        BY <3>1
    <2>6. \A s : Added(s) \subseteq Requestor
      BY <2>5
    <2> HIDE DEF Used, Added
    <2> QED
      BY <1>1, <2>1, <2>2, <2>3, <2>4, <2>6
  <1> QED
    BY <1>2, <1>3

\* Binding a well formed port to a transactor leaves it well formed.
LEMMA BindOK ==
    ASSUME TypeOK, NEW port, PortOK(port), NEW t \in DOMAIN modules
    PROVE  /\ PortOK(bindToTransactor(port, t))
           /\ bindToTransactor(port, t).transactor = t
           /\ bindToTransactor(port, t).transactor_multi = port.transactor_multi
           /\ PortOK(bindToTransactor_multi(port, t))
           /\ bindToTransactor_multi(port, t).transactor = port.transactor
           /\ bindToTransactor_multi(port, t).transactor_multi = t
  <1>1. modules[t].socket_core_map \in CoreMaps \cup {<< >>}
    <2>1. modules[t] \in TransactorType
      BY ElementOfSeq, LenProperties DEF TypeOK
    <2> QED
      BY <2>1 DEF TransactorType
  <1>2. PICK map : map = initSocketMap(port, modules[t].socket_core_map)
    OBVIOUS
  <1>3. /\ DOMAIN map \subseteq Nat /\ IsFiniteSet(DOMAIN map)
        /\ \A s \in DOMAIN map : map[s] \subseteq Requestor
    BY <1>1, <1>2, SocketMapOK DEF TypeOK
  <1>4. Cardinality(DOMAIN map) \in Nat
    BY <1>3, FS_CardinalityType
  <1>5. DOMAIN port = {"transactor", "transactor_multi", "cpu_vec", "socket_map", "socket_num"}
    BY DEF PortOK, SlavePortOK
  <1>6. PICK one : one = bindToTransactor(port, t)
    OBVIOUS
  <1>7. /\ DOMAIN one = DOMAIN port
        /\ one.transactor = t /\ one.transactor_multi = port.transactor_multi
        /\ one.cpu_vec = port.cpu_vec
        /\ one.socket_map = port.socket_map /\ one.socket_num = port.socket_num
    BY <1>5, <1>6 DEF bindToTransactor
  <1>8. PICK multi : multi = bindToTransactor_multi(port, t)
    OBVIOUS
  <1>9. /\ DOMAIN multi = DOMAIN port
        /\ multi.transactor = port.transactor /\ multi.transactor_multi = t
        /\ multi.cpu_vec = port.cpu_vec
        /\ multi.socket_map = map /\ multi.socket_num = Cardinality(DOMAIN map)
    BY <1>2, <1>5, <1>8 DEF bindToTransactor_multi
  <1>10. PortOK(one)
    BY <1>7 DEF PortOK, SlavePortOK
  <1>11. PortOK(multi)
    BY <1>3, <1>4, <1>9 DEF PortOK, SlavePortOK
  <1> QED
    BY <1>6, <1>7, <1>8, <1>9, <1>10, <1>11

\* A port as its constructor leaves it is well formed.
LEMMA NewPortOK == PortOK(newSlavePort)
  <1>1. DOMAIN << >> = {}
    OBVIOUS
  <1>2. << >> \in Seq(Core)
    BY EmptySeq
  <1> QED
    BY <1>1, <1>2, FS_EmptySet DEF PortOK, SlavePortOK, newSlavePort

\* The least socket of a set of sockets below k, and 0 if there is none.
LEMMA LeastBelow ==
    ASSUME NEW k \in Nat, k > 0, NEW S \in SUBSET (0 .. k - 1)
    PROVE  (IF S = {} THEN 0 ELSE Least(S)) \in 0 .. k - 1
  <1>1. S \in SUBSET Nat
    OBVIOUS
  <1>2. CASE S = {}
    BY <1>2
  <1>3. CASE S # {}
    <2>1. Least(S) \in S
      BY <1>1, <1>3, NatLeast
    <2>2. Least(S) \in 0 .. k - 1
      BY <2>1
    <2> QED
      BY <1>3, <2>2, Zenon
  <1> QED
    BY <1>2, <1>3

\* The socket map of a port that one transactor with a good map names: its
\* sockets are the ones the user listed, and every requestor is in the list
\* of the sockets of its core.
LEMMA SoleMap ==
    ASSUME TypeOK, NEW t \in DOMAIN modules, GoodMap(t)
    PROVE  LET port == SolePort(t)
               map == modules[t].socket_core_map
           IN  /\ port.transactor = NULL
               /\ port.transactor_multi = t
               /\ DOMAIN port.socket_map = UsedSockets(t)
               /\ port.socket_num = Cardinality(UsedSockets(t))
               /\ map = << >> => \A s \in Core : port.socket_map[s] = cpuPorts[s]
               /\ map # << >> => \A s \in DOMAIN map : \A id :
                      id \in port.socket_map[s] <=> \E c \in map[s] \cap Core : id \in cpuPorts[c]
  <1>1. config \in Configs
    BY DEF TypeOK
  <1>2. PICK up : up = updateCorePortMap(newSlavePort)
    OBVIOUS
  <1>3. PICK new : new = [i \in 1 .. config.cores |-> i - 1]
    OBVIOUS
  <1>4. /\ Len(new) = config.cores /\ config.cores \in Nat
        /\ \A c \in Core : new[c + 1] = c
        /\ << >> \o new = new
    BY <1>1, <1>3, CpuVec, Cores, EmptySeq
  <1>5. /\ DOMAIN up = {"transactor", "transactor_multi", "cpu_vec", "socket_map", "socket_num"}
        /\ up.transactor = NULL /\ up.cpu_vec = new /\ up.socket_map = << >>
    BY <1>2, <1>3, <1>4 DEF updateCorePortMap, newSlavePort
  <1>6. PICK cm : cm = modules[t].socket_core_map
    OBVIOUS
  <1>7. PICK map : map = initSocketMap(up, cm)
    OBVIOUS
  <1>8. PICK port : port = SolePort(t)
    OBVIOUS
  <1>9. /\ port.transactor = NULL /\ port.transactor_multi = t
        /\ port.socket_map = map /\ port.socket_num = Cardinality(DOMAIN map)
    BY <1>2, <1>5, <1>6, <1>7, <1>8 DEF SolePort, bindToTransactor_multi
  <1>10. DOMAIN << >> = {}
    OBVIOUS
  <1>11. CASE cm = << >>
    <2>1. map = [s \in Core |-> cpuPorts[s]]
      BY <1>5, <1>7, <1>10, <1>11 DEF initSocketMap
    <2>2. UsedSockets(t) = Core
      BY <1>6, <1>11 DEF UsedSockets
    <2> QED
      BY <1>6, <1>8, <1>9, <1>11, <2>1, <2>2
  <1>12. CASE cm # << >>
    <2>1. ASSUME NEW s \in DOMAIN cm
          PROVE  ValidCores(new, cm[s]) = cm[s] \cap Core /\ cm[s] \cap Core # {}
      <3>1. cm[s] \cap Core # {}
        BY <1>6 DEF GoodMap
      <3>2. ValidCores(new, cm[s]) = cm[s] \cap Core
        BY <1>4 DEF ValidCores, Core
      <3> QED
        BY <3>1, <3>2
    <2> DEFINE Added(s) == UNION {cpuPorts[new[c + 1]] : c \in ValidCores(new, cm[s])}
    <2>2. {s \in DOMAIN cm : ValidCores(new, cm[s]) # {}} = DOMAIN cm
      BY <2>1
    <2>3. map = [s \in DOMAIN cm |-> Added(s)]
      BY <1>5, <1>7, <1>10, <1>12, <2>2 DEF initSocketMap
    <2>4. ASSUME NEW s \in DOMAIN cm, NEW id
          PROVE  id \in Added(s) <=> \E c \in cm[s] \cap Core : id \in cpuPorts[c]
      <3>1. Added(s) = UNION {cpuPorts[c] : c \in cm[s] \cap Core}
        BY <1>4, <2>1
      <3> QED
        BY <3>1
    <2>5. UsedSockets(t) = DOMAIN cm
      BY <1>6, <1>12 DEF UsedSockets
    <2> HIDE DEF Added
    <2> QED
      BY <1>6, <1>8, <1>9, <1>12, <2>3, <2>4, <2>5
  <1> QED
    BY <1>11, <1>12

\* So the code's look-up finds the socket the user meant, and the transactor
\* has it.
LEMMA SoleSocket ==
    ASSUME TypeOK, NEW t \in DOMAIN modules, GoodMap(t),
           NEW k \in 1 .. modules[t].socket_num, UsedSockets(t) = 0 .. k - 1
    PROVE  /\ SolePort(t).socket_num = k
           /\ \A id \in Requestor : /\ getSocketId(SolePort(t), id) = IntendedSocket(t, id)
                                    /\ IntendedSocket(t, id) \in 0 .. k - 1
  <1>1. modules[t] \in TransactorType
    BY ElementOfSeq, LenProperties DEF TypeOK
  <1>2. modules[t].socket_num \in Nat
    BY <1>1 DEF TransactorType
  <1>3. k \in Nat /\ k > 0
    BY <1>2
  <1>4. Cardinality(0 .. k - 1) = k
    <2>1. 0 \in Int /\ k - 1 \in Int
      BY <1>3
    <2>2. Cardinality(0 .. k - 1) = IF 0 > k - 1 THEN 0 ELSE (k - 1) - 0 + 1
      BY <2>1, FS_Interval
    <2> QED
      BY <1>3, <2>2
  <1>5. PICK port : port = SolePort(t)
    OBVIOUS
  <1>6. PICK cm : cm = modules[t].socket_core_map
    OBVIOUS
  <1>7. /\ DOMAIN port.socket_map = 0 .. k - 1
        /\ port.socket_num = k
        /\ cm = << >> => \A s \in Core : port.socket_map[s] = cpuPorts[s]
        /\ cm # << >> => \A s \in DOMAIN cm : \A id :
               id \in port.socket_map[s] <=> \E c \in cm[s] \cap Core : id \in cpuPorts[c]
    BY <1>4, <1>5, <1>6, SoleMap
  <1>8. ASSUME NEW id \in Requestor
        PROVE  getSocketId(port, id) = IntendedSocket(t, id) /\ getSocketId(port, id) \in 0 .. k - 1
    <2> DEFINE found == {s \in DOMAIN port.socket_map : id \in port.socket_map[s]}
    <2>1. getSocketId(port, id) = IF found = {} THEN 0 ELSE Least(found)
      BY DEF getSocketId
    <2>2. found \in SUBSET (0 .. k - 1)
      BY <1>7
    <2>3. getSocketId(port, id) \in 0 .. k - 1
      BY <1>3, <2>1, <2>2, LeastBelow
    <2>4. CASE cm = << >>
      <3>1. Core = 0 .. k - 1
        BY <1>6, <2>4 DEF UsedSockets
      <3>2. found = {c \in Core : id \in cpuPorts[c]}
        BY <1>7, <2>4, <3>1
      <3>3. IntendedSocket(t, id) = getCoreIDByRequestorID(id)
        BY <1>6, <2>4 DEF IntendedSocket
      <3>4. getCoreIDByRequestorID(id) = IF found = {} THEN 0 ELSE Least(found)
        BY <3>2 DEF getCoreIDByRequestorID
      <3> QED
        BY <2>1, <2>3, <3>3, <3>4
    <2>5. CASE cm # << >>
      <3> DEFINE Serving == {s \in DOMAIN cm : \E c \in cm[s] \cap Core : id \in cpuPorts[c]}
      <3>1. DOMAIN cm = 0 .. k - 1
        BY <1>6, <2>5 DEF UsedSockets
      <3>2. found = Serving
        BY <1>7, <2>5, <3>1
      <3>3. IntendedSocket(t, id) = IF Serving = {} THEN 0 ELSE Least(Serving)
        BY <1>6, <2>5 DEF IntendedSocket
      <3> QED
        BY <2>1, <2>3, <3>2, <3>3
    <2> QED
      BY <2>4, <2>5
  <1> QED
    BY <1>5, <1>7, <1>8

(***************************************************************************)
(* The user's calls, during which every port is as it was created.         *)
(***************************************************************************)
Ready ==
    /\ elaborated = 0 /\ last = NULL /\ ~Started
    /\ \A n \in DOMAIN slavePorts : slavePorts[n] = newSlavePort

\* A state in which nothing has been elaborated satisfies the invariant.
LEMMA ReadyInv == TypeOK /\ Ready => IndInv
  <1> SUFFICES ASSUME TypeOK, Ready PROVE IndInv
    OBVIOUS
  <1>1. FiniteInv
    BY NewPortOK DEF Ready, FiniteInv, PortOK
  <1>2. StageInv
    BY DEF Ready, StageInv
  <1>3. FreshInv
    BY DEF Ready, FreshInv
  <1>4. BoundInv
    <2>1. 1 .. elaborated = {}
      BY DEF Ready
    <2> QED
      BY <2>1 DEF BoundInv
  <1>5. RequestReachesSocket
    BY DEF Ready, RequestReachesSocket
  <1> QED
    BY <1>1, <1>2, <1>3, <1>4, <1>5 DEF IndInv

\* While the user's program constructs the platform, nothing has been
\* elaborated.
LEMMA ConstructingReady ==
    ASSUME IndInv, stage = "construct"
    PROVE  Ready
  <1>1. elaborated = 0 /\ last = NULL /\ ~Started
    BY DEF IndInv, StageInv, Started
  <1>2. ASSUME NEW n \in DOMAIN slavePorts PROVE slavePorts[n] = newSlavePort
    <2>1. \A t \in DOMAIN modules : t > 0
      BY LenProperties DEF IndInv, TypeOK
    <2>2. \A t \in Owners(n) : t > elaborated
      BY <1>1, <2>1 DEF Owners
    <2> QED
      BY <2>2 DEF IndInv, FreshInv
  <1> QED
    BY <1>1, <1>2 DEF Ready

\* The invariant holds when the program starts.
LEMMA InitInv == Init => IndInv
  <1> SUFFICES ASSUME Init PROVE IndInv
    OBVIOUS
  <1>1. DOMAIN << >> = {} /\ Len(<< >>) = 0
    OBVIOUS
  <1>2. TypeOK
    <2>1. modules \in Seq(TransactorType) /\ transactors \in Seq(DOMAIN modules)
      BY EmptySeq DEF Init
    <2>2. Len(modules) = 0 /\ elaborated \in 0 .. Len(modules) /\ Len(modules) <= MaxTransactors
      BY <1>1, MaxAssumption DEF Init
    <2>3. DOMAIN slavePorts = {} /\ DOMAIN masterPorts = {}
      BY <1>1 DEF Init
    <2> QED
      BY <2>1, <2>2, <2>3 DEF Init, TypeOK
  <1>3. Ready
    BY <1>1 DEF Init, Ready, Started
  <1> QED
    BY <1>2, <1>3, ReadyInv

\* A call during construction that keeps the types, the kernel's progress and
\* the fresh ports keeps the invariant.
LEMMA UserStep ==
    ASSUME IndInv, stage = "construct", TypeOK',
           stage' \in {"construct", "before_end_of_elaboration"},
           UNCHANGED <<elaborated, last>>,
           \A n \in DOMAIN slavePorts' : slavePorts'[n] = newSlavePort
    PROVE  IndInv'
  <1>1. Ready
    BY ConstructingReady
  <1>2. Ready'
    BY <1>1 DEF Ready, Started, newSlavePort
  <1>3. (TypeOK /\ Ready => IndInv)'
    BY ReadyInv, PTL
  <1> QED
    BY <1>2, <1>3

\* The constructor of Gem5SimControl creates the ports that gem5's
\* configuration names.
LEMMA SimControlStep ==
    ASSUME IndInv, Constructing, Gem5SimControl,
           simControl' \in BOOLEAN,
           UNCHANGED <<simControlBinded, transactors, instance>>
    PROVE  IndInv'
  <1>1. Ready
    BY ConstructingReady DEF Constructing
  <1>2. UNCHANGED <<config, stage, modules, elaborated, last>>
    BY DEF Gem5SimControl
  <1>3. \A n \in DOMAIN slavePorts' : slavePorts'[n] = newSlavePort
    BY <1>1 DEF Gem5SimControl, Ready, getExternalPort_slave, ports
  <1>4. \A n \in DOMAIN masterPorts' : masterPorts'[n] \in DOMAIN modules \cup {NULL}
    BY DEF Gem5SimControl, getExternalPort_master, ports, IndInv, TypeOK
  <1>5. stopped' \in {NULL, "exit"} /\ simInstance' \in BOOLEAN
    BY DEF Gem5SimControl, Stop, Constructing
  <1>6. TypeOK'
    <2>1. PortOK(newSlavePort)
      BY NewPortOK
    <2>2. \A n \in DOMAIN slavePorts' : SlavePortOK(slavePorts[n])'
      BY <1>2, <1>3, <2>1 DEF PortOK, SlavePortOK, Core, Requestor
    <2>3. last = NULL
      BY <1>1 DEF Ready
    <2> QED
      BY <1>2, <1>4, <1>5, <2>2, <2>3 DEF IndInv, TypeOK
  <1> QED
    BY <1>2, <1>3, <1>6, UserStep DEF Constructing

\* So does a second controller, which panics.
LEMMA NewSimControlStep ==
    ASSUME IndInv, newSimControl
    PROVE  IndInv'
  <1>1. Constructing /\ UNCHANGED <<simControl, simControlBinded, transactors, instance>>
    BY DEF newSimControl, wrapper
  <1>2. CASE Gem5SimControl
    BY <1>1, <1>2, SimControlStep DEF IndInv, TypeOK
  <1>3. CASE stopped' = "panic" /\ UNCHANGED <<config, stage, simInstance, modules, elaborated, last, ports>>
    <2>1. Ready
      BY <1>1, ConstructingReady DEF Constructing
    <2>2. TypeOK'
      BY <1>1, <1>3 DEF IndInv, TypeOK, ports, SlavePortOK, Core, Requestor, RequestOK
    <2> QED
      BY <1>1, <1>3, <2>1, <2>2, UserStep DEF Constructing, ports, Ready
  <1> QED
    BY <1>2, <1>3 DEF newSimControl, Stop

\* createSimControl keeps the invariant.
LEMMA CreateSimControlStep ==
    ASSUME IndInv, createSimControl
    PROVE  IndInv'
  <1>1. Constructing /\ simControl' = TRUE /\ UNCHANGED <<simControlBinded, transactors, instance>>
    BY DEF createSimControl
  <1>2. CASE Gem5SimControl
    BY <1>1, <1>2, SimControlStep
  <1>3. CASE UNCHANGED <<config, stage, stopped, simInstance, modules, elaborated, last, ports>>
    <2>1. Ready
      BY <1>1, ConstructingReady DEF Constructing
    <2>2. TypeOK'
      BY <1>1, <1>3 DEF IndInv, TypeOK, ports, SlavePortOK, Core, Requestor, RequestOK
    <2> QED
      BY <1>1, <1>3, <2>1, <2>2, UserStep DEF Constructing, ports, Ready
  <1> QED
    BY <1>2, <1>3 DEF createSimControl, getInstance

\* A transactor that is constructed is appended to the modules; the wrapper
\* may note its position, the kernel's order.
LEMMA ConstructStep ==
    ASSUME IndInv, NEW kind \in {"multi", "single", "master"}, NEW name \in PortName,
           NEW n \in Nat, NEW bound \in BOOLEAN, Construct(kind, name, n, bound),
           UNCHANGED <<simControl, simControlBinded>>,
           transactors' \in {transactors, Append(transactors, Len(modules) + 1)},
           instance' \in {instance, Len(modules) + 1}
    PROVE  IndInv'
  <1>1. Ready
    BY ConstructingReady DEF Construct, Constructing
  <1>2. PICK new : new = newModule(kind, name, n, bound)
    OBVIOUS
  <1>3. new \in TransactorType
    BY <1>2 DEF newModule, TransactorType
  <1>4. /\ UNCHANGED <<config, stage, simInstance, elaborated, last, slavePorts, masterPorts>>
        /\ stage = "construct" /\ Len(modules) < MaxTransactors
        /\ stopped' \in {NULL, "sc_error"}
    BY DEF Construct, Constructing, Stop, ports
  <1>5. modules \in Seq(TransactorType) /\ Len(modules) \in Nat
    BY LenProperties DEF IndInv, TypeOK
  <1>6. /\ modules' \in Seq(TransactorType)
        /\ Len(modules') = Len(modules) + 1
    BY <1>2, <1>3, <1>5, AppendProperties DEF Construct
  <1>7. DOMAIN modules = 1 .. Len(modules) /\ DOMAIN modules' = 1 .. Len(modules) + 1
    BY <1>5, <1>6, LenProperties
  <1>8. DOMAIN modules \subseteq DOMAIN modules' /\ Len(modules) + 1 \in DOMAIN modules'
    BY <1>5, <1>7
  <1>9. Len(modules') <= MaxTransactors
    BY <1>4, <1>5, <1>6, MaxAssumption
  <1>10. transactors' \in Seq(DOMAIN modules')
    <2>1. transactors \in Seq(DOMAIN modules')
      BY <1>8, SeqMonotonic DEF IndInv, TypeOK
    <2>2. Append(transactors, Len(modules) + 1) \in Seq(DOMAIN modules')
      BY <1>8, <2>1, AppendProperties
    <2> QED
      BY <2>1, <2>2
  <1>11. \A m \in DOMAIN slavePorts' : SlavePortOK(slavePorts[m])'
    <2>1. PortOK(newSlavePort)
      BY NewPortOK
    <2>2. \A m \in DOMAIN slavePorts' : slavePorts'[m] = newSlavePort
      BY <1>1, <1>4 DEF Ready
    <2> QED
      BY <1>4, <1>8, <2>1, <2>2 DEF PortOK, SlavePortOK, Core, Requestor
  <1>12. elaborated' \in 0 .. Len(modules')
    BY <1>1, <1>4, <1>5, <1>6 DEF Ready
  <1>13. last' = NULL /\ elaborated' = 0
    BY <1>1, <1>4 DEF Ready
  <1>14. instance' \in DOMAIN modules' \cup {NULL}
    BY <1>8 DEF IndInv, TypeOK
  <1>15. \A m \in DOMAIN masterPorts' : masterPorts'[m] \in DOMAIN modules' \cup {NULL}
    BY <1>4, <1>8 DEF IndInv, TypeOK
  <1>16. TypeOK'
    BY <1>4, <1>6, <1>9, <1>10, <1>11, <1>12, <1>13, <1>14, <1>15 DEF IndInv, TypeOK
  <1> QED
    BY <1>1, <1>4, <1>16, UserStep DEF Ready

\* createTransactor keeps the invariant.
LEMMA CreateTransactorStep ==
    ASSUME IndInv, NEW name \in PortName, NEW n \in SocketNums, createTransactor(name, n)
    PROVE  IndInv'
  <1>1. n \in Nat
    BY SocketAssumption
  <1> QED
    BY <1>1, ConstructStep DEF createTransactor

\* createSingletonTransactor keeps the invariant, the first time and later.
LEMMA CreateSingletonStep ==
    ASSUME IndInv, NEW name \in PortName, NEW n \in SocketNums,
           createSingletonTransactor(name, n)
    PROVE  IndInv'
  <1>1. n \in Nat
    BY SocketAssumption
  <1>2. /\ UNCHANGED <<simControl, simControlBinded>>
        /\ transactors' = Append(transactors, instance')
    BY DEF createSingletonTransactor
  <1>3. CASE instance = NULL /\ Construct("multi", name, n, FALSE) /\ instance' = Len(modules) + 1
    BY <1>1, <1>2, <1>3, ConstructStep
  <1>4. CASE /\ Constructing /\ instance # NULL
             /\ UNCHANGED <<config, stage, stopped, simInstance, modules, elaborated,
                            last, ports, instance>>
    <2>1. Ready
      BY <1>4, ConstructingReady DEF Constructing
    <2>2. instance' \in DOMAIN modules
      BY <1>4 DEF IndInv, TypeOK
    <2>3. transactors' \in Seq(DOMAIN modules)
      BY <1>2, <2>2, AppendProperties DEF IndInv, TypeOK
    <2>4. TypeOK'
      BY <1>2, <1>4, <2>3 DEF IndInv, TypeOK, ports, SlavePortOK, Core, Requestor, RequestOK
    <2> QED
      BY <1>4, <2>1, <2>4, UserStep DEF Constructing, ports, Ready
  <1> QED
    BY <1>3, <1>4 DEF createSingletonTransactor, getInstance_multi

\* So does a transactor that the program constructs itself.
LEMMA NewTransactorStep ==
    ASSUME IndInv, NEW kind \in {"single", "master"}, NEW name \in PortName,
           newTransactor(kind, name)
    PROVE  IndInv'
  <1>1. simInstance \in BOOLEAN
    BY DEF IndInv, TypeOK
  <1>2. Construct(kind, name, 1, simInstance)
        /\ UNCHANGED <<simControl, simControlBinded, transactors, instance>>
    BY DEF newTransactor, wrapper
  <1> QED
    BY <1>1, <1>2, ConstructStep

\* A step that replaces the modules by others of the same number.
LEMMA ReplaceStep ==
    ASSUME IndInv, Constructing, modules' \in Seq(TransactorType), Len(modules') = Len(modules),
           stopped' \in {NULL, "assert", "sc_error"}, simControlBinded' \in BOOLEAN,
           UNCHANGED <<config, stage, simInstance, elaborated, last, simControl,
                       transactors, instance, ports>>
    PROVE  IndInv'
  <1>1. Ready
    BY ConstructingReady DEF Constructing
  <1>2. DOMAIN modules' = DOMAIN modules
    BY LenProperties DEF IndInv, TypeOK
  <1>3. TypeOK'
    BY <1>1, <1>2 DEF IndInv, TypeOK, ports, SlavePortOK, Core, Requestor, Ready
  <1> QED
    BY <1>1, <1>3, UserStep DEF Constructing, ports, Ready

\* setSocketCoreMap keeps the invariant.
LEMMA SetSocketCoreMapStep ==
    ASSUME IndInv, NEW i \in 1 .. MaxTransactors, NEW map \in CoreMaps, setSocketCoreMap(i, map)
    PROVE  IndInv'
  <1>1. /\ UNCHANGED <<config, stage, simInstance, elaborated, last, simControl,
                       simControlBinded, transactors, instance, ports>>
        /\ Constructing
    BY DEF setSocketCoreMap, wrapper
  <1>2. modules \in Seq(TransactorType) /\ transactors \in Seq(DOMAIN modules)
        /\ simControlBinded \in BOOLEAN
    BY DEF IndInv, TypeOK
  <1>3. CASE ~getTransactor(i)
    BY <1>1, <1>2, <1>3, ReplaceStep DEF setSocketCoreMap, Stop
  <1>4. CASE getTransactor(i)
    <2>1. transactors[i] \in DOMAIN modules
      BY <1>2, <1>4, LenProperties, ElementOfSeq DEF getTransactor
    <2>2. PICK t \in DOMAIN modules : t = transactors[i]
      BY <2>1
    <2>3. PICK m : m = [modules[t] EXCEPT !.socket_core_map = map]
      OBVIOUS
    <2>4. modules[t] \in TransactorType
      BY <1>2, LenProperties, ElementOfSeq
    <2>5. m \in TransactorType
      BY <2>3, <2>4 DEF TransactorType
    <2>6. modules' = [modules EXCEPT ![t] = m] /\ stopped' = stopped
      BY <1>4, <2>2, <2>3 DEF setSocketCoreMap
    <2>7. modules' \in Seq(TransactorType) /\ Len(modules') = Len(modules)
      BY <1>2, <2>5, <2>6, ExceptSeq, LenProperties
    <2> QED
      BY <1>1, <1>2, <2>6, <2>7, ReplaceStep DEF Constructing
  <1> QED
    BY <1>3, <1>4

\* bindSimControl2Transactor keeps the invariant.
LEMMA BindSimControlStep ==
    ASSUME IndInv, bindSimControl2Transactor
    PROVE  IndInv'
  <1>1. /\ UNCHANGED <<config, stage, simInstance, elaborated, last, simControl,
                       transactors, instance, ports>>
        /\ Constructing
    BY DEF bindSimControl2Transactor
  <1>2. modules \in Seq(TransactorType) /\ simControlBinded \in BOOLEAN
    BY DEF IndInv, TypeOK
  <1>3. CASE ~Distinct(transactors)
    BY <1>1, <1>2, <1>3, ReplaceStep DEF bindSimControl2Transactor, Stop
  <1>4. CASE Distinct(transactors)
    <2>1. /\ modules' = [t \in DOMAIN modules |->
                [modules[t] EXCEPT !.simBound = @ \/ t \in Names(transactors)]]
          /\ simControlBinded' = TRUE /\ stopped' = stopped
      BY <1>4 DEF bindSimControl2Transactor
    <2>2. DOMAIN modules = 1 .. Len(modules) /\ Len(modules) \in Nat
      BY <1>2, LenProperties
    <2>3. ASSUME NEW t \in 1 .. Len(modules)
          PROVE  [modules[t] EXCEPT !.simBound = @ \/ t \in Names(transactors)] \in TransactorType
      <3>1. modules[t] \in TransactorType
        BY <1>2, ElementOfSeq
      <3> QED
        BY <3>1 DEF TransactorType
    <2>4. modules' \in Seq(TransactorType) /\ Len(modules') = Len(modules)
      BY <2>1, <2>2, <2>3, IsASeq, LenProperties
    <2> QED
      BY <1>1, <2>1, <2>4, ReplaceStep DEF Constructing
  <1> QED
    BY <1>3, <1>4

\* sc_start() hands over to the kernel and keeps the invariant.
LEMMA ScStartStep ==
    ASSUME IndInv, sc_start
    PROVE  IndInv'
  <1>1. Ready
    BY ConstructingReady DEF sc_start, Constructing
  <1>2. TypeOK'
    BY DEF sc_start, wrapper, IndInv, TypeOK, ports, SlavePortOK, Core, Requestor, RequestOK
  <1> QED
    BY <1>1, <1>2, UserStep DEF sc_start, Constructing, ports, Ready

(***************************************************************************)
(* Elaboration.                                                            *)
(***************************************************************************)
\* Steps that leave the configuration and the modules alone leave alone what
\* is computed from them.
LEMMA SameModules ==
    ASSUME UNCHANGED <<config, modules>>
    PROVE  /\ Core' = Core /\ Requestor' = Requestor /\ cpuPorts' = cpuPorts
           /\ \A n : Owners(n)' = Owners(n)
           /\ \A t : SolePort(t)' = SolePort(t)
           /\ \A t : UsedSockets(t)' = UsedSockets(t)
           /\ \A n : WellBound(n)' = WellBound(n)
           /\ \A t, id : IntendedSocket(t, id)' = IntendedSocket(t, id)
           /\ \A port : SlavePortOK(port)' = SlavePortOK(port)
  <1>1. Core' = Core /\ Requestor' = Requestor
    BY DEF Core, Requestor
  <1>2. cpuPorts' = cpuPorts
    BY <1>1 DEF cpuPorts
  <1>3. \A n : Owners(n)' = Owners(n)
    BY DEF Owners
  <1>4. \A port, cm : initSocketMap(port, cm)' = initSocketMap(port, cm)
    BY <1>1, <1>2 DEF initSocketMap
  <1>5. \A t : SolePort(t)' = SolePort(t)
    BY <1>4 DEF SolePort, bindToTransactor_multi, updateCorePortMap, newSlavePort
  <1>6. \A t : UsedSockets(t)' = UsedSockets(t)
    BY <1>1 DEF UsedSockets
  <1>7. \A n : WellBound(n)' = WellBound(n)
    BY <1>1, <1>3, <1>6 DEF WellBound, GoodMap
  <1>8. \A t, id : IntendedSocket(t, id)' = IntendedSocket(t, id)
    BY <1>1, <1>2 DEF IntendedSocket, getCoreIDByRequestorID
  <1>9. \A port : SlavePortOK(port)' = SlavePortOK(port)
    BY <1>1 DEF SlavePortOK
  <1> QED
    BY <1>1, <1>2, <1>3, <1>5, <1>6, <1>7, <1>8, <1>9

\* The transactors that have been called back and the next one.
LEMMA NextModule ==
    ASSUME TypeOK, elaborated + 1 \in DOMAIN modules
    PROVE  /\ elaborated \in Nat /\ elaborated + 1 \in Nat
           /\ DOMAIN modules = 1 .. Len(modules) /\ Len(modules) \in Nat
           /\ elaborated + 1 \in 0 .. Len(modules)
           /\ 1 .. elaborated \subseteq DOMAIN modules
           /\ 1 .. elaborated + 1 = (1 .. elaborated) \cup {elaborated + 1}
           /\ elaborated + 1 \notin 1 .. elaborated
           /\ \A t \in DOMAIN modules : t > elaborated <=> t \notin 1 .. elaborated
           /\ \A t \in DOMAIN modules : t > elaborated + 1 => t > elaborated
           /\ \A t \in DOMAIN modules :
                  /\ modules[t] \in TransactorType
                  /\ modules[t].kind \in {"multi", "single", "master"}
  <1>1. modules \in Seq(TransactorType) /\ elaborated \in 0 .. Len(modules)
    BY DEF TypeOK
  <1>2. DOMAIN modules = 1 .. Len(modules) /\ Len(modules) \in Nat
    BY <1>1, LenProperties
  <1>3. \A t \in DOMAIN modules : modules[t] \in TransactorType
    BY <1>1, <1>2, ElementOfSeq
  <1>4. \A t \in DOMAIN modules : modules[t].kind \in {"multi", "single", "master"}
    BY <1>3 DEF TransactorType
  <1>5. elaborated \in Nat /\ elaborated + 1 \in Nat
    BY <1>1, <1>2
  <1> QED
    BY <1>1, <1>2, <1>3, <1>4, <1>5

\* A transactor whose connection fails ends the program and changes no port.
LEMMA FailedBinding ==
    ASSUME IndInv, before_end_of_elaboration,
           stopped' \in {"sc_error", "exit", "assert", "panic"}, UNCHANGED ports
    PROVE  IndInv'
  <1> DEFINE t == elaborated + 1
  <1>1. /\ elaborated' = t /\ t \in DOMAIN modules
        /\ stage = "before_end_of_elaboration"
        /\ UNCHANGED <<config, stage, simInstance, modules, last, simControl,
                       simControlBinded, transactors, instance, slavePorts, masterPorts>>
    BY DEF before_end_of_elaboration, wrapper, ports
  <1>2. TypeOK
    BY DEF IndInv
  <1>3. ~Started /\ ~Started' /\ last = NULL
    BY <1>1 DEF IndInv, StageInv, Started
  <1>4. TypeOK'
    <2>1. t \in 0 .. Len(modules)
      BY <1>1, <1>2, NextModule
    <2>2. \A n \in DOMAIN slavePorts : SlavePortOK(slavePorts[n])'
      BY <1>1, <1>2, SameModules DEF TypeOK
    <2> QED
      BY <1>1, <1>2, <1>3, <2>1, <2>2 DEF TypeOK
  <1>5. FiniteInv'
    BY <1>1 DEF IndInv, FiniteInv
  <1>6. StageInv'
    BY <1>1, <1>3 DEF StageInv
  <1>7. FreshInv'
    <2> SUFFICES ASSUME NEW n \in DOMAIN slavePorts, \A u \in Owners(n) : u > t
                 PROVE  slavePorts[n] = newSlavePort
      BY <1>1, SameModules DEF FreshInv, newSlavePort
    <2>1. \A u \in Owners(n) : u > elaborated
      BY <1>1, <1>2, NextModule DEF Owners
    <2> QED
      BY <2>1 DEF IndInv, FreshInv
  <1>8. BoundInv'
    BY <1>3, NullAssumption DEF BoundInv
  <1>9. RequestReachesSocket'
    BY <1>1, <1>3 DEF RequestReachesSocket
  <1> QED
    BY <1>4, <1>5, <1>6, <1>7, <1>8, <1>9 DEF IndInv

\* What the next transactor finds when all checks succeed, and what its
\* binding changes.
LEMMA BindingFacts ==
    ASSUME IndInv, before_end_of_elaboration, UNCHANGED stopped
    PROVE  LET t == elaborated + 1
               m == modules[t]
           IN  /\ elaborated' = t /\ t \in DOMAIN modules
               /\ stage = "before_end_of_elaboration" /\ stopped = NULL
               /\ UNCHANGED <<config, stage, stopped, simInstance, modules, last, simControl,
                              simControlBinded, transactors, instance>>
               /\ m.simBound
               /\ m.portName \in IF m.kind = "master" THEN DOMAIN masterPorts ELSE DOMAIN slavePorts
               /\ BindAsserts(m)
               /\ bindPort(t)
  <1> DEFINE m == modules[elaborated + 1]
  <1>1. stopped = NULL
    BY DEF before_end_of_elaboration
  <1>2. \A why \in {"sc_error", "exit", "assert", "panic"} : ~Stop(why)
    BY <1>1, NullAssumption DEF Stop
  <1>3. m.simBound /\ lookup(m) # "exit" /\ BindAsserts(m) /\ bindPort(elaborated + 1)
    BY <1>2 DEF before_end_of_elaboration
  <1>4. m.portName \in IF m.kind = "master" THEN DOMAIN masterPorts ELSE DOMAIN slavePorts
    BY <1>3 DEF lookup
  <1> QED
    BY <1>3, <1>4 DEF before_end_of_elaboration, wrapper

\* A transactor that is connected keeps its connection when a transactor
\* for another port, or of several sockets for the same one, is bound.
LEMMA KeepsBound ==
    ASSUME UNCHANGED <<config, modules>>, NEW u \in DOMAIN modules, Bound(u),
           modules[u].kind \in {"multi", "single", "master"},
           DOMAIN slavePorts' = DOMAIN slavePorts, DOMAIN masterPorts' = DOMAIN masterPorts,
           modules[u].kind = "master" =>
               masterPorts'[modules[u].portName] = masterPorts[modules[u].portName],
           modules[u].kind = "single" =>
               slavePorts'[modules[u].portName].transactor
                   = slavePorts[modules[u].portName].transactor,
           modules[u].kind = "single" =>
               \A v \in Owners(modules[u].portName) : v <= elaborated' => v <= elaborated,
           modules[u].kind # "master" => Server(slavePorts'[modules[u].portName]) \in OwnersFrom(u)
    PROVE  Bound(u)'
  <1>1. /\ Owners(modules[u].portName)' = Owners(modules[u].portName)
        /\ OwnersFrom(u)' = OwnersFrom(u)
        /\ Server(slavePorts[modules[u].portName])' = Server(slavePorts'[modules[u].portName])
    BY DEF Owners, OwnersFrom, Server
  <1> QED
    BY <1>1 DEF Bound

\* bindToTransactor of a master port keeps the invariant.
LEMMA MasterBinding ==
    ASSUME IndInv, before_end_of_elaboration, UNCHANGED stopped,
           modules[elaborated + 1].kind = "master"
    PROVE  IndInv'
  <1> PICK t, n : t = elaborated + 1 /\ n = modules[t].portName
    OBVIOUS
  <1>1. TypeOK
    BY DEF IndInv
  <1>2. /\ elaborated' = t /\ t \in DOMAIN modules
        /\ stage = "before_end_of_elaboration" /\ stopped = NULL
        /\ UNCHANGED <<config, stage, stopped, simInstance, modules, last, simControl,
                       simControlBinded, transactors, instance>>
        /\ modules[t].simBound /\ n \in DOMAIN masterPorts
        /\ masterPorts[n] = NULL
        /\ masterPorts' = [masterPorts EXCEPT ![n] = t] /\ UNCHANGED slavePorts
    BY BindingFacts DEF BindAsserts, bindPort, bindToTransactor_master
  <1>3. /\ DOMAIN masterPorts' = DOMAIN masterPorts /\ masterPorts'[n] = t
        /\ \A k \in DOMAIN masterPorts : k # n => masterPorts'[k] = masterPorts[k]
    BY <1>2
  <1>4. ~Started /\ ~Started' /\ last = NULL
    BY <1>2 DEF IndInv, StageInv, Started
  <1>5. TypeOK'
    <2>1. t \in 0 .. Len(modules)
      BY <1>1, <1>2, NextModule
    <2>2. \A k \in DOMAIN slavePorts : SlavePortOK(slavePorts[k])'
      BY <1>1, <1>2, SameModules DEF TypeOK
    <2>3. \A k \in DOMAIN masterPorts' : masterPorts'[k] \in DOMAIN modules \cup {NULL}
      BY <1>1, <1>2, <1>3 DEF TypeOK
    <2> QED
      BY <1>1, <1>2, <1>4, <2>1, <2>2, <2>3 DEF TypeOK
  <1>6. FiniteInv'
    BY <1>2 DEF IndInv, FiniteInv
  <1>7. StageInv'
    BY <1>2, <1>4 DEF StageInv
  <1>8. FreshInv'
    <2> SUFFICES ASSUME NEW k \in DOMAIN slavePorts, \A u \in Owners(k) : u > t
                 PROVE  slavePorts[k] = newSlavePort
      BY <1>2, SameModules DEF FreshInv, newSlavePort
    <2>1. \A u \in Owners(k) : u > elaborated
      BY <1>1, <1>2, NextModule DEF Owners
    <2> QED
      BY <2>1 DEF IndInv, FreshInv
  <1>9. \A u \in 1 .. elaborated : Bound(u)'
    <2> TAKE u \in 1 .. elaborated
    <2>1. Bound(u) /\ u \in DOMAIN modules /\ u \in Nat /\ modules[u].kind \in {"multi", "single", "master"}
      BY <1>1, <1>2, NextModule DEF IndInv, BoundInv
    <2>2. modules[u].kind = "master" => masterPorts'[modules[u].portName] = masterPorts[modules[u].portName]
      <3> HAVE modules[u].kind = "master"
      <3>1. modules[u].portName \in DOMAIN masterPorts /\ masterPorts[modules[u].portName] = u
        BY <2>1 DEF Bound
      <3>2. modules[u].portName # n
        BY <1>2, <2>1, <3>1, NullAssumption
      <3> QED
        BY <1>3, <3>1, <3>2
    <2>3. modules[u].kind # "master" => Server(slavePorts'[modules[u].portName]) \in OwnersFrom(u)
      BY <1>2, <2>1 DEF Bound
    <2>4. \A v \in Owners(modules[u].portName) : v <= elaborated' => v <= elaborated
      <3> TAKE v \in Owners(modules[u].portName)
      <3>1. v \in DOMAIN modules /\ v # t
        BY DEF Owners
      <3>2. v \in Nat /\ elaborated \in Nat /\ elaborated' = elaborated + 1
        BY <1>1, <1>2, <3>1, NextModule
      <3> QED
        BY <3>1, <3>2
    <2> QED
      BY <1>2, <1>3, <2>1, <2>2, <2>3, <2>4, KeepsBound
  <1>10. Bound(t)'
    BY <1>2, <1>3 DEF Bound
  <1>11. BoundInv'
    <2>1. 1 .. t = (1 .. elaborated) \cup {t}
      BY <1>1, <1>2, NextModule
    <2>2. ASSUME NEW k \in DOMAIN slavePorts, NEW u \in 1 .. t, Owners(k) = {u}, modules[u].kind = "multi"
          PROVE  slavePorts[k] = SolePort(u)
      <3>1. u \in 1 .. elaborated
        BY <2>1, <2>2
      <3> QED
        BY <1>2, <2>2, <3>1 DEF IndInv, BoundInv
    <2>3. \A u \in 1 .. elaborated' : Bound(u)'
      BY <1>2, <1>9, <1>10, <2>1
    <2> QED
      BY <1>2, <2>2, <2>3, SameModules DEF BoundInv
  <1>12. RequestReachesSocket'
    BY <1>2, <1>4 DEF RequestReachesSocket
  <1> QED
    BY <1>5, <1>6, <1>7, <1>8, <1>11, <1>12 DEF IndInv

\* bindToTransactor of a slave port keeps the invariant: the assertion that
\* the port has no transactor with one socket keeps earlier ones connected,
\* and a port that only this transactor names was fresh until now.
LEMMA SlaveBinding ==
    ASSUME IndInv, before_end_of_elaboration, UNCHANGED stopped,
           modules[elaborated + 1].kind # "master"
    PROVE  IndInv'
  <1> PICK t, n : t = elaborated + 1 /\ n = modules[t].portName
    OBVIOUS
  <1> PICK up : up = updateCorePortMap(slavePorts[n])
    OBVIOUS
  <1> PICK new : new = IF modules[t].kind = "single" THEN bindToTransactor(up, t)
                                                     ELSE bindToTransactor_multi(up, t)
    OBVIOUS
  <1>1. TypeOK
    BY DEF IndInv
  <1>2. /\ elaborated' = t /\ t \in DOMAIN modules
        /\ stage = "before_end_of_elaboration" /\ stopped = NULL
        /\ UNCHANGED <<config, stage, stopped, simInstance, modules, last, simControl,
                       simControlBinded, transactors, instance>>
        /\ modules[t].simBound /\ n \in DOMAIN slavePorts
        /\ slavePorts[n].transactor = NULL
        /\ slavePorts' = [slavePorts EXCEPT ![n] = new] /\ UNCHANGED masterPorts
    BY BindingFacts DEF BindAsserts, bindPort
  <1>3. /\ DOMAIN slavePorts' = DOMAIN slavePorts /\ slavePorts'[n] = new
        /\ \A k \in DOMAIN slavePorts : k # n => slavePorts'[k] = slavePorts[k]
    BY <1>2
  <1>4. ~Started /\ ~Started' /\ last = NULL
    BY <1>2 DEF IndInv, StageInv, Started
  <1>5. modules[t].kind \in {"multi", "single"} /\ t \in Owners(n)
    BY <1>1, <1>2, NextModule DEF Owners
  <1>6. /\ PortOK(up) /\ up.transactor = NULL
        /\ up.transactor_multi = slavePorts[n].transactor_multi
    <2>1. PortOK(slavePorts[n])
      BY <1>1, <1>2 DEF PortOK, IndInv, FiniteInv, TypeOK
    <2> QED
      BY <1>1, <1>2, <2>1, UpdateOK DEF TypeOK
  <1>7. /\ PortOK(new)
        /\ modules[t].kind = "single" => new.transactor = t /\ new.transactor_multi = up.transactor_multi
        /\ modules[t].kind = "multi" => new.transactor = NULL /\ new.transactor_multi = t
    BY <1>1, <1>2, <1>5, <1>6, BindOK
  <1>8. TypeOK'
    <2>1. t \in 0 .. Len(modules)
      BY <1>1, <1>2, NextModule
    <2>2. \A k \in DOMAIN slavePorts : SlavePortOK(slavePorts'[k])
      BY <1>1, <1>3, <1>7 DEF TypeOK, PortOK
    <2>3. \A port : SlavePortOK(port)' = SlavePortOK(port)
      BY <1>2, SameModules
    <2>4. \A k \in DOMAIN slavePorts' : SlavePortOK(slavePorts[k])'
      BY <1>2, <1>3, <2>2 DEF SlavePortOK, Core, Requestor
    <2> QED
      BY <1>1, <1>2, <1>4, <2>1, <2>4 DEF TypeOK
  <1>9. FiniteInv'
    <2> SUFFICES ASSUME NEW k \in DOMAIN slavePorts
                 PROVE  IsFiniteSet(DOMAIN slavePorts'[k].socket_map)
      BY <1>3 DEF FiniteInv
    <2>1. CASE k = n
      BY <1>3, <1>7, <2>1 DEF PortOK
    <2>2. CASE k # n
      BY <1>3, <2>2 DEF IndInv, FiniteInv
    <2> QED
      BY <2>1, <2>2
  <1>10. StageInv'
    BY <1>2, <1>4 DEF StageInv
  <1>11. FreshInv'
    <2> SUFFICES ASSUME NEW k \in DOMAIN slavePorts, \A u \in Owners(k) : u > t
                 PROVE  slavePorts'[k] = newSlavePort
      BY <1>2, <1>3, SameModules DEF FreshInv, newSlavePort
    <2>1. t \in Nat
      BY <1>1, <1>2, NextModule
    <2>2. k # n
      BY <1>5, <2>1
    <2>3. \A u \in Owners(k) : u > elaborated
      BY <1>1, <1>2, NextModule DEF Owners
    <2> QED
      BY <1>3, <2>2, <2>3 DEF IndInv, FreshInv
  <1>12a. Server(new) = t
    <2>1. t \in Nat
      BY <1>1, <1>2, NextModule
    <2> QED
      BY <1>5, <1>7, <2>1, NullAssumption DEF Server
  <1>12. \A u \in 1 .. elaborated : Bound(u)'
    <2> TAKE u \in 1 .. elaborated
    <2> PICK k : k = modules[u].portName
      OBVIOUS
    <2>1. Bound(u) /\ u \in DOMAIN modules /\ u \in Nat /\ modules[u].kind \in {"multi", "single", "master"}
      BY <1>1, <1>2, NextModule DEF IndInv, BoundInv
    <2>2. modules[u].kind # "master" => k \in DOMAIN slavePorts
      BY <2>1 DEF Bound
    <2>3. modules[u].kind = "single" => slavePorts'[k].transactor = slavePorts[k].transactor
      <3> HAVE modules[u].kind = "single"
      <3>1. k \in DOMAIN slavePorts /\ slavePorts[k].transactor = u
        BY <2>1 DEF Bound
      <3>2. k # n
        BY <1>2, <2>1, <3>1, NullAssumption
      <3> QED
        BY <1>3, <3>1, <3>2
    <2>3a. modules[u].kind = "single" =>
               \A v \in Owners(k) : v <= elaborated' => v <= elaborated
      <3> HAVE modules[u].kind = "single"
      <3> TAKE v \in Owners(k)
      <3>1. slavePorts[k].transactor = u
        BY <2>1 DEF Bound
      <3>2. k # n
        BY <1>2, <2>1, <3>1, NullAssumption
      <3>3. v \in DOMAIN modules /\ v # t
        BY <3>2 DEF Owners
      <3>4. v \in Nat /\ elaborated \in Nat /\ elaborated' = elaborated + 1
        BY <1>1, <1>2, <3>3, NextModule
      <3> QED
        BY <3>3, <3>4
    <2>4. modules[u].kind # "master" => Server(slavePorts'[k]) \in OwnersFrom(u)
      <3> HAVE modules[u].kind # "master"
      <3>1. Server(slavePorts[k]) \in OwnersFrom(u) /\ k \in DOMAIN slavePorts
        BY <2>1 DEF Bound
      <3>2. t \in Nat /\ u <= t
        BY <1>1, <1>2, NextModule
      <3>3. CASE k # n
        BY <1>3, <3>1, <3>3
      <3>4. CASE k = n
        BY <1>3, <1>5, <1>12a, <3>2, <3>4 DEF OwnersFrom
      <3> QED
        BY <3>3, <3>4
    <2> QED
      BY <1>2, <1>3, <2>1, <2>3, <2>3a, <2>4, KeepsBound
  <1>13. Bound(t)'
    <2>1. /\ Owners(n)' = Owners(n) /\ OwnersFrom(t)' = OwnersFrom(t)
          /\ Server(slavePorts[n])' = t
      BY <1>2, <1>3, <1>12a, SameModules DEF OwnersFrom, Server
    <2>2. t \in OwnersFrom(t)
      BY <1>1, <1>2, <1>5, NextModule DEF OwnersFrom
    <2> QED
      BY <1>2, <1>3, <1>5, <1>7, <2>1, <2>2 DEF Bound
  <1>14. ASSUME NEW k \in DOMAIN slavePorts, NEW u \in 1 .. t, Owners(k) = {u},
                modules[u].kind = "multi"
         PROVE  slavePorts'[k] = SolePort(u)
    <2>1. 1 .. t = (1 .. elaborated) \cup {t} /\ t \notin 1 .. elaborated
      BY <1>1, <1>2, NextModule
    <2>2. CASE u \in 1 .. elaborated
      <3>1. slavePorts[k] = SolePort(u)
        BY <1>2, <1>14, <2>2 DEF IndInv, BoundInv
      <3>2. k # n
        BY <1>5, <1>14, <2>1, <2>2
      <3> QED
        BY <1>3, <3>1, <3>2
    <2>3. CASE u = t
      <3>1. k = n
        BY <1>14, <2>3 DEF Owners
      <3>2. \A w \in Owners(n) : w > elaborated
        BY <1>1, <1>2, <1>14, <2>3, <3>1, NextModule
      <3>3. slavePorts[n] = newSlavePort
        BY <1>2, <3>2 DEF IndInv, FreshInv
      <3>4. new = SolePort(t)
        BY <1>14, <2>3, <3>3 DEF SolePort
      <3> QED
        BY <1>3, <2>3, <3>1, <3>4
    <2> QED
      BY <2>1, <2>2, <2>3
  <1>15. BoundInv'
    <2>1. 1 .. t = (1 .. elaborated) \cup {t}
      BY <1>1, <1>2, NextModule
    <2>2. \A u \in 1 .. elaborated' : Bound(u)'
      BY <1>2, <1>12, <1>13, <2>1
    <2> QED
      BY <1>2, <1>3, <1>14, <2>2, SameModules DEF BoundInv
  <1>16. RequestReachesSocket'
    BY <1>2, <1>4 DEF RequestReachesSocket
  <1> QED
    BY <1>8, <1>9, <1>10, <1>11, <1>15, <1>16 DEF IndInv

\* Every call back of the kernel keeps the invariant.
LEMMA ElaborationStep ==
    ASSUME IndInv, before_end_of_elaboration
    PROVE  IndInv'
  <1>1. \/ stopped' \in {"sc_error", "exit", "assert", "panic"} /\ UNCHANGED ports
        \/ UNCHANGED stopped
    BY DEF before_end_of_elaboration, Stop
  <1>2. CASE stopped' \in {"sc_error", "exit", "assert", "panic"} /\ UNCHANGED ports
    BY <1>2, FailedBinding
  <1>3. CASE UNCHANGED stopped
    <2>1. CASE modules[elaborated + 1].kind = "master"
      BY <1>3, <2>1, MasterBinding
    <2>2. CASE modules[elaborated + 1].kind # "master"
      BY <1>3, <2>2, SlaveBinding
    <2> QED
      BY <2>1, <2>2
  <1> QED
    BY <1>1, <1>2, <1>3

(***************************************************************************)
(* The start of gem5 and its requests.                                     *)
(***************************************************************************)
\* Steps that leave the transactors, the ports and the kernel's progress
\* alone keep what is said of them.
LEMMA SamePlatform ==
    ASSUME IndInv, UNCHANGED <<config, modules, slavePorts, masterPorts, elaborated>>
    PROVE  /\ FiniteInv'
           /\ FreshInv'
           /\ \A t : Bound(t)' = Bound(t)
           /\ (stopped = NULL \/ Started) => BoundInv'
           /\ \A n \in DOMAIN slavePorts' : SlavePortOK(slavePorts[n])'
  <1>1. FiniteInv'
    BY DEF IndInv, FiniteInv
  <1>2. FreshInv'
    BY SameModules DEF IndInv, FreshInv, newSlavePort
  <1>3. \A t : Bound(t)' = Bound(t)
    <2>1. \A n : Owners(n)' = Owners(n)
      BY SameModules
    <2>2. \A t : OwnersFrom(t)' = OwnersFrom(t)
      BY <2>1 DEF OwnersFrom
    <2> QED
      BY <2>1, <2>2 DEF Bound
  <1>4. ASSUME stopped = NULL \/ Started PROVE BoundInv'
    BY <1>3, <1>4, SameModules DEF IndInv, BoundInv
  <1>5. \A n \in DOMAIN slavePorts' : SlavePortOK(slavePorts[n])'
    BY SameModules DEF IndInv, TypeOK, SlavePortOK, Core, Requestor
  <1> QED
    BY <1>1, <1>2, <1>3, <1>4, <1>5

\* end_of_elaboration and the start of run() keep the invariant.
LEMMA StartStep ==
    ASSUME IndInv, end_of_elaboration \/ run
    PROVE  IndInv'
  <1>1. /\ UNCHANGED <<config, stopped, simInstance, modules, elaborated, last, simControl,
                       simControlBinded, transactors, instance, slavePorts, masterPorts>>
        /\ stopped = NULL /\ stage' \in {"initState", "run"}
    BY DEF end_of_elaboration, run, wrapper, ports
  <1>2. elaborated = Len(modules)
    BY DEF end_of_elaboration, run, IndInv, StageInv, Started
  <1>3. FiniteInv' /\ FreshInv' /\ BoundInv' /\ \A n \in DOMAIN slavePorts' : SlavePortOK(slavePorts[n])'
    BY <1>1, SamePlatform
  <1>4. TypeOK'
    BY <1>1, <1>3 DEF IndInv, TypeOK, RequestOK, Requestor
  <1>5. StageInv'
    BY <1>1, <1>2 DEF StageInv, Started
  <1>6. RequestReachesSocket'
    BY <1>1, SameModules DEF IndInv, RequestReachesSocket
  <1> QED
    BY <1>3, <1>4, <1>5, <1>6 DEF IndInv

\* What a request on a well bound port finds: the transactor that names the
\* port, and a socket of it.
LEMMA WellBoundPort ==
    ASSUME IndInv, Started, NEW n \in DOMAIN slavePorts, WellBound(n), NEW t \in Owners(n)
    PROVE  /\ slavePorts[n].transactor = NULL
           /\ slavePorts[n].transactor_multi = t
           /\ t \in Nat
           /\ \E k \in 1 .. modules[t].socket_num :
                 /\ modules[t].socket_num \in Nat
                 /\ UsedSockets(t) = 0 .. k - 1
                 /\ slavePorts[n].socket_num = k
                 /\ \A id \in Requestor :
                       /\ getSocketId(slavePorts[n], id) = IntendedSocket(t, id)
                       /\ IntendedSocket(t, id) \in 0 .. k - 1
  <1>1. TypeOK
    BY DEF IndInv
  <1>2. Owners(n) = {t} /\ modules[t].kind = "multi" /\ GoodMap(t) /\ t \in DOMAIN modules
    BY DEF WellBound, Owners
  <1>3. DOMAIN modules = 1 .. Len(modules) /\ Len(modules) \in Nat /\ modules[t] \in TransactorType
    BY <1>1, <1>2, LenProperties, ElementOfSeq DEF TypeOK
  <1>4. t \in 1 .. elaborated /\ t \in Nat /\ modules[t].socket_num \in Nat
    BY <1>2, <1>3 DEF IndInv, StageInv, TransactorType
  <1>5. slavePorts[n] = SolePort(t)
    BY <1>2, <1>4 DEF IndInv, BoundInv
  <1>6. PICK k \in 1 .. modules[t].socket_num : UsedSockets(t) = 0 .. k - 1
    BY <1>2 DEF GoodMap
  <1>7. slavePorts[n].transactor = NULL /\ slavePorts[n].transactor_multi = t
    BY <1>1, <1>2, <1>5, SoleMap
  <1>8. /\ slavePorts[n].socket_num = k
        /\ \A id \in Requestor : /\ getSocketId(slavePorts[n], id) = IntendedSocket(t, id)
                                 /\ IntendedSocket(t, id) \in 0 .. k - 1
    BY <1>1, <1>2, <1>5, <1>6, SoleSocket
  <1> QED
    BY <1>4, <1>6, <1>7, <1>8

\* A socket the transactor has is reached.
LEMMA FateSent ==
    ASSUME NEW port, NEW t \in Nat, port.transactor = NULL, port.transactor_multi = t,
           NEW s \in Nat, s < modules[t].socket_num
    PROVE  \A multi \in Pointers(port.transactor_multi) : Fate(port, s, multi) = "sent"
  <1>1. t # NULL /\ t # UNINIT
    BY NullAssumption
  <1> QED
    BY <1>1 DEF Pointers, Fate

\* Any request on any port: the fates there are, and the socket's type.
LEMMA RequestTypes ==
    ASSUME TypeOK, NEW n \in DOMAIN slavePorts, NEW id \in Requestor
    PROVE  /\ getSocketId(slavePorts[n], id) \in Nat
           /\ \A s, multi : Fate(slavePorts[n], s, multi) \in {"sent", "reported", "wild"}
  <1> DEFINE port == slavePorts[n]
             found == {s \in DOMAIN port.socket_map : id \in port.socket_map[s]}
  <1>1. found \in SUBSET Nat
    BY DEF TypeOK, SlavePortOK
  <1>2. found # {} => Least(found) \in Nat
    BY <1>1, NatLeast
  <1>3. getSocketId(port, id) \in Nat
    BY <1>2 DEF getSocketId
  <1>4. \A s, multi : Fate(port, s, multi) \in {"sent", "reported", "wild"}
    BY DEF Fate
  <1> QED
    BY <1>3, <1>4

\* Recording a request that reaches its socket if the port is well bound
\* keeps the invariant.
LEMMA RecordStep ==
    ASSUME IndInv, Started, stopped = NULL, NEW r, Record(r), RequestOK(r),
           WellBound(r.port) =>
               \A t \in Owners(r.port) :
                   r.cluster \in UsedSockets(t) \cup {NULL} =>
                       /\ r.fate = "sent"
                       /\ slavePorts[r.port].transactor_multi = t
                       /\ r.socket = IF r.cluster # NULL THEN r.cluster
                                     ELSE IntendedSocket(t, r.id)
    PROVE  IndInv'
  <1>1. /\ UNCHANGED <<config, stage, simInstance, modules, elaborated, simControl,
                       simControlBinded, transactors, instance, slavePorts, masterPorts>>
        /\ last' = r /\ stopped' \in {NULL, r.fate}
    BY DEF Record, Stop, wrapper, ports
  <1>2. FiniteInv' /\ FreshInv' /\ BoundInv' /\ \A n \in DOMAIN slavePorts' : SlavePortOK(slavePorts[n])'
    BY <1>1, SamePlatform
  <1>3. RequestOK(last)'
    BY <1>1 DEF RequestOK, Requestor
  <1>4. stopped' \in {NULL, "reported", "assert", "wild"}
    BY <1>1 DEF RequestOK, Record, Stop
  <1>5. TypeOK'
    BY <1>1, <1>2, <1>3, <1>4 DEF IndInv, TypeOK
  <1>6. StageInv'
    BY <1>1 DEF IndInv, StageInv, Started
  <1>7. RequestReachesSocket'
    BY <1>1, SameModules DEF RequestReachesSocket
  <1> QED
    BY <1>2, <1>5, <1>6, <1>7 DEF IndInv

\* recvFunctional and recvAtomic keep the invariant.
LEMMA FunctionalStep ==
    ASSUME IndInv, NEW n \in DOMAIN slavePorts, NEW id \in Requestor, recvFunctional(n, id)
    PROVE  IndInv'
  <1> PICK s : s = getSocketId(slavePorts[n], id)
    OBVIOUS
  <1>1. Started /\ stopped = NULL
    BY DEF recvFunctional, Started
  <1>2. PICK multi \in Pointers(slavePorts[n].transactor_multi) :
            Record(Request(n, id, NULL, s, Fate(slavePorts[n], s, multi)))
    BY DEF recvFunctional
  <1> PICK r : r = Request(n, id, NULL, s, Fate(slavePorts[n], s, multi))
    OBVIOUS
  <1>3. /\ r.port = n /\ r.id = id /\ r.cluster = NULL /\ r.socket = s
        /\ r.fate = Fate(slavePorts[n], s, multi)
    BY DEF Request
  <1>4. RequestOK(r)
    <2>1. s \in Nat /\ Fate(slavePorts[n], s, multi) \in {"sent", "reported", "wild"}
      BY RequestTypes DEF IndInv
    <2> QED
      BY <1>3, <2>1 DEF RequestOK
  <1>5. ASSUME WellBound(n), NEW t \in Owners(n)
        PROVE  /\ r.fate = "sent"
               /\ slavePorts[n].transactor_multi = t
               /\ s = IntendedSocket(t, id)
    <2>1. PICK k \in 1 .. modules[t].socket_num :
              /\ modules[t].socket_num \in Nat
              /\ s = IntendedSocket(t, id) /\ s \in 0 .. k - 1
      BY <1>1, <1>5, WellBoundPort
    <2>2. slavePorts[n].transactor = NULL /\ slavePorts[n].transactor_multi = t /\ t \in Nat
      BY <1>1, <1>5, WellBoundPort
    <2>3. s \in Nat /\ s < modules[t].socket_num
      BY <2>1
    <2>4. Fate(slavePorts[n], s, multi) = "sent"
      BY <1>2, <2>2, <2>3, FateSent
    <2> QED
      BY <1>3, <2>1, <2>2, <2>4
  <1>6. Record(r)
    BY <1>2
  <1> QED
    BY <1>1, <1>3, <1>4, <1>5, <1>6, RecordStep

\* recvTimingReq keeps the invariant, with a cluster id and without.
LEMMA TimingStep ==
    ASSUME IndInv, NEW n \in DOMAIN slavePorts, NEW id \in Requestor,
           NEW cluster \in Clusters \cup {NULL}, recvTimingReq(n, id, cluster)
    PROVE  IndInv'
  <1> PICK s : s = IF cluster = NULL THEN getSocketId(slavePorts[n], id) ELSE cluster
    OBVIOUS
  <1>1. Started /\ stopped = NULL
    BY DEF recvTimingReq, Started
  <1>2. s \in Nat
    BY RequestTypes, SocketAssumption DEF IndInv
  <1>3. PICK fate \in {"sent", "reported", "assert", "wild"} :
            /\ Record(Request(n, id, cluster, s, fate))
            /\ \/ fate = "assert" /\ (slavePorts[n].socket_num = UNINIT \/ s >= slavePorts[n].socket_num)
               \/ \E multi \in Pointers(slavePorts[n].transactor_multi) :
                     fate = Fate(slavePorts[n], s, multi)
    <2>1. \A multi : Fate(slavePorts[n], s, multi) \in {"sent", "reported", "wild"}
      BY RequestTypes DEF IndInv
    <2>2. CASE slavePorts[n].socket_num = UNINIT \/ s >= slavePorts[n].socket_num
      <3>1. Record(Request(n, id, cluster, s, "assert"))
        BY <2>2 DEF recvTimingReq
      <3> QED
        BY <2>2, <3>1
    <2>3. CASE ~(slavePorts[n].socket_num = UNINIT \/ s >= slavePorts[n].socket_num)
      <3>1. PICK multi \in Pointers(slavePorts[n].transactor_multi) :
                Record(Request(n, id, cluster, s, Fate(slavePorts[n], s, multi)))
        BY <2>3 DEF recvTimingReq
      <3>2. Fate(slavePorts[n], s, multi) \in {"sent", "reported", "assert", "wild"}
        BY <2>1
      <3> QED
        BY <3>1, <3>2
    <2> QED
      BY <2>2, <2>3
  <1> PICK r : r = Request(n, id, cluster, s, fate)
    OBVIOUS
  <1>4. r.port = n /\ r.id = id /\ r.cluster = cluster /\ r.socket = s /\ r.fate = fate
    BY DEF Request
  <1>5. RequestOK(r)
    BY <1>2, <1>4 DEF RequestOK
  <1>6. ASSUME WellBound(n), NEW t \in Owners(n), cluster \in UsedSockets(t) \cup {NULL}
        PROVE  /\ fate = "sent"
               /\ slavePorts[n].transactor_multi = t
               /\ s = IF cluster # NULL THEN cluster ELSE IntendedSocket(t, id)
    <2>1. PICK k \in 1 .. modules[t].socket_num :
              /\ modules[t].socket_num \in Nat
              /\ UsedSockets(t) = 0 .. k - 1
              /\ slavePorts[n].socket_num = k
              /\ getSocketId(slavePorts[n], id) = IntendedSocket(t, id)
              /\ IntendedSocket(t, id) \in 0 .. k - 1
      BY <1>1, <1>6, WellBoundPort
    <2>2. slavePorts[n].transactor = NULL /\ slavePorts[n].transactor_multi = t /\ t \in Nat
      BY <1>1, <1>6, WellBoundPort
    <2>3. s \in 0 .. k - 1 /\ s = IF cluster # NULL THEN cluster ELSE IntendedSocket(t, id)
      BY <1>6, <2>1
    <2>4. k \in Nat /\ s < modules[t].socket_num /\ ~(s >= k)
      BY <2>1, <2>3
    <2>5. slavePorts[n].socket_num # UNINIT
      BY <2>1, <2>4, NullAssumption
    <2>6. \A multi \in Pointers(slavePorts[n].transactor_multi) : Fate(slavePorts[n], s, multi) = "sent"
      BY <1>2, <2>2, <2>4, FateSent
    <2> QED
      BY <1>3, <2>1, <2>2, <2>3, <2>4, <2>5, <2>6
  <1>7. Record(r)
    BY <1>3
  <1> QED
    BY <1>1, <1>4, <1>5, <1>6, <1>7, RecordStep

\* Nothing changes in a stuttering step.
LEMMA StutterStep ==
    ASSUME IndInv, UNCHANGED vars
    PROVE  IndInv'
  <1>1. UNCHANGED <<config, stage, stopped, simInstance, modules, elaborated, last, simControl,
                    simControlBinded, transactors, instance, slavePorts, masterPorts>>
    BY DEF vars, wrapper, ports
  <1>2. FiniteInv' /\ FreshInv' /\ \A n \in DOMAIN slavePorts' : SlavePortOK(slavePorts[n])'
    BY <1>1, SamePlatform
  <1>3. BoundInv'
    <2>1. CASE stopped = NULL \/ Started
      BY <1>1, <2>1, SamePlatform
    <2>2. CASE ~(stopped = NULL \/ Started)
      BY <1>1, <2>2 DEF BoundInv, Started
    <2> QED
      BY <2>1, <2>2
  <1>4. TypeOK'
    BY <1>1, <1>2 DEF IndInv, TypeOK, RequestOK, Requestor
  <1>5. StageInv'
    BY <1>1 DEF IndInv, StageInv, Started
  <1>6. RequestReachesSocket'
    BY <1>1, SameModules DEF IndInv, RequestReachesSocket
  <1> QED
    BY <1>2, <1>3, <1>4, <1>5, <1>6 DEF IndInv

(***************************************************************************)
(* A good platform is not stopped before run().                            *)
(***************************************************************************)
\* No master port has a transactor while the program constructs the platform.
LEMMA ConstructingMasters ==
    ASSUME IndInv, MasterFreshInv, stage = "construct"
    PROVE  \A n \in DOMAIN masterPorts : masterPorts[n] = NULL
  <1>1. \A t \in DOMAIN modules : t > elaborated
    BY ConstructingReady, LenProperties DEF Ready, IndInv, TypeOK
  <1> QED
    BY <1>1 DEF MasterFreshInv

\* The user's calls connect no master port and stop nothing after sc_start().
LEMMA UserPlatform ==
    ASSUME PlatformInv, User
    PROVE  MasterFreshInv' /\ GoodPlatformGoesOn'
  <1>1. stage = "construct" /\ stopped = NULL
    BY DEF User, newSimControl, createSimControl, createTransactor, createSingletonTransactor,
           getInstance_multi, newTransactor, Construct, setSocketCoreMap,
           bindSimControl2Transactor, sc_start, Constructing
  <1>2. /\ masterPorts' = masterPorts \/ masterPorts' = getExternalPort_master
        /\ stage' = stage \/ stopped' = stopped
    BY DEF User, newSimControl, createSimControl, getInstance, Gem5SimControl, createTransactor,
           createSingletonTransactor, getInstance_multi, newTransactor, Construct,
           setSocketCoreMap, bindSimControl2Transactor, sc_start, ports
  <1>3. \A n \in DOMAIN masterPorts : masterPorts[n] = NULL
    BY <1>1, ConstructingMasters DEF PlatformInv
  <1>4. \A n \in DOMAIN masterPorts' : masterPorts'[n] = NULL
    BY <1>2, <1>3 DEF getExternalPort_master
  <1> QED
    BY <1>1, <1>2, <1>4 DEF MasterFreshInv, GoodPlatformGoesOn

\* After sc_start() a platform stays good or bad.
LEMMA SameGood ==
    ASSUME UNCHANGED <<config, modules, simInstance>>, DOMAIN slavePorts' = DOMAIN slavePorts,
           DOMAIN masterPorts' = DOMAIN masterPorts
    PROVE  GoodPlatform' <=> GoodPlatform
  <1>1. \A n : WellBound(n)' = WellBound(n)
    BY SameModules
  <1> QED
    BY <1>1 DEF GoodPlatform, Registers

\* The transactor that the kernel calls next passes every check.
LEMMA GoodNext ==
    ASSUME PlatformInv, GoodPlatform, elaborated + 1 \in DOMAIN modules
    PROVE  LET m == modules[elaborated + 1]
           IN  m.simBound /\ lookup(m) = "found" /\ BindAsserts(m) /\ Registers(m)
  <1> PICK t, m : t = elaborated + 1 /\ m = modules[t]
    OBVIOUS
  <1>1. TypeOK
    BY DEF PlatformInv, IndInv
  <1>2. /\ m.simBound /\ Registers(m)
        /\ m.portName \in IF m.kind = "master" THEN DOMAIN masterPorts ELSE DOMAIN slavePorts
        /\ \A u \in DOMAIN modules \ {t} :
              modules[u].portName = m.portName => (modules[u].kind = "master") # (m.kind = "master")
    BY DEF GoodPlatform
  <1>3. lookup(m) = "found"
    BY <1>2 DEF lookup
  <1>4. t \in Nat /\ elaborated \in Nat /\ t > elaborated
    BY <1>1, NextModule
  <1>5. CASE m.kind = "master"
    <2>1. \A u \in DOMAIN modules :
              modules[u].kind = "master" /\ modules[u].portName = m.portName => u > elaborated
      BY <1>2, <1>4, <1>5
    <2>2. masterPorts[m.portName] = NULL
      BY <1>2, <1>5, <2>1 DEF PlatformInv, MasterFreshInv
    <2> QED
      BY <1>2, <1>3, <1>5, <2>2 DEF BindAsserts
  <1>6. CASE m.kind # "master"
    <2>1. \A u \in Owners(m.portName) : u > elaborated
      BY <1>2, <1>4, <1>6 DEF Owners
    <2>2. slavePorts[m.portName] = newSlavePort
      BY <1>2, <1>6, <2>1 DEF PlatformInv, IndInv, FreshInv
    <2> QED
      BY <1>2, <1>3, <1>6, <2>2 DEF BindAsserts, newSlavePort
  <1> QED
    BY <1>5, <1>6

\* The kernel's steps keep master ports fresh until their transactor is
\* called back, and stop no good platform.
LEMMA KernelPlatform ==
    ASSUME PlatformInv, Kernel
    PROVE  MasterFreshInv' /\ GoodPlatformGoesOn'
  <1>1. CASE end_of_elaboration \/ run
    <2>1. UNCHANGED <<config, modules, masterPorts, elaborated, stopped>> /\ stopped = NULL
      BY <1>1 DEF end_of_elaboration, run, ports
    <2> QED
      BY <2>1 DEF PlatformInv, MasterFreshInv, GoodPlatformGoesOn
  <1>2. CASE before_end_of_elaboration
    <2> PICK t, m : t = elaborated + 1 /\ m = modules[t]
      OBVIOUS
    <2>1. /\ UNCHANGED <<config, stage, simInstance, modules>> /\ elaborated' = t
          /\ t \in DOMAIN modules /\ stopped = NULL
      BY <1>2 DEF before_end_of_elaboration
    <2>2. TypeOK
      BY DEF PlatformInv, IndInv
    <2>3. \/ UNCHANGED <<slavePorts, masterPorts>>
          \/ /\ m.kind = "master" /\ slavePorts' = slavePorts
             /\ masterPorts' = [masterPorts EXCEPT ![m.portName] = t]
          \/ masterPorts' = masterPorts /\ DOMAIN slavePorts' = DOMAIN slavePorts
      BY <1>2 DEF before_end_of_elaboration, bindPort, bindToTransactor_master, ports
    <2>4. DOMAIN slavePorts' = DOMAIN slavePorts /\ DOMAIN masterPorts' = DOMAIN masterPorts
      BY <2>3
    <2>5. MasterFreshInv'
      <3> SUFFICES ASSUME NEW n \in DOMAIN masterPorts,
                          \A u \in DOMAIN modules :
                              modules[u].kind = "master" /\ modules[u].portName = n => u > t
                   PROVE  masterPorts'[n] = NULL
        BY <2>1, <2>4 DEF MasterFreshInv
      <3>1. \A u \in DOMAIN modules :
                modules[u].kind = "master" /\ modules[u].portName = n => u > elaborated
        BY <2>1, <2>2, NextModule
      <3>2. masterPorts[n] = NULL
        BY <3>1 DEF PlatformInv, MasterFreshInv
      <3>3. t \in Nat
        BY <2>1, <2>2, NextModule
      <3>4. ~(m.kind = "master" /\ m.portName = n)
        BY <2>1, <3>3
      <3> QED
        BY <2>3, <3>2, <3>4
    <2>6. ASSUME GoodPlatform' PROVE stopped' = NULL
      <3>1. GoodPlatform
        BY <2>1, <2>4, <2>6, SameGood
      <3>2. m.simBound /\ lookup(m) = "found" /\ BindAsserts(m) /\ Registers(m)
        BY <2>1, <3>1, GoodNext
      <3>3. UNCHANGED stopped
        BY <1>2, <3>2 DEF before_end_of_elaboration
      <3> QED
        BY <2>1, <3>3
    <2> QED
      BY <2>5, <2>6 DEF GoodPlatformGoesOn
  <1> QED
    BY <1>1, <1>2 DEF Kernel

\* No functional access of initState() stops a good platform.
LEMMA GemPlatform ==
    ASSUME PlatformInv, Gem5
    PROVE  MasterFreshInv' /\ GoodPlatformGoesOn'
  <1>1. PICK n \in DOMAIN slavePorts, id \in Requestor :
            \/ recvFunctional(n, id)
            \/ \E cluster \in Clusters \cup {NULL} : recvTimingReq(n, id, cluster)
    BY DEF Gem5
  <1>2. /\ UNCHANGED <<config, stage, simInstance, modules, elaborated, slavePorts, masterPorts>>
        /\ stopped = NULL /\ Started
    BY <1>1 DEF recvFunctional, recvTimingReq, Record, ports, Started
  <1>3. MasterFreshInv'
    BY <1>2 DEF PlatformInv, MasterFreshInv
  <1>4. ASSUME GoodPlatform', stage' = "initState" PROVE stopped' = NULL
    <2>1. GoodPlatform
      BY <1>2, <1>4, SameGood
    <2>2. WellBound(n)
      BY <2>1 DEF GoodPlatform
    <2>3. recvFunctional(n, id)
      BY <1>1, <1>2, <1>4 DEF recvTimingReq
    <2>4. PICK t : t \in Owners(n)
      BY <2>2 DEF WellBound
    <2> PICK s : s = getSocketId(slavePorts[n], id)
      OBVIOUS
    <2>5. PICK multi \in Pointers(slavePorts[n].transactor_multi) :
              Record(Request(n, id, NULL, s, Fate(slavePorts[n], s, multi)))
      BY <2>3 DEF recvFunctional
    <2>6. PICK k \in 1 .. modules[t].socket_num :
              modules[t].socket_num \in Nat /\ s \in 0 .. k - 1
      BY <1>2, <2>2, <2>4, WellBoundPort DEF PlatformInv
    <2>7. slavePorts[n].transactor = NULL /\ slavePorts[n].transactor_multi = t /\ t \in Nat
      BY <1>2, <2>2, <2>4, WellBoundPort DEF PlatformInv
    <2>8. s \in Nat /\ s < modules[t].socket_num
      BY <2>6
    <2>9. Fate(slavePorts[n], s, multi) = "sent"
      BY <2>5, <2>7, <2>8, FateSent
    <2> QED
      BY <1>2, <2>5, <2>9 DEF Record, Request
  <1>5. stage' # "before_end_of_elaboration"
    BY <1>2 DEF Started
  <1> QED
    BY <1>3, <1>4, <1>5 DEF GoodPlatformGoesOn

(***************************************************************************)
(* The theorems.                                                           *)
(***************************************************************************)
\* The inductive invariant holds in every reachable state, in whatever order
\* the program makes its calls before sc_start().
THEOREM Invariance == Spec => []IndInv
  <1>1. Init => IndInv
    BY InitInv
  <1>2. IndInv /\ [Next]_vars => IndInv'
    <2> SUFFICES ASSUME IndInv, [Next]_vars PROVE IndInv'
      OBVIOUS
    <2>1. CASE User
      BY <2>1, NewSimControlStep, CreateSimControlStep, CreateTransactorStep, CreateSingletonStep,
         NewTransactorStep, SetSocketCoreMapStep, BindSimControlStep, ScStartStep, Zenon DEF User
    <2>2. CASE Kernel
      BY <2>2, ElaborationStep, StartStep DEF Kernel
    <2>3. CASE Gem5
      BY <2>3, FunctionalStep, TimingStep, Zenon DEF Gem5
    <2>4. CASE UNCHANGED vars
      BY <2>4, StutterStep
    <2> QED
      BY <2>1, <2>2, <2>3, <2>4 DEF Next
  <1> QED
    BY <1>1, <1>2, PTL DEF Spec

\* Every pointer to a transactor that the wrapper and the ports keep is null,
\* not yet set, or the position of a transactor that exists; socket maps hold
\* requestor ids only.
THEOREM TypeCorrect == Spec => []TypeOK
  <1>1. IndInv => TypeOK
    BY DEF IndInv
  <1> QED
    BY <1>1, Invariance, PTL

\* A request on a port that one transactor with a gapless socket map names
\* reaches this transactor on the socket of its core: for every
\* configuration, every map and every order of the user's calls neither the
\* assertion of BlockingPacketHelper fails nor is a socket out of range.
THEOREM SocketReached == Spec => []RequestReachesSocket
  <1>1. IndInv => RequestReachesSocket
    BY DEF IndInv
  <1> QED
    BY <1>1, Invariance, PTL

\* gem5 starts only with transactors bound to the controller and to a port;
\* a transactor whose port no other one names is known to that port, and only
\* a transactor with several sockets can lose its port, to a later one.
THEOREM StartedConnected == Spec => []StartedBound
  <1>1. IndInv => StartedBound
    <2> SUFFICES ASSUME IndInv, Started, NEW t \in DOMAIN modules
                 PROVE  Bound(t) /\ (modules[t].kind = "single" => OwnersFrom(t) = {t})
      BY Zenon DEF StartedBound, Bound, Started
    <2>1. DOMAIN modules = 1 .. Len(modules) /\ Len(modules) \in Nat
      BY LenProperties DEF IndInv, TypeOK
    <2>2. elaborated = Len(modules)
      BY DEF IndInv, StageInv
    <2>3. Bound(t)
      BY <2>1, <2>2 DEF IndInv, BoundInv
    <2>4. ASSUME modules[t].kind = "single" PROVE OwnersFrom(t) = {t}
      <3>1. \A u \in Owners(modules[t].portName) : u \in 1 .. Len(modules) /\ u <= t
        BY <2>1, <2>2, <2>3, <2>4 DEF Bound, Owners
      <3>2. t \in Owners(modules[t].portName) /\ t \in Nat
        BY <2>1, <2>4 DEF Owners
      <3> QED
        BY <3>1, <3>2 DEF OwnersFrom
    <2> QED
      BY <2>3, <2>4
  <1> QED
    BY <1>1, Invariance, PTL

\* A platform set up as the code expects (GoodPlatform: every transactor bound
\* to the controller and naming a port of its own, every slave port well
\* bound) is stopped by no assertion, exit(), panic or functional access
\* between sc_start() and run(). GoodPlatformRuns adds that it gets there.
THEOREM GoodPlatformSafe == Spec => []GoodPlatformGoesOn
  <1>1. Init => MasterFreshInv /\ GoodPlatformGoesOn
    BY DEF Init, MasterFreshInv, GoodPlatformGoesOn
  <1>2. PlatformInv /\ [Next]_vars => MasterFreshInv' /\ GoodPlatformGoesOn'
    <2> SUFFICES ASSUME PlatformInv, [Next]_vars PROVE MasterFreshInv' /\ GoodPlatformGoesOn'
      OBVIOUS
    <2>1. CASE UNCHANGED vars
      <3>1. UNCHANGED <<config, stage, stopped, simInstance, modules, elaborated,
                        slavePorts, masterPorts>>
        BY <2>1 DEF vars, ports
      <3>2. GoodPlatform' <=> GoodPlatform
        BY <3>1, SameGood
      <3> QED
        BY <3>1, <3>2 DEF PlatformInv, MasterFreshInv, GoodPlatformGoesOn
    <2> QED
      BY <2>1, UserPlatform, KernelPlatform, GemPlatform DEF Next
  <1> QED
    BY <1>1, <1>2, Invariance, PTL DEF Spec, PlatformInv

=============================================================================

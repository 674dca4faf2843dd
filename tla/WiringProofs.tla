---------------------------- MODULE WiringProofs ---------------------------
(***************************************************************************)
(* Proofs about Wiring, for every address space, every set of ranges and   *)
(* every number of transactors, sockets and routers.                       *)
(***************************************************************************)
EXTENDS Wiring, TLAPS

\* A router that leads to a bus socket was bound when there was a bus, and
\* the bus stays.
LinkInv ==
    \A r \in DOMAIN routers : isock_bus[r] \cap BusSockets # {} => busInstance # NULL

\* The kernel let gem5 start with every socket connected.
StartInv ==
    stage = "run" => Connected(sockets, DOMAIN routers) /\ Connected(isock_bus, BusSockets)

\* What the three kinds of access to an address of a router come to.
Outcomes(r, addr) ==
    {Access("timed", r, addr, IF ToMem(routers[r], addr) THEN "memory" ELSE "fatal"),
     Access("atomic", r, addr, IF ToMem(routers[r], addr) THEN "memory" ELSE ToBus(r, addr)),
     Access("functional", r, addr, IF ToMem(routers[r], addr) THEN ToBus(r, addr) ELSE "fatal")}

\* The last access was decoded with the connections and ranges there still
\* are, and the program ended if it could not be served.
AccessInv ==
    last # NULL =>
        /\ stage = "run"
        /\ \E r \in DOMAIN routers, addr \in Address : last \in Outcomes(r, addr)
        /\ stopped = IF \/ last.fate = "fatal"
                        \/ last.kind = "functional" /\ last.fate = "address_error"
                     THEN "fatal" ELSE NULL

\* The map leads from an id to a router created with it, and what the wrapper
\* has connected is the router of its id.
IdInv ==
    /\ \A id \in DOMAIN txn_routers : routers[txn_routers[id]].id = id
    /\ \A r \in DOMAIN routers : Linked(r) =>
          /\ routers[r].id \in DOMAIN txn_routers
          /\ txn_routers[routers[r].id] = r

IndInv == TypeOK /\ LinkInv /\ StartInv /\ AccessInv /\ IdInv

(***************************************************************************)
(* The inductive invariant.                                                *)
(***************************************************************************)
\* IndInv holds before the program's first call.
LEMMA InitIndInv == Init => IndInv
  <1>1. Init => TypeOK
    BY MaxRoutersAssumption DEF Init, TypeOK
  <1>2. Init => LinkInv /\ StartInv /\ AccessInv /\ IdInv
    BY DEF Init, LinkInv, StartInv, AccessInv, IdInv
  <1> QED  BY <1>1, <1>2 DEF IndInv

\* A new router has no connections, and the ids and sockets of the others
\* still refer to what they did.
LEMMA createTxnRouterIndInv ==
  ASSUME IndInv, NEW id \in RouterId, NEW range \in Ranges, createTxnRouter(id, range)
  PROVE  IndInv'
  <1> USE DEF createTxnRouter, Constructing, IndInv
  <1>0. newTxnRouter(id, range) \in RouterType /\ newTxnRouter(id, range).id = id
    BY RangesAssumption DEF newTxnRouter, RouterType
  <1>1. /\ routers' \in Seq(RouterType)
        /\ Len(routers') = Len(routers) + 1
        /\ isock_bus' \in Seq(SUBSET (BusSockets \cup {OWN}))
        /\ Len(isock_bus') = Len(isock_bus) + 1
    BY <1>0 DEF TypeOK
  <1>2. \A r \in DOMAIN routers : isock_bus'[r] = isock_bus[r]
    BY DEF TypeOK
  <1>3. isock_bus'[Len(routers) + 1] = {}
    BY DEF TypeOK
  <1>4. DOMAIN routers \subseteq DOMAIN routers' /\ Len(routers') \in DOMAIN routers'
    BY <1>1 DEF TypeOK
  <1>5. DOMAIN txn_routers' \subseteq RouterId
        /\ \A i \in DOMAIN txn_routers' : txn_routers'[i] \in DOMAIN routers'
    BY <1>4 DEF TypeOK
  <1>6. sockets' \in [TransactorSocket -> SUBSET (DOMAIN routers' \cup {OWN})]
    BY <1>4 DEF TypeOK, TransactorSocket
  <1>7. TypeOK'
    BY <1>1, <1>4, <1>5, <1>6, MaxRoutersAssumption DEF TypeOK, Address
  <1>8. LinkInv'
    BY <1>1, <1>2, <1>3 DEF LinkInv, TypeOK, BusSockets
  <1>9. StartInv' /\ AccessInv'
    BY DEF StartInv, AccessInv
  <1>10. IdInv'
    <2>1. /\ \A r \in DOMAIN routers : routers'[r] = routers[r]
          /\ routers'[Len(routers')].id = id
          /\ Len(routers') \notin DOMAIN routers
          /\ \A r \in DOMAIN routers' : r \in DOMAIN routers \/ r = Len(routers')
      BY <1>0, <1>1 DEF TypeOK
    <2>2. ASSUME NEW i \in DOMAIN txn_routers' PROVE routers'[txn_routers'[i]].id = i
      BY <2>1 DEF IdInv, TypeOK
    <2>3. ASSUME NEW r \in DOMAIN routers', Linked(r)'
          PROVE  routers'[r].id \in DOMAIN txn_routers' /\ txn_routers'[routers'[r].id] = r
      <3>1. r \in DOMAIN routers
        <4> SUFFICES ASSUME r = Len(routers') PROVE FALSE
          BY <2>1
        <4>1. isock_bus'[r] = {}
          BY <1>1, <1>3 DEF TypeOK
        <4>2. PICK i \in TransactorSocket : r \in sockets[i]
          BY <2>3, <4>1 DEF Linked, TransactorSocket
        <4>3. r \in DOMAIN routers \cup {OWN}
          BY <4>2 DEF TypeOK
        <4>4. r \in Nat
          BY <1>1
        <4> QED  BY <2>1, <4>3, <4>4, OwnAssumption
      <3>2. Linked(r)
        BY <1>2, <2>3, <3>1 DEF Linked, TransactorSocket, BusSockets
      <3> QED  BY <2>1, <3>1, <3>2 DEF IdInv
    <2> QED  BY <2>2, <2>3 DEF IdInv
  <1> QED  BY <1>7, <1>8, <1>9, <1>10

\* The bus is created once; an assertion about its range ends the program.
LEMMA createSimpleBusIndInv ==
  ASSUME IndInv, NEW range \in BusRanges, createSimpleBus(range)
  PROVE  IndInv'
  <1> USE DEF createSimpleBus, Constructing, IndInv
  <1>1. TypeOK'
    BY DEF TypeOK, TransactorSocket, Address, BusSockets
  <1>2. LinkInv'
    BY OwnAssumption, BusRangesAssumption DEF LinkInv, BusSockets
  <1>3. StartInv' /\ AccessInv'
    BY DEF StartInv, AccessInv
  <1>4. IdInv'
    BY DEF IdInv, Linked, TransactorSocket, BusSockets
  <1> QED  BY <1>1, <1>2, <1>3, <1>4

\* A transactor socket is bound to a router of the map.
LEMMA bindTxnRouter2TransactorIndInv ==
  ASSUME IndInv, NEW id \in RouterId, NEW s \in SocketArg, NEW t \in TransactorArg,
         bindTxnRouter2Transactor(id, s, t)
  PROVE  IndInv'
  <1> USE DEF bindTxnRouter2Transactor, Constructing, IndInv
  <1>1. stopped' \in {NULL, "assert", "sc_error"}
    BY DEF Bind
  <1>2. sockets' \in [TransactorSocket -> SUBSET (DOMAIN routers \cup {OWN})]
    BY DEF TypeOK, Bind
  <1>3. TypeOK'
    BY <1>1, <1>2 DEF TypeOK, TransactorSocket, Address, BusSockets
  <1>4. LinkInv' /\ StartInv' /\ AccessInv'
    BY DEF LinkInv, StartInv, AccessInv, BusSockets
  <1>5. ASSUME NEW r \in DOMAIN routers, Linked(r)'
        PROVE  Linked(r) \/ (id \in DOMAIN txn_routers /\ r = txn_routers[id])
    <2>1. \A i \in TransactorSocket : \A q \in sockets'[i] :
             q \in sockets[i] \/ (id \in DOMAIN txn_routers /\ q = txn_routers[id])
      <3>1. \/ UNCHANGED sockets
            \/ /\ id \in DOMAIN txn_routers
               /\ sockets' = [sockets EXCEPT ![<<t, s>>] = @ \cup {txn_routers[id]}]
        BY DEF Bind
      <3>2. DOMAIN sockets = TransactorSocket
        BY DEF TypeOK
      <3> HIDE DEF bindTxnRouter2Transactor, Constructing, IndInv
      <3> QED  BY <3>1, <3>2
    <2>2. isock_bus'[r] \cap BusSockets = isock_bus[r] \cap BusSockets
      OBVIOUS
    <2>3. Linked(r)' <=> \/ \E i \in TransactorSocket : r \in sockets'[i]
                         \/ isock_bus'[r] \cap BusSockets # {}
      BY DEF Linked, TransactorSocket, BusSockets
    <2> HIDE DEF bindTxnRouter2Transactor, Constructing, IndInv
    <2>4. CASE isock_bus'[r] \cap BusSockets # {}
      BY <2>2, <2>4 DEF Linked
    <2>5. CASE \E i \in TransactorSocket : r \in sockets'[i]
      BY <2>1, <2>5 DEF Linked
    <2> QED  BY <1>5, <2>3, <2>4, <2>5
  <1>6. IdInv'
    BY <1>5 DEF IdInv
  <1> QED  BY <1>3, <1>4, <1>6

\* A router is bound to a socket of the bus only after the bus was created.
LEMMA bindTxnRouter2BusIndInv ==
  ASSUME IndInv, NEW id \in RouterId, NEW s \in SocketArg, bindTxnRouter2Bus(id, s)
  PROVE  IndInv'
  <1> USE DEF bindTxnRouter2Bus, Constructing, IndInv
  <1>1. stopped' \in {NULL, "assert", "sc_error", "wild"}
    BY DEF Bind
  <1>2. isock_bus' \in Seq(SUBSET (BusSockets \cup {OWN})) /\ Len(isock_bus') = Len(isock_bus)
    BY DEF TypeOK, Bind
  <1>3. TypeOK'
    BY <1>1, <1>2 DEF TypeOK, TransactorSocket, Address, BusSockets
  <1>4. LinkInv'
    BY DEF LinkInv, Bind, TypeOK, BusSockets
  <1>5. StartInv' /\ AccessInv'
    BY DEF StartInv, AccessInv
  <1>6. ASSUME NEW r \in DOMAIN routers, Linked(r)'
        PROVE  Linked(r) \/ (id \in DOMAIN txn_routers /\ r = txn_routers[id])
    <2>1. \/ isock_bus'[r] = isock_bus[r]
          \/ id \in DOMAIN txn_routers /\ r = txn_routers[id]
      BY DEF Bind, TypeOK
    <2>2. Linked(r)' <=> \/ \E i \in TransactorSocket : r \in sockets[i]
                         \/ isock_bus'[r] \cap BusSockets # {}
      BY DEF Linked, TransactorSocket, BusSockets
    <2> HIDE DEF bindTxnRouter2Bus, Constructing, IndInv
    <2>3. CASE isock_bus'[r] = isock_bus[r]
      BY <1>6, <2>2, <2>3 DEF Linked
    <2> QED  BY <2>1, <2>3
  <1>7. IdInv'
    BY <1>6 DEF IdInv
  <1> QED  BY <1>3, <1>4, <1>5, <1>7

\* The program's own modules are no sockets of the bus.
LEMMA bindOwnIndInv ==
  ASSUME IndInv, bindOwn
  PROVE  IndInv'
  <1> USE DEF bindOwn, Constructing, IndInv
  <1>1. stopped' \in {NULL, "sc_error"}
    BY DEF Bind
  <1>2. sockets' \in [TransactorSocket -> SUBSET (DOMAIN routers \cup {OWN})]
    BY DEF TypeOK, Bind
  <1>3. isock_bus' \in Seq(SUBSET (BusSockets \cup {OWN})) /\ Len(isock_bus') = Len(isock_bus)
    BY DEF TypeOK, Bind
  <1>4. TypeOK'
    BY <1>1, <1>2, <1>3 DEF TypeOK, TransactorSocket, Address, BusSockets
  <1>5. LinkInv'
    BY OwnAssumption DEF LinkInv, Bind, TypeOK, BusSockets
  <1>6. StartInv' /\ AccessInv'
    BY DEF StartInv, AccessInv
  <1>7. ASSUME NEW r \in DOMAIN routers, Linked(r)' PROVE Linked(r)
    <2>1. r \in Nat
      BY DEF TypeOK
    <2>2. \A i \in TransactorSocket : sockets'[i] \subseteq sockets[i] \cup {OWN}
      BY DEF Bind, TypeOK
    <2>3. isock_bus'[r] \subseteq isock_bus[r] \cup {OWN}
      BY DEF Bind, TypeOK
    <2>4. OWN \notin BusSockets /\ OWN # r
      BY <2>1, OwnAssumption DEF BusSockets
    <2>5. Linked(r)' <=> \/ \E i \in TransactorSocket : r \in sockets'[i]
                         \/ isock_bus'[r] \cap BusSockets # {}
      BY DEF Linked, TransactorSocket, BusSockets
    <2> QED  BY <1>7, <2>2, <2>3, <2>4, <2>5 DEF Linked
  <1>8. IdInv'
    BY <1>7 DEF IdInv
  <1> QED  BY <1>4, <1>5, <1>6, <1>8

\* The kernel starts the simulation only when every socket is connected.
LEMMA sc_startIndInv ==
  ASSUME IndInv, sc_start
  PROVE  IndInv'
  <1> USE DEF sc_start, Constructing, IndInv
  <1>1. TypeOK'
    BY DEF TypeOK, TransactorSocket, Address, BusSockets
  <1>2. LinkInv' /\ StartInv' /\ AccessInv'
    BY DEF LinkInv, StartInv, AccessInv, BusSockets, Connected
  <1>3. IdInv'
    BY DEF IdInv, Linked, TransactorSocket, BusSockets
  <1> QED  BY <1>1, <1>2, <1>3

\* An access of one of the three kinds is decoded, and changes no connection.
LEMMA AccessIndInv ==
  ASSUME IndInv, NEW r \in DOMAIN routers, NEW addr \in Address,
         NEW access \in Outcomes(r, addr), Finish(access)
  PROVE  IndInv'
  <1> USE DEF Finish, IndInv
  <1>1. access.router = r /\ access.addr = addr
    BY DEF Outcomes, Access
  <1>2. TypeOK'
    BY <1>1 DEF TypeOK, TransactorSocket, Address, BusSockets
  <1>3. LinkInv' /\ StartInv'
    BY DEF LinkInv, StartInv, BusSockets, Connected
  <1>4. Outcomes(r, addr)' = Outcomes(r, addr)
    BY DEF Outcomes, Access, ToMem, ToBus, transport, decode
  <1>5. AccessInv'
    <2>1. \E q \in DOMAIN routers', a \in Address : last' \in Outcomes(q, a)'
      BY <1>4
    <2>2. stage' = "run"
      OBVIOUS
    <2>3. stopped' = IF \/ last'.fate = "fatal"
                        \/ last'.kind = "functional" /\ last'.fate = "address_error"
                     THEN "fatal" ELSE NULL
      OBVIOUS
    <2> QED  BY <2>1, <2>2, <2>3 DEF AccessInv, Address
  <1>6. IdInv'
    BY DEF IdInv, Linked, TransactorSocket, BusSockets
  <1> QED  BY <1>2, <1>3, <1>5, <1>6

\* Every call of the program, of the kernel and of gem5 keeps IndInv.
LEMMA NextIndInv == IndInv /\ [Next]_vars => IndInv'
  <1> SUFFICES ASSUME IndInv, [Next]_vars PROVE IndInv'
    OBVIOUS
  <1>1. CASE User
    BY <1>1, createTxnRouterIndInv, createSimpleBusIndInv, bindTxnRouter2TransactorIndInv,
       bindTxnRouter2BusIndInv, bindOwnIndInv, sc_startIndInv DEF User
  <1>2. CASE Gem5
    <2>1. PICK r \in DOMAIN routers, addr \in Address :
            nb_transport_fw(r, addr) \/ b_transport(r, addr) \/ transport_dbg(r, addr)
      BY <1>2 DEF Gem5
    <2>2. \E access \in Outcomes(r, addr) : Finish(access)
      BY <2>1 DEF Outcomes, nb_transport_fw, b_transport, transport_dbg
    <2> QED  BY <2>2, AccessIndInv
  <1>3. CASE UNCHANGED vars
    BY <1>3 DEF vars, IndInv, TypeOK, LinkInv, StartInv, AccessInv, IdInv, Linked, Outcomes, Access, ToMem,
       ToBus, transport, decode, Connected, TransactorSocket, Address, BusSockets
  <1> QED  BY <1>1, <1>2, <1>3 DEF Next

\* IndInv holds in every state of every platform.
THEOREM SpecIndInv == Spec => []IndInv
  BY InitIndInv, NextIndInv, PTL DEF Spec

(***************************************************************************)
(* What follows from it.                                                   *)
(***************************************************************************)
\* The variables keep their types, and ids and sockets refer to routers that
\* were created.
THEOREM SpecTypeOK == Spec => []TypeOK
  <1>1. IndInv => TypeOK
    BY DEF IndInv
  <1> QED  BY <1>1, SpecIndInv, PTL

\* The wrapper never connects two routers of the same id, so a path cannot
\* enter one and leave through the other.
THEOREM SpecOneRouterPerId == Spec => []OneRouterPerId
  <1>1. IndInv => OneRouterPerId
    BY DEF IndInv, IdInv, OneRouterPerId
  <1> QED  BY <1>1, SpecIndInv, PTL

\* A range that ends below the top of the address space is decoded as the
\* program gave it.
LEMMA ToMemRange ==
  ASSUME NEW r \in RouterType, NEW addr \in Address, r.start + r.size < AddressSpace
  PROVE  ToMem(r, addr) <=> addr \in MemoryRange(r)
  <1>1. r.start \in Nat /\ r.size \in Nat /\ addr \in Nat
    BY AddressSpaceAssumption DEF RouterType, Address
  <1>2. (r.start + r.size) % AddressSpace = r.start + r.size
    BY <1>1, AddressSpaceAssumption
  <1> QED  BY <1>1, <1>2 DEF ToMem, MemoryRange

\* Timed, atomic and functional accesses to a router's range all reach memory,
\* although they are decoded by two components with ranges of their own.
THEOREM SpecPathsAgree == Spec => []PathsAgree
  <1>1. IndInv => PathsAgree
    <2> SUFFICES ASSUME IndInv, last # NULL, Supported(last.router),
                        last.addr \in MemoryRange(routers[last.router])
                 PROVE  last.fate = "memory" /\ stopped = NULL
      BY DEF PathsAgree
    <2>1. PICK r \in DOMAIN routers, addr \in Address : last \in Outcomes(r, addr)
      BY DEF IndInv, AccessInv
    <2>2. last.router = r /\ last.addr = addr
      BY <2>1 DEF Outcomes, Access
    <2>3. routers[r] \in RouterType
      BY DEF IndInv, TypeOK
    <2>4. ToMem(routers[r], addr) <=> addr \in MemoryRange(routers[r])
      BY <2>2, <2>3, ToMemRange DEF Supported
    <2>5. ToBus(r, addr) = transport(addr)
      BY <2>2 DEF Supported, ToBus
    <2>6. transport(addr) = "memory"
      <3>1. r \in DOMAIN isock_bus /\ isock_bus[r] \subseteq BusSockets \cup {OWN}
        BY DEF IndInv, TypeOK
      <3>2. isock_bus[r] \cap BusSockets # {}
        BY <2>2, <3>1 DEF IndInv, AccessInv, StartInv, Connected, Supported
      <3>3. busInstance \in BusRanges
        BY <3>2 DEF IndInv, LinkInv, TypeOK
      <3>4. busInstance.start \in Int /\ busInstance.end \in Int
        BY <3>3, BusRangesAssumption, AddressSpaceAssumption DEF Address
      <3> QED  BY <2>2, <3>4 DEF Supported, transport, decode
    <2>7. stopped = IF \/ last.fate = "fatal"
                       \/ last.kind = "functional" /\ last.fate = "address_error"
                    THEN "fatal" ELSE NULL
      BY DEF IndInv, AccessInv
    <2> QED  BY <2>1, <2>2, <2>4, <2>5, <2>6, <2>7 DEF Outcomes, Access
  <1> QED  BY <1>1, SpecIndInv, PTL
=============================================================================

----------------------------- MODULE MCWiring ------------------------------
(***************************************************************************)
(* Wiring for TLC: a transactor with two sockets, eight addresses.         *)
(***************************************************************************)
EXTENDS Wiring, TLC

MCSocketNum == <<2>>

\* From the bottom, in the middle, and up to the top of the address space.
MCRanges == {[start |-> 0, size |-> 4], [start |-> 2, size |-> 3], [start |-> 4, size |-> 4]}

\* All addresses, a range that fits the second router, and none.
MCBusRanges == {[start |-> 0, end |-> 7], [start |-> 2, end |-> 4], [start |-> 3, end |-> 1]}
=============================================================================

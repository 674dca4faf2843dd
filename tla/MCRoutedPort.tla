---------------------------- MODULE MCRoutedPort ---------------------------
(***************************************************************************)
(* RoutedPort for TLC: two sockets with a router each, three packets that  *)
(* contend for the first router and one for the second.                    *)
(***************************************************************************)
EXTENDS RoutedPort

CONSTANTS k1, k2, k3, k4

MCSocketOf == [k \in Packet |-> IF k = k3 THEN 1 ELSE 0]

\* k2 is a write that needs no response.
MCNeedsResponse == Packet \ {k2}
=============================================================================

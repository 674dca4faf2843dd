---------------------------- MODULE MCSlavePort ----------------------------
(***************************************************************************)
(* Instances of SlavePort for TLC. Two sockets; two packets contend for    *)
(* socket 0 and one uses socket 1, so that a request can be refused while  *)
(* the other socket works, and both sockets can have a refused response.   *)
(***************************************************************************)
EXTENDS SlavePort, TLC

CONSTANTS k1, k2, k3

MCSocketOf == (k1 :> 0) @@ (k2 :> 0) @@ (k3 :> 1)

\* k2 is a write that needs no response.
MCNeedsResponse == {k1, k3}

\* A target that uses every answer the port handles without an error.
MCReply == (k1 :> {"ACCEPTED"})
        @@ (k2 :> {"ACCEPTED", "COMPLETED"})
        @@ (k3 :> {"ACCEPTED", "UPDATED_BEGIN_RESP"})

\* The answers the findings are about.
MCReplyUpdated   == [k \in Packet |-> {"ACCEPTED", "UPDATED_END_REQ"}]
MCReplyCompleted == [k \in Packet |-> {"ACCEPTED", "COMPLETED"}]

\* Payloads are interchangeable.
PayloadSymmetry == Permutations(Payload)
=============================================================================

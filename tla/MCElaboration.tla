--------------------------- MODULE MCElaboration ---------------------------
(***************************************************************************)
(* Elaboration for TLC: a platform with two cores, a slave and a master   *)
(* port, and one with a core and two slave ports; two transactors.         *)
(***************************************************************************)
EXTENDS Elaboration, TLC

MCPortName == {"cpu", "dma", "dev", "typo", ""}

Dual == [readable |-> TRUE, slave |-> <<"cpu">>, master |-> <<"dev">>, cores |-> 2,
         mode |-> "timing"]
Single == [readable |-> TRUE, slave |-> <<"cpu", "dma">>, master |-> << >>, cores |-> 1,
           mode |-> "atomic"]

\* The two platforms, one with a port listed twice, an unreadable file, and a
\* mode that is neither timing nor atomic.
MCConfigs == {Dual, Single, [Dual EXCEPT !.slave = <<"cpu", "cpu">>],
              [Dual EXCEPT !.readable = FALSE],
              [Dual EXCEPT !.mode = "other"]}

\* One core for each socket in reverse order, both cores on one socket, a
\* gap, and a core there is not.
MCCoreMaps == {(0 :> {1}) @@ (1 :> {0}), (0 :> {0, 1}), (1 :> {0, 1}), (0 :> {2}) @@ (1 :> {0})}
=============================================================================

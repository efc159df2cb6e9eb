--------------------------- MODULE MCControlPlane ---------------------------
(***************************************************************************)
(* Topologies for TLC.  A link is named by its ends, as in the simulator.  *)
(***************************************************************************)
EXTENDS ControlPlaneProps

\* c1 -- s1 -- s2 -- h2
HostLineEnds == [c1s1 |-> {"c1", "s1"}, s1s2 |-> {"s1", "s2"}, s2h2 |-> {"s2", "h2"}]

\* A cycle of three switches, a controller at the first, a host at the second.
RingEnds == [c1s1 |-> {"c1", "s1"}, s1s2 |-> {"s1", "s2"}, s2s3 |-> {"s2", "s3"},
             s1s3 |-> {"s1", "s3"}, s2h2 |-> {"s2", "h2"}]
=============================================================================

---------------------------- MODULE MCSimulation ----------------------------
(***************************************************************************)
(* A topology for TLC: a cycle of three switches, a controller and a host  *)
(* at the first and another host at the second.                            *)
(***************************************************************************)
EXTENDS SimulationProps

MCEnds == [c1s1 |-> {"c1", "s1"}, s1s2 |-> {"s1", "s2"}, s2s3 |-> {"s2", "s3"},
           s1s3 |-> {"s1", "s3"}, s1h1 |-> {"s1", "h1"}, s2h2 |-> {"s2", "h2"}]
=============================================================================

---------------------------- MODULE MCExperiment ----------------------------
(***************************************************************************)
(* A topology for TLC: a cycle of three switches with a controller and a   *)
(* host at the first, and at the second another controller and host.       *)
(***************************************************************************)
EXTENDS ExperimentProps

MCEnds == [c1s1 |-> {"c1", "s1"}, s1s2 |-> {"s1", "s2"}, s2s3 |-> {"s2", "s3"},
           s1s3 |-> {"s1", "s3"}, s2c2 |-> {"s2", "c2"},
           s1h1 |-> {"s1", "h1"}, s2h2 |-> {"s2", "h2"}]

\* The network is connected, as the theorems about the experiment suppose.
ASSUME MCWholeNetwork == WholeNetwork
=============================================================================

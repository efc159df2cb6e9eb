--------------------------- MODULE MCCoordinator ----------------------------
(***************************************************************************)
(* A topology for TLC: c1 -- s1 -- s2 -- c2.                               *)
(***************************************************************************)
EXTENDS CoordinatorProps

MCEnds == [c1s1 |-> {"c1", "s1"}, s1s2 |-> {"s1", "s2"}, s2c2 |-> {"s2", "c2"}]
=============================================================================

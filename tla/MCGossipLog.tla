---------------------------- MODULE MCGossipLog ----------------------------
(***************************************************************************)
(* The logs of a few controllers for TLC.                                  *)
(***************************************************************************)
EXTENDS GossipLogProps, TLC

\* Controllers are interchangeable.
Symmetry == Permutations(Controllers)
=============================================================================

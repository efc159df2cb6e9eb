------------------------------- MODULE MCLink -------------------------------
(***************************************************************************)
(* The properties of a link and the values of its constants for TLC.       *)
(***************************************************************************)
EXTENDS LinkProps

MCLatencies == {-2, 1}
=============================================================================

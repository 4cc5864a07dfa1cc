-------------------------- MODULE MCRouterHistory ---------------------------
(***************************************************************************)
(* Instances of RouterHistory for TLC.                                     *)
(***************************************************************************)
EXTENDS RouterHistory

CONSTANTS w1, w2, c1, c2
=============================================================================

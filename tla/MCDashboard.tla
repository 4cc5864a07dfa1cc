---------------------------- MODULE MCDashboard ----------------------------
(***************************************************************************)
(* Instances of Dashboard for TLC.  Nothing tells one connection, or one   *)
(* worker, from another.                                                   *)
(***************************************************************************)
EXTENDS Dashboard, TLC

CONSTANTS c1, c2, w1, w2

Identical == Permutations(Conns) \cup Permutations(Workers)
=============================================================================

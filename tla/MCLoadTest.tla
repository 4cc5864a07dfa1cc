----------------------------- MODULE MCLoadTest -----------------------------
(***************************************************************************)
(* Instances of LoadTest for TLC.                                          *)
(***************************************************************************)
EXTENDS LoadTest

CONSTANTS k1, k2

CallsOfClients == { <<k1, 1>>, <<k1, 2>>, <<k2, 1>> }
=============================================================================

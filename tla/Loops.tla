------------------------------- MODULE Loops -------------------------------
(***************************************************************************)
(* A loop as the sequence of its states.  step maps the state before a     *)
(* round to the state after it, and a state in which the loop is over to   *)
(* itself; the loop is over after n rounds if it needs no more than n.     *)
(***************************************************************************)
EXTENDS Integers

Rounds(step, start) ==
  LET after[n \in Nat] == IF n = 0 THEN start ELSE step[after[n - 1]] IN after
=============================================================================

-------------------------- MODULE MCBatchExecution --------------------------
(***************************************************************************)
(* Instances of BatchExecution for TLC.                                    *)
(***************************************************************************)
EXTENDS BatchExecution

\* Too short for one pixel, for one pixel, for one that spoils its row, and
\* for one more than there are.
FewPayloads == { <<7, 7, 7>>, <<1, 2, 3, 4>>, <<9, 9, 9, 9>>,
                 [k \in 1 .. 12 |-> k] }

HasNine(inputs) == \E j \in DOMAIN inputs : inputs[j] = 9
=============================================================================

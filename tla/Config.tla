------------------------------- MODULE Config -------------------------------
(***************************************************************************)
(* The settings that router and worker read from the environment           *)
(* (pkg/config/config.go), as far as they decide what the processes do.    *)
(* A value in the environment is a number, or a text that is not one; an   *)
(* empty text is the same as no variable.                                  *)
(***************************************************************************)
EXTENDS Integers

Text(s) == [isNumber |-> FALSE, number |-> 0, text |-> s]
Number(n) == [isNumber |-> TRUE, number |-> n, text |-> "number"]
Unset == Text("")

\* Values for one variable: none, a typing error, and numbers out of range;
\* those in range do what the defaults do.
Values == { Unset, Text("typo"), Number(0), Number(-1) }

envInt(value, fallback) == IF value.isNumber THEN value.number ELSE fallback

Environments == [POLL_INTERVAL_MS : Values, MAX_BATCH_SIZE : Values,
                 WORKER_ENDPOINTS : { Unset, Text("hosts") }]

\* Load never fails.  Nothing looks at the range of a number.
Load(env) ==
  [PollInterval |-> envInt(env.POLL_INTERVAL_MS, 500),
   MaxBatchSize |-> envInt(env.MAX_BATCH_SIZE, 32),
   hasEndpoints |-> env.WORKER_ENDPOINTS # Unset]
=============================================================================

------------------------------ MODULE Executor ------------------------------
(***************************************************************************)
(* What the batcher relies on when it calls a GPUExecutor                  *)
(* (pkg/worker/executor/interface.go): one batch at a time, and either an  *)
(* error, or one result per payload, in the order of the payloads, each of *)
(* them computed from its own payload only.                                *)
(***************************************************************************)
EXTENDS Integers, Sequences

CONSTANTS
  Payloads,
  Possible(_)   \* Possible(p): results that p may have

VARIABLES
  batch,   \* the payloads of the call, <<>> between two calls
  reply    \* "none", "error", or <<"ok", results>>

Init == batch = <<>> /\ reply = <<"none">>

ExecuteBatch ==
  /\ batch = <<>>
  /\ batch' \in Seq(Payloads) \ {<<>>}
  /\ UNCHANGED reply

Fail == batch # <<>> /\ reply = <<"none">> /\ reply' = <<"error">> /\ UNCHANGED batch

Succeed ==
  /\ batch # <<>> /\ reply = <<"none">>
  /\ reply'[1] = "ok"
  /\ Len(reply'[2]) = Len(batch)
  /\ \A i \in DOMAIN batch : reply'[2][i] \in Possible(batch[i])
  /\ UNCHANGED batch

Return ==
  /\ reply # <<"none">>
  /\ batch' = <<>> /\ reply' = <<"none">>

Next == ExecuteBatch \/ Fail \/ Succeed \/ Return

Spec == Init /\ [][Next]_<<batch, reply>>
=============================================================================

---------------------------- MODULE OnnxExecutor ----------------------------
(***************************************************************************)
(* The executors of a worker: which one createExecutor gives it            *)
(* (pkg/worker/executor_onnx.go, executor_default.go), how ONNX Runtime is *)
(* brought up (ort_init), and a batch on its way through ExecuteBatch and  *)
(* ort_run_batch (executor/onnx.go) or through the simulation              *)
(* (executor/simulation.go).                                               *)
(*                                                                         *)
(* ONNX Runtime is external: every call of it may fail.  The model is one  *)
(* whose output is a tensor with a row of classes for every image, as      *)
(* ort_run_batch takes for granted.  A row of outputs is represented by    *)
(* the row of inputs that it was computed from.                            *)
(***************************************************************************)
EXTENDS Integers, SequencesExt

CONSTANTS
  Payloads,     \* sequences of bytes
  Pixels,       \* 3 * 224 * 224
  Spoiled(_)    \* Spoiled(row): the outputs for row are not all numbers

ASSUME OnnxAssumption ==
  /\ Pixels \in Nat \ {0}
  /\ \A p \in Payloads : p \in Seq(0 .. 255)

VARIABLES
  loaded,     \* how many Parts of the runtime there are
  executor,   \* "none" before createExecutor returns, "simulated", "onnx"
  step,       \* the batch: "idle", "fill", "tensor", "names", "run",
              \* "copy", "decode", "sleep", "done"
  batch,      \* its payloads, <<>> if there is none
  row,        \* the row that is filled or decoded next, from 0
  inputData,  \* the flat slice of inputs
  results,    \* results so far, <<>> after an error
  held        \* what the runtime has allocated for the batch, or for the
              \* last one if there is none, and what is not released yet

bootVars == <<loaded, executor>>
executorVars == <<bootVars, step, batch, row, inputData, results, held>>

\* ort_init makes them one after the other.
Parts == <<"environment", "options", "session", "memory", "allocator">>

Pad == 128   \* 0.5 of 255

\* The names of the model's input and output, and what comes in place of each
\* if it is not found: a status that says why.
Names == {"input_name", "output_name"}
Statuses == {"input_status", "output_status"}
Holdings == {"tensor", "output"} \cup Names \cup Statuses

ExecutorTypeOK ==
  /\ loaded \in 0 .. Len(Parts)
  /\ executor \in {"none", "simulated", "onnx"}
  /\ step \in {"idle", "fill", "tensor", "names", "run", "copy", "decode",
               "sleep", "done"}
  /\ \A p \in ToSet(batch) : p \in Payloads
  /\ row \in 0 .. Len(batch)
  /\ DOMAIN inputData = 0 .. Len(batch) * Pixels - 1
  /\ \A k \in DOMAIN inputData : inputData[k] \in 0 .. 255
  /\ Len(results) <= Len(batch)
  /\ held \subseteq Holdings

NoInput == [k \in {} |-> 0]

ExecutorInit ==
  /\ loaded = 0
  /\ executor = "none"
  /\ step = "idle" /\ batch = <<>> /\ row = 0
  /\ inputData = NoInput /\ results = <<>> /\ held = {}

-----------------------------------------------------------------------------
(***************************************************************************)
(* createExecutor.                                                         *)
(***************************************************************************)

\* The default build, which does not look at EXECUTOR_TYPE.
UseSimulated ==
  /\ executor = "none" /\ loaded = 0
  /\ executor' = "simulated"
  /\ UNCHANGED <<loaded, step, batch, row, inputData, results, held>>

LoadPart ==
  /\ executor = "none" /\ loaded < Len(Parts)
  /\ loaded' = loaded + 1
  /\ UNCHANGED <<executor, step, batch, row, inputData, results, held>>

\* Mutated form: what ort_init returns is not looked at.
LoadFailsUnnoticed ==
  /\ executor = "none" /\ loaded < Len(Parts)
  /\ executor' = "onnx"
  /\ UNCHANGED <<loaded, step, batch, row, inputData, results, held>>

\* NewONNX returns an error; the parts there are stay allocated.
LoadFails ==
  /\ executor = "none" /\ loaded < Len(Parts)
  /\ executor' = "simulated"
  /\ UNCHANGED <<loaded, step, batch, row, inputData, results, held>>

UseOnnx ==
  /\ executor = "none" /\ loaded = Len(Parts)
  /\ executor' = "onnx"
  /\ UNCHANGED <<loaded, step, batch, row, inputData, results, held>>

Boot == UseSimulated \/ LoadPart \/ LoadFails \/ UseOnnx

-----------------------------------------------------------------------------
(***************************************************************************)
(* ExecuteBatch.                                                           *)
(***************************************************************************)

\* An empty batch is an error.
FirstStep(b) == CASE b = <<>> -> "done"
                  [] executor = "onnx" -> "fill"
                  [] OTHER -> "sleep"

ExecuteBatch(b) ==
  /\ executor # "none" /\ step = "idle"
  /\ batch' = b
  /\ row' = 0
  /\ inputData' = [k \in 0 .. Len(b) * Pixels - 1 |-> 0]
  /\ step' = FirstStep(b)
  /\ held' = {}
  /\ UNCHANGED <<bootVars, results>>

\* The simulation never fails.
Simulate ==
  /\ step = "sleep"
  /\ results' = [i \in DOMAIN batch |-> <<"simulated">>]
  /\ step' = "done"
  /\ UNCHANGED <<bootVars, batch, row, inputData, held>>

\* A quarter of the bytes is used, one for a pixel, as if there were four
\* bytes to each; the comment says that the rest is padded with zeros.
Pixel(payload, j) ==
  IF j < Len(payload) \div 4 THEN payload[(j % Len(payload)) + 1] ELSE Pad

\* One round of a loop over the rows.
ForRow(from, to) ==
  /\ step = from
  /\ IF row + 1 < Len(batch) THEN row' = row + 1 /\ step' = from
                             ELSE row' = 0 /\ step' = to

Offset == row * Pixels

\* Mutated form: the rows overlap.
FillRowOverlapping ==
  /\ ForRow("fill", "tensor")
  /\ inputData' = [k \in DOMAIN inputData |->
       IF k \in row .. row + Pixels - 1
       THEN Pixel(batch[row + 1], k - row) ELSE inputData[k]]
  /\ UNCHANGED <<bootVars, batch, results, held>>

FillRow ==
  /\ ForRow("fill", "tensor")
  /\ inputData' = [k \in DOMAIN inputData |->
       IF k \in Offset .. Offset + Pixels - 1
       THEN Pixel(batch[row + 1], k - Offset) ELSE inputData[k]]
  /\ UNCHANGED <<bootVars, batch, results, held>>

\* ort_run_batch returns a code, and ExecuteBatch an error.
Fail(from) ==
  /\ step = from
  /\ step' = "done"
  /\ results' = <<>>
  /\ UNCHANGED <<bootVars, batch, row, inputData>>

Go(from, to) ==
  /\ step = from
  /\ step' = to
  /\ UNCHANGED <<bootVars, batch, row, inputData, results>>

CreateTensor ==
  \/ Go("tensor", "names") /\ held' = held \cup {"tensor"}
  \/ Fail("tensor") /\ UNCHANGED held

\* Two lookups, either of which may fail; nobody looks at their statuses.
GetNames ==
  /\ Go("names", "run")
  /\ \E input \in {"input_name", "input_status"},
        output \in {"output_name", "output_status"} :
       held' = held \cup {input, output}

\* Mutated form: the names are freed only if both were found.
RunModelFreesPair ==
  \/ /\ Names \subseteq held
     /\ Go("run", "copy")
     /\ held' = (held \ ({"tensor"} \cup Names)) \cup {"output"}
  \/ /\ Fail("run")
     /\ held' = held \ ({"tensor"} \cup IF Names \subseteq held THEN Names ELSE {})

\* Without both names the model cannot run.  Names and tensor are released
\* whether or not it has.
RunModel ==
  \/ /\ Names \subseteq held
     /\ Go("run", "copy")
     /\ held' = (held \ ({"tensor"} \cup Names)) \cup {"output"}
  \/ Fail("run") /\ held' = held \ ({"tensor"} \cup Names)

Copy == Go("copy", "decode") /\ held' = held \ {"output"}

\* Softmax and the five best of a row.  If an output is NaN or plus infinity,
\* or all are minus infinity, the probabilities are NaN; json.Marshal refuses
\* them, its error is ignored, and the result is empty.  Otherwise it also
\* tells the place of the payload in its batch, which is left out.
Decoded(inputs) == IF Spoiled(inputs) THEN <<"empty">> ELSE <<"onnx", inputs>>

DecodeRow ==
  /\ ForRow("decode", "done")
  /\ results' = Append(results,
                       Decoded([j \in 1 .. Pixels |-> inputData[Offset + j - 1]]))
  /\ UNCHANGED <<bootVars, batch, inputData, held>>

\* The batcher goes on with the results, or the error.
Return ==
  /\ step = "done"
  /\ step' = "idle" /\ batch' = <<>> /\ row' = 0
  /\ inputData' = NoInput /\ results' = <<>>
  /\ UNCHANGED <<bootVars, held>>

Advance == Simulate \/ FillRow \/ CreateTensor \/ GetNames \/ RunModel \/ Copy
             \/ DecodeRow

-----------------------------------------------------------------------------
(***************************************************************************)
(* The runtime is only used when all of it is there: a start that fails    *)
(* half-way, after the session has been made, leaves the C globals set,    *)
(* which ort_run_batch would take for a runtime (onnx.go 47-57, 66,        *)
(* executor_onnx.go 21-24).                                                *)
(***************************************************************************)
RuntimeIsComplete ==
  step \in {"fill", "tensor", "names", "run", "copy", "decode"} =>
    loaded = Len(Parts)

(***************************************************************************)
(* Nothing that a batch allocates outlives it, whichever calls fail, except*)
(* for the status of each name that was not found (onnx.go 79-115, 84-85). *)
(* A batch with results leaves nothing at all: those statuses only come    *)
(* with an error.                                                          *)
(***************************************************************************)
BatchesReleaseAll ==
  /\ step \notin {"names", "run", "copy"} => held \subseteq Statuses
  /\ results # <<>> => held = {}

(***************************************************************************)
(* Refinement of Executor: what is predicted for a payload depends neither *)
(* on its place in the batch nor on its neighbours, though all share one   *)
(* slice and one call, and a row that is spoiled spoils no other.          *)
(***************************************************************************)
Image(payload) == [j \in 1 .. Pixels |-> Pixel(payload, j - 1)]

PossibleResults(payload) == {<<"simulated">>, Decoded(Image(payload))}

Contract == INSTANCE Executor WITH
  Possible <- PossibleResults,
  reply <- CASE step # "done" -> <<"none">>
             [] step = "done" /\ results = <<>> -> <<"error">>
             [] OTHER -> <<"ok", results>>

ImplementsExecutor == Contract!Spec
=============================================================================

----------------------------- MODULE DetectLib ------------------------------
(***************************************************************************)
(* The detection library (detect-library/detect.cpp) under its two         *)
(* clients, one per behaviour:                                             *)
(*                                                                         *)
(*   the amlnn element, whose threads call it concurrently                 *)
(*     T  opens the model before every frame until that succeeds,          *)
(*     N  triggers an inference (det_trigger_inference),                   *)
(*     R  fetches the result (det_get_inference_result) when N woke it,    *)
(*     A  the application sets max-detect-num at any time,                 *)
(*     C  stops the element: N and R are joined, the model is released;    *)
(*   detect-sample, which calls it once, in sequence (S).                  *)
(*                                                                         *)
(* The library has one entry per model type; a client uses one type.  The  *)
(* NPU driver library (libnnsdk.so) is external: it is installed, its      *)
(* buffers can be allocated, and it may refuse a model file or an input.   *)
(***************************************************************************)
EXTENDS Integers

CONSTANTS
  DETECT_NUM,       \* the least number det_set_param takes, and the first one
  MAX_DETECT_NUM,   \* the largest
  MaxFailures,      \* bound: how many models cannot be created
  MaxFrames,        \* bound: how many inferences are triggered
  MaxSettings       \* bound: how often max-detect-num is set

ASSUME NumberAssumption ==
  /\ DETECT_NUM \in Nat /\ MAX_DETECT_NUM \in Nat
  /\ DETECT_NUM <= MAX_DETECT_NUM

Numbers == DETECT_NUM .. MAX_DETECT_NUM

VARIABLES
  client,      \* "element" or "sample"
  hw_type,     \* the hardware: "vsi" or "adla"
  chip,        \* its customID or platform_type: 0 .. 3, where 3 is unknown
  mtype,       \* the model type the client uses
  status,      \* network[mtype].status
  context,     \* network[mtype].context: the file it was created from, or NoFile
  handles,     \* references to libnnsdk.so that dlopen gave out
  buffers,     \* NPU buffers that are allocated
  number,      \* g_detect_number
  failures,    \* history: how many calls of det_set_model failed
  outset,      \* the driver was told, since module_create, where outputs go
  refused,     \* history: an input was refused
  early,       \* history: a round of N without an inference came before that
  pc,          \* place of each thread
  max_num,     \* the element's max_detect_num
  param_num,   \* the element's face_det.param
  copied,      \* the param each of T and A is passing to det_set_param
  raced,       \* history: A last set the number while T was setting it
  wanted,      \* history: the number that the application last asked for
  ignored,     \* history: it asked for that before the model was open
  settings,    \* how often A set it
  frames,      \* how many inferences were triggered
  woken        \* m_pp_thread.m_ready: N woke R

libVars    == <<status, context, handles, buffers, failures>>
outVars    == <<outset, refused, early>>
numVars    == <<max_num, param_num, copied, raced, wanted, ignored, settings>>
fixed      == <<client, hw_type, chip, mtype>>
vars == <<fixed, libVars, number, outVars, pc, numVars, frames, woken>>

NoFile == "none"

Goto(t, from, to) == pc[t] = from /\ pc' = [pc EXCEPT ![t] = to]

\* check_and_set_dev_type: an unknown chip leaves g_dev_type as it was built.
DevType ==
  IF hw_type = "vsi" THEN <<"DEV_REVA", "DEV_REVB", "DEV_SM1", "DEV_A311D2">>[chip + 1]
  ELSE <<"DEV_C308", "DEV_AX201", "DEV_A311D2", "DEV_A311D2">>[chip + 1]

\* det_get_model_name: there is no file for a type of the other hardware.
ModelFile ==
  IF hw_type = "vsi" /\ DevType = "DEV_A311D2" THEN NoFile ELSE DevType

\* The buffers of a network: on VSI the input and three outputs of yolo, and
\* none for faces; on ADLA the input.
Buffers ==
  IF hw_type = "adla" THEN 1 ELSE IF mtype = "DET_YOLO_V3" THEN 4 ELSE 0

\* Those allocated before module_create.
BuffersBefore == IF hw_type = "vsi" THEN Buffers ELSE 0

Init ==
  /\ client \in {"element", "sample"}
  /\ hw_type \in {"vsi", "adla"} /\ chip \in 0 .. 3
  /\ mtype \in {"DET_YOLO_V3", "DET_AML_FACE_DETECTION"}
  /\ status = "UNINIT" /\ context = NoFile /\ handles = 0 /\ buffers = 0
  /\ failures = 0 /\ number = DETECT_NUM
  /\ outset = FALSE /\ refused = FALSE /\ early = FALSE
  /\ pc = [T |-> IF client = "element" THEN "open" ELSE "off",
           N |-> "idle", R |-> "idle", A |-> "idle", C |-> "run",
           S |-> IF client = "sample" THEN "open" ELSE "off"]
  /\ max_num = DETECT_NUM /\ param_num = DETECT_NUM
  /\ copied = [T |-> DETECT_NUM, A |-> DETECT_NUM]
  /\ raced = FALSE /\ wanted = DETECT_NUM /\ ignored = FALSE /\ settings = 0
  /\ frames = 0 /\ woken = FALSE

-----------------------------------------------------------------------------
(* The library's functions.                                                *)

\* det_set_model; what an attempt that failed allocated is overwritten, and
\* never given back.
SetModel ==
  /\ ModelFile # NoFile
  /\ handles' = handles + 1
  /\ buffers' = buffers + Buffers
  /\ context' = ModelFile
  /\ status' = "INIT"
  /\ outset' = FALSE
  /\ UNCHANGED failures

\* module_create fails: there is no such file, or the driver refuses it.
SetModelFails ==
  /\ failures < MaxFailures
  /\ failures' = failures + 1
  /\ handles' = handles + 1
  /\ buffers' = buffers + BuffersBefore
  /\ context' = NoFile
  /\ UNCHANGED <<status, outset>>

\* Variant: the largest number is refused.
SetParamExclusive(n) ==
  number' = IF status # "UNINIT" /\ n >= DETECT_NUM /\ n < MAX_DETECT_NUM
            THEN n ELSE number

\* det_set_param.
SetParam(n) ==
  number' = IF status # "UNINIT" /\ n \in Numbers THEN n ELSE number

\* Variant: the result of module_input_set is not followed by the new status.
SetInputKeepsStatus ==
  \/ refused' = refused /\ UNCHANGED status
  \/ refused' = TRUE /\ UNCHANGED status

\* det_set_input and det_set_input_to_NPU.
SetInput ==
  \/ status' = "PREPARING" /\ UNCHANGED refused
  \/ refused' = TRUE /\ UNCHANGED status

\* Variant: the first output buffer is not freed.
ReleaseModelKeepsOne ==
  /\ status # "UNINIT"
  /\ buffers' = buffers - (IF Buffers = 4 THEN 3 ELSE Buffers)
  /\ context' = NoFile /\ handles' = handles - 1
  /\ status' = "UNINIT"
  /\ UNCHANGED failures

\* det_release_model, for a model that is there.
ReleaseModel ==
  /\ status # "UNINIT"
  /\ buffers' = buffers - Buffers
  /\ context' = NoFile /\ handles' = handles - 1
  /\ status' = "UNINIT"
  /\ UNCHANGED failures

-----------------------------------------------------------------------------
(* T: detection_init, once per frame until the model is open.              *)

TOpen ==
  /\ pc["C"] = "run"
  /\ Goto("T", "open", "param")
  /\ SetModel
  /\ UNCHANGED <<fixed, number, refused, early, numVars, frames, woken>>

\* The parameters are set all the same, which the library refuses; the frame
\* goes on without a model, and the next one tries again.
TOpenFails ==
  /\ pc["T"] = "open" /\ pc["C"] = "run"
  /\ SetModelFails
  /\ param_num' = max_num
  /\ UNCHANGED <<fixed, number, refused, early, pc, max_num, copied, raced,
                 wanted, ignored, settings, frames, woken>>

TParam ==
  /\ Goto("T", "param", "copy")
  /\ param_num' = max_num
  /\ UNCHANGED <<fixed, libVars, number, outVars, max_num, copied, raced,
                 wanted, ignored, settings, frames, woken>>

TCopy ==
  /\ Goto("T", "copy", "call")
  /\ copied' = [copied EXCEPT !["T"] = param_num]
  /\ UNCHANGED <<fixed, libVars, number, outVars, max_num, param_num, raced,
                 wanted, ignored, settings, frames, woken>>

TSetParam ==
  /\ Goto("T", "call", "open_done")
  /\ SetParam(copied["T"])
  /\ UNCHANGED <<fixed, libVars, outVars, numVars, frames, woken>>

-----------------------------------------------------------------------------
(* A: gst_aml_nn_set_property of max-detect-num, whether or not the        *)
(* element is open.                                                        *)

Initialized == pc["T"] \in {"param", "copy", "call", "open_done"}

ASet(n) ==
  /\ Goto("A", "idle", "copy")
  /\ settings < MaxSettings
  /\ Initialized /\ n # max_num
  /\ max_num' = n /\ param_num' = n
  /\ settings' = settings + 1
  /\ raced' = (pc["T"] # "open_done")
  /\ wanted' = n /\ ignored' = FALSE
  /\ UNCHANGED <<fixed, libVars, number, outVars, copied, frames, woken>>

\* Nothing is to be done for the number that is set already, and nothing is
\* done before the model is open or after it was closed.
ASetNothing(n) ==
  /\ pc["A"] = "idle"
  /\ client = "element" /\ settings < MaxSettings
  /\ ~Initialized \/ n = max_num
  /\ settings' = settings + 1
  /\ wanted' = n /\ ignored' = (n # max_num)
  /\ UNCHANGED <<fixed, libVars, number, outVars, pc, max_num, param_num,
                 copied, raced, frames, woken>>

ACopy ==
  /\ Goto("A", "copy", "call")
  /\ copied' = [copied EXCEPT !["A"] = param_num]
  /\ UNCHANGED <<fixed, libVars, number, outVars, max_num, param_num, raced,
                 wanted, ignored, settings, frames, woken>>

ASetParam ==
  /\ Goto("A", "call", "idle")
  /\ SetParam(copied["A"])
  /\ UNCHANGED <<fixed, libVars, outVars, numVars, frames, woken>>

-----------------------------------------------------------------------------
(* N: detection_process and det_trigger_inference, which looks at none of  *)
(* its steps' results.                                                     *)

NInput ==
  /\ Goto("N", "idle", "output")
  /\ pc["T"] = "open_done" /\ pc["C"] = "run"
  /\ frames < MaxFrames
  /\ frames' = frames + 1
  /\ SetInput
  /\ UNCHANGED <<fixed, context, handles, buffers, failures, number, outset,
                 early, numVars, woken>>

\* The input buffer cannot be mapped: this round of N infers nothing.
NMapFails ==
  /\ Goto("N", "idle", "wake")
  /\ pc["T"] = "open_done" /\ pc["C"] = "run"
  /\ frames < MaxFrames
  /\ frames' = frames + 1
  /\ early' = (early \/ ~outset)
  /\ UNCHANGED <<fixed, libVars, number, outset, refused, numVars, woken>>

\* det_set_output_to_NPU, which needs PREPARING.
NOutput ==
  /\ Goto("N", "output", "infer")
  /\ outset' = (outset \/ status = "PREPARING")
  /\ UNCHANGED <<fixed, libVars, number, refused, early, numVars, frames, woken>>

\* AML_PERF_INFERENCE.
NInfer ==
  /\ Goto("N", "infer", "wake")
  /\ UNCHANGED <<fixed, libVars, number, outVars, numVars, frames, woken>>

\* Every round of N wakes R, with or without an inference, unless R holds its
\* mutex.
NWake ==
  /\ Goto("N", "wake", "idle")
  /\ woken' \in {woken, TRUE}
  /\ UNCHANGED <<fixed, libVars, number, outVars, numVars, frames>>

-----------------------------------------------------------------------------
(* R: det_get_inference_result, which looks at no status.                  *)

\* Once the element is being closed, m_running keeps R from another round.
RTake ==
  /\ Goto("R", "idle", "report")
  /\ woken /\ pc["C"] = "run"
  /\ woken' = FALSE
  /\ UNCHANGED <<fixed, libVars, number, outVars, numVars, frames>>

\* A network that reports nothing at all leaves the status alone.
RNothing ==
  /\ Goto("R", "report", "idle")
  /\ UNCHANGED <<fixed, libVars, number, outVars, numVars, frames, woken>>

\* The status after post_process.
RProcessed ==
  /\ Goto("R", "report", "idle")
  /\ status' = "PROCESSING"
  /\ UNCHANGED <<fixed, context, handles, buffers, failures, number, outVars,
                 numVars, frames, woken>>

-----------------------------------------------------------------------------
(* C: gst_aml_nn_close; N and R finish the round they are in, while the    *)
(* application may still be setting the number.                            *)

CStop ==
  /\ client = "element"
  /\ Goto("C", "run", "release")
  /\ pc["T"] \in {"open", "open_done"}
  /\ UNCHANGED <<fixed, libVars, number, outVars, numVars, frames, woken>>

\* close_model does nothing for a model that was never open.
CRelease ==
  /\ pc["C"] = "release"
  /\ pc["N"] = "idle" /\ pc["R"] = "idle"
  /\ pc' = [pc EXCEPT !["C"] = "end", !["T"] = "off"]
  /\ IF pc["T"] = "open_done" THEN ReleaseModel ELSE UNCHANGED libVars
  /\ UNCHANGED <<fixed, number, outVars, numVars, frames, woken>>

-----------------------------------------------------------------------------
(* S: run_detect_model of detect-sample.                                   *)

SOpen ==
  /\ Goto("S", "open", "input")
  /\ SetModel
  /\ UNCHANGED <<fixed, number, refused, early, numVars, frames, woken>>

SOpenFails ==
  /\ Goto("S", "open", "end")
  /\ SetModelFails
  /\ UNCHANGED <<fixed, number, refused, early, numVars, frames, woken>>

SInput ==
  /\ pc["S"] = "input"
  /\ SetInput
  /\ pc' = [pc EXCEPT !["S"] = IF status' = "PREPARING" THEN "infer" ELSE "release"]
  /\ UNCHANGED <<fixed, context, handles, buffers, failures, number, outset,
                 early, numVars, frames, woken>>

\* det_get_result: output, inference and report in one call; a network that
\* reports nothing at all leaves the status alone.
SResult ==
  /\ status = "PREPARING"
  /\ Goto("S", "infer", "release")
  /\ outset' = TRUE
  /\ status' \in {status, "PROCESSING"}
  /\ UNCHANGED <<fixed, context, handles, buffers, failures, number, refused,
                 early, numVars, frames, woken>>

SRelease ==
  /\ Goto("S", "release", "end")
  /\ ReleaseModel
  /\ UNCHANGED <<fixed, number, outVars, numVars, frames, woken>>

-----------------------------------------------------------------------------
TNext == TOpen \/ TOpenFails \/ TParam \/ TCopy \/ TSetParam
ANext == (\E n \in Numbers : ASet(n) \/ ASetNothing(n)) \/ ACopy \/ ASetParam
NNext == NInput \/ NMapFails \/ NOutput \/ NInfer \/ NWake
RNext == RTake \/ RNothing \/ RProcessed
CNext == CStop \/ CRelease
SNext == SOpen \/ SOpenFails \/ SInput \/ SResult \/ SRelease

Next == TNext \/ ANext \/ NNext \/ RNext \/ CNext \/ SNext

Spec == Init /\ [][Next]_vars

-----------------------------------------------------------------------------
\* R stores PROCESSING while N is between its input and its output, and then
\* det_set_output_to_NPU does nothing.  Once the driver has been told where
\* the outputs go that does no harm; before, an inference without outputs
\* takes a refused input, or a round that could not map its buffer and woke R
\* all the same: nothing else does it, however the threads interleave.
OutputsSetBeforeInference ==
  pc["N"] = "infer" /\ ~refused /\ ~early => outset

\* The library's number is the one that the application last asked for, and the
\* one the element remembers, except when it asked before the model was open
\* (set_property drops that) or last while detection_init was passing on the
\* old one.
AgreeOnTheNumber ==
  pc["T"] = "open_done" /\ pc["A"] = "idle" /\ ~raced =>
    /\ number = max_num /\ param_num = max_num
    /\ ignored \/ wanted = max_num

\* When no model is loaded, all that is left is what failed calls of
\* det_set_model lost: one reference to the driver library each, and on VSI the
\* four buffers of yolo.
OnlyFailuresLeak ==
  status = "UNINIT" =>
    /\ handles = failures
    /\ buffers = failures * BuffersBefore
    /\ context = NoFile
=============================================================================

------------------------------- MODULE AmlNN --------------------------------
(***************************************************************************)
(* The amlnn element (gst-plugin-nn/src/gstamlnn.c): the input-buffer ring *)
(* of NNRing with everything around it.                                    *)
(*                                                                         *)
(*   T  the streaming thread also opens the model and allocates the input  *)
(*      buffers (detection_init), before every frame;                      *)
(*   N  the nn thread wakes the post-process thread after every round;     *)
(*   P  the post-process thread (amlnn_post_process) fetches the result    *)
(*      and pushes it to the overlay;                                      *)
(*   C  starts and stops the element (gst_aml_nn_open, gst_aml_nn_close);  *)
(*   A  the application sets the detection-model property at any time;     *)
(*   I  the main loop runs idle_close_model for a model that is in use.    *)
(*                                                                         *)
(* The steps of T, N, C and I that touch the ring are those of NNRing.     *)
(* gst_memory_map fails on a buffer that is not there, and may fail, as    *)
(* the inference may, on one that is (MapFail).                            *)
(***************************************************************************)
EXTENDS NNRing, Sequences

CONSTANTS
  Models,          \* the models that detection-model can name
  NoModel,         \* not a model
  InitMayFail,     \* whether opening a model or allocating a buffer can fail
  MaxSwitches,     \* bound: how often the property is set
  MaxSessions      \* bound: how often the element is started

ASSUME ModelsAssumption ==
  /\ Models # {} /\ NoModel \notin Models
  /\ InitMayFail \in BOOLEAN
  /\ MaxSwitches \in Nat /\ MaxSessions \in Nat
  /\ MapMayFail /\ (Switching <=> MaxSwitches > 0)

VARIABLES
  init_pc,       \* T's place in detection_init
  ppc,           \* P's place in amlnn_post_process
  pp_ready,      \* m_pp_thread.m_ready
  pp_mutex,      \* holder of m_pp_thread.m_mutex: "free" or "pp"
  pp_running,    \* m_pp_thread.m_running
  pr_ready,      \* pr_ready: may results be pushed
  epc,           \* C's place in the life of the element
  sessions,      \* how often the element has been started
  model,         \* face_det.model
  initialized,   \* face_det.initialized
  dims,          \* the model whose size face_det.width and height hold
  memory,        \* the model each input buffer was allocated for, or NoModel
  filled,        \* history: buffers converted into since they were allocated
  loaded,        \* models created in the detection library
  pending,       \* idle_close_model sources queued: the new models
  ipc,           \* I's place in idle_close_model
  switches       \* how often the property was set

ppVars    == <<ppc, pp_ready, pp_mutex>>
runVars   == <<pp_running, pr_ready, epc, sessions>>
modelVars == <<model, initialized, dims, loaded>>
memVars   == <<memory, filled>>
idleVars  == <<pending, ipc>>
elementVars ==
  <<vars, init_pc, ppVars, runVars, modelVars, memVars, idleVars, switches>>

NoBuffers == [b \in Buffers |-> NoModel]

ElementInit ==
  /\ Init
  /\ init_pc = "none"
  /\ ppc = "off" /\ pp_ready = FALSE /\ pp_mutex = "free"
  /\ pp_running = FALSE /\ pr_ready = TRUE /\ epc = "null" /\ sessions = 0
  /\ model \in Models /\ initialized = FALSE /\ dims = NoModel /\ loaded = {}
  /\ memory = NoBuffers /\ filled = {}
  /\ pending = << >> /\ ipc = "none" /\ switches = 0

-----------------------------------------------------------------------------
(* T: gst_aml_nn_transform_ip, with detection_init before the ring.        *)

Streaming == epc \in {"playing", "overlay_stopped"}

TBegin ==
  /\ Streaming /\ tpc = "idle" /\ init_pc = "none"
  /\ init_pc' = IF initialized THEN "alloc" ELSE "open"
  /\ UNCHANGED <<vars, ppVars, runVars, modelVars, memVars, idleVars, switches>>

\* det_set_model, det_get_param, det_get_model_size.
TOpenModel ==
  /\ init_pc = "open"
  /\ init_pc' = "alloc"
  /\ loaded' = loaded \cup {model}
  /\ dims' = model
  /\ initialized' = TRUE
  /\ UNCHANGED <<vars, ppVars, runVars, model, memVars, idleVars, switches>>

\* The result of detection_init is not looked at: T goes on to the ring.
TOpenFails ==
  /\ InitMayFail
  /\ init_pc = "open"
  /\ init_pc' = "ready"
  /\ UNCHANGED <<vars, ppVars, runVars, modelVars, memVars, idleVars, switches>>

\* Variant: the last of the n buffers is left out.
AllocateOneLess(n) ==
  LET new == {b \in Buffers : b < n - 1 /\ memory[b] = NoModel} IN
  /\ memory' = [b \in Buffers |-> IF b \in new THEN dims ELSE memory[b]]
  /\ filled' = filled \ new

\* The first n buffers have memory afterwards; n < NN_BUF_CNT when an
\* allocation fails.
Allocate(n) ==
  LET new == {b \in Buffers : b < n /\ memory[b] = NoModel} IN
  /\ memory' = [b \in Buffers |-> IF b \in new THEN dims ELSE memory[b]]
  /\ filled' = filled \ new

TAllocate ==
  /\ init_pc = "alloc"
  /\ init_pc' = "ready"
  /\ \E n \in IF InitMayFail THEN 0 .. NN_BUF_CNT ELSE {NN_BUF_CNT} : Allocate(n)
  /\ UNCHANGED <<vars, ppVars, runVars, modelVars, idleVars, switches>>

TChoose ==
  /\ init_pc = "ready"
  /\ init_pc' = "none"
  /\ Refuse \/ Accept
  /\ UNCHANGED <<ppVars, runVars, modelVars, memVars, idleVars, switches>>

TConvert ==
  /\ Convert
  /\ filled' = IF memory[w_idx] # NoModel THEN filled \cup {w_idx} ELSE filled
  /\ UNCHANGED <<init_pc, ppVars, runVars, modelVars, memory, idleVars, switches>>

TOther ==
  /\ ConvertFail \/ Publish \/ Signal
  /\ UNCHANGED <<init_pc, ppVars, runVars, modelVars, memVars, idleVars, switches>>

-----------------------------------------------------------------------------
(* N: amlnn_process.                                                       *)

\* Index -1 reads what lies before nn_input: no memory to map there either.
Mappable(i) == i \in Buffers /\ memory[i] # NoModel

\* The early returns of detection_process: the buffer cannot be mapped, whether
\* it is there or not, or det_trigger_inference fails on it.  cur_nn_idx goes on
\* naming it.
MapFail ==
  /\ NMapFail
  /\ UNCHANGED <<init_pc, ppVars, runVars, modelVars, memVars, idleVars, switches>>

Infer ==
  /\ Mappable(nn_idx)
  /\ NInfer
  /\ UNCHANGED <<init_pc, ppVars, runVars, modelVars, memVars, idleVars, switches>>

\* "wake up pp thread to work", whatever became of the inference, unless the
\* mutex is taken.
Notify ==
  /\ NNotify
  /\ pp_ready' = (pp_ready \/ pp_mutex = "free")
  /\ UNCHANGED <<init_pc, ppc, pp_mutex, runVars, modelVars, memVars, idleVars, switches>>

NOther ==
  /\ \/ NContinue \/ NExit \/ NLock \/ NSleep \/ NWake
     \/ NStop \/ NTake \/ NClaim \/ NRelease
  /\ UNCHANGED <<init_pc, ppVars, runVars, modelVars, memVars, idleVars, switches>>

-----------------------------------------------------------------------------
(* P: amlnn_post_process.                                                  *)

PStep(from, to) ==
  /\ ppc = from
  /\ ppc' = to
  /\ UNCHANGED <<vars, init_pc, runVars, modelVars, memVars, idleVars, switches>>

PContinue ==
  /\ PStep("loop", IF pp_running THEN "lock" ELSE "off")
  /\ UNCHANGED <<pp_ready, pp_mutex>>

\* Variant: the post-process thread locks the nn thread's mutex.
PLockWrongMutex ==
  /\ ppc = "lock" /\ m_mutex = "free"
  /\ ppc' = "locked"
  /\ m_mutex' = "nn"
  /\ UNCHANGED <<next_nn_idx, cur_nn_idx, prepare_idx, m_ready, tpc, w_idx,
                 npc, nn_idx, cpc, init_pc, pp_ready, pp_mutex, runVars,
                 modelVars, memVars, idleVars, switches>>

PLock ==
  /\ pp_mutex = "free"
  /\ PStep("lock", "locked")
  /\ pp_mutex' = "pp"
  /\ UNCHANGED pp_ready

PSleep ==
  /\ ~pp_ready
  /\ PStep("locked", "asleep")
  /\ pp_mutex' = "free"
  /\ UNCHANGED pp_ready

PWake ==
  /\ pp_ready /\ pp_mutex = "free"
  /\ PStep("asleep", "locked")
  /\ pp_mutex' = "pp"
  /\ UNCHANGED pp_ready

PStop ==
  /\ pp_ready /\ ~pp_running
  /\ PStep("locked", "loop")
  /\ pp_mutex' = "free"
  /\ UNCHANGED pp_ready

\* Variant: the mutex is kept while the result is fetched and pushed.
PTakeKeepsMutex ==
  /\ pp_ready /\ pp_running
  /\ PStep("locked", "get")
  /\ pp_ready' = FALSE
  /\ UNCHANGED pp_mutex

PTake ==
  /\ pp_ready /\ pp_running
  /\ PStep("locked", "get")
  /\ pp_ready' = FALSE
  /\ pp_mutex' = "free"

\* det_get_inference_result; m_running is looked at again before the push.
PGet ==
  /\ PStep("get", IF pp_running THEN "push" ELSE "loop")
  /\ UNCHANGED <<pp_ready, pp_mutex>>

\* push_result: an event to the overlay if pr_ready, nothing otherwise.
PPush ==
  /\ PStep("push", "loop")
  /\ UNCHANGED <<pp_ready, pp_mutex>>

-----------------------------------------------------------------------------
(* C: start, the overlay's change of state, and stop.                      *)

LifeStep(from, to) ==
  /\ epc = from
  /\ epc' = to
  /\ UNCHANGED <<init_pc, idleVars, switches>>

COpen ==
  /\ sessions < MaxSessions
  /\ Open
  /\ LifeStep("null", "opening")
  /\ sessions' = sessions + 1
  /\ UNCHANGED <<ppVars, pp_running, pr_ready, modelVars, memVars>>

COpenPP ==
  /\ LifeStep("opening", "playing")
  /\ ppc' = "loop" /\ pp_running' = TRUE
  /\ UNCHANGED <<vars, pp_ready, pp_mutex, pr_ready, sessions, modelVars, memVars>>

\* The overlay goes from PAUSED to READY before amlnn does and sends
\* gstamlnnoverlay-change-state upstream.
COverlayStops ==
  /\ LifeStep("playing", "overlay_stopped")
  /\ pr_ready' = FALSE
  /\ UNCHANGED <<vars, ppVars, pp_running, sessions, modelVars, memVars>>

CStop ==
  /\ init_pc = "none"
  /\ Stop
  /\ LifeStep("overlay_stopped", "stopping")
  /\ UNCHANGED <<ppVars, pp_running, pr_ready, sessions, modelVars, memVars>>

CStopPP ==
  /\ LifeStep("stopping", "stopped")
  /\ pp_running' = FALSE
  /\ UNCHANGED <<vars, ppVars, pr_ready, sessions, modelVars, memVars>>

CWakeNN ==
  /\ WakeToStop
  /\ LifeStep("stopped", "join_nn")
  /\ UNCHANGED <<ppVars, pp_running, pr_ready, sessions, modelVars, memVars>>

\* Variant: the nn thread is told to stop and not waited for.
CJoinNNAtOnce ==
  /\ LifeStep("join_nn", "wake_pp")
  /\ UNCHANGED <<vars, ppVars, pp_running, pr_ready, sessions, modelVars, memVars>>

CJoinNN ==
  /\ Join
  /\ LifeStep("join_nn", "wake_pp")
  /\ UNCHANGED <<ppVars, pp_running, pr_ready, sessions, modelVars, memVars>>

\* Variant: the post-process thread is signalled without m_ready being set.
CWakePPWithoutReady ==
  /\ pp_mutex = "free"
  /\ LifeStep("wake_pp", "join_pp")
  /\ UNCHANGED <<vars, ppVars, pp_running, pr_ready, sessions, modelVars, memVars>>

CWakePP ==
  /\ pp_mutex = "free"
  /\ LifeStep("wake_pp", "join_pp")
  /\ pp_ready' = TRUE
  /\ UNCHANGED <<vars, ppc, pp_mutex, pp_running, pr_ready, sessions, modelVars, memVars>>

\* Variant: the post-process thread is told to stop and not waited for.
CJoinPPAtOnce ==
  /\ LifeStep("join_pp", IF initialized THEN "free" ELSE "null")
  /\ UNCHANGED <<vars, ppVars, pp_running, pr_ready, sessions, modelVars, memVars>>

CJoinPP ==
  /\ ppc = "off"
  /\ LifeStep("join_pp", IF initialized THEN "free" ELSE "null")
  /\ UNCHANGED <<vars, ppVars, pp_running, pr_ready, sessions, modelVars, memVars>>

\* Variant: the last buffer is forgotten.
FreeAllButOne ==
  /\ memory' = [b \in Buffers |-> IF b + 1 = NN_BUF_CNT THEN memory[b] ELSE NoModel]
  /\ filled' = {}

\* close_model, first half: the input buffers.
FreeBuffers ==
  /\ memory' = NoBuffers
  /\ filled' = {}

\* close_model, second half: det_release_model.
ReleaseModel ==
  /\ loaded' = loaded \ {model}
  /\ initialized' = FALSE

CFree ==
  /\ LifeStep("free", "release")
  /\ FreeBuffers
  /\ UNCHANGED <<vars, ppVars, pp_running, pr_ready, sessions, modelVars>>

CRelease ==
  /\ LifeStep("release", "null")
  /\ ReleaseModel
  /\ UNCHANGED <<vars, ppVars, pp_running, pr_ready, sessions, model, dims, memVars>>

-----------------------------------------------------------------------------
(* A: gst_aml_nn_set_property of detection-model.                          *)

ASetModel(m) ==
  /\ switches < MaxSwitches
  /\ m # model
  /\ switches' = switches + 1
  /\ IF initialized
     THEN pending' = Append(pending, m) /\ UNCHANGED model
     ELSE model' = m /\ UNCHANGED pending
  /\ UNCHANGED <<vars, init_pc, ppVars, runVars, initialized, dims, loaded,
                 memVars, ipc>>

-----------------------------------------------------------------------------
(* I: idle_close_model, from the main loop, under both threads' m_mutex.   *)

IStep(from, to) ==
  /\ ipc = from
  /\ ipc' = to
  /\ UNCHANGED <<init_pc, ppVars, runVars, switches>>

IBegin ==
  /\ pending # << >>
  /\ IdleLock
  /\ IStep("none", "check")
  /\ UNCHANGED <<pending, modelVars, memVars>>

\* Both threads stopped: the callback returns, and keeps the mutex.
IGiveUp ==
  /\ ~m_running /\ ~pp_running
  /\ IStep("check", "none")
  /\ pending' = Tail(pending)
  /\ UNCHANGED <<vars, modelVars, memVars>>

ICheck ==
  /\ m_running \/ pp_running
  /\ IStep("check", IF initialized THEN "free" ELSE "set")
  /\ UNCHANGED <<vars, pending, modelVars, memVars>>

IFree ==
  /\ IStep("free", "release")
  /\ FreeBuffers
  /\ UNCHANGED <<vars, pending, modelVars>>

IRelease ==
  /\ IStep("release", "set")
  /\ ReleaseModel
  /\ UNCHANGED <<vars, pending, model, dims, memVars>>

ISet ==
  /\ IStep("set", "end")
  /\ model' = Head(pending)
  /\ UNCHANGED <<vars, pending, initialized, dims, loaded, memVars>>

\* The pp mutex is locked and unlocked around a push that only DET_BUTT asks
\* for; then the nn mutex is given back.
IEnd ==
  /\ pp_mutex = "free"
  /\ IdleUnlock
  /\ IStep("end", "none")
  /\ pending' = Tail(pending)
  /\ UNCHANGED <<modelVars, memVars>>

-----------------------------------------------------------------------------
TFrame == TOpenModel \/ TOpenFails \/ TAllocate \/ TChoose \/ TConvert \/ TOther
NSteps == MapFail \/ Infer \/ Notify \/ NOther
PNext  == \/ PContinue \/ PLock \/ PSleep \/ PWake \/ PStop \/ PTake \/ PGet
          \/ PPush
COpens == COpen \/ COverlayStops
CClose == \/ COpenPP \/ CStop \/ CStopPP \/ CWakeNN \/ CJoinNN \/ CWakePP
          \/ CJoinPP \/ CFree \/ CRelease
ISteps == \/ IBegin \/ IGiveUp \/ ICheck \/ IFree \/ IRelease \/ ISet \/ IEnd

ElementNext ==
  \/ TBegin \/ TFrame \/ NSteps \/ PNext \/ COpens \/ CClose \/ ISteps
  \/ \E m \in Models : ASetModel(m)

ElementSpec == ElementInit /\ [][ElementNext]_elementVars

(***************************************************************************)
(* Fairness: each thread takes a step in the end if it can, the main loop  *)
(* included; a start or a stop that has begun goes on.  Nothing obliges    *)
(* the application to start, stop or switch, nor the source to deliver.    *)
(***************************************************************************)
ElementFairness ==
  /\ WF_elementVars(TFrame) /\ WF_elementVars(NSteps) /\ WF_elementVars(PNext)
  /\ WF_elementVars(CClose) /\ WF_elementVars(ISteps)

FairElementSpec == ElementSpec /\ ElementFairness

\* Everybody also gets a mutex that he asks for again and again.
LocksAreFair ==
  /\ SF_elementVars(NOther /\ npc = "lock") /\ SF_elementVars(NOther /\ npc = "asleep")
  /\ SF_elementVars(PLock)
  /\ SF_elementVars(PWake) /\ SF_elementVars(CWakeNN) /\ SF_elementVars(CWakePP)
  /\ SF_elementVars(IBegin) /\ SF_elementVars(IEnd)

LockFairSpec == FairElementSpec /\ LocksAreFair

\* The source keeps delivering frames, and now and then one can be mapped.
BusyElementSpec == FairElementSpec /\ WF_elementVars(TBegin) /\ SF_elementVars(TConvert)

-----------------------------------------------------------------------------
\* Every variable has a value of its type.
ElementTypeOK ==
  /\ TypeOK
  /\ init_pc \in {"none", "open", "alloc", "ready"}
  /\ ppc \in {"off", "loop", "lock", "locked", "asleep", "get", "push"}
  /\ pp_ready \in BOOLEAN /\ pp_mutex \in {"free", "pp"}
  /\ pp_running \in BOOLEAN /\ pr_ready \in BOOLEAN
  /\ epc \in {"null", "opening", "playing", "overlay_stopped", "stopping",
              "stopped", "join_nn", "wake_pp", "join_pp", "free", "release"}
  /\ sessions \in 0 .. MaxSessions
  /\ model \in Models /\ initialized \in BOOLEAN
  /\ dims \in Models \cup {NoModel} /\ loaded \subseteq Models
  /\ memory \in [Buffers -> Models \cup {NoModel}] /\ filled \subseteq Buffers
  /\ pending \in Seq(Models)
  /\ ipc \in {"none", "check", "free", "release", "set", "end"}
  /\ switches \in 0 .. MaxSwitches

\* The element's threads use the ring as NNRing says: loading a model,
\* allocating and freeing the buffers, post-processing and starting again
\* never move an index or a thread of the ring any other way.
RingSpec == Spec

\* When the element stops (CFree), no buffer's memory is freed while GE2D fills
\* the buffer or the network reads it.  This is said of the stop alone: a switch
\* of the model (IFree) has neither thread's work to wait for.
NoBufferFreedInUse ==
  [][\A b \in Buffers : CFree /\ memory[b] # NoModel =>
       /\ ~(npc = "infer" /\ nn_idx = b)
       /\ ~(tpc = "convert" /\ w_idx = b)]_elementVars

\* Stop leaves m_ready TRUE and the indices as they are, so that the threads of
\* the next session go to work before any frame has come: what they need is
\* promised for the first session only.
FirstSession == sessions = 1

\* In the first session the network never runs on a buffer that nothing has been
\* converted into since it was allocated: no result comes from uninitialised
\* memory.  Two or three buffers; N's move of prepare_idx leads T to publish a
\* fourth unfilled.
InfersOnConvertedFrame ==
  [][Infer /\ FirstSession => nn_idx \in filled]_elementVars

\* In the first session the post-process thread asks the library for a result,
\* and the nn thread for an inference, only of a model that is loaded.
UsesLoadedModel ==
  FirstSession =>
    /\ ppc = "get" => model \in loaded
    /\ npc = "infer" /\ Mappable(nn_idx) => model \in loaded

\* detection_init has given T a buffer to convert into, provided it succeeded:
\* when it fails, T converts all the same (run with InitMayFail = FALSE).
ConvertsIntoMemory == tpc = "convert" => memory[w_idx] # NoModel

\* As long as the model has not been switched, an element that has stopped holds
\* no buffer and no model, however far detection_init had got.
NothingLeftAfterClose ==
  epc = "null" /\ switches = 0 => memory = NoBuffers /\ loaded = {}

\* gst_aml_nn_close returns: both threads are joined.
StopCompletes == epc = "stopping" ~> epc = "null"

\* While the element plays its first session and frames come, results reach the
\* overlay, although N drops a signal to P whenever P holds its mutex; unless a
\* buffer that could not be mapped or inferred on stays claimed for good.
ResultsReachOverlay ==
  <>[](epc = "playing" /\ FirstSession) =>
    []<>(ppc = "push" /\ pr_ready) \/ <>[]LeftClaimed

\* "close detect model for the next reinitialization": a model that the
\* application set is, in the end, the element's model.
SwitchTakesEffect == \A m \in Models : pending = <<m>> ~> model = m
=============================================================================

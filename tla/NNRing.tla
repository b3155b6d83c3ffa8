------------------------------- MODULE NNRing -------------------------------
(***************************************************************************)
(* The input-buffer hand-off of the amlnn element                          *)
(* (gst-plugin-nn/src/gstamlnn.c).  Three threads meet here:               *)
(*                                                                         *)
(*   T  the streaming thread, in gst_aml_nn_transform_ip: picks the buffer *)
(*      prepare_idx, converts the frame into it, publishes it as           *)
(*      next_nn_idx and signals the nn thread;                             *)
(*   N  the nn thread, in amlnn_process and detection_process: waits for   *)
(*      m_ready, takes next_nn_idx as cur_nn_idx, runs the network on that *)
(*      buffer, then gives it up;                                          *)
(*   C  the thread that starts and stops the element (gst_aml_nn_open and  *)
(*      gst_aml_nn_close).                                                 *)
(*                                                                         *)
(* A step is a stretch of code between two points where another thread can *)
(* see or change what it uses: each buffer_lock section is one step, the   *)
(* conversion and the inference each lie between two steps.  T's           *)
(* trylock..unlock section never blocks and is one step; N's is several,   *)
(* since T's trylock fails while N is inside it.                           *)
(***************************************************************************)
EXTENDS Integers

CONSTANTS
  NN_BUF_CNT,    \* how many input buffers the ring has (3 in gstamlnn.h)
  MapMayFail,    \* whether gst_memory_map can fail on an input buffer
  Switching      \* whether the model is switched while the element runs

\* With one buffer there is nothing to hand over to: the code needs two.
ASSUME NNBufCntAssumption == NN_BUF_CNT \in Nat /\ NN_BUF_CNT >= 2
ASSUME FlagsAssumption == MapMayFail \in BOOLEAN /\ Switching \in BOOLEAN

VARIABLES
  next_nn_idx,   \* ModelInfo.next_nn_idx: the buffer N is to take
  cur_nn_idx,    \* ModelInfo.cur_nn_idx: the buffer N is using, or -1
  prepare_idx,   \* ModelInfo.prepare_idx: the buffer T is to fill
  m_ready,       \* m_nn_thread.m_ready
  m_mutex,       \* holder of m_nn_thread.m_mutex: "free", "nn" or "idle"
  tpc,           \* T's place in transform_ip
  w_idx,         \* T's local copy of prepare_idx
  npc,           \* N's place in amlnn_process and detection_process
  nn_idx,        \* N's local copy of next_nn_idx
  cpc            \* C's place between open and close

indexVars == <<next_nn_idx, cur_nn_idx, prepare_idx>>
vars == <<next_nn_idx, cur_nn_idx, prepare_idx, m_ready, m_mutex, tpc, w_idx,
          npc, nn_idx, cpc>>

NONE    == -1
Buffers == 0 .. NN_BUF_CNT - 1

Init ==
  /\ next_nn_idx = NONE /\ cur_nn_idx = NONE /\ prepare_idx = NONE
  /\ m_ready = FALSE /\ m_mutex = "free"
  /\ tpc = "idle" /\ w_idx = NONE
  /\ npc = "off"  /\ nn_idx = NONE
  /\ cpc = "closed"

\* m_running is TRUE from open to the first assignment of close.
m_running == cpc = "open"

\* The ++ and wrap of prepare_idx, written alike in transform_ip and in
\* detection_process.
Succ(i) == IF i + 1 = NN_BUF_CNT THEN 0 ELSE i + 1

-----------------------------------------------------------------------------
(* T: one call of gst_aml_nn_transform_ip per frame.                       *)

\* Variant: prepare_idx is given a first value and moved by N only, as in the
\* code that is commented out above the move.
MovedOnlyOnce == IF prepare_idx = NONE THEN 0 ELSE prepare_idx

\* The prepare index after "move prepare to next".
MovedPrepare ==
  IF next_nn_idx = prepare_idx THEN Succ(prepare_idx) ELSE prepare_idx

\* The buffer to fill is the one N is using: the frame is ignored.
Refuse ==
  /\ m_running /\ tpc = "idle"
  /\ cur_nn_idx = MovedPrepare
  /\ prepare_idx' = MovedPrepare
  /\ UNCHANGED <<next_nn_idx, cur_nn_idx, m_ready, m_mutex, tpc, w_idx, npc,
                 nn_idx, cpc>>

\* Variant: the index N is using is not looked at.
AcceptAlways ==
  /\ m_running /\ tpc = "idle"
  /\ prepare_idx' = MovedPrepare
  /\ w_idx' = MovedPrepare
  /\ tpc' = "convert"
  /\ UNCHANGED <<next_nn_idx, cur_nn_idx, m_ready, m_mutex, npc, nn_idx, cpc>>

\* Variant: the buffer is published before it is converted into.
AcceptPublishes ==
  /\ m_running /\ tpc = "idle"
  /\ cur_nn_idx # MovedPrepare
  /\ prepare_idx' = MovedPrepare
  /\ w_idx' = MovedPrepare
  /\ next_nn_idx' = MovedPrepare
  /\ tpc' = "convert"
  /\ UNCHANGED <<cur_nn_idx, m_ready, m_mutex, npc, nn_idx, cpc>>

Accept ==
  /\ m_running /\ tpc = "idle"
  /\ cur_nn_idx # MovedPrepare
  /\ prepare_idx' = MovedPrepare
  /\ w_idx' = MovedPrepare
  /\ tpc' = "convert"
  /\ UNCHANGED <<next_nn_idx, cur_nn_idx, m_ready, m_mutex, npc, nn_idx, cpc>>

\* The frame cannot be allocated or mapped: goto transform_end, nothing is
\* published and prepare_idx stays where it is.
ConvertFail ==
  /\ tpc = "convert"
  /\ tpc' = "idle"
  /\ UNCHANGED <<indexVars, m_ready, m_mutex, w_idx, npc, nn_idx, cpc>>

\* gfx_stretchblit has filled the buffer T chose.
Convert ==
  /\ tpc = "convert"
  /\ tpc' = "publish"
  /\ UNCHANGED <<indexVars, m_ready, m_mutex, w_idx, npc, nn_idx, cpc>>

\* next_nn_idx is set from the SHARED prepare_idx, not from T's local copy.
Publish ==
  /\ tpc = "publish"
  /\ next_nn_idx' = prepare_idx
  /\ tpc' = "signal"
  /\ UNCHANGED <<cur_nn_idx, prepare_idx, m_ready, m_mutex, w_idx, npc, nn_idx,
                 cpc>>

\* Variant: the condition is signalled without m_ready being set.
SignalWithoutReady ==
  /\ tpc = "signal"
  /\ tpc' = "idle"
  /\ UNCHANGED <<indexVars, m_ready, m_mutex, w_idx, npc, nn_idx, cpc>>

\* g_mutex_trylock: when it fails the signal is not sent, now or later.
Signal ==
  /\ tpc = "signal"
  /\ m_ready' = (m_ready \/ m_mutex = "free")
  /\ tpc' = "idle"
  /\ UNCHANGED <<indexVars, m_mutex, w_idx, npc, nn_idx, cpc>>

-----------------------------------------------------------------------------
(* N: the loop of amlnn_process, with detection_process inlined.           *)

NStep(from, to) ==
  /\ npc = from
  /\ npc' = to
  /\ UNCHANGED <<next_nn_idx, tpc, w_idx, cpc>>

NContinue ==
  /\ m_running
  /\ NStep("loop", "lock")
  /\ UNCHANGED <<cur_nn_idx, prepare_idx, m_ready, m_mutex, nn_idx>>

NExit ==
  /\ ~m_running
  /\ NStep("loop", "off")
  /\ UNCHANGED <<cur_nn_idx, prepare_idx, m_ready, m_mutex, nn_idx>>

NLock ==
  /\ m_mutex = "free"
  /\ NStep("lock", "locked")
  /\ m_mutex' = "nn"
  /\ UNCHANGED <<cur_nn_idx, prepare_idx, m_ready, nn_idx>>

\* g_cond_wait gives the mutex back while N sleeps ...
NSleep ==
  /\ ~m_ready
  /\ NStep("locked", "asleep")
  /\ m_mutex' = "free"
  /\ UNCHANGED <<cur_nn_idx, prepare_idx, m_ready, nn_idx>>

\* ... and takes it again when N is woken.
NWake ==
  /\ m_ready /\ m_mutex = "free"
  /\ NStep("asleep", "locked")
  /\ m_mutex' = "nn"
  /\ UNCHANGED <<cur_nn_idx, prepare_idx, m_ready, nn_idx>>

\* Woken to stop: m_ready is left TRUE.
NStop ==
  /\ m_ready /\ ~m_running
  /\ NStep("locked", "loop")
  /\ m_mutex' = "free"
  /\ UNCHANGED <<cur_nn_idx, prepare_idx, m_ready, nn_idx>>

NTake ==
  /\ m_ready /\ m_running
  /\ NStep("locked", "claim")
  /\ m_ready' = FALSE
  /\ m_mutex' = "free"
  /\ UNCHANGED <<cur_nn_idx, prepare_idx, nn_idx>>

\* Variant: prepare_idx is moved as soon as N has taken its buffer.
NClaimMoves ==
  /\ NStep("claim", "infer")
  /\ nn_idx' = next_nn_idx
  /\ cur_nn_idx' = next_nn_idx
  /\ prepare_idx' = Succ(prepare_idx)
  /\ UNCHANGED <<m_ready, m_mutex>>

NClaim ==
  /\ NStep("claim", "infer")
  /\ nn_idx' = next_nn_idx
  /\ cur_nn_idx' = next_nn_idx
  /\ UNCHANGED <<prepare_idx, m_ready, m_mutex>>

\* The buffer cannot be mapped, or the inference fails: detection_process
\* returns at once and cur_nn_idx keeps naming the buffer.
NMapFail ==
  /\ MapMayFail
  /\ NStep("infer", "notify")
  /\ UNCHANGED <<cur_nn_idx, prepare_idx, m_ready, m_mutex, nn_idx>>

\* det_trigger_inference has run on the buffer.
NInfer ==
  /\ NStep("infer", "release")
  /\ UNCHANGED <<cur_nn_idx, prepare_idx, m_ready, m_mutex, nn_idx>>

\* "NPU use nn_input buffer done, update new buffer index"
NRelease ==
  /\ NStep("release", "notify")
  /\ prepare_idx' = IF nn_idx = next_nn_idx THEN prepare_idx ELSE Succ(prepare_idx)
  /\ cur_nn_idx' = NONE
  /\ UNCHANGED <<m_ready, m_mutex, nn_idx>>

\* What N does between two rounds (waking the post-process thread) does not
\* concern the ring.
NNotify ==
  /\ NStep("notify", "loop")
  /\ UNCHANGED <<cur_nn_idx, prepare_idx, m_ready, m_mutex, nn_idx>>

-----------------------------------------------------------------------------
(* C: start and stop of the nn thread.                                     *)

CStep(from, to) ==
  /\ cpc = from
  /\ cpc' = to
  /\ UNCHANGED <<indexVars, m_mutex, tpc, w_idx, nn_idx>>

Open ==
  /\ CStep("closed", "open")
  /\ npc' = "loop"
  /\ UNCHANGED m_ready

\* GstBaseTransform calls stop with the stream lock taken and released, so T
\* is not inside transform_ip.
Stop ==
  /\ tpc = "idle"
  /\ CStep("open", "stopping")
  /\ UNCHANGED <<npc, m_ready>>

WakeToStop ==
  /\ m_mutex = "free"
  /\ CStep("stopping", "joining")
  /\ m_ready' = TRUE
  /\ UNCHANGED npc

Join ==
  /\ npc = "off"
  /\ CStep("joining", "closed")
  /\ UNCHANGED <<npc, m_ready>>

-----------------------------------------------------------------------------
(* The main loop's idle_close_model holds m_mutex while it switches model. *)

IdleLock ==
  /\ Switching
  /\ m_mutex = "free"
  /\ m_mutex' = "idle"
  /\ UNCHANGED <<indexVars, m_ready, tpc, w_idx, npc, nn_idx, cpc>>

IdleUnlock ==
  /\ m_mutex = "idle"
  /\ m_mutex' = "free"
  /\ UNCHANGED <<indexVars, m_ready, tpc, w_idx, npc, nn_idx, cpc>>

-----------------------------------------------------------------------------
TNext == Refuse \/ Accept \/ ConvertFail \/ Convert \/ Publish \/ Signal
NNext == \/ NContinue \/ NExit \/ NLock \/ NSleep \/ NWake \/ NStop \/ NTake
         \/ NClaim \/ NMapFail \/ NInfer \/ NRelease \/ NNotify
CNext == Open \/ Stop \/ WakeToStop \/ Join
INext == IdleLock \/ IdleUnlock

Next == TNext \/ NNext \/ CNext \/ INext

Spec == Init /\ [][Next]_vars

(***************************************************************************)
(* Fairness: every thread that can take a step takes one in the end.  No   *)
(* stronger assumption is needed for the mutex: N and C contend for it at  *)
(* most once, when the element stops, and T only tries it.  A frame that   *)
(* T accepted is carried through; nothing obliges the element to stop or   *)
(* the model to be switched.                                               *)
(***************************************************************************)
Fairness ==
  /\ WF_vars(NNext)
  /\ WF_vars(WakeToStop \/ Join)
  /\ WF_vars(Convert \/ ConvertFail \/ Publish \/ Signal)

FairSpec == Spec /\ Fairness

\* The source keeps delivering frames, and not every one of them is a frame
\* that cannot be mapped.
FramesArrive == WF_vars(Accept \/ Refuse) /\ SF_vars(Convert)

BusySpec == FairSpec /\ FramesArrive

-----------------------------------------------------------------------------
\* Every variable has a value of its type.
TypeOK ==
  /\ next_nn_idx \in Buffers \cup {NONE}
  /\ cur_nn_idx \in Buffers \cup {NONE}
  /\ prepare_idx \in Buffers \cup {NONE}
  /\ m_ready \in BOOLEAN
  /\ m_mutex \in {"free", "nn", "idle"}
  /\ tpc \in {"idle", "convert", "publish", "signal"}
  /\ w_idx \in Buffers \cup {NONE}
  /\ npc \in {"off", "loop", "lock", "locked", "asleep", "claim", "infer",
              "release", "notify"}
  /\ nn_idx \in Buffers \cup {NONE}
  /\ cpc \in {"closed", "open", "stopping", "joining"}

\* The buffer that GE2D is filling for T is never the one the network is
\* reading, although neither access is made under buffer_lock.
NoSharedBuffer == ~(tpc = "convert" /\ npc = "infer" /\ w_idx = nn_idx)

\* T fills a buffer of the ring, and never the one N would take next: what N
\* takes is never half filled.
FillsAnUnpublishedBuffer ==
  tpc = "convert" => w_idx \in Buffers /\ w_idx # next_nn_idx

\* T never publishes the buffer N has in hand, whatever N did to prepare_idx
\* since T chose it: otherwise N would find its own index in next_nn_idx and
\* not move prepare_idx on.
NeverPublishesBufferInUse ==
  [][Publish => next_nn_idx' # cur_nn_idx]_vars

\* N has given up on a buffer that it could not map, and cur_nn_idx still
\* names it.
LeftClaimed == cur_nn_idx # NONE /\ npc \notin {"infer", "release"}

\* While frames keep coming and no model is being switched the network keeps
\* running, although a signal that finds the mutex taken is dropped; unless a
\* buffer that could not be mapped stays claimed for good.
NNKeepsRunning ==
  <>[](cpc = "open" /\ m_mutex # "idle") => []<>(npc = "infer") \/ <>[]LeftClaimed
=============================================================================

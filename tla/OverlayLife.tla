---------------------------- MODULE OverlayLife ----------------------------
(***************************************************************************)
(* The life of an nnoverlay element and of the memory its base class       *)
(* (gstamlbaseoverlay.c) keeps for it: start, the first frames, stop,      *)
(* start again, finalize.                                                  *)
(*                                                                         *)
(*   A  the application: starts, stops, and drops the element;             *)
(*   D  the streaming thread: before_transform and transform_ip for each   *)
(*      frame; stopped by GStreamer before it calls stop;                  *)
(*   t  the overlay threads.  One is created by the first frame that finds *)
(*      no output buffer; only finalize joins one, so after a restart      *)
(*      there are two.                                                     *)
(*                                                                         *)
(* What the threads draw is left to NNOverlay and OverlayDraw; the render  *)
(* indices move as in OverlayRing.                                         *)
(***************************************************************************)
EXTENDS Integers, FiniteSets

CONSTANTS
  RENDER_BUF_CNT,     \* render buffers
  MaxStarts           \* bound: how often the element is started

ASSUME LifeAssumption ==
  /\ RENDER_BUF_CNT \in Nat /\ RENDER_BUF_CNT >= 2
  /\ MaxStarts \in Nat \ {0}

VARIABLES
  state, starts,      \* where the element is, and how often it was started
  gfx, dmabuf_alloc,  \* m_gfxhandle and dmabuf_alloc are there
  m_input,            \* "null", "staging" (own), "foreign" (a frame's memory)
  m_output, m_render, \* the buffers that are there
  m_thread,           \* the thread finalize will join, 0 if none
  m_ready, m_running,
  next_display_idx, cur_display_idx, render_idx,
  ppc, draw_idx,      \* per overlay thread: its place, and its render_idx
  dpc, display_idx,   \* D's place, and its display_idx
  held,               \* history: the buffers the element holds a reference to
  drawn,              \* history: the render buffers drawn in since allocated
  foreignSeen         \* history: a frame in DMA memory was seen

aVars == <<state, starts, gfx, dmabuf_alloc>>
memVars == <<m_input, m_output, m_render, held, drawn, foreignSeen>>
indexVars == <<next_display_idx, cur_display_idx, render_idx>>
threadVars == <<m_thread, m_ready, m_running, ppc, draw_idx>>
dVars == <<dpc, display_idx>>
vars == <<aVars, memVars, indexVars, threadVars, dVars>>

NONE    == -1
Buffers == 0 .. RENDER_BUF_CNT - 1
Threads == 1 .. MaxStarts

\* Names for the other two buffers.
OUTPUT  == RENDER_BUF_CNT
STAGING == RENDER_BUF_CNT + 1

Ring == INSTANCE OverlayRing WITH rpc <- "idle", draw_idx <- NONE, newest <- NONE

Created == {t \in Threads : ppc[t] # "none"}

\* Variant: the indices start at the first buffer.
InitShowsFirst ==
  /\ state = "ready" /\ starts = 0 /\ gfx = FALSE /\ dmabuf_alloc = FALSE
  /\ m_input = "null" /\ m_output = FALSE /\ m_render = {}
  /\ held = {} /\ drawn = {} /\ foreignSeen = FALSE
  /\ m_thread = 0 /\ m_ready = FALSE /\ m_running = TRUE
  /\ next_display_idx = 0 /\ cur_display_idx = NONE /\ render_idx = NONE
  /\ ppc = [t \in Threads |-> "none"] /\ draw_idx = [t \in Threads |-> NONE]
  /\ dpc = "idle" /\ display_idx = NONE

Init ==
  /\ state = "ready" /\ starts = 0 /\ gfx = FALSE /\ dmabuf_alloc = FALSE
  /\ m_input = "null" /\ m_output = FALSE /\ m_render = {}
  /\ held = {} /\ drawn = {} /\ foreignSeen = FALSE
  /\ m_thread = 0 /\ m_ready = FALSE /\ m_running = TRUE
  /\ next_display_idx = NONE /\ cur_display_idx = NONE /\ render_idx = NONE
  /\ ppc = [t \in Threads |-> "none"] /\ draw_idx = [t \in Threads |-> NONE]
  /\ dpc = "idle" /\ display_idx = NONE

-----------------------------------------------------------------------------
(* A: start, stop, finalize.                                               *)

AStart ==
  /\ state = "ready" /\ starts < MaxStarts
  /\ state' = "started" /\ starts' = starts + 1
  /\ gfx' = TRUE
  /\ UNCHANGED <<dmabuf_alloc, memVars, indexVars, threadVars, dVars>>

\* Variant: the staging buffer is forgotten, not given back.
AStopForgetsInput ==
  /\ state = "started" /\ dpc = "idle"
  /\ state' = "ready"
  /\ m_output' = FALSE /\ m_render' = {} /\ m_input' = "null"
  /\ held' = held \ ({OUTPUT} \cup m_render)
  /\ dmabuf_alloc' = FALSE /\ gfx' = FALSE
  /\ UNCHANGED <<starts, drawn, foreignSeen, indexVars, threadVars, dVars>>

\* The buffers are freed, whatever an overlay thread is doing; the thread and
\* the indices stay.  A frame's memory that m_input still points to is given
\* back although the element holds no reference to it.
AStop ==
  /\ state = "started" /\ dpc = "idle"
  /\ state' = "ready"
  /\ m_output' = FALSE /\ m_render' = {} /\ m_input' = "null"
  /\ held' = held \ ({OUTPUT} \cup m_render
                       \cup (IF m_input = "staging" THEN {STAGING} ELSE {}))
  /\ dmabuf_alloc' = FALSE /\ gfx' = FALSE
  /\ UNCHANGED <<starts, drawn, foreignSeen, indexVars, threadVars, dVars>>

\* finalize, one step per line that another thread can see.
AFinalize ==
  /\ state = "ready"
  /\ state' = "finalizing"
  /\ m_running' = FALSE
  /\ UNCHANGED <<starts, gfx, dmabuf_alloc, memVars, indexVars, m_thread, m_ready,
                 ppc, draw_idx, dVars>>

\* g_cond_signal wakes one of the threads that sleep on m_cond, if any.
Signal ==
  IF \E t \in Threads : ppc[t] = "sleep"
  THEN \E t \in Threads : ppc[t] = "sleep" /\ ppc' = [ppc EXCEPT ![t] = "lock"]
  ELSE ppc' = ppc

\* Variant: the condition is signalled, but not made true.
ASignalOnly ==
  /\ state = "finalizing"
  /\ state' = "joining"
  /\ Signal
  /\ UNCHANGED <<starts, gfx, dmabuf_alloc, memVars, indexVars, m_thread, m_ready,
                 m_running, draw_idx, dVars>>

ASignal ==
  /\ state = "finalizing"
  /\ state' = "joining"
  /\ m_ready' = TRUE
  /\ Signal
  /\ UNCHANGED <<starts, gfx, dmabuf_alloc, memVars, indexVars, m_thread,
                 m_running, draw_idx, dVars>>

\* Variant: the thread is not waited for.
ALeave ==
  /\ state = "joining"
  /\ state' = "finalized"
  /\ m_thread' = 0
  /\ UNCHANGED <<starts, gfx, dmabuf_alloc, memVars, indexVars, m_ready, m_running,
                 ppc, draw_idx, dVars>>

AJoin ==
  /\ state = "joining"
  /\ m_thread # 0 => ppc[m_thread] = "exit"
  /\ state' = "finalized"
  /\ m_thread' = 0
  /\ UNCHANGED <<starts, gfx, dmabuf_alloc, memVars, indexVars, m_ready, m_running,
                 ppc, draw_idx, dVars>>

-----------------------------------------------------------------------------
(* D: before_transform.  It gets as far as its calls succeed; steps counts *)
(* those that did: 1 the allocator was obtained, 2 the frame is in DMA     *)
(* memory, 3 its size is accepted, 4 there is an output buffer, and one    *)
(* for each render buffer.  The frame goes on to transform_ip in any case. *)

AllSteps == 4 + RENDER_BUF_CNT

\* A buffer that is there is not allocated again, which then cannot fail.
CanFailAfter(steps, dma) ==
  CASE steps = 0 -> ~dmabuf_alloc
    [] steps = 1 -> ~dma
    [] steps = 2 -> TRUE
    [] steps = 3 -> ~m_output
    [] steps \in 4 .. AllSteps - 1 -> (steps - 4) \notin m_render
    [] OTHER -> TRUE

\* Allocating the staging buffer may have succeeded although mapping failed.
InputAfter(steps, dma) ==
  IF steps = 0 THEN {m_input}
  ELSE IF dma THEN {"foreign"}
  ELSE IF m_input # "null" THEN {m_input}
  ELSE IF steps = 1 THEN {"null", "staging"}
  ELSE {"staging"}

NewRender(steps) == {i \in Buffers : i + 5 <= steps} \ m_render

DBefore ==
  /\ state = "started" /\ dpc = "idle"
  /\ \E steps \in 0 .. AllSteps, dma \in BOOLEAN :
       /\ CanFailAfter(steps, dma)
       /\ dmabuf_alloc' = (dmabuf_alloc \/ steps >= 1)
       /\ m_input' \in InputAfter(steps, dma)
       /\ m_output' = (m_output \/ steps >= 4)
       /\ m_render' = m_render \cup NewRender(steps)
       /\ foreignSeen' = (foreignSeen \/ (dma /\ steps >= 1))
       /\ held' = held \cup NewRender(steps)
                    \cup (IF steps >= 4 THEN {OUTPUT} ELSE {})
                    \cup (IF m_input' = "staging" THEN {STAGING} ELSE {})
       /\ drawn' = drawn \ NewRender(steps)
       /\ IF steps = AllSteps /\ ~m_output
          THEN LET t == Cardinality(Created) + 1 IN
               m_thread' = t /\ ppc' = [ppc EXCEPT ![t] = "loop"]
          ELSE UNCHANGED <<m_thread, ppc>>
  /\ dpc' = "take"
  /\ UNCHANGED <<state, starts, gfx, indexVars, m_ready, m_running, draw_idx,
                 display_idx>>

-----------------------------------------------------------------------------
(* D: transform_ip, and the events it passes to the overlay thread.        *)

DTake ==
  /\ dpc = "take"
  /\ display_idx' = next_display_idx
  /\ cur_display_idx' = next_display_idx
  /\ dpc' = IF next_display_idx = NONE THEN "idle" ELSE "blend"
  /\ UNCHANGED <<aVars, memVars, next_display_idx, render_idx, threadVars>>

DRelease ==
  /\ dpc = "blend"
  /\ dpc' = "idle"
  /\ IF display_idx = next_display_idx
     THEN UNCHANGED <<render_idx, cur_display_idx>>
     ELSE render_idx' = Ring!Succ(render_idx) /\ cur_display_idx' = NONE
  /\ UNCHANGED <<aVars, memVars, next_display_idx, threadVars, display_idx>>

EEvent ==
  /\ state = "started"
  /\ m_ready' = TRUE
  /\ Signal
  /\ UNCHANGED <<aVars, memVars, indexVars, m_thread, m_running, draw_idx, dVars>>

-----------------------------------------------------------------------------
(* t: overlay_process.                                                     *)

Goto(t, place) == ppc' = [ppc EXCEPT ![t] = place]

PLoop(t) ==
  /\ ppc[t] = "loop"
  /\ Goto(t, IF m_running THEN "lock" ELSE "exit")
  /\ UNCHANGED <<aVars, memVars, indexVars, m_thread, m_ready, m_running, draw_idx,
                 dVars>>

PSleep(t) ==
  /\ ppc[t] = "lock" /\ ~m_ready
  /\ Goto(t, "sleep")
  /\ UNCHANGED <<aVars, memVars, indexVars, m_thread, m_ready, m_running, draw_idx,
                 dVars>>

\* m_ready is taken back before m_running is looked at.
PWake(t) ==
  /\ ppc[t] = "lock" /\ m_ready
  /\ m_ready' = FALSE
  /\ Goto(t, IF m_running THEN "look" ELSE "loop")
  /\ UNCHANGED <<aVars, memVars, indexVars, m_thread, m_running, draw_idx, dVars>>

\* Disabled, or no result and not often enough.
PNothing(t) ==
  /\ ppc[t] = "look"
  /\ Goto(t, "loop")
  /\ UNCHANGED <<aVars, memVars, indexVars, m_thread, m_ready, m_running, draw_idx,
                 dVars>>

PFull(t) ==
  /\ ppc[t] = "look"
  /\ cur_display_idx = Ring!MovedRender
  /\ render_idx' = Ring!MovedRender
  /\ Goto(t, "loop")
  /\ UNCHANGED <<aVars, memVars, next_display_idx, cur_display_idx, m_thread, m_ready,
                 m_running, draw_idx, dVars>>

PChoose(t) ==
  /\ ppc[t] = "look"
  /\ cur_display_idx # Ring!MovedRender
  /\ render_idx' = Ring!MovedRender
  /\ draw_idx' = [draw_idx EXCEPT ![t] = Ring!MovedRender]
  /\ Goto(t, "map")
  /\ UNCHANGED <<aVars, memVars, next_display_idx, cur_display_idx, m_thread, m_ready,
                 m_running, dVars>>

\* After a stop there is no buffer, and mapping fails.
PMap(t) ==
  /\ ppc[t] = "map"
  /\ \/ draw_idx[t] \in m_render /\ Goto(t, "draw")
     \/ Goto(t, "loop")
  /\ UNCHANGED <<aVars, memVars, indexVars, m_thread, m_ready, m_running, draw_idx,
                 dVars>>

PDraw(t) ==
  /\ ppc[t] = "draw"
  /\ drawn' = drawn \cup ({draw_idx[t]} \cap m_render)
  /\ Goto(t, "publish")
  /\ UNCHANGED <<aVars, m_input, m_output, m_render, held, foreignSeen, indexVars,
                 m_thread, m_ready, m_running, draw_idx, dVars>>

PPublish(t) ==
  /\ ppc[t] = "publish"
  /\ next_display_idx' = render_idx
  /\ Goto(t, "loop")
  /\ UNCHANGED <<aVars, memVars, cur_display_idx, render_idx, m_thread, m_ready,
                 m_running, draw_idx, dVars>>

-----------------------------------------------------------------------------
ANext == AStart \/ AStop \/ AFinalize \/ ASignal \/ AJoin
DNext == DBefore \/ DTake \/ DRelease \/ EEvent
PNext(t) == \/ PLoop(t) \/ PSleep(t) \/ PWake(t) \/ PNothing(t) \/ PFull(t)
            \/ PChoose(t) \/ PMap(t) \/ PDraw(t) \/ PPublish(t)

Next == ANext \/ DNext \/ \E t \in Threads : PNext(t)

\* An overlay thread that can go on does, and so does finalize; nobody has to
\* send frames or events, to stop or to start.
Fairness ==
  /\ \A t \in Threads : WF_vars(PNext(t))
  /\ WF_vars(ASignal \/ AJoin)

Spec == Init /\ [][Next]_vars /\ Fairness

-----------------------------------------------------------------------------
\* Every variable has a value of its type.
TypeOK ==
  /\ state \in {"ready", "started", "finalizing", "joining", "finalized"}
  /\ starts \in 0 .. MaxStarts
  /\ {gfx, dmabuf_alloc, m_output, m_ready, m_running, foreignSeen} \subseteq BOOLEAN
  /\ m_input \in {"null", "staging", "foreign"}
  /\ m_render \subseteq Buffers /\ drawn \subseteq Buffers
  /\ held \subseteq Buffers \cup {STAGING, OUTPUT}
  /\ m_thread \in 0 .. MaxStarts
  /\ {next_display_idx, cur_display_idx, render_idx, display_idx}
       \subseteq Buffers \cup {NONE}
  /\ ppc \in [Threads -> {"none", "loop", "lock", "sleep", "look", "map", "draw",
                          "publish", "exit"}]
  /\ draw_idx \in [Threads -> Buffers \cup {NONE}]
  /\ dpc \in {"idle", "take", "blend"}

\* References to buffers are neither lost nor kept, wherever before_transform
\* gave up, as long as no frame came in DMA memory: the element holds exactly
\* those it points to, and none once it is stopped.
HoldsWhatItPointsTo ==
  ~foreignSeen =>
    /\ held = m_render \cup (IF m_output THEN {OUTPUT} ELSE {})
                \cup (IF m_input = "staging" THEN {STAGING} ELSE {})
    /\ state # "started" => held = {}

\* While the element plays for the first time, the overlay thread draws only in
\* a buffer that is there, and D blends only one that was drawn in, and only
\* when all that blending takes is there - although allocations fail at any
\* point and are tried again by the next frame.
FirstPlayInPlace ==
  state = "started" /\ starts = 1 =>
    /\ ppc[1] \in {"draw", "publish"} => draw_idx[1] \in m_render
    /\ dpc = "blend" => m_output /\ gfx /\ display_idx \in m_render \cap drawn

\* finalize leaves no overlay thread behind, if only one was ever created.
NoThreadLeft ==
  state = "finalized" /\ Cardinality(Created) <= 1 =>
    \A t \in Created : ppc[t] = "exit"

\* With one overlay thread, finalize returns: its signal reaches the thread
\* wherever it is, at work, about to sleep or asleep, and whatever event was
\* signalled just before.
FinalizeReturns ==
  (state = "finalizing" /\ Cardinality(Created) <= 1) ~> (state = "finalized")
=============================================================================

----------------------------- MODULE NNOverlay -----------------------------
(***************************************************************************)
(* The nnoverlay element while it plays                                    *)
(* (gst-plugin-overlay/src/gstamlnnoverlay.c): how a detection result gets *)
(* from an event to the frames, and goes away again.                       *)
(*                                                                         *)
(*   E  the thread that pushes events (amlnn's post-process thread), in    *)
(*      gst_aml_nn_overlay_event: replaces the stored result and its timer *)
(*      and signals P;                                                     *)
(*   L  the main loop, in timeout_nn_release_result: drops the result of a *)
(*      timer that has expired;                                            *)
(*   P  the overlay thread, in overlay_process;                            *)
(*   D  the streaming thread, in transform_ip;                             *)
(*   A  the application sets the enabled property.                         *)
(*                                                                         *)
(* P and D share the render buffers as OverlayRing says.  A result is a    *)
(* number, given in the order the results come; 0 is no rectangles.        *)
(***************************************************************************)
EXTENDS Integers

CONSTANTS
  RENDER_BUF_CNT,
  MaxResults,        \* bound: how many nn-result events come
  Toggles,           \* whether the application changes the enabled property
  MapMayFail         \* whether gst_memory_map can fail on a render buffer

ASSUME BuffersAssumption == RENDER_BUF_CNT \in Nat /\ RENDER_BUF_CNT >= 2

ASSUME ResultsAssumption ==
  MaxResults \in Nat /\ Toggles \in BOOLEAN /\ MapMayFail \in BOOLEAN

VARIABLES
  next_display_idx, cur_display_idx, render_idx, dpc, display_idx, rpc,
  draw_idx, newest,      \* the render buffers: see OverlayRing
  buf,       \* nn.result.buf, or NoResult
  srcid,     \* nn.result.srcid: the timer that is to drop the result, or 0
  timers,    \* the timers in the main loop, each named for its result
  lpc,       \* the timer whose callback has been called and has no lock yet
  epc,       \* E's place in the event handler
  sent,      \* the last result sent
  m_ready,
  ppc,       \* P's place in overlay_process
  hand,      \* the result P has copied and is to draw
  m_face_absence_cnt,
  enabled,
  surface,   \* what is drawn in each render buffer
  shown      \* history: what D blended into the last frame

ringVars   == <<next_display_idx, cur_display_idx, render_idx, dpc, display_idx,
                rpc, draw_idx, newest>>
resultVars == <<buf, srcid, timers, lpc, epc, sent>>
drawVars   == <<ppc, hand, m_face_absence_cnt>>
viewVars   == <<surface, shown>>
vars == <<ringVars, resultVars, m_ready, drawVars, enabled, viewVars>>

Ring == INSTANCE OverlayRing

NoResult == -1
NoRects  == 0
Results  == 1 .. MaxResults
Frames   == 5     \* "< 5 frame no face, ignore"

Init ==
  /\ Ring!Init
  /\ buf = NoResult /\ srcid = 0 /\ timers = {} /\ lpc = 0
  /\ epc = "idle" /\ sent = 0
  /\ m_ready = FALSE /\ ppc = "wait" /\ hand = NoRects
  /\ m_face_absence_cnt = 0
  /\ enabled = TRUE
  /\ surface = [b \in Ring!Buffers |-> NoRects] /\ shown = NoRects

-----------------------------------------------------------------------------
(* E: gst_aml_nn_overlay_event.                                            *)

\* nn-result: the old timer is removed before the lock is taken, and srcid
\* keeps its number.
ERemoveTimer ==
  /\ epc = "idle" /\ sent < MaxResults
  /\ timers' = timers \ {srcid}
  /\ epc' = "replace"
  /\ UNCHANGED <<ringVars, buf, srcid, lpc, sent, m_ready, drawVars, enabled,
                 viewVars>>

\* Variant: the new result gets no timer.
EReplaceNoTimer ==
  /\ epc = "replace"
  /\ sent' = sent + 1
  /\ buf' = sent'
  /\ epc' = "signal"
  /\ UNCHANGED <<ringVars, srcid, timers, lpc, m_ready, drawVars, enabled, viewVars>>

EReplace ==
  /\ epc = "replace"
  /\ sent' = sent + 1
  /\ buf' = sent'
  /\ srcid' = sent'
  /\ timers' = timers \cup {sent'}
  /\ epc' = "signal"
  /\ UNCHANGED <<ringVars, lpc, m_ready, drawVars, enabled, viewVars>>

\* nn-result-clear: the timer stays.
EClear ==
  /\ epc = "idle"
  /\ buf' = NoResult
  /\ epc' = "signal"
  /\ UNCHANGED <<ringVars, srcid, timers, lpc, sent, m_ready, drawVars, enabled,
                 viewVars>>

\* "signal overlay_progress to work"
ESignal ==
  /\ epc = "signal"
  /\ m_ready' = TRUE
  /\ epc' = "idle"
  /\ UNCHANGED <<ringVars, buf, srcid, timers, lpc, sent, drawVars, enabled, viewVars>>

-----------------------------------------------------------------------------
(* L: timeout_nn_release_result, DETECT_RESULT_KEEP_MS after g_timeout_add. *)

\* The main loop calls the callback, which may have to wait for the lock:
\* g_source_remove no longer stops it.
LFire ==
  /\ lpc = 0
  /\ \E t \in timers : lpc' = t /\ timers' = timers \ {t}
  /\ UNCHANGED <<ringVars, buf, srcid, epc, sent, m_ready, drawVars, enabled, viewVars>>

\* Variant: the drawing is taken away from D as well, behind surface_lock.
LReleaseHides ==
  /\ lpc # 0
  /\ lpc' = 0
  /\ srcid' = 0
  /\ buf' = NoResult
  /\ next_display_idx' = NoResult
  /\ UNCHANGED <<cur_display_idx, render_idx, dpc, display_idx, rpc, draw_idx,
                 newest, timers, epc, sent, m_ready, drawVars, enabled, viewVars>>

\* The stored result is dropped, whichever it is; P is not signalled.
LRelease ==
  /\ lpc # 0
  /\ lpc' = 0
  /\ srcid' = 0
  /\ buf' = NoResult
  /\ UNCHANGED <<ringVars, timers, epc, sent, m_ready, drawVars, enabled, viewVars>>

-----------------------------------------------------------------------------
(* P: overlay_process.                                                     *)

PWake ==
  /\ ppc = "wait" /\ m_ready
  /\ m_ready' = FALSE
  /\ ppc' = "look"
  /\ UNCHANGED <<ringVars, resultVars, hand, m_face_absence_cnt, enabled, viewVars>>

PLook(to, rects, absence) ==
  /\ ppc = "look"
  /\ ppc' = to
  /\ hand' = rects
  /\ m_face_absence_cnt' = absence
  /\ UNCHANGED <<ringVars, resultVars, m_ready, enabled, viewVars>>

PDisabled == ~enabled /\ PLook("wait", hand, m_face_absence_cnt)

PAbsent ==
  /\ enabled /\ buf = NoResult /\ m_face_absence_cnt < Frames
  /\ PLook("wait", hand, m_face_absence_cnt + 1)

\* Variant: nothing is ever cleared.
PClearNever ==
  /\ enabled /\ buf = NoResult /\ m_face_absence_cnt >= Frames
  /\ PLook("wait", hand, 0)

\* "need clear surface"
PClear ==
  /\ enabled /\ buf = NoResult /\ m_face_absence_cnt >= Frames
  /\ PLook("draw", NoRects, 0)

PCopy == enabled /\ buf # NoResult /\ PLook("draw", buf, 0)

\* "buffer full, ignore this render": the result is not drawn, now or later.
PFull ==
  /\ ppc = "draw" /\ Ring!PFull
  /\ ppc' = "wait"
  /\ UNCHANGED <<resultVars, m_ready, hand, m_face_absence_cnt, enabled, viewVars>>

PChoose ==
  /\ ppc = "draw" /\ Ring!PChoose
  /\ UNCHANGED <<resultVars, m_ready, drawVars, enabled, viewVars>>

PMapFail ==
  /\ MapMayFail
  /\ Ring!PMapFail
  /\ ppc' = "wait"
  /\ UNCHANGED <<resultVars, m_ready, hand, m_face_absence_cnt, enabled, viewVars>>

\* Variant: the dirty area is not wiped when there is nothing new to draw.
PDrawOver ==
  /\ Ring!PDraw
  /\ surface' = [surface EXCEPT ![draw_idx] = IF hand = NoRects THEN @ ELSE hand]
  /\ UNCHANGED <<resultVars, m_ready, drawVars, enabled, shown>>

\* What the dirty area of the buffer covers is wiped, then the rectangles are
\* drawn.
PDraw ==
  /\ Ring!PDraw
  /\ surface' = [surface EXCEPT ![draw_idx] = hand]
  /\ UNCHANGED <<resultVars, m_ready, drawVars, enabled, shown>>

PPublish ==
  /\ Ring!PPublish
  /\ ppc' = "wait"
  /\ UNCHANGED <<resultVars, m_ready, hand, m_face_absence_cnt, enabled, viewVars>>

-----------------------------------------------------------------------------
(* D: transform_ip, which is not called while the element is passthrough.  *)

DTake ==
  /\ enabled
  /\ Ring!DTake
  /\ shown' = IF next_display_idx = NoResult THEN NoRects ELSE surface[next_display_idx]
  /\ UNCHANGED <<resultVars, m_ready, drawVars, enabled, surface>>

DRelease ==
  /\ Ring!DRelease
  /\ UNCHANGED <<resultVars, m_ready, drawVars, enabled, viewVars>>

-----------------------------------------------------------------------------
\* A: gst_aml_nn_overlay_set_property of enabled.
ASetEnabled ==
  /\ Toggles
  /\ enabled' = ~enabled
  /\ UNCHANGED <<ringVars, resultVars, m_ready, drawVars, viewVars>>

-----------------------------------------------------------------------------
ENext == ERemoveTimer \/ EReplace \/ EClear \/ ESignal
LNext == LFire \/ LRelease
PNext == \/ PWake \/ PDisabled \/ PAbsent \/ PClear \/ PCopy
         \/ PFull \/ PChoose \/ PMapFail \/ PDraw \/ PPublish
DNext == DTake \/ DRelease

Next == ENext \/ LNext \/ PNext \/ DNext \/ ASetEnabled

Spec == Init /\ [][Next]_vars

(***************************************************************************)
(* Fairness: the overlay thread goes on, frames keep coming, an event that *)
(* has arrived is handled to its end, a timer fires in the end, and now    *)
(* and then a render buffer can be mapped.  Nothing obliges amlnn to send. *)
(***************************************************************************)
FairSpec ==
  /\ Spec
  /\ WF_vars(PNext) /\ WF_vars(DNext) /\ WF_vars(EReplace \/ ESignal)
  /\ WF_vars(LNext) /\ SF_vars(PDraw)

\* amlnn keeps sending events, be it that there is nothing to show.
ChattySpec == FairSpec /\ WF_vars(ERemoveTimer \/ EClear)

-----------------------------------------------------------------------------
\* Every variable has a value of its type.
TypeOK ==
  /\ Ring!TypeOK
  /\ buf \in Results \cup {NoResult} /\ srcid \in Results \cup {0}
  /\ timers \subseteq Results /\ lpc \in Results \cup {0}
  /\ epc \in {"idle", "replace", "signal"} /\ sent \in 0 .. MaxResults
  /\ m_ready \in BOOLEAN /\ ppc \in {"wait", "look", "draw"}
  /\ hand \in Results \cup {NoRects}
  /\ m_face_absence_cnt \in 0 .. Frames
  /\ enabled \in BOOLEAN
  /\ surface \in [Ring!Buffers -> Results \cup {NoRects}]
  /\ shown \in Results \cup {NoRects}

\* The threads of the element use the render buffers as OverlayRing says.
RingSpec == Ring!Spec

\* With the two buffers of the element D is pointed to the newest drawing, but
\* for the moment before publication.
ShowsNewest == Ring!ShowsNewest

\* Frames never step back to an older result: the rectangles of a result that
\* has been superseded do not come up again.
NeverStepsBack == [][shown' = NoRects \/ shown' >= shown \/ shown = NoRects]_vars

\* A stored result has a timer to drop it, were no further event to come.
ResultHasTimer ==
  buf # NoResult => timers # {} \/ lpc # 0 \/ epc = "replace"

\* However long results are in store, once amlnn has nothing to show the frames
\* become clean, although single clears are ignored or find the buffers full.
ClearsInTheEnd ==
  <>[](buf = NoResult /\ enabled) /\ []<>(epc = "signal") => <>[](shown = NoRects)
=============================================================================

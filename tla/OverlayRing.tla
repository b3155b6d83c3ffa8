---------------------------- MODULE OverlayRing ----------------------------
(***************************************************************************)
(* The render buffers of the nnoverlay element                             *)
(* (gst-plugin-overlay/src/gstamlnnoverlay.c).  Two threads meet here:     *)
(*                                                                         *)
(*   D  the streaming thread, in gst_aml_nn_overlay_transform_ip: takes    *)
(*      next_display_idx as cur_display_idx and blends that buffer into    *)
(*      the frame;                                                         *)
(*   P  the overlay thread, in overlay_process: picks the buffer           *)
(*      render_idx, draws the rectangles of a result into it and makes it  *)
(*      the next_display_idx.                                              *)
(*                                                                         *)
(* The indices move as those of the amlnn ring do (NNRing), with D for the *)
(* nn thread, except that D keeps cur_display_idx while nothing newer has  *)
(* been drawn.  Each surface_lock section is one step; blending and        *)
(* drawing lie between two steps.                                          *)
(***************************************************************************)
EXTENDS Integers

CONSTANT RENDER_BUF_CNT    \* how many render buffers there are (2)

\* D must be able to keep one buffer while P draws in another.
ASSUME RenderBufCntAssumption == RENDER_BUF_CNT \in Nat /\ RENDER_BUF_CNT >= 2

VARIABLES
  next_display_idx,   \* graphic.next_display_idx: the buffer D is to show
  cur_display_idx,    \* graphic.cur_display_idx: the buffer D shows, or -1
  render_idx,         \* graphic.render_idx: the buffer P is to draw in
  dpc,                \* D's place in transform_ip
  display_idx,        \* D's local copy of next_display_idx
  rpc,                \* P's place in overlay_process, from the choice of a buffer
  draw_idx,           \* P's local render_idx
  newest              \* history: the buffer drawn in last

indexVars == <<next_display_idx, cur_display_idx, render_idx>>
vars == <<next_display_idx, cur_display_idx, render_idx, dpc, display_idx, rpc,
          draw_idx, newest>>

NONE    == -1
Buffers == 0 .. RENDER_BUF_CNT - 1

Init ==
  /\ next_display_idx = NONE /\ cur_display_idx = NONE /\ render_idx = NONE
  /\ dpc = "idle" /\ display_idx = NONE
  /\ rpc = "idle" /\ draw_idx = NONE
  /\ newest = NONE

\* The ++ and wrap of render_idx, written alike in both threads.
Succ(i) == IF i + 1 = RENDER_BUF_CNT THEN 0 ELSE i + 1

-----------------------------------------------------------------------------
(* D: one call of gst_aml_nn_overlay_transform_ip per frame.               *)

\* Variant: D does not say which buffer it shows.
DTakeSilently ==
  /\ dpc = "idle"
  /\ display_idx' = next_display_idx
  /\ dpc' = IF next_display_idx = NONE THEN "idle" ELSE "blend"
  /\ UNCHANGED <<next_display_idx, cur_display_idx, render_idx, rpc, draw_idx,
                 newest>>

\* Nothing drawn so far: the frame goes out as it came.
DTake ==
  /\ dpc = "idle"
  /\ display_idx' = next_display_idx
  /\ cur_display_idx' = next_display_idx
  /\ dpc' = IF next_display_idx = NONE THEN "idle" ELSE "blend"
  /\ UNCHANGED <<next_display_idx, render_idx, rpc, draw_idx, newest>>

\* Variant: render_idx is moved on after every frame.
DReleaseAlways ==
  /\ dpc = "blend"
  /\ dpc' = "idle"
  /\ render_idx' = Succ(render_idx)
  /\ cur_display_idx' = NONE
  /\ UNCHANGED <<next_display_idx, display_idx, rpc, draw_idx, newest>>

DRelease ==
  /\ dpc = "blend"
  /\ dpc' = "idle"
  /\ IF display_idx = next_display_idx
     THEN UNCHANGED <<render_idx, cur_display_idx>>
     ELSE render_idx' = Succ(render_idx) /\ cur_display_idx' = NONE
  /\ UNCHANGED <<next_display_idx, display_idx, rpc, draw_idx, newest>>

-----------------------------------------------------------------------------
(* P: the second half of overlay_process, once it has a result to draw.    *)

MovedRender ==
  IF next_display_idx = render_idx THEN Succ(render_idx) ELSE render_idx

\* "buffer full, ignore this render"
PFull ==
  /\ rpc = "idle"
  /\ cur_display_idx = MovedRender
  /\ render_idx' = MovedRender
  /\ UNCHANGED <<next_display_idx, cur_display_idx, dpc, display_idx, rpc,
                 draw_idx, newest>>

\* Variant: the buffer D shows is not looked at.
PChooseAlways ==
  /\ rpc = "idle"
  /\ render_idx' = MovedRender
  /\ draw_idx' = MovedRender
  /\ rpc' = "draw"
  /\ UNCHANGED <<next_display_idx, cur_display_idx, dpc, display_idx, newest>>

PChoose ==
  /\ rpc = "idle"
  /\ cur_display_idx # MovedRender
  /\ render_idx' = MovedRender
  /\ draw_idx' = MovedRender
  /\ rpc' = "draw"
  /\ UNCHANGED <<next_display_idx, cur_display_idx, dpc, display_idx, newest>>

\* The render buffer cannot be mapped: nothing is shown of this result.
PMapFail ==
  /\ rpc = "draw"
  /\ rpc' = "idle"
  /\ UNCHANGED <<indexVars, dpc, display_idx, draw_idx, newest>>

PDraw ==
  /\ rpc = "draw"
  /\ rpc' = "publish"
  /\ newest' = draw_idx
  /\ UNCHANGED <<indexVars, dpc, display_idx, draw_idx>>

\* next_display_idx is set from the SHARED render_idx, not from P's copy.
PPublish ==
  /\ rpc = "publish"
  /\ rpc' = "idle"
  /\ next_display_idx' = render_idx
  /\ UNCHANGED <<cur_display_idx, render_idx, dpc, display_idx, draw_idx, newest>>

-----------------------------------------------------------------------------
DNext == DTake \/ DRelease
PNext == PFull \/ PChoose \/ PMapFail \/ PDraw \/ PPublish
Next  == DNext \/ PNext

Spec == Init /\ [][Next]_vars

-----------------------------------------------------------------------------
\* Every variable has a value of its type.
TypeOK ==
  /\ next_display_idx \in Buffers \cup {NONE}
  /\ cur_display_idx \in Buffers \cup {NONE}
  /\ render_idx \in Buffers \cup {NONE}
  /\ dpc \in {"idle", "blend"}
  /\ display_idx \in Buffers \cup {NONE}
  /\ rpc \in {"idle", "draw", "publish"}
  /\ draw_idx \in Buffers \cup {NONE}
  /\ newest \in Buffers \cup {NONE}

\* D never blends a buffer while P clears or draws in it: no frame shows half
\* a rectangle.
NoTearing == ~(dpc = "blend" /\ rpc = "draw" /\ display_idx = draw_idx)

\* With the two buffers the element has, what P publishes is what P has just
\* drawn, although it reads render_idx again: D cannot have moved it.
PublishesWhatItDrew == [][PPublish => next_display_idx' = draw_idx]_vars

\* So but for the moment before publication D is pointed to the newest drawing.
ShowsNewest == rpc # "publish" => next_display_idx = newest
=============================================================================

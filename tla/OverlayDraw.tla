---------------------------- MODULE OverlayDraw ----------------------------
(***************************************************************************)
(* What the nnoverlay element draws (gstamlnnoverlay.c, overlay_process    *)
(* and transform_ip): the two threads of OverlayRing, with the pixels of   *)
(* the render buffers, their dirty areas and the frame.                    *)
(*                                                                         *)
(* The overlay thread wipes the dirty area of its buffer, and then for     *)
(* each rectangle extends the dirty area and draws the border; nothing is  *)
(* locked meanwhile.  The streaming thread blends the dirty area of the    *)
(* displayed buffer into the frame.                                        *)
(*                                                                         *)
(* The rectangles of a result are those nn results lead to: they start at  *)
(* a pixel or beyond.  The detect library moves the left side of a box to  *)
(* 2 at least and the right one to 2 below the width at most, each by      *)
(* itself: a box that lies within those two columns of the border ends     *)
(* before it starts, and gets a negative size.                             *)
(***************************************************************************)
EXTENDS OverlayRing, Gfx2d, Sequences

CONSTANTS
  Drawings,           \* sequences of rectangles: the results to be drawn
  THICKNESS           \* DEFAULT_PROP_RECT_THICKNESS

ASSUME DrawingAssumption ==
  /\ THICKNESS \in Nat
  /\ Drawings \subseteq Seq(Rects)
  /\ \A d \in Drawings : \A i \in 1 .. Len(d) : d[i].x >= 0 /\ d[i].y >= 0

VARIABLES
  pixels,             \* pixels[b]: the painted pixels of render buffer b
  dirtyRect,          \* dirtyRect[b]: graphic.dirtyRect
  todo,               \* the rectangles P has still to draw
  wiped,              \* P has wiped its buffer
  blended,            \* D has blended the frame it holds
  frame,              \* the overlay pixels in that frame
  picture,            \* history: picture[b], the result drawn last in b
  crooked             \* history: the buffers a negative size was drawn in

drawVars == <<pixels, dirtyRect, todo, wiped, blended, frame, picture, crooked>>
allVars  == <<vars, drawVars>>

DrawInit ==
  /\ Init
  /\ pixels = [b \in Buffers |-> {}]
  /\ dirtyRect = [b \in Buffers |-> NullRect]
  /\ todo = <<>> /\ wiped = FALSE
  /\ blended = FALSE /\ frame = {}
  /\ picture = [b \in Buffers |-> <<>>]
  /\ crooked = {}

Crooked(r) == r.w < 0 \/ r.h < 0

-----------------------------------------------------------------------------
(* D: one frame.                                                           *)

FTake ==
  /\ DTake
  /\ blended' = FALSE /\ frame' = {}
  /\ UNCHANGED <<pixels, dirtyRect, todo, wiped, picture, crooked>>

\* An empty dirty area is not blended.
FBlend ==
  /\ dpc = "blend" /\ ~blended
  /\ blended' = TRUE
  /\ frame' = IF IsEmptyArea(dirtyRect[display_idx]) THEN {}
              ELSE Blend(pixels[display_idx], dirtyRect[display_idx])
  /\ UNCHANGED <<vars, pixels, dirtyRect, todo, wiped, picture, crooked>>

FRelease ==
  /\ blended
  /\ DRelease
  /\ UNCHANGED drawVars

-----------------------------------------------------------------------------
(* P: one result.                                                          *)

GFull == PFull /\ UNCHANGED drawVars

GChoose ==
  /\ PChoose
  /\ \E d \in Drawings : todo' = d
  /\ wiped' = FALSE
  /\ UNCHANGED <<pixels, dirtyRect, blended, frame, picture, crooked>>

GMapFail ==
  /\ ~wiped
  /\ PMapFail
  /\ todo' = <<>>
  /\ UNCHANGED <<pixels, dirtyRect, wiped, blended, frame, picture, crooked>>

\* Variant: the last column and the last row of the dirty area are not wiped.
GWipeShort ==
  /\ rpc = "draw" /\ ~wiped
  /\ pixels' = [pixels EXCEPT ![draw_idx] =
                  IF IsEmptyArea(dirtyRect[draw_idx]) THEN @
                  ELSE @ \ FillSoftware([dirtyRect[draw_idx] EXCEPT !.w = @ - 1,
                                                                  !.h = @ - 1])]
  /\ dirtyRect' = [dirtyRect EXCEPT ![draw_idx] = NullRect]
  /\ wiped' = TRUE
  /\ picture' = [picture EXCEPT ![draw_idx] = todo]
  /\ UNCHANGED <<vars, todo, blended, frame, crooked>>

GWipe ==
  /\ rpc = "draw" /\ ~wiped
  /\ pixels' = [pixels EXCEPT ![draw_idx] =
                  IF IsEmptyArea(dirtyRect[draw_idx]) THEN @
                  ELSE @ \ FillSoftware(dirtyRect[draw_idx])]
  /\ dirtyRect' = [dirtyRect EXCEPT ![draw_idx] = NullRect]
  /\ wiped' = TRUE
  /\ picture' = [picture EXCEPT ![draw_idx] = todo]
  /\ UNCHANGED <<vars, todo, blended, frame, crooked>>

\* The rectangle is clipped in place by gfx_updateDirtyArea; drawing clips it
\* once more, to no effect.
GBorder ==
  /\ rpc = "draw" /\ wiped /\ todo # <<>>
  /\ dirtyRect' = [dirtyRect EXCEPT ![draw_idx] = UpdateDirtyArea(@, Head(todo))]
  /\ pixels' = [pixels EXCEPT ![draw_idx] =
                  @ \cup DrawSoftware(Head(todo), THICKNESS)]
  /\ crooked' = crooked \cup (IF Crooked(Head(todo)) THEN {draw_idx} ELSE {})
  /\ todo' = Tail(todo)
  /\ UNCHANGED <<vars, wiped, blended, frame, picture>>

GEnd ==
  /\ wiped /\ todo = <<>>
  /\ PDraw
  /\ UNCHANGED drawVars

GPublish == PPublish /\ UNCHANGED drawVars

-----------------------------------------------------------------------------
FNext == FTake \/ FBlend \/ FRelease
GNext == GFull \/ GChoose \/ GMapFail \/ GWipe \/ GBorder \/ GEnd \/ GPublish

DrawNext == FNext \/ GNext

DrawSpec == DrawInit /\ [][DrawNext]_allVars

-----------------------------------------------------------------------------
\* What a result should look like.
Painted(d) == UNION {DrawSoftware(d[i], THICKNESS) : i \in 1 .. Len(d)}

\* A render buffer that is not being drawn in shows the borders of its result
\* and nothing of any earlier one, although only the dirty area was wiped -
\* unless a rectangle with a negative size was ever drawn in it.
ShowsItsResult ==
  \A b \in Buffers \ crooked :
    ~(rpc = "draw" /\ draw_idx = b) => pixels[b] = Painted(picture[b])

\* A frame shows one result, whole: the dirty area that is blended covers
\* every border, and the overlay thread never comes between.
FrameShowsOneResult ==
  dpc = "blend" /\ blended /\ display_idx \notin crooked =>
    frame = Painted(picture[display_idx])

\* The engine's way to draw a border, unused so far, would draw the same into a
\* wiped buffer as the loops do, for a rectangle at least two borders wide.
EngineDrawsAlike ==
  \A i \in 1 .. Len(todo) :
    todo[i].w >= 2 * THICKNESS /\ todo[i].h >= 2 * THICKNESS =>
      /\ DrawRect({}, todo[i], THICKNESS) = DrawSoftware(todo[i], THICKNESS)
      /\ FillRect(todo[i]) = FillSoftware(todo[i])
=============================================================================

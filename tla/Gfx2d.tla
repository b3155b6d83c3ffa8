------------------------------- MODULE Gfx2d -------------------------------
(***************************************************************************)
(* The rectangles of the gfx2d library (gst-aml-gfx2d): clipping, filling, *)
(* drawing a border, and the dirty area of a buffer.  A rectangle is a     *)
(* GFX_Rect, a buffer is the set of its pixels that are painted; a pixel   *)
(* is named by its address, counted in pixels from the start of the        *)
(* buffer.                                                                 *)
(*                                                                         *)
(* The software loops run over unsigned ints: bounds, indices and          *)
(* addresses wrap at UMod (2^32 in the code), while the rectangle itself   *)
(* is made of signed ints.                                                 *)
(***************************************************************************)
EXTENDS Integers

CONSTANTS
  Width, Height,      \* pBuf->size
  UMod                \* the range of an unsigned int

ASSUME SizeAssumption ==
  /\ Width \in Nat \ {0} /\ Height \in Nat \ {0}
  /\ UMod \in Nat /\ Width < UMod /\ Height < UMod

Rects    == [x : Int, y : Int, w : Int, h : Int]
NullRect == [x |-> 0, y |-> 0, w |-> 0, h |-> 0]

IsEmptyArea(r) == r = NullRect

\* gfx_check_buf_rect: an error if the rectangle starts beyond the buffer ...
Rejected(r) == r.x >= Width \/ r.y >= Height

\* ... or else it is cut at the right and bottom border, in place.
Clip(r) ==
  [x |-> r.x, y |-> r.y,
   w |-> IF r.x + r.w > Width  THEN Width - r.x  ELSE r.w,
   h |-> IF r.y + r.h > Height THEN Height - r.y ELSE r.h]

U(i) == i % UMod

\* What "for (i = a; i < b; i++)" runs over.
Run(a, b) == U(a) .. U(b) - 1

\* Rows are padded to 32 bytes, eight pixels.
Pitch    == 8 * ((Width + 7) \div 8)
At(i, j) == U(i * Pitch + j)

Block(y0, y1, x0, x1) ==
  {At(p[1], p[2]) : p \in Run(y0, y1) \X Run(x0, x1)}

-----------------------------------------------------------------------------
\* gfx_fillrect_software: the pixels it writes.
FillSoftware(r) ==
  IF Rejected(r) THEN {}
  ELSE LET c == Clip(r) IN Block(c.y, c.y + c.h, c.x, c.x + c.w)

\* "too small rectangle, will cause memory overwrite": the sizes are compared
\* with an unsigned thickness.
TooSmall(r, t) == U(r.w) <= t \/ U(r.h) <= t

\* gfx_drawrect_software: top, bottom, left and right side of the border.
Border(r, t) ==
  Block(r.y, r.y + t, r.x, r.x + r.w)
    \cup Block(r.y + r.h - t, r.y + r.h, r.x, r.x + r.w)
    \cup Block(r.y + t, r.y + r.h - t, r.x, r.x + t)
    \cup Block(r.y + t, r.y + r.h - t, r.x + r.w - t, r.x + r.w)

DrawSoftware(r, t) ==
  IF Rejected(r) \/ TooSmall(Clip(r), t) THEN {} ELSE Border(Clip(r), t)

-----------------------------------------------------------------------------
(* The same two operations on the 2D engine.                               *)

\* The engine fills a rectangle; one without an inside fills nothing.
EngineFill(r) ==
  {At(p[1], p[2]) : p \in (r.y .. r.y + r.h - 1) \X (r.x .. r.x + r.w - 1)}

FillRect(r) == IF Rejected(r) THEN {} ELSE EngineFill(Clip(r))

\* Variant: one thickness is taken off each size.
InnerRectByOne(r, t) ==
  [x |-> r.x + t, y |-> r.y + t, w |-> r.w - t, h |-> r.h - t]

InnerRect(r, t) ==
  [x |-> r.x + t, y |-> r.y + t, w |-> r.w - 2 * t, h |-> r.h - 2 * t]

\* gfx_drawrect fills the rectangle and then clears what lies within.
DrawRect(painted, r, t) ==
  IF Rejected(r) \/ TooSmall(Clip(r), t) THEN painted
  ELSE (painted \cup EngineFill(Clip(r))) \ EngineFill(InnerRect(Clip(r), t))

-----------------------------------------------------------------------------
\* The smallest rectangle around two.
Union(a, b) ==
  LET x      == IF a.x < b.x THEN a.x ELSE b.x
      y      == IF a.y < b.y THEN a.y ELSE b.y
      right  == IF a.x + a.w > b.x + b.w THEN a.x + a.w ELSE b.x + b.w
      bottom == IF a.y + a.h > b.y + b.h THEN a.y + a.h ELSE b.y + b.h
  IN  [x |-> x, y |-> y, w |-> right - x, h |-> bottom - y]

\* Variant: the newer rectangle replaces the area.
UpdateDirtyAreaByLast(base, new) ==
  IF Rejected(new) THEN base ELSE Clip(new)

\* gfx_updateDirtyArea: what becomes of the base rectangle.
UpdateDirtyArea(base, new) ==
  IF Rejected(base) THEN base
  ELSE IF Rejected(new) THEN Clip(base)
  ELSE IF IsEmptyArea(Clip(base)) THEN Clip(new)
  ELSE Union(Clip(base), Clip(new))

\* gfx_blend onto the output buffer and gfx_stretchblit back onto the frame,
\* both within the dirty area: the painted pixels of the top buffer that the
\* frame gets to show.
Blend(painted, area) ==
  IF Rejected(area) THEN {} ELSE painted \cap EngineFill(Clip(area))
=============================================================================

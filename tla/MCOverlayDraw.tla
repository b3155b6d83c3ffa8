--------------------------- MODULE MCOverlayDraw ---------------------------
(***************************************************************************)
(* For model checking OverlayDraw: a frame of 9 by 6 pixels, borders two   *)
(* pixels thick and results with rectangles that overlap, lie apart, touch *)
(* the frame's border, reach over it (the library clips them, the detect   *)
(* library sends none), are too small, or crooked: one box at the left     *)
(* border, one that starts beyond the right one and is refused.            *)
(***************************************************************************)
EXTENDS OverlayDraw

Box(x, y, w, h) == [x |-> x, y |-> y, w |-> w, h |-> h]

MCDrawings ==
  { <<>>,
    <<Box(0, 0, 5, 5)>>,
    <<Box(1, 1, 4, 4), Box(4, 0, 5, 6)>>,
    <<Box(0, 0, 0, 0), Box(6, 2, 3, 3), Box(0, 0, 3, 4)>>,
    <<Box(5, 3, 2, 3)>>,
    <<Box(7, 1, 9, 9), Box(9, 1, 0, 3), Box(2, 1, 5, 5)>>,
    <<Box(4, 1, -2, 5), Box(9, 2, -3, 3)>> }
=============================================================================

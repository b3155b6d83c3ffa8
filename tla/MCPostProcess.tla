--------------------------- MODULE MCPostProcess ---------------------------
(* Small outputs of the networks.  Boxes of 4 by 2 in a row: at distance 1, *)
(* 2 and 3 they share 60, 33 and 14 percent of their union.                *)
EXTENDS PostProcess

Box(x, p) == [x |-> x, y |-> 0, w |-> 4, h |-> 2, p |-> p]

One   == {<<Box(0, 0)>>, <<Box(0, 10)>>, <<Box(3, 8)>>, <<[Box(1, 10) EXCEPT !.w = 2]>>}
Two   == {<<Box(9, 3), Box(9, 3)>>, <<Box(0, 9), Box(2, 10), Box(4, 9)>>,
          <<Box(3, 10), Box(6, 9)>>, <<Box(1, 9), Box(2, 9), Box(4, 9)>>}
Fine  == {<<Box(9, 3), Box(9, 3)>>, <<Box(2, 8), Box(1, 10)>>, <<Box(0, 9), Box(9, 9)>>}

\* Half of the wide box is in the narrow one, but not by rfb_overlap.
Inner == <<[Box(0, 9) EXCEPT !.w = 8], Box(3, 8)>>

\* rfb has a coarser scale before the three of the others.
MCFaceInputs(n) ==
  LET three == {<<a, b, c>> : a \in One, b \in Two, c \in Fine}
  IN  IF n.kind = "rfb"
      THEN {<<a>> \o s : a \in {<<Box(0, 0)>>, <<Box(1, 9)>>, Inner}, s \in three}
      ELSE three

Cell(x, obj, p, q) ==
  [x |-> x, y |-> 0, w |-> 4, h |-> 2, obj |-> obj, prob |-> <<p, q>>]
Cells == {Cell(0, 3, 0, 0), Cell(0, 9, 8, 0), Cell(1, 9, 5, 7), Cell(2, 10, 9, 5)}

MCYoloInputs ==
  {[i \in 0 .. 2 |-> IF i = 0 THEN <<c, d>> ELSE IF i = 1 THEN <<e>> ELSE <<f>>] :
     c \in Cells, d \in Cells,
     e \in {Cell(0, 3, 0, 0), Cell(1, 9, 5, 7)}, f \in {Cell(0, 3, 0, 0), Cell(2, 10, 9, 5)}}

MCNets == {FaceDetect, FaceLandmark5, Aiface, Rfb, Person, Plate}
=============================================================================

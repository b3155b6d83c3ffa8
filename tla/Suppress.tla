------------------------------ MODULE Suppress ------------------------------
(***************************************************************************)
(* What the nn demo post-processing does with the candidates that a        *)
(* detection network puts out (nndemo-library/src/demo/verisilicon): the   *)
(* suppression of candidates near a better one within a scale, the         *)
(* suppression between neighbouring scales, and the choice of the scales   *)
(* that are reported.                                                      *)
(*                                                                         *)
(* A candidate is a record [x, y, w, h, p]: the box decoded from the       *)
(* network's tensors and its probability in tenths.  A scale is the        *)
(* sequence of its candidates, and a network's scales are a sequence from  *)
(* the coarsest (stride 64 or 32) to the finest (stride 8).  The decoding  *)
(* of the tensors, whatever its arithmetic, yields some such sequence.     *)
(***************************************************************************)
EXTENDS Integers, Sequences, FiniteSets, SequencesExt, FiniteSetsExt

\* A candidate: the code checks neither the place nor the size of a box.
Detection == [x : Int, y : Int, w : Int, h : Int, p : Nat]
Scale     == Seq(Detection)

-----------------------------------------------------------------------------
(* Boxes.  Lengths are doubled, so that half a width is a whole number.    *)

\* retina_overlap: a coordinate is the low edge of the box.
CornerOverlap(x1, w1, x2, w2) ==
  Min({2 * (x1 + w1), 2 * (x2 + w2)}) - Max({2 * x1, 2 * x2})

\* overlap_aiface is the same computation.
AifaceOverlap(x1, w1, x2, w2) == CornerOverlap(x1, w1, x2, w2)

\* overlap: a coordinate is the centre of the box, as yolo decodes it.
CentreOverlap(x1, w1, x2, w2) ==
  Min({2 * x1 + w1, 2 * x2 + w2}) - Max({2 * x1 - w1, 2 * x2 - w2})

\* overlap_plate and rfb_overlap take centres too, but the boxes of plates
\* and of rfb are stored by a corner.
PlateOverlap(x1, w1, x2, w2) == CentreOverlap(x1, w1, x2, w2)
RfbOverlap(x1, w1, x2, w2)   == CentreOverlap(x1, w1, x2, w2)

Overlap(box, x1, w1, x2, w2) ==
  CASE box = "retina" -> CornerOverlap(x1, w1, x2, w2)
    [] box = "aiface" -> AifaceOverlap(x1, w1, x2, w2)
    [] box = "rfb"    -> RfbOverlap(x1, w1, x2, w2)
    [] box = "yolo"   -> CentreOverlap(x1, w1, x2, w2)
    [] box = "plate"  -> PlateOverlap(x1, w1, x2, w2)

\* Four times the area that a and b share, by the overlap of the kind box.
Intersection(box, a, b) ==
  LET w == Overlap(box, a.x, a.w, b.x, b.w)
      h == Overlap(box, a.y, a.h, b.y, b.h)
  IN  IF w < 0 \/ h < 0 THEN 0 ELSE w * h

\* Four times the area of the union of a and b.
UnionArea(box, a, b) ==
  4 * a.w * a.h + 4 * b.w * b.h - Intersection(box, a, b)

\* retina_box_iou and its like > percent / 100; 0/0 is not above anything.
Near(box, a, b, percent) ==
  100 * Intersection(box, a, b) > percent * UnionArea(box, a, b)

\* do_intersection_aiface: what a and b share, as a's new box.
Common(a, b) ==
  LET x == Max({a.x, b.x})
      y == Max({a.y, b.y})
  IN  [a EXCEPT !.x = x, !.y = y,
                !.w = Min({a.x + a.w, b.x + b.w}) - x,
                !.h = Min({a.y + a.h, b.y + b.h}) - y]

-----------------------------------------------------------------------------
(* Suppression within a scale.                                             *)

\* The outcomes of qsort by probability, best first: candidates that are
\* equal may come in any order.
Orders(s) ==
  {o \in SetToSeqs(DOMAIN s) :
     \A i \in 1 .. Len(o) - 1 : s[o[i]].p >= s[o[i + 1]].p}

\* The numbers from m to n, for a loop over them.
Upto(m, n) == [i \in 1 .. n - m + 1 |-> m + i - 1]

\* Candidate b is suppressed by candidate a if both are still there and near.
Suppress(box, percent, s, a, b) ==
  IF s[a].p > 0 /\ s[b].p > 0 /\ Near(box, s[a], s[b], percent)
  THEN [s EXCEPT ![b].p = 0] ELSE s

\* do_nms_sort_aiface: equal candidates leave the box that they share.
SuppressMerging(box, percent, s, a, b) ==
  IF s[a].p = s[b].p /\ Suppress(box, percent, s, a, b) # s
  THEN [s EXCEPT ![a] = Common(s[a], s[b]), ![b].p = 0]
  ELSE Suppress(box, percent, s, a, b)

Compare(box, percent, s, a, b) ==
  IF box = "aiface" THEN SuppressMerging(box, percent, s, a, b)
                    ELSE Suppress(box, percent, s, a, b)

\* The candidate in place i suppresses those after it.
SuppressAfter(box, percent, s, o, i) ==
  FoldLeft(LAMBDA t, j : Compare(box, percent, t, o[i], o[j]),
           s, Upto(i + 1, Len(o)))

\* Every candidate in turn, best first, suppresses those after it.
InOrder(box, percent, s, o) ==
  FoldLeft(LAMBDA t, i : SuppressAfter(box, percent, t, o, i),
           s, Upto(1, Len(o)))

\* retina_do_nms_sort: the scales it can leave behind.
RetinaNms(s, percent) == {InOrder("retina", percent, s, o) : o \in Orders(s)}

\* rfb_do_nms_sort: j's probability is cleared without looking at it.
RfbNms(s, percent) == {InOrder("rfb", percent, s, o) : o \in Orders(s)}

\* person_do_nms_sort, on retina_box_iou.
PersonNms(s, percent) == {InOrder("retina", percent, s, o) : o \in Orders(s)}

\* do_nms_sort_plate.
PlateNms(s, percent) == {InOrder("plate", percent, s, o) : o \in Orders(s)}

\* do_nms_sort_aiface.
AifaceNms(s, percent) == {InOrder("aiface", percent, s, o) : o \in Orders(s)}

\* Variant: a candidate suppresses only the one that follows it.
YoloNmsAdjacent(s, percent) ==
  {FoldLeft(LAMBDA t, i : Suppress("yolo", percent, t, o[i], o[i + 1]),
            s, Upto(1, Len(s) - 1)) : o \in Orders(s)}

\* do_nms_sort, for one class of the candidates.
YoloNms(s, percent) == {InOrder("yolo", percent, s, o) : o \in Orders(s)}

-----------------------------------------------------------------------------
(* Suppression between two scales.                                         *)

\* Variant: of two that are equal neither goes.
WorseOfPairStrict(box, thresh, st, i, j) ==
  IF /\ st[1][i].p > thresh /\ st[2][j].p > thresh
     /\ Near(box, st[1][i], st[2][j], 10)
  THEN IF st[2][j].p > st[1][i].p THEN <<[st[1] EXCEPT ![i].p = 0], st[2]>>
       ELSE IF st[2][j].p < st[1][i].p THEN <<st[1], [st[2] EXCEPT ![j].p = 0]>>
       ELSE st
  ELSE st

\* Of two near candidates the worse goes, the second one if they are equal.
WorseOfPair(box, thresh, st, i, j) ==
  IF /\ st[1][i].p > thresh /\ st[2][j].p > thresh
     /\ Near(box, st[1][i], st[2][j], 10)
  THEN IF st[2][j].p > st[1][i].p
       THEN <<[st[1] EXCEPT ![i].p = 0], st[2]>>
       ELSE <<st[1], [st[2] EXCEPT ![j].p = 0]>>
  ELSE st

\* Candidate i of the first scale against all of the second.
AgainstAll(box, thresh, st, i) ==
  FoldLeft(LAMBDA su, j : WorseOfPair(box, thresh, su, i, j),
           st, Upto(1, Len(st[2])))

Between(box, thresh, s, t) ==
  FoldLeft(LAMBDA st, i : AgainstAll(box, thresh, st, i),
           <<s, t>>, Upto(1, Len(s)))

\* do_global_sort, of retina, rfb and person.
RetinaBetween(thresh, s, t) == Between("retina", thresh, s, t)
\* do_global_sort_aiface and do_global_sort_plate.
AifaceBetween(thresh, s, t) == Between("aiface", thresh, s, t)
PlateBetween(thresh, s, t)  == Between("plate", thresh, s, t)

-----------------------------------------------------------------------------
(* The networks.  Each is a record of what its post-processing function    *)
(* does after decoding the boxes:                                          *)
(*   valid    the least probability of a candidate, in tenths: below it a  *)
(*            candidate's probability is cleared;                          *)
(*   nms      percent for the suppression within a scale but the finest;   *)
(*   finest   percent for the finest scale, by the number of scales used;  *)
(*   global   threshold of the suppression between scales, in tenths;      *)
(*   report   a candidate is reported above this, in tenths;               *)
(*   lone     the scales that are reported above less when they are used   *)
(*            alone, so little that it stops no valid candidate;           *)
(*   gap      whether scales after an empty one are used;                  *)
(*   missed   how many candidates at the end of the finest scale are not   *)
(*            looked at when all the scales are used.                      *)

\* face_detect_postprocess.
FaceDetect ==
  [kind |-> "retina", valid |-> 7, nms |-> 10, finest |-> <<20, 10, 10>>,
   global |-> 8, report |-> 8, lone |-> {1, 3}, gap |-> FALSE, missed |-> 0]

\* face_landmark5_postprocess.
FaceLandmark5 ==
  [kind |-> "retina", valid |-> 7, nms |-> 10, finest |-> <<20, 10, 10>>,
   global |-> 8, report |-> 8, lone |-> {1, 3}, gap |-> FALSE, missed |-> 0]

\* process_face_detect_aiface: a probability of CONFIDENCE_THRESHOLD itself
\* is valid but not reported.
Aiface ==
  [kind |-> "aiface", valid |-> 8, nms |-> 25, finest |-> <<25, 25, 25>>,
   global |-> 7, report |-> 8, lone |-> {}, gap |-> TRUE, missed |-> 0]

\* face_rfb_detect_postprocess, which has a scale of stride 64 as well.
Rfb ==
  [kind |-> "rfb", valid |-> 4, nms |-> 40, finest |-> <<40, 40, 40, 40>>,
   global |-> 4, report |-> 4, lone |-> {1}, gap |-> FALSE, missed |-> 0]

\* person_do_post_process: above 0.8 is from 0.9 on, in tenths.
Person ==
  [kind |-> "person", valid |-> 9, nms |-> 40, finest |-> <<20, 40, 20>>,
   global |-> 7, report |-> 6, lone |-> {}, gap |-> FALSE, missed |-> 0]

\* postprocess_plate_det: 4508 of the 4608 candidates are looked at; here,
\* all but the last one.
Plate ==
  [kind |-> "plate", valid |-> 9, nms |-> 10, finest |-> <<20, 10, 10>>,
   global |-> 8, report |-> 6, lone |-> {}, gap |-> FALSE, missed |-> 1]

Nms(net, s, percent) ==
  CASE net.kind = "retina" -> RetinaNms(s, percent)
    [] net.kind = "rfb"    -> RfbNms(s, percent)
    [] net.kind = "person" -> PersonNms(s, percent)
    [] net.kind = "plate"  -> PlateNms(s, percent)
    [] net.kind = "aiface" -> AifaceNms(s, percent)

Global(net, s, t) ==
  CASE net.kind = "plate"  -> PlateBetween(net.global, s, t)
    [] net.kind = "aiface" -> AifaceBetween(net.global, s, t)
    [] OTHER               -> RetinaBetween(net.global, s, t)

\* The candidates below net.valid are cleared.
Cleared(net, s) ==
  [i \in DOMAIN s |-> IF s[i].p < net.valid THEN [s[i] EXCEPT !.p = 0] ELSE s[i]]

IsValid(s) == \E i \in DOMAIN s : s[i].p > 0

\* The scales that are used: from the first valid one to the one before the
\* next that is not, or all the valid ones.
Used(net, scales) ==
  LET valid == {k \in DOMAIN scales : IsValid(scales[k])}
  IN  IF net.gap THEN valid
      ELSE {k \in valid : \A m \in Min(valid) .. k : m \in valid}

Percent(net, scales, used, k) ==
  IF k = Len(scales) THEN net.finest[Cardinality(used)] ELSE net.nms

\* The scales after suppression within each: all the outcomes.
Within(net, scales, used) ==
  LET outcome(k) == IF k \in used
                    THEN Nms(net, scales[k], Percent(net, scales, used, k))
                    ELSE {scales[k]}
  IN  {t \in [DOMAIN scales -> UNION {outcome(k) : k \in DOMAIN scales}] :
         \A k \in DOMAIN scales : t[k] \in outcome(k)}

AcrossStep(net, scales, used, k) ==
  IF {k, k + 1} \subseteq used
  THEN LET st == Global(net, scales[k], scales[k + 1])
       IN  [scales EXCEPT ![k] = st[1], ![k + 1] = st[2]]
  ELSE scales

\* Suppression between each used scale and the next, the coarsest first.
Across(net, scales, used) ==
  FoldLeft(LAMBDA t, k : AcrossStep(net, t, used, k),
           scales, Upto(1, Len(scales) - 1))

\* How many candidates of scale k are looked at for the result.
Looked(net, scales, used, k) ==
  IF k = Len(scales) /\ used = DOMAIN scales
  THEN Len(scales[k]) - net.missed ELSE Len(scales[k])

ReportAbove(net, used) == IF \E k \in net.lone : used = {k} THEN 0 ELSE net.report

=============================================================================

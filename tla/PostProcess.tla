---------------------------- MODULE PostProcess ----------------------------
(***************************************************************************)
(* The post-processing of a detection network's output                     *)
(* (nndemo-library/src/demo/verisilicon), one call after another:          *)
(*                                                                         *)
(*   yolo   yolov3_postprocess_multi_thread: a thread for each of the      *)
(*          three scales fills its part of the boxes and counts those      *)
(*          above the threshold; the caller takes part as thread 0, joins  *)
(*          the others, gathers the boxes into arrays of that count,       *)
(*          suppresses class by class and reports;                         *)
(*   faces  and plates and persons: the functions with several scales      *)
(*          described by the records of Suppress.                          *)
(*                                                                         *)
(* Meanwhile det_set_param may change the greatest number of results,      *)
(* g_detect_number: libdetect-library and libnndemo define it both, and    *)
(* the dynamic linker makes them one variable.                             *)
(***************************************************************************)
EXTENDS Suppress

CONSTANTS
  Nets,              \* the networks of Suppress that are called
  FaceInputs(_),     \* the scales that a network can put out
  YoloInputs,        \* the cells of the threads 0, 1, 2 that yolo can put out
  num_class,         \* the classes of yolo
  Numbers,           \* the values of g_detect_number
  MAX_DETECT_NUM,
  MAX_FACE_DETECT_NUM,
  MaxCalls           \* bound: calls of the post-processing

ASSUME NumbersAssumption ==
  /\ MAX_DETECT_NUM \in Nat /\ MAX_FACE_DETECT_NUM \in Nat
  /\ Numbers \subseteq 1 .. MAX_DETECT_NUM

Threads == 0 .. 2

\* A yolo cell: its objectness in tenths and, class by class, its
\* probability, already cleared where it is not above the threshold.
YoloCell ==
  [x : Int, y : Int, w : Int, h : Int, obj : Nat, prob : [1 .. num_class -> Nat]]

ASSUME InputsAssumption ==
  /\ Nets \subseteq {FaceDetect, FaceLandmark5, Aiface, Rfb, Person, Plate}
  /\ \A n \in Nets : FaceInputs(n) \subseteq {s \in Seq(Scale) : Len(s) = Len(n.finest)}
  /\ num_class \in Nat
  /\ YoloInputs \subseteq [Threads -> Seq(YoloCell)]

VARIABLES
  pc,               \* where the call is: see Next
  net,              \* the network of the call, or NoNet for yolo
  input,            \* its cells as the network put them out, by scale
  scales,           \* the same as far as they have been processed
  used,             \* the scales that are reported
  at,               \* yolo: the next cell of each thread
  filtered,         \* yolov3_box_num_after_filter_arr, by thread
  pos,              \* the next candidate to report: scale and index
  found,            \* the candidates reported: the result
  g_detect_number,
  seen,             \* history: the values it had during the call
  calls             \* calls so far

vars == <<pc, net, input, scales, used, at, filtered, pos, found,
          g_detect_number, seen, calls>>

NoNet == [kind |-> "yolo", report |-> 4]

Init ==
  /\ pc = "idle" /\ net = NoNet /\ input = << >> /\ scales = << >> /\ used = {}
  /\ at = [i \in Threads |-> 0] /\ filtered = [i \in Threads |-> 0]
  /\ pos = <<1, 1>> /\ found = << >>
  /\ g_detect_number \in Numbers /\ seen = {g_detect_number}
  /\ calls = 0

-----------------------------------------------------------------------------
(* yolov3_postprocess_multi_thread.                                        *)

Threshold == 4

\* Variant: the counters keep what the call before left in them.
YBeginNoReset ==
  /\ pc = "idle" /\ calls < MaxCalls
  /\ \E c \in YoloInputs : input' = c /\ scales' = [i \in Threads |-> << >>]
  /\ pc' = "threads" /\ net' = NoNet /\ used' = {1}
  /\ at' = [i \in Threads |-> 1]
  /\ found' = << >> /\ pos' = <<1, 1>> /\ seen' = {g_detect_number}
  /\ calls' = calls + 1
  /\ UNCHANGED <<filtered, g_detect_number>>

\* The counters are reset and the threads 1 and 2 created.
YBegin ==
  /\ pc = "idle" /\ calls < MaxCalls
  /\ \E c \in YoloInputs : input' = c /\ scales' = [i \in Threads |-> << >>]
  /\ pc' = "threads" /\ net' = NoNet /\ used' = {1}
  /\ at' = [i \in Threads |-> 1]
  /\ filtered' = [i \in Threads |-> 0]
  /\ found' = << >> /\ pos' = <<1, 1>> /\ seen' = {g_detect_number}
  /\ calls' = calls + 1
  /\ UNCHANGED g_detect_number

\* yolo_v3_post_process_onescale in thread i, one cell: its box is filled in
\* and counted if its objectness is above the threshold, and prob_obj is 0 if
\* not.
YCell(i) ==
  /\ pc = "threads" /\ at[i] <= Len(input[i])
  /\ LET c == input[i][at[i]] IN
     IF c.obj > Threshold
     THEN /\ filtered' = [filtered EXCEPT ![i] = @ + 1]
          /\ scales' = [scales EXCEPT ![i] = Append(@, c)]
     ELSE /\ scales' = [scales EXCEPT ![i] = Append(@, [c EXCEPT !.obj = 0])]
          /\ UNCHANGED filtered
  /\ at' = [at EXCEPT ![i] = @ + 1]
  /\ UNCHANGED <<pc, net, input, used, pos, found, g_detect_number, seen, calls>>

\* The boxes with a prob_obj, in the order of the array: thread 2's first.
GatherInto(boxes, c) == IF c.obj > 0 THEN Append(boxes, c) ELSE boxes
Gathered == FoldLeft(GatherInto, << >>, scales[2] \o scales[1] \o scales[0])

\* Thread 0 is the caller; then it joins the others and gathers the boxes.
YJoin ==
  /\ pc = "threads" /\ \A i \in Threads : at[i] > Len(input[i])
  /\ pc' = "nms"
  /\ scales' = <<Gathered>>
  /\ UNCHANGED <<net, input, used, at, filtered, pos, found, g_detect_number, seen, calls>>

Classes(s) == UNION {DOMAIN s[i].prob : i \in DOMAIN s}

\* One class of the cells, as candidates.
ClassOf(s, k) ==
  [i \in DOMAIN s |-> [x |-> s[i].x, y |-> s[i].y, w |-> s[i].w, h |-> s[i].h,
                       p |-> s[i].prob[k]]]

\* do_nms_sort goes through the classes; each has probabilities of its own.
\* Then every cell counts for the class that max_index finds.
Best(s, outcome) ==
  [i \in DOMAIN s |->
     [x |-> s[i].x, y |-> s[i].y, w |-> s[i].w, h |-> s[i].h,
      p |-> Max({outcome[k][i].p : k \in Classes(s)})]]

YNms ==
  /\ pc = "nms"
  /\ pc' = "report"
  /\ \E outcome \in [Classes(scales[1]) ->
                       UNION {YoloNms(ClassOf(scales[1], k), 40) : k \in Classes(scales[1])}] :
       /\ \A k \in Classes(scales[1]) : outcome[k] \in YoloNms(ClassOf(scales[1], k), 40)
       /\ scales' = <<Best(scales[1], outcome)>>
  /\ UNCHANGED <<net, input, used, at, filtered, pos, found, g_detect_number, seen, calls>>

-----------------------------------------------------------------------------
(* The networks of Suppress.                                               *)

\* The result is cleared as far as detNum, the candidates below the least
\* probability are cleared, and the valid scales are noted.
FBegin ==
  /\ pc = "idle" /\ calls < MaxCalls
  /\ \E n \in Nets : \E s \in FaceInputs(n) :
       LET cleared == [k \in DOMAIN s |-> Cleared(n, s[k])] IN
       /\ net' = n /\ input' = cleared /\ scales' = cleared
       /\ used' = Used(n, cleared)
  /\ pc' = "within" /\ found' = << >> /\ pos' = <<1, 1>>
  /\ seen' = {g_detect_number} /\ calls' = calls + 1
  /\ UNCHANGED <<at, filtered, g_detect_number>>

FWithin ==
  /\ pc = "within"
  /\ pc' = "across"
  /\ scales' \in Within(net, scales, used)
  /\ UNCHANGED <<net, input, used, at, filtered, pos, found, g_detect_number, seen, calls>>

FAcross ==
  /\ pc = "across"
  /\ pc' = "report"
  /\ scales' = Across(net, scales, used)
  /\ UNCHANGED <<net, input, used, at, filtered, pos, found, g_detect_number, seen, calls>>

-----------------------------------------------------------------------------
(* The result, one candidate after the other: retina_point5_result,        *)
(* retina_result, yolov2_result and their like.                            *)

Above == IF net = NoNet THEN Threshold ELSE ReportAbove(net, used)
InScale(k) ==
  IF k \notin used THEN 0
  ELSE IF net = NoNet THEN Len(scales[1]) ELSE Looked(net, scales, used, k)

\* aiface has a limit of its own and does not know g_detect_number.
AtLimit ==
  IF net.kind = "aiface" THEN Len(found) >= MAX_FACE_DETECT_NUM
                         ELSE Len(found) >= g_detect_number

NextScale == pos' = <<pos[1] + 1, 1>> /\ UNCHANGED found

\* Variant: the limit is tested after the candidate was added.
ReportOneMore ==
  /\ pc = "report" /\ pos[1] <= Len(scales)
  /\ IF pos[2] > InScale(pos[1]) THEN NextScale
     ELSE IF scales[pos[1]][pos[2]].p > Above
     THEN IF Len(found) > g_detect_number THEN NextScale
          ELSE found' = Append(found, pos) /\ pos' = [pos EXCEPT ![2] = @ + 1]
     ELSE pos' = [pos EXCEPT ![2] = @ + 1] /\ UNCHANGED found
  /\ UNCHANGED <<pc, net, input, scales, used, at, filtered, g_detect_number, seen, calls>>

\* At the limit the rest of this scale is left out; the next scale is begun.
Report ==
  /\ pc = "report" /\ pos[1] <= Len(scales)
  /\ IF pos[2] > InScale(pos[1]) THEN NextScale
     ELSE IF Len(found) < MAX_DETECT_NUM /\ scales[pos[1]][pos[2]].p > Above
     THEN IF AtLimit THEN NextScale
          ELSE found' = Append(found, pos) /\ pos' = [pos EXCEPT ![2] = @ + 1]
     ELSE pos' = [pos EXCEPT ![2] = @ + 1] /\ UNCHANGED found
  /\ UNCHANGED <<pc, net, input, scales, used, at, filtered, g_detect_number, seen, calls>>

Return ==
  /\ pc = "report" /\ pos[1] > Len(scales)
  /\ pc' = "returned"
  /\ UNCHANGED <<net, input, scales, used, at, filtered, pos, found, g_detect_number, seen, calls>>

\* The caller has taken the result; post_process_all_module may be called
\* again.
Taken ==
  /\ pc = "returned"
  /\ pc' = "idle"
  /\ input' = << >> /\ scales' = << >> /\ found' = << >> /\ used' = {} /\ net' = NoNet
  /\ pos' = <<1, 1>> /\ seen' = {g_detect_number}
  /\ UNCHANGED <<at, filtered, g_detect_number, calls>>

\* det_set_param, from another thread.
SetNumber ==
  /\ pc # "idle"
  /\ \E n \in Numbers \ {g_detect_number} :
       g_detect_number' = n /\ seen' = seen \cup {n}
  /\ UNCHANGED <<pc, net, input, scales, used, at, filtered, pos, found, calls>>

Next ==
  \/ YBegin \/ (\E i \in Threads : YCell(i)) \/ YJoin \/ YNms
  \/ FBegin \/ FWithin \/ FAcross
  \/ Report \/ Return \/ Taken \/ SetNumber

Spec == Init /\ [][Next]_vars

-----------------------------------------------------------------------------
(* Properties.                                                             *)

\* The arrays for the boxes above the threshold, allocated by the threads'
\* counters, have room for just the boxes that are gathered: one box more is
\* written past them, one less leaves a null row that the suppression reads
\* (model_yolo_postprocess.c: the counter and prob_obj are two tests).
RoomForEveryBox ==
  pc = "nms" => Len(scales[1]) = filtered[0] + filtered[1] + filtered[2]

\* s is what suppression by percent should leave of t: the candidates left
\* are apart, and one that went is near one left at least as probable.
Kernel(box, percent, t, s) ==
  \A i \in DOMAIN s :
    /\ s[i].p \in {0, t[i].p}
    /\ s[i].p > 0 =>
         \A j \in DOMAIN s \ {i} : s[j].p = 0 \/ ~Near(box, s[i], s[j], percent)
    /\ s[i].p = 0 /\ t[i].p > 0 =>
         \E j \in DOMAIN s \ {i} : s[j].p >= t[i].p /\ Near(box, s[i], s[j], percent)

\* The overlap by which a network compares the boxes of one scale, and that
\* by which it compares those of two: rfb takes a corner for the centre in
\* the one (rfb_box_iou) and not in the other (retina_box_iou).
BoxWithin(n) == IF n.kind \in {"plate", "rfb"} THEN n.kind ELSE "retina"
BoxAcross(n) == IF n.kind = "plate" THEN "plate" ELSE "retina"

\* Whatever the order qsort gives to equal candidates, what the suppression
\* within a scale leaves is a kernel: nothing near is left twice and nothing
\* goes without a better reason, near by the overlap that the network's own
\* function computes (for plates and rfb that is not the shared area).  Not
\* for aiface, whose merging of equal candidates changes a box after others
\* were compared with it.
LeavesKernel ==
  /\ pc = "across" /\ net.kind # "aiface" =>
       \A k \in used :
         Kernel(BoxWithin(net), Percent(net, input, used, k), input[k],
                scales[k])
  /\ pc = "nms" =>
       \A k \in Classes(scales[1]) : \A s \in YoloNms(ClassOf(scales[1], k), 40) :
         Kernel("yolo", 40, ClassOf(scales[1], k), s)

Reported == {found[i] : i \in DOMAIN found}
Candidate(q) == scales[q[1]][q[2]]
NearAcross(n, a, b) == Near(BoxAcross(n), a, b, 10)

\* No face is reported by two neighbouring scales, near by the overlap that
\* do_global_sort and its like compute.
ReportedOnce ==
  pc = "returned" /\ net # NoNet =>
    \A q, r \in Reported :
      r[1] = q[1] + 1 => ~NearAcross(net, Candidate(q), Candidate(r))

\* The candidates that the call was to report.
Reportable ==
  {q \in UNION {{k} \X (1 .. InScale(k)) : k \in used} : Candidate(q).p > Above}

\* The result never has more entries than the greatest number that
\* g_detect_number was during the call, and is cut short only if it has at
\* least the least of them: det_set_param may race with the report.
CutAtTheNumber ==
  pc = "returned" /\ net.kind # "aiface" =>
    /\ Len(found) <= Max(seen)
    /\ Reported # Reportable => Len(found) >= Min(seen)

=============================================================================

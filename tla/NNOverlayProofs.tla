-------------------------- MODULE NNOverlayProofs --------------------------
(***************************************************************************)
(* The nnoverlay element implements the render-buffer specification, for   *)
(* any number of results, toggles and failures; so what OverlayDrawProofs  *)
(* proves of OverlayRing holds inside the element.  Two properties of the  *)
(* results themselves follow: a stored one has a timer, and the frames     *)
(* never step back to an older one.                                        *)
(***************************************************************************)
EXTENDS NNOverlay, TLAPS

USE DEF ringVars, Ring!vars

LEMMA StepsAreRingSteps == [Next]_vars => [Ring!Next]_Ring!vars
<1>1. ENext => UNCHANGED Ring!vars
  BY DEF ENext, ERemoveTimer, EReplace, EClear, ESignal
<1>2. LNext => UNCHANGED Ring!vars
  BY DEF LNext, LFire, LRelease
<1>3. PWake \/ PDisabled \/ PAbsent \/ PClear \/ PCopy => UNCHANGED Ring!vars
  BY DEF PWake, PDisabled, PAbsent, PClear, PCopy, PLook
<1>4. PFull \/ PChoose \/ PMapFail \/ PDraw \/ PPublish => Ring!Next
  BY DEF PFull, PChoose, PMapFail, PDraw, PPublish, Ring!Next, Ring!PNext
<1>5. DNext => Ring!Next
  BY DEF DNext, DTake, DRelease, Ring!Next, Ring!DNext
<1>6. ASetEnabled \/ UNCHANGED vars => UNCHANGED Ring!vars
  BY DEF ASetEnabled, vars
<1>7. QED
  BY <1>1, <1>2, <1>3, <1>4, <1>5, <1>6 DEF Next, PNext

\* The refinement: a step of the element is a step of the render buffers or
\* leaves them alone.
THEOREM ImplementsRing == Spec => RingSpec
<1>1. Init => Ring!Init
  BY DEF Init
<1>2. QED
  BY <1>1, StepsAreRingSteps, PTL DEF Spec, RingSpec, Ring!Spec

-----------------------------------------------------------------------------
(***************************************************************************)
(* Lifting.  RingP is the ring together with its proofs; its definitions   *)
(* are those of Ring under another name.  The proofs stand next to those   *)
(* of OverlayDraw, whose pixels have no part in them: they are given any   *)
(* values here.                                                            *)
(***************************************************************************)
RingP == INSTANCE OverlayDrawProofs
           WITH Width <- 1, Height <- 1, UMod <- 2, THICKNESS <- 0, Drawings <- {},
                pixels <- {}, dirtyRect <- {}, todo <- {}, wiped <- FALSE,
                blended <- FALSE, frame <- {}, picture <- {}, crooked <- {}

LEMMA SameRing == RingSpec => RingP!Spec
<1> USE DEF RingP!vars, Ring!indexVars, RingP!indexVars, Ring!NONE, RingP!NONE,
        Ring!Succ, RingP!Succ, Ring!MovedRender, RingP!MovedRender
<1>1. Ring!Init => RingP!Init
  BY DEF Ring!Init, RingP!Init
<1>2. Ring!DNext => RingP!DNext
  BY DEF Ring!DNext, Ring!DTake, Ring!DRelease,
         RingP!DNext, RingP!DTake, RingP!DRelease
<1>3. Ring!PNext => RingP!PNext
  BY DEF Ring!PNext, Ring!PFull, Ring!PChoose, Ring!PMapFail, Ring!PDraw,
         Ring!PPublish, RingP!PNext, RingP!PFull, RingP!PChoose,
         RingP!PMapFail, RingP!PDraw, RingP!PPublish
<1>4. [Ring!Next]_Ring!vars => [RingP!Next]_RingP!vars
  BY <1>2, <1>3 DEF Ring!Next, RingP!Next
<1>5. QED
  BY <1>1, <1>4, PTL DEF RingSpec, Ring!Spec, RingP!Spec

\* Inside the element too, D never blends a buffer that P is drawing in.
THEOREM ElementExcludes == Spec => []Ring!NoTearing
<1>1. RingP!Spec => []RingP!NoTearing
  BY RingP!MutualExclusion, BuffersAssumption
<1>2. RingP!NoTearing => Ring!NoTearing
  BY DEF RingP!NoTearing, Ring!NoTearing
<1>3. QED
  BY ImplementsRing, SameRing, <1>1, <1>2, PTL

\* Inside the element too, with its two buffers, D is pointed to the newest
\* drawing, except just before its publication.
THEOREM NewestIsShown ==
  ASSUME RENDER_BUF_CNT = 2
  PROVE  Spec => []ShowsNewest
<1>1. RingP!Spec => []RingP!ShowsNewest
  BY RingP!NewestIsShown, BuffersAssumption
<1>2. RingP!ShowsNewest => ShowsNewest
  BY DEF RingP!ShowsNewest, ShowsNewest, Ring!ShowsNewest
<1>3. QED
  BY ImplementsRing, SameRing, <1>1, <1>2, PTL

-----------------------------------------------------------------------------
(***************************************************************************)
(* A stored result has a timer.                                            *)
(***************************************************************************)
\* Result numbers count up from 1, so no timer is named 0.
Numbered == sent \in Nat /\ \A t \in timers : t # 0

LEMMA TimerStep == Numbered /\ ResultHasTimer /\ [Next]_vars => (Numbered /\ ResultHasTimer)'
<1> SUFFICES ASSUME Numbered, ResultHasTimer, [Next]_vars
             PROVE  Numbered' /\ ResultHasTimer'
  OBVIOUS
<1> USE DEF Numbered, ResultHasTimer
<1>1. CASE ERemoveTimer
  BY <1>1 DEF ERemoveTimer
<1>2. CASE EReplace
  BY <1>2 DEF EReplace
<1>3. CASE EClear \/ ESignal
  BY <1>3 DEF EClear, ESignal, NoResult
\* The timer leaves the main loop's list only for its callback ...
<1>4. CASE LFire
  BY <1>4 DEF LFire
\* ... and the callback takes the result with it.
<1>5. CASE LRelease
  BY <1>5 DEF LRelease
<1>6. CASE PNext
  BY <1>6 DEF PNext, PWake, PDisabled, PAbsent, PClear, PCopy, PLook, PFull,
              PChoose, PMapFail, PDraw, PPublish, resultVars
<1>7. CASE DNext \/ ASetEnabled \/ UNCHANGED vars
  BY <1>7 DEF DNext, DTake, DRelease, ASetEnabled, vars, resultVars
<1>8. QED
  BY <1>1, <1>2, <1>3, <1>4, <1>5, <1>6, <1>7 DEF Next, ENext, LNext

\* A stored result has a timer, or a callback about to run, that drops it, or E
\* is about to replace it.
THEOREM TimerIsThere == Spec => []ResultHasTimer
<1>1. Init => Numbered /\ ResultHasTimer
  BY DEF Init, Numbered, ResultHasTimer
<1>2. QED
  BY <1>1, TimerStep, PTL DEF Spec

-----------------------------------------------------------------------------
(***************************************************************************)
(* Frames never step back to an older result.                              *)
(*                                                                         *)
(* A drawing in hand or waiting for publication is empty or at least as    *)
(* new as both what the last frame showed and what is published: the       *)
(* stored result is always the last one sent, and P, which copies it, has  *)
(* no drawing under way when it does.                                      *)
(***************************************************************************)
Bounded ==
  /\ sent \in Nat /\ buf \in {NoResult, sent}
  /\ hand \in 0 .. sent /\ shown \in 0 .. sent
  /\ surface \in [Ring!Buffers -> 0 .. sent]

AtLeastPublished(v) ==
  next_display_idx # Ring!NONE => v >= surface[next_display_idx]
InOrder(v) == v = NoRects \/ (v >= shown /\ AtLeastPublished(v))

DrawsOneAtATime    == rpc # "idle" => ppc = "draw"
PublishedInOrder   ==
  next_display_idx # Ring!NONE =>
    surface[next_display_idx] = NoRects \/ surface[next_display_idx] >= shown
HandInOrder        == ppc = "draw" /\ rpc # "publish" => InOrder(hand)
DrawingInOrder     == rpc = "publish" => InOrder(surface[draw_idx])

OInv == /\ Bounded /\ DrawsOneAtATime
        /\ PublishedInOrder /\ HandInOrder /\ DrawingInOrder

\* What the ring gives when it has two buffers: P draws beside the published
\* buffer and publishes what it has drawn in.
DrawsBeside ==
  /\ next_display_idx \in Ring!Buffers \cup {Ring!NONE}
  /\ rpc \in {"draw", "publish"} =>
       /\ draw_idx \in Ring!Buffers /\ draw_idx # next_display_idx
       /\ render_idx = draw_idx

LEMMA DrawsBesideHolds ==
  ASSUME RENDER_BUF_CNT = 2
  PROVE  Spec => []DrawsBeside
<1>1. RingP!Spec => [](RingP!DrawsRenderIdx /\ RingP!NothingToShow /\ RingP!Newest)
  BY RingP!TwoBuffersHold, BuffersAssumption
<1>2. RingP!Spec => []RingP!TypeOK
  BY RingP!TypeCorrect, BuffersAssumption
<1>3. RingP!DrawsRenderIdx /\ RingP!TypeOK => DrawsBeside
  BY DEF RingP!DrawsRenderIdx, RingP!TypeOK, DrawsBeside, Ring!Buffers,
         RingP!Buffers, Ring!NONE, RingP!NONE
<1>4. QED
  BY ImplementsRing, SameRing, <1>1, <1>2, <1>3, PTL

LEMMA BoundedStep == Bounded /\ DrawsBeside /\ [Next]_vars => Bounded'
<1> SUFFICES ASSUME Bounded, DrawsBeside, [Next]_vars PROVE Bounded'
  OBVIOUS
<1> USE DEF Bounded, NoRects, Ring!Buffers
<1>1. CASE ENext
  BY <1>1 DEF ENext, ERemoveTimer, EReplace, EClear, ESignal, viewVars, drawVars
<1>2. CASE LNext
  BY <1>2 DEF LNext, LFire, LRelease, viewVars, drawVars
<1>3. CASE PWake \/ PDisabled \/ PAbsent \/ PClear \/ PCopy
  BY <1>3 DEF PWake, PDisabled, PAbsent, PClear, PCopy, PLook, resultVars, viewVars
<1>4. CASE PFull \/ PChoose \/ PMapFail \/ PPublish
  BY <1>4 DEF PFull, PChoose, PMapFail, PPublish, resultVars, drawVars, viewVars
<1>5. CASE PDraw
  BY <1>5 DEF PDraw, resultVars, drawVars
<1>6. CASE DTake
  BY <1>6 DEF DTake, DrawsBeside, Ring!NONE, NoResult, resultVars, drawVars
<1>7. CASE DRelease \/ ASetEnabled \/ UNCHANGED vars
  BY <1>7 DEF DRelease, ASetEnabled, vars, resultVars, drawVars, viewVars
<1>8. QED
  BY <1>1, <1>2, <1>3, <1>4, <1>5, <1>6, <1>7 DEF Next, PNext, DNext

LEMMA OInvStep == OInv /\ DrawsBeside /\ [Next]_vars => OInv'
<1> SUFFICES ASSUME OInv, DrawsBeside, [Next]_vars
             PROVE  /\ DrawsOneAtATime' /\ PublishedInOrder'
                    /\ HandInOrder' /\ DrawingInOrder'
  BY BoundedStep DEF OInv
<1> USE DEF OInv, DrawsOneAtATime, PublishedInOrder, HandInOrder,
            DrawingInOrder, InOrder, AtLeastPublished
<1>1. CASE ENext \/ LNext \/ ASetEnabled \/ UNCHANGED vars
  BY <1>1 DEF ENext, ERemoveTimer, EReplace, EClear, ESignal, LNext, LFire,
              LRelease, ASetEnabled, vars, viewVars, drawVars
<1>2. CASE PWake \/ PDisabled \/ PAbsent
  BY <1>2 DEF PWake, PDisabled, PAbsent, PLook, viewVars
<1>3. CASE PClear
  BY <1>3 DEF PClear, PLook, viewVars
\* P copies the last result sent, and nothing drawn so far is newer.
<1>4. CASE PCopy
  <2>1. hand' = sent /\ UNCHANGED <<shown, surface, next_display_idx, rpc, draw_idx>>
    BY <1>4 DEF PCopy, PLook, Bounded, viewVars
  <2>2. sent >= shown /\ AtLeastPublished(sent)
    BY DEF Bounded, DrawsBeside
  <2>3. rpc = "idle"
    BY <1>4 DEF PCopy, PLook
  <2>4. QED
    BY <2>1, <2>2, <2>3 DEF PCopy, PLook
<1>5. CASE PFull \/ PMapFail
  BY <1>5 DEF PFull, Ring!PFull, PMapFail, Ring!PMapFail, Ring!indexVars, viewVars
<1>6. CASE PChoose
  BY <1>6 DEF PChoose, Ring!PChoose, drawVars, viewVars
\* The drawing goes beside the published one, which stays as it is.
<1>7. CASE PDraw
  <2>1. /\ UNCHANGED <<next_display_idx, shown, draw_idx, ppc, hand>>
        /\ rpc = "draw" /\ rpc' = "publish"
        /\ surface' = [surface EXCEPT ![draw_idx] = hand]
    BY <1>7 DEF PDraw, Ring!PDraw, Ring!indexVars, drawVars
  <2>2. surface'[draw_idx] = hand
    BY <2>1 DEF DrawsBeside, Bounded
  <2>3. next_display_idx # Ring!NONE =>
          surface'[next_display_idx] = surface[next_display_idx]
    BY <2>1 DEF DrawsBeside, Bounded
  <2>4. QED
    BY <2>1, <2>2, <2>3
<1>8. CASE PPublish
  <2>1. /\ UNCHANGED <<shown, surface>>
        /\ rpc = "publish" /\ rpc' = "idle" /\ ppc' = "wait"
        /\ next_display_idx' = draw_idx
    BY <1>8 DEF PPublish, Ring!PPublish, DrawsBeside, viewVars
  <2>2. QED
    BY <2>1
\* D shows what is published, and what P has in hand is no older.
<1>9. CASE DTake
  <2>1. /\ UNCHANGED <<next_display_idx, surface, rpc, ppc, hand, draw_idx>>
        /\ shown' = IF next_display_idx = NoResult
                    THEN NoRects ELSE surface[next_display_idx]
    BY <1>9 DEF DTake, Ring!DTake, drawVars
  <2>2. hand >= NoRects
    BY DEF Bounded, NoRects
  <2>3. rpc = "publish" => surface[draw_idx] >= NoRects
    BY DEF Bounded, NoRects, DrawsBeside
  <2>4. next_display_idx # Ring!NONE =>
          /\ surface[next_display_idx] \in Int /\ shown' = surface[next_display_idx]
    BY <2>1 DEF Bounded, DrawsBeside, Ring!NONE, NoResult
  <2>5. next_display_idx = Ring!NONE => shown' = NoRects
    BY <2>1 DEF Ring!NONE, NoResult
  <2>6. QED
    BY <2>1, <2>2, <2>3, <2>4, <2>5
<1>10. CASE DRelease
  BY <1>10 DEF DRelease, Ring!DRelease, drawVars, viewVars
<1>11. QED
  BY <1>1, <1>2, <1>3, <1>4, <1>5, <1>6, <1>7, <1>8, <1>9, <1>10
     DEF Next, PNext, DNext

\* With the two buffers of the element: once the rectangles of a result have
\* been superseded in the frames, they do not come up again.
THEOREM FramesNeverStepBack ==
  ASSUME RENDER_BUF_CNT = 2
  PROVE  Spec => NeverStepsBack
<1>1. Init => OInv
  BY DEF Init, Ring!Init, OInv, Bounded, DrawsOneAtATime, PublishedInOrder,
         HandInOrder, DrawingInOrder, NoRects
<1>2. OInv /\ [Next]_vars =>
        [shown' = NoRects \/ shown' >= shown \/ shown = NoRects]_vars
  <2> SUFFICES ASSUME OInv, Next
               PROVE  shown' = NoRects \/ shown' >= shown \/ shown = NoRects
    BY DEF vars
  <2>1. CASE DTake
    BY <2>1 DEF DTake, OInv, PublishedInOrder, Ring!NONE, NoResult
  <2>2. CASE shown' = shown
    BY <2>2 DEF OInv, Bounded
  <2>3. QED
    BY <2>1, <2>2 DEF Next, ENext, ERemoveTimer, EReplace, EClear, ESignal,
       LNext, LFire, LRelease, PNext, PWake, PDisabled, PAbsent, PClear, PCopy,
       PLook, PFull, PChoose, PMapFail, PDraw, PPublish, DNext, DRelease,
       ASetEnabled, viewVars
<1>3. QED
  BY <1>1, <1>2, OInvStep, DrawsBesideHolds, PTL DEF Spec, NeverStepsBack
=============================================================================

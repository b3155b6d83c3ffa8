------------------------- MODULE OverlayDrawProofs -------------------------
(***************************************************************************)
(* Proofs about the render buffers of nnoverlay and what is drawn in them, *)
(* for frames, borders, results and numbers of buffers of any size: the    *)
(* two threads keep apart, a buffer shows its result and nothing else, and *)
(* so does a frame.                                                        *)
(***************************************************************************)
EXTENDS OverlayDraw, SequenceTheorems, TLAPS

-----------------------------------------------------------------------------
(***************************************************************************)
(* The render buffers of OverlayRing, which OverlayDraw extends: the two   *)
(* threads keep apart, and with two buffers the newest drawing is shown.   *)
(***************************************************************************)
LEMMA SuccProperties ==
  ASSUME NEW i \in Buffers \cup {NONE}
  PROVE  Succ(i) \in Buffers /\ Succ(i) # i /\ NONE \notin Buffers
  BY RenderBufCntAssumption DEF Succ, Buffers, NONE

\* The buffer P moves to is not the one D is to show.
LEMMA MovedRenderProperties ==
  ASSUME TypeOK
  PROVE  /\ MovedRender \in Buffers \cup {NONE}
         /\ MovedRender # next_display_idx
  BY SuccProperties DEF TypeOK, MovedRender

\* Every variable keeps its type: render_idx wraps before it leaves the ring.
THEOREM TypeCorrect == Spec => []TypeOK
<1>1. Init => TypeOK
  BY DEF Init, TypeOK
<1>2. TypeOK /\ [Next]_vars => TypeOK'
  <2> SUFFICES ASSUME TypeOK, [Next]_vars PROVE TypeOK'
    OBVIOUS
  <2> USE DEF TypeOK
  <2>1. MovedRender \in Buffers \cup {NONE} /\ Succ(render_idx) \in Buffers
    BY SuccProperties, MovedRenderProperties
  <2>2. CASE DTake
    BY <2>2 DEF DTake
  <2>3. CASE DRelease
    BY <2>1, <2>3 DEF DRelease
  <2>4. CASE PFull \/ PChoose
    BY <2>1, <2>4 DEF PFull, PChoose
  <2>5. CASE PMapFail \/ PDraw \/ PPublish
    BY <2>5 DEF PMapFail, PDraw, PPublish, indexVars
  <2>6. CASE UNCHANGED vars
    BY <2>6 DEF vars
  <2>7. QED
    BY <2>2, <2>3, <2>4, <2>5, <2>6 DEF Next, DNext, PNext
<1>3. QED
  BY <1>1, <1>2, PTL DEF Spec

-----------------------------------------------------------------------------
(***************************************************************************)
(* The buffer P draws in is neither the one D has announced nor the one D  *)
(* would announce next; what D blends it has announced.                    *)
(***************************************************************************)
Started == render_idx = NONE => next_display_idx = NONE
DisplayAnnounced ==
  dpc = "blend" => cur_display_idx = display_idx /\ display_idx \in Buffers
WriterApart ==
  rpc = "draw" => draw_idx \in Buffers \ {next_display_idx, cur_display_idx}

IInv == Started /\ DisplayAnnounced /\ WriterApart

LEMMA IInvStep == TypeOK /\ IInv /\ [Next]_vars => IInv'
<1> SUFFICES ASSUME TypeOK, IInv, [Next]_vars PROVE IInv'
  OBVIOUS
<1> USE DEF IInv, Started, DisplayAnnounced, WriterApart
<1>1. Succ(render_idx) \in Buffers /\ NONE \notin Buffers
  BY SuccProperties DEF TypeOK
\* D announces what is published, hence not what P draws in.
<1>2. CASE DTake
  BY <1>1, <1>2 DEF DTake, TypeOK
<1>3. CASE DRelease
  BY <1>1, <1>3 DEF DRelease
<1>4. CASE PFull \/ PChoose
  <2>1. MovedRender # NONE => MovedRender \in Buffers
    BY MovedRenderProperties
  <2>2. MovedRender # NONE
    BY <1>1 DEF MovedRender
  <2>3. QED
    BY <1>4, <2>1, <2>2, MovedRenderProperties DEF PFull, PChoose
<1>5. CASE PMapFail \/ PDraw \/ PPublish
  BY <1>5 DEF PMapFail, PDraw, PPublish, indexVars
<1>6. CASE UNCHANGED vars
  BY <1>6 DEF vars
<1>7. QED
  BY <1>2, <1>3, <1>4, <1>5, <1>6 DEF Next, DNext, PNext

LEMMA IInvHolds == Spec => []IInv
<1>1. Init => IInv
  BY DEF Init, IInv, Started, DisplayAnnounced, WriterApart
<1>2. QED
  BY <1>1, IInvStep, TypeCorrect, PTL DEF Spec

\* D never blends a buffer that P is drawing in, however many there are.
THEOREM MutualExclusion == Spec => []NoTearing
<1>1. IInv => NoTearing
  BY DEF IInv, DisplayAnnounced, WriterApart, NoTearing
<1>2. QED
  BY <1>1, IInvHolds, PTL

-----------------------------------------------------------------------------
(***************************************************************************)
(* Two buffers.  While P has one, D can only have the other, which is the  *)
(* published one; so D does not move render_idx under P.                   *)
(***************************************************************************)
DrawsRenderIdx ==
  rpc \in {"draw", "publish"} =>
    /\ render_idx = draw_idx /\ draw_idx \in Buffers
    /\ draw_idx # next_display_idx
    /\ cur_display_idx \in {next_display_idx, NONE}

NothingToShow == next_display_idx = NONE => cur_display_idx = NONE

Newest == newest = IF rpc = "publish" THEN draw_idx ELSE next_display_idx

LEMMA TwoBuffers ==
  ASSUME RENDER_BUF_CNT = 2,
         NEW i \in Buffers, NEW j \in Buffers, NEW k \in Buffers, i # j, i # k
  PROVE  j = k
  BY DEF Buffers

LEMMA TwoBuffersStep ==
  ASSUME RENDER_BUF_CNT = 2, TypeOK, IInv, DrawsRenderIdx, NothingToShow,
         Newest, [Next]_vars
  PROVE  DrawsRenderIdx' /\ NothingToShow' /\ Newest'
<1> USE DEF DrawsRenderIdx, NothingToShow, Newest
<1> NONE \notin Buffers
  BY SuccProperties DEF Buffers, NONE
<1>1. CASE DTake
  BY <1>1 DEF DTake
<1>2. CASE DRelease
  <2>1. display_idx # NONE
    BY <1>2, SuccProperties DEF IInv, DisplayAnnounced, DRelease
  <2>2. QED
    BY <1>2, <2>1 DEF DRelease, IInv, DisplayAnnounced
<1>3. CASE PFull
  BY <1>3 DEF PFull
<1>4. CASE PChoose
  <2>1. MovedRender \in Buffers /\ MovedRender # next_display_idx
    BY MovedRenderProperties, SuccProperties
       DEF TypeOK, MovedRender, IInv, Started
  <2>2. cur_display_idx # NONE => cur_display_idx = next_display_idx
    BY <1>4, <2>1, TwoBuffers DEF PChoose, TypeOK
  <2>3. QED
    BY <1>4, <2>1, <2>2 DEF PChoose
<1>5. CASE PMapFail \/ PDraw \/ PPublish
  BY <1>5 DEF PMapFail, PDraw, PPublish, indexVars
<1>6. CASE UNCHANGED vars
  BY <1>6 DEF vars
<1>7. QED
  BY <1>1, <1>2, <1>3, <1>4, <1>5, <1>6 DEF Next, DNext, PNext

LEMMA TwoBuffersHold ==
  ASSUME RENDER_BUF_CNT = 2
  PROVE  Spec => [](DrawsRenderIdx /\ NothingToShow /\ Newest)
<1>1. Init => DrawsRenderIdx /\ NothingToShow /\ Newest
  BY DEF Init, DrawsRenderIdx, NothingToShow, Newest
<1>2. TypeOK /\ IInv /\ DrawsRenderIdx /\ NothingToShow /\ Newest /\ [Next]_vars
        => DrawsRenderIdx' /\ NothingToShow' /\ Newest'
  BY TwoBuffersStep
<1>3. QED
  BY <1>1, <1>2, TypeCorrect, IInvHolds, PTL DEF Spec

\* What P publishes is what it has drawn: nobody moves render_idx meanwhile.
THEOREM PublishesDrawing ==
  ASSUME RENDER_BUF_CNT = 2
  PROVE  Spec => PublishesWhatItDrew
<1>1. DrawsRenderIdx => [PPublish => next_display_idx' = draw_idx]_vars
  BY DEF DrawsRenderIdx, PPublish
<1>2. QED
  BY <1>1, TwoBuffersHold, PTL DEF PublishesWhatItDrew

\* D is pointed to the newest drawing, except just before its publication.
THEOREM NewestIsShown ==
  ASSUME RENDER_BUF_CNT = 2
  PROVE  Spec => []ShowsNewest
<1>1. Newest => ShowsNewest
  BY DEF Newest, ShowsNewest
<1>2. QED
  BY <1>1, TwoBuffersHold, PTL

-----------------------------------------------------------------------------
(***************************************************************************)
(* The rectangles of gfx2d, for buffers of any size: the dirty area covers *)
(* what is drawn in it.                                                    *)
(***************************************************************************)
\* A rectangle that starts at a pixel or beyond, and has no negative size.
IsProper(r) == r \in Rects /\ r.x >= 0 /\ r.y >= 0 /\ r.w >= 0 /\ r.h >= 0

\* One that lies within the buffer.
IsWithin(r) ==
  /\ IsProper(r)
  /\ r.x < Width /\ r.y < Height
  /\ r.x + r.w <= Width /\ r.y + r.h <= Height

LEMMA WrapSmall ==
  ASSUME NEW i \in 0 .. UMod - 1
  PROVE  U(i) = i
  BY SizeAssumption DEF U

LEMMA NullWithin == IsWithin(NullRect) /\ FillSoftware(NullRect) = {}
<1>1. IsWithin(NullRect)
  BY SizeAssumption DEF IsWithin, IsProper, NullRect, Rects
<1>2. Run(0, 0) = {}
  BY SizeAssumption, WrapSmall DEF Run
<1>3. QED
  BY <1>1, <1>2, SizeAssumption DEF FillSoftware, Clip, Rejected, NullRect, Block

\* Clipping leaves a rectangle within the buffer as it is, and brings any other
\* proper one into it.
LEMMA ClipWithin ==
  ASSUME NEW r, IsProper(r), ~Rejected(r)
  PROVE  IsWithin(Clip(r))
<1>1. /\ Clip(r) \in Rects
      /\ Clip(r).x = r.x /\ Clip(r).y = r.y
      /\ Clip(r).w = IF r.x + r.w > Width  THEN Width - r.x  ELSE r.w
      /\ Clip(r).h = IF r.y + r.h > Height THEN Height - r.y ELSE r.h
  BY SizeAssumption DEF Clip, IsProper, Rects
<1>2. QED
  BY <1>1, SizeAssumption DEF Rejected, IsProper, IsWithin, Rects

LEMMA ClipIdentity ==
  ASSUME NEW r, IsWithin(r)
  PROVE  Clip(r) = r /\ ~Rejected(r) /\ IsProper(r)
<1>1. ~(r.x + r.w > Width) /\ ~(r.y + r.h > Height)
  BY SizeAssumption DEF IsWithin, IsProper, Rects
<1>2. Clip(r) = [x |-> r.x, y |-> r.y, w |-> r.w, h |-> r.h]
  BY <1>1 DEF Clip
<1>3. r = [x |-> r.x, y |-> r.y, w |-> r.w, h |-> r.h]
  BY DEF IsWithin, IsProper, Rects
<1>4. QED
  BY <1>2, <1>3, SizeAssumption DEF IsWithin, IsProper, Rects, Rejected

\* Within the buffer the loops do not wrap.
LEMMA RunPlain ==
  ASSUME NEW a \in Nat, NEW b \in Nat, a < UMod, b < UMod
  PROVE  Run(a, b) = a .. b - 1
  BY SizeAssumption, WrapSmall DEF Run

LEMMA SubRun ==
  ASSUME NEW a \in Nat, NEW b \in Nat, NEW lo \in Nat, NEW hi \in Nat,
         a < UMod, hi < UMod, lo <= a, b <= hi
  PROVE  Run(a, b) \subseteq Run(lo, hi)
<1>1. b < UMod /\ lo < UMod
  BY SizeAssumption
<1>2. Run(a, b) = a .. b - 1 /\ Run(lo, hi) = lo .. hi - 1
  BY <1>1, RunPlain
<1>3. QED
  BY <1>2

LEMMA FillPlain ==
  ASSUME NEW r, IsWithin(r)
  PROVE  /\ FillSoftware(r) = EngineFill(r)
         /\ Run(r.y, r.y + r.h) = r.y .. r.y + r.h - 1
         /\ Run(r.x, r.x + r.w) = r.x .. r.x + r.w - 1
<1>1. /\ r.y \in Nat /\ r.y + r.h \in Nat /\ r.y < UMod /\ r.y + r.h < UMod
      /\ r.x \in Nat /\ r.x + r.w \in Nat /\ r.x < UMod /\ r.x + r.w < UMod
  BY SizeAssumption DEF IsWithin, IsProper, Rects
<1>2. Run(r.y, r.y + r.h) = r.y .. (r.y + r.h) - 1
  BY <1>1, RunPlain
<1>3. Run(r.x, r.x + r.w) = r.x .. (r.x + r.w) - 1
  BY <1>1, RunPlain
<1>4. FillSoftware(r) = Block(r.y, r.y + r.h, r.x, r.x + r.w)
  BY ClipIdentity DEF FillSoftware
<1>5. (r.y + r.h) - 1 = r.y + r.h - 1 /\ (r.x + r.w) - 1 = r.x + r.w - 1
  BY DEF IsWithin, IsProper, Rects
<1>6. QED
  BY <1>2, <1>3, <1>4, <1>5 DEF EngineFill, Block

LEMMA EngineFillMonotone ==
  ASSUME NEW a, NEW b, IsProper(a), IsProper(b),
         b.x <= a.x, b.y <= a.y,
         a.x + a.w <= b.x + b.w, a.y + a.h <= b.y + b.h
  PROVE  EngineFill(a) \subseteq EngineFill(b)
<1>1. /\ (a.y .. a.y + a.h - 1) \subseteq (b.y .. b.y + b.h - 1)
      /\ (a.x .. a.x + a.w - 1) \subseteq (b.x .. b.x + b.w - 1)
  BY DEF IsProper, Rects
<1>2. QED
  BY <1>1 DEF EngineFill

LEMMA UnionWithin ==
  ASSUME NEW a, NEW b, IsWithin(a), IsWithin(b)
  PROVE  /\ IsWithin(Union(a, b))
         /\ EngineFill(a) \cup EngineFill(b) \subseteq EngineFill(Union(a, b))
<1> DEFINE u == Union(a, b)
<1>1. /\ u \in Rects
      /\ u.x <= a.x /\ u.x <= b.x /\ (u.x = a.x \/ u.x = b.x)
      /\ u.y <= a.y /\ u.y <= b.y /\ (u.y = a.y \/ u.y = b.y)
      /\ a.x + a.w <= u.x + u.w /\ b.x + b.w <= u.x + u.w
      /\ u.x + u.w = a.x + a.w \/ u.x + u.w = b.x + b.w
      /\ a.y + a.h <= u.y + u.h /\ b.y + b.h <= u.y + u.h
      /\ u.y + u.h = a.y + a.h \/ u.y + u.h = b.y + b.h
  BY DEF Union, IsWithin, IsProper, Rects
<1> HIDE DEF u
<1>2. IsWithin(u)
  BY <1>1, SizeAssumption DEF IsWithin, IsProper, Rects
<1>3. EngineFill(a) \subseteq EngineFill(u) /\ EngineFill(b) \subseteq EngineFill(u)
  BY <1>1, <1>2, EngineFillMonotone DEF IsWithin
<1>4. QED
  BY <1>2, <1>3 DEF u

\* Whatever the two rectangles are, the area is one.
LEMMA AreaIsRect ==
  ASSUME NEW base \in Rects, NEW new \in Rects
  PROVE  UpdateDirtyArea(base, new) \in Rects
<1>1. ASSUME NEW r \in Rects PROVE Clip(r) \in Rects
  BY SizeAssumption DEF Clip, Rects
<1>2. ASSUME NEW a \in Rects, NEW b \in Rects PROVE Union(a, b) \in Rects
  BY DEF Union, Rects
<1>3. QED
  BY <1>1, <1>2 DEF UpdateDirtyArea

\* gfx_updateDirtyArea never loses a pixel: the new area stays within the buffer
\* and covers both the old area and what the new rectangle fills.
THEOREM DirtyAreaCovers ==
  ASSUME NEW base, NEW new, IsWithin(base), IsProper(new)
  PROVE  LET area == UpdateDirtyArea(base, new) IN
         /\ IsWithin(area)
         /\ FillSoftware(base) \cup FillSoftware(new) \subseteq FillSoftware(area)
<1> DEFINE area == UpdateDirtyArea(base, new)
<1>1. Clip(base) = base /\ ~Rejected(base)
  BY ClipIdentity
<1>2. CASE Rejected(new)
  <2>1. area = base /\ FillSoftware(new) = {}
    BY <1>1, <1>2 DEF UpdateDirtyArea, FillSoftware
  <2>2. QED
    BY <2>1
<1>3. CASE ~Rejected(new)
  <2>1. IsWithin(Clip(new)) /\ Clip(Clip(new)) = Clip(new) /\ ~Rejected(Clip(new))
    BY <1>3, ClipWithin, ClipIdentity
  <2>2. FillSoftware(new) = FillSoftware(Clip(new))
    BY <1>3, <2>1 DEF FillSoftware
  <2>3. CASE IsEmptyArea(base)
    <3>1. area = Clip(new)
      BY <1>1, <1>3, <2>3 DEF UpdateDirtyArea
    <3>2. FillSoftware(base) = {}
      BY <2>3, NullWithin DEF IsEmptyArea
    <3>3. QED
      BY <2>1, <2>2, <3>1, <3>2
  <2>4. CASE ~IsEmptyArea(base)
    <3>1. area = Union(base, Clip(new))
      BY <1>1, <1>3, <2>4 DEF UpdateDirtyArea
    <3>2. /\ IsWithin(area)
          /\ EngineFill(base) \cup EngineFill(Clip(new)) \subseteq EngineFill(area)
      BY <2>1, <3>1, UnionWithin
    <3>3. /\ FillSoftware(base) = EngineFill(base)
          /\ FillSoftware(Clip(new)) = EngineFill(Clip(new))
          /\ FillSoftware(area) = EngineFill(area)
      BY <2>1, <3>2, FillPlain
    <3>4. QED
      BY <2>2, <3>2, <3>3
  <2>5. QED
    BY <2>3, <2>4
<1>4. QED
  BY <1>2, <1>3

LEMMA BlockMonotone ==
  ASSUME NEW y0, NEW y1, NEW x0, NEW x1, NEW v0, NEW v1, NEW u0, NEW u1,
         Run(y0, y1) \subseteq Run(v0, v1), Run(x0, x1) \subseteq Run(u0, u1)
  PROVE  Block(y0, y1, x0, x1) \subseteq Block(v0, v1, u0, u1)
  BY DEF Block

\* gfx_drawrect_software draws nothing outside its rectangle: the guard against
\* small rectangles keeps every side of the border in.
THEOREM BorderInside ==
  ASSUME NEW r, NEW t \in Nat, IsProper(r)
  PROVE  DrawSoftware(r, t) \subseteq FillSoftware(r)
<1> DEFINE c == Clip(r)
<1>1. SUFFICES ASSUME ~Rejected(r), ~TooSmall(c, t)
               PROVE  Border(c, t) \subseteq Block(c.y, c.y + c.h, c.x, c.x + c.w)
  BY DEF DrawSoftware, FillSoftware
<1>2. IsWithin(c)
  BY <1>1, ClipWithin
<1> HIDE DEF c
<1>3. c.w \in 0 .. UMod - 1 /\ c.h \in 0 .. UMod - 1
  BY <1>2, SizeAssumption DEF IsWithin, IsProper, Rects
<1>4. c.w > t /\ c.h > t
  <2>1. U(c.w) = c.w /\ U(c.h) = c.h
    BY <1>3, WrapSmall
  <2>2. ~(c.w <= t) /\ ~(c.h <= t)
    BY <1>1, <2>1 DEF TooSmall
  <2>3. QED
    BY <1>3, <2>2
<1>5. /\ Run(c.y, c.y + t) \subseteq Run(c.y, c.y + c.h)
      /\ Run(c.y + c.h - t, c.y + c.h) \subseteq Run(c.y, c.y + c.h)
      /\ Run(c.y + t, c.y + c.h - t) \subseteq Run(c.y, c.y + c.h)
  <2>1. /\ c.y \in Nat /\ c.y + t \in Nat /\ c.y + (c.h - t) \in Nat /\ c.y + c.h \in Nat
        /\ c.y + t < UMod /\ c.y + c.h < UMod /\ c.y <= c.y + t
        /\ c.y <= c.y + (c.h - t) /\ c.y + (c.h - t) <= c.y + c.h
        /\ c.y < UMod /\ c.y + (c.h - t) < UMod /\ c.y + t <= c.y + c.h
    BY <1>2, <1>4, SizeAssumption DEF IsWithin, IsProper, Rects
  <2>2. Run(c.y, c.y + t) \subseteq Run(c.y, c.y + c.h)
    BY <2>1, SubRun
  <2>3. Run(c.y + c.h - t, c.y + c.h) \subseteq Run(c.y, c.y + c.h)
    BY <2>1, SubRun
  <2>4. Run(c.y + t, c.y + c.h - t) \subseteq Run(c.y, c.y + c.h)
    BY <2>1, SubRun
  <2>5. QED
    BY <2>2, <2>3, <2>4
<1>6. /\ Run(c.x, c.x + t) \subseteq Run(c.x, c.x + c.w)
      /\ Run(c.x + c.w - t, c.x + c.w) \subseteq Run(c.x, c.x + c.w)
      /\ Run(c.x, c.x + c.w) \subseteq Run(c.x, c.x + c.w)
  <2>1. /\ c.x \in Nat /\ c.x + t \in Nat /\ c.x + (c.w - t) \in Nat /\ c.x + c.w \in Nat
        /\ c.x + t < UMod /\ c.x + c.w < UMod /\ c.x <= c.x + t
        /\ c.x <= c.x + (c.w - t) /\ c.x + (c.w - t) <= c.x + c.w
        /\ c.x < UMod /\ c.x + (c.w - t) < UMod /\ c.x + t <= c.x + c.w
    BY <1>2, <1>4, SizeAssumption DEF IsWithin, IsProper, Rects
  <2>2. Run(c.x, c.x + t) \subseteq Run(c.x, c.x + c.w)
    BY <2>1, SubRun
  <2>3. Run(c.x + c.w - t, c.x + c.w) \subseteq Run(c.x, c.x + c.w)
    BY <2>1, SubRun
  <2>4. Run(c.x, c.x + c.w) \subseteq Run(c.x, c.x + c.w)
    BY <2>1, SubRun
  <2>5. QED
    BY <2>2, <2>3, <2>4
<1>7. QED
  BY <1>5, <1>6, BlockMonotone DEF Border

-----------------------------------------------------------------------------
(***************************************************************************)
(* Borders by the engine.  A pixel has an address of its own as long as    *)
(* the buffer's pixels can be counted; so what is cleared inside a filled  *)
(* rectangle leaves the border and nothing else.                           *)
(***************************************************************************)
LEMMA NoMultipleBetween ==
  ASSUME NEW k \in Int, NEW p \in Nat, p * k < p, p * k > -p
  PROVE  k = 0
<1>1. CASE k >= 1
  <2>1. p * k >= p
    BY <1>1
  <2>2. QED
    BY <2>1
<1>2. CASE k <= -1
  <2>1. p * k <= -p
    BY <1>2
  <2>2. QED
    BY <2>1
<1>3. QED
  BY <1>1, <1>2

LEMMA PitchIsWide == Pitch \in Nat /\ Pitch >= Width
<1>1. (Width + 7) \div 8 \in Nat /\ 8 * ((Width + 7) \div 8) >= Width
  BY SizeAssumption
<1>2. QED
  BY <1>1, SizeAssumption DEF Pitch

LEMMA AddressDoesNotWrap ==
  ASSUME Height * Pitch <= UMod, NEW i \in 0 .. Height - 1, NEW j \in 0 .. Width - 1
  PROVE  At(i, j) = i * Pitch + j
<1> DEFINE P == Pitch
           H == Height
<1>1. P \in Nat /\ P >= Width /\ H \in Nat /\ H * P <= UMod
  BY PitchIsWide, SizeAssumption
<1> HIDE DEF P, H
<1>2. i \in Nat /\ i + 1 <= H /\ j \in Nat /\ j < P
  BY <1>1, SizeAssumption DEF H
<1>3. (H - i - 1) * P >= 0 /\ i * P >= 0
  BY <1>1, <1>2
<1>4. (H - i - 1) * P = H * P - i * P - P
  BY <1>1, <1>2
<1>5. i * P \in Nat /\ H * P \in Nat
  BY <1>1, <1>2, <1>3
<1>6. i * P + j < H * P
  BY <1>1, <1>2, <1>3, <1>4, <1>5
<1>7. i * P + j \in 0 .. UMod - 1
  BY <1>1, <1>2, <1>5, <1>6, SizeAssumption
<1>8. QED
  BY <1>7, WrapSmall DEF At, P

LEMMA OwnAddress ==
  ASSUME Height * Pitch <= UMod,
         NEW i \in 0 .. Height - 1, NEW j \in 0 .. Width - 1,
         NEW k \in 0 .. Height - 1, NEW l \in 0 .. Width - 1, At(i, j) = At(k, l)
  PROVE  i = k /\ j = l
<1> DEFINE P == Pitch
<1>1. i * P + j = k * P + l
  BY AddressDoesNotWrap
<1>2. P \in Nat /\ P >= Width /\ Width \in Nat /\ Height \in Nat
  BY PitchIsWide, SizeAssumption
<1> HIDE DEF P
<1>3. P * (i - k) = i * P - k * P
  BY <1>2
<1>4. i * P \in Int /\ k * P \in Int
  BY <1>2
<1>5. P * (i - k) = l - j
  BY <1>1, <1>2, <1>3, <1>4
<1>6. i - k = 0
  BY <1>2, <1>5, NoMultipleBetween
<1>7. QED
  BY <1>2, <1>5, <1>6

LEMMA Addresses ==
  ASSUME NEW Y, NEW X, NEW a
  PROVE  a \in {At(p[1], p[2]) : p \in Y \X X} <=> \E i \in Y, j \in X : a = At(i, j)
<1>1. ASSUME a \in {At(p[1], p[2]) : p \in Y \X X} PROVE \E i \in Y, j \in X : a = At(i, j)
  <2>1. PICK p \in Y \X X : a = At(p[1], p[2])
    BY <1>1
  <2>2. p[1] \in Y /\ p[2] \in X
    BY <2>1
  <2>3. QED
    BY <2>1, <2>2
<1>2. ASSUME NEW i \in Y, NEW j \in X, a = At(i, j)
      PROVE  a \in {At(p[1], p[2]) : p \in Y \X X}
  <2>1. <<i, j>> \in Y \X X /\ <<i, j>>[1] = i /\ <<i, j>>[2] = j
    OBVIOUS
  <2>2. \E p \in Y \X X : a = At(p[1], p[2])
    BY <1>2, <2>1
  <2>3. QED
    BY <2>2
<1>3. QED
  BY <1>1, <1>2

LEMMA InEngineFill ==
  ASSUME NEW r
  PROVE  \A a : a \in EngineFill(r) <=>
           \E i \in r.y .. r.y + r.h - 1, j \in r.x .. r.x + r.w - 1 : a = At(i, j)
<1> DEFINE Y == r.y .. r.y + r.h - 1
           X == r.x .. r.x + r.w - 1
<1>1. EngineFill(r) = {At(p[1], p[2]) : p \in Y \X X}
  BY DEF EngineFill
<1> HIDE DEF Y, X
<1>2. \A a : a \in EngineFill(r) <=> \E i \in Y, j \in X : a = At(i, j)
  BY <1>1, Addresses
<1>3. QED
  BY <1>2 DEF Y, X

LEMMA InBlock ==
  ASSUME NEW y0, NEW y1, NEW x0, NEW x1, NEW Y, NEW X, Run(y0, y1) = Y, Run(x0, x1) = X
  PROVE  \A a : a \in Block(y0, y1, x0, x1) <=> \E i \in Y, j \in X : a = At(i, j)
<1>1. Block(y0, y1, x0, x1) = {At(p[1], p[2]) : p \in Y \X X}
  BY DEF Block
<1>2. QED
  BY <1>1, Addresses

LEMMA InnerLeavesBorder ==
  ASSUME Height * Pitch <= UMod, NEW c, IsWithin(c), NEW t \in Nat, c.w > t, c.h > t
  PROVE  EngineFill(c) \ EngineFill(InnerRect(c, t)) = Border(c, t)
<1> DEFINE x0 == c.x
           x1 == c.x + c.w
           y0 == c.y
           y1 == c.y + c.h
           inner == InnerRect(c, t)
           AtBorder(i, j) ==
             \/ i \in y0 .. y0 + t - 1 /\ j \in x0 .. x1 - 1
             \/ i \in y1 - t .. y1 - 1 /\ j \in x0 .. x1 - 1
             \/ i \in y0 + t .. (y1 - t) - 1 /\ j \in x0 .. x0 + t - 1
             \/ i \in y0 + t .. (y1 - t) - 1 /\ j \in x1 - t .. x1 - 1
<1>1. /\ x0 \in Nat /\ y0 \in Nat /\ x1 \in Nat /\ y1 \in Nat /\ x1 <= Width /\ y1 <= Height
      /\ x0 + t < x1 /\ y0 + t < y1 /\ Width < UMod /\ Height < UMod
      /\ Width \in Nat /\ Height \in Nat /\ UMod \in Nat
  BY SizeAssumption DEF IsWithin, IsProper, Rects
<1>2. \A a : a \in EngineFill(c) <=> \E i \in y0 .. y1 - 1, j \in x0 .. x1 - 1 : a = At(i, j)
  <2>1. c.y + c.h - 1 = y1 - 1 /\ c.x + c.w - 1 = x1 - 1
    BY DEF IsWithin, IsProper, Rects
  <2> HIDE DEF x1, y1
  <2>2. QED
    BY <2>1, InEngineFill
<1>3. \A a : a \in EngineFill(inner) <=>
        \E i \in y0 + t .. (y1 - t) - 1, j \in x0 + t .. (x1 - t) - 1 : a = At(i, j)
  <2>1. /\ inner.x = x0 + t /\ inner.y = y0 + t
        /\ inner.y + inner.h - 1 = (y1 - t) - 1 /\ inner.x + inner.w - 1 = (x1 - t) - 1
    BY DEF InnerRect, IsWithin, IsProper, Rects
  <2> HIDE DEF x0, x1, y0, y1, inner
  <2>2. QED
    BY <2>1, InEngineFill
<1>4. \A a : a \in Border(c, t) <=> \E i \in Int, j \in Int : AtBorder(i, j) /\ a = At(i, j)
  <2>1. /\ c.y + c.h - t = y1 - t /\ c.x + c.w - t = x1 - t
    BY DEF IsWithin, IsProper, Rects
  <2>2. Border(c, t) = Block(y0, y0 + t, x0, x1) \cup Block(y1 - t, y1, x0, x1)
                         \cup Block(y0 + t, y1 - t, x0, x0 + t)
                         \cup Block(y0 + t, y1 - t, x1 - t, x1)
    BY <2>1 DEF Border
  <2> HIDE DEF x0, x1, y0, y1, inner
  <2>3. /\ y0 + t \in Nat /\ y1 - t \in Nat /\ x0 + t \in Nat /\ x1 - t \in Nat
        /\ y0 < UMod /\ y1 < UMod /\ y0 + t < UMod /\ y1 - t < UMod
        /\ x0 < UMod /\ x1 < UMod /\ x0 + t < UMod /\ x1 - t < UMod
    BY <1>1
  <2>4. Run(y0, y0 + t) = y0 .. (y0 + t) - 1 /\ Run(y1 - t, y1) = y1 - t .. y1 - 1
    BY <1>1, <2>3, RunPlain
  <2>5. Run(y0 + t, y1 - t) = y0 + t .. (y1 - t) - 1
    BY <1>1, <2>3, RunPlain
  <2>6. Run(x0, x1) = x0 .. x1 - 1 /\ Run(x0, x0 + t) = x0 .. (x0 + t) - 1
    BY <1>1, <2>3, RunPlain
  <2>7. Run(x1 - t, x1) = x1 - t .. x1 - 1
    BY <1>1, <2>3, RunPlain
  <2>8. y0 + t - 1 = (y0 + t) - 1 /\ x0 + t - 1 = (x0 + t) - 1
    BY <1>1
  <2> DEFINE top == y0 .. y0 + t - 1
             bottom == y1 - t .. y1 - 1
             middle == y0 + t .. (y1 - t) - 1
             all == x0 .. x1 - 1
             left == x0 .. x0 + t - 1
             right == x1 - t .. x1 - 1
  <2>9. /\ Run(y0, y0 + t) = top /\ Run(y1 - t, y1) = bottom /\ Run(y0 + t, y1 - t) = middle
        /\ Run(x0, x1) = all /\ Run(x0, x0 + t) = left /\ Run(x1 - t, x1) = right
    BY <2>4, <2>5, <2>6, <2>7, <2>8
  <2> HIDE DEF AtBorder
  <2>10. /\ top \subseteq Int /\ bottom \subseteq Int /\ middle \subseteq Int
         /\ all \subseteq Int /\ left \subseteq Int /\ right \subseteq Int
    BY <1>1
  <2> HIDE DEF top, bottom, middle, all, left, right
  <2>11. \A i, j \in Int :
           AtBorder(i, j) <=>
             \/ i \in top /\ j \in all
             \/ i \in bottom /\ j \in all
             \/ i \in middle /\ j \in left
             \/ i \in middle /\ j \in right
    BY Zenon DEF AtBorder, top, bottom, middle, all, left, right
  <2>12. \A a : a \in Block(y0, y0 + t, x0, x1) <=> \E i \in top, j \in all : a = At(i, j)
    BY ONLY <2>9, InBlock
  <2>13. \A a : a \in Block(y1 - t, y1, x0, x1) <=> \E i \in bottom, j \in all : a = At(i, j)
    BY ONLY <2>9, InBlock
  <2>14. \A a : a \in Block(y0 + t, y1 - t, x0, x0 + t) <=>
           \E i \in middle, j \in left : a = At(i, j)
    BY ONLY <2>9, InBlock
  <2>15. \A a : a \in Block(y0 + t, y1 - t, x1 - t, x1) <=>
           \E i \in middle, j \in right : a = At(i, j)
    BY ONLY <2>9, InBlock
  <2>16. ASSUME NEW a
         PROVE  a \in Border(c, t)
                  <=> \E i \in Int, j \in Int : AtBorder(i, j) /\ a = At(i, j)
    <3>1. a \in Border(c, t) <=>
            \/ \E i \in top, j \in all : a = At(i, j)
            \/ \E i \in bottom, j \in all : a = At(i, j)
            \/ \E i \in middle, j \in left : a = At(i, j)
            \/ \E i \in middle, j \in right : a = At(i, j)
      BY <2>2, <2>12, <2>13, <2>14, <2>15
    <3>2. QED
      BY <2>10, <2>11, <3>1
  <2>17. QED
    BY <2>16
<1> HIDE DEF x0, x1, y0, y1, inner
<1>5. \A i, j \in Int : AtBorder(i, j) <=>
        /\ i \in y0 .. y1 - 1 /\ j \in x0 .. x1 - 1
        /\ ~(i \in y0 + t .. (y1 - t) - 1 /\ j \in x0 + t .. (x1 - t) - 1)
  BY <1>1
<1>6. ASSUME NEW i \in y0 .. y1 - 1, NEW j \in x0 .. x1 - 1, At(i, j) \in EngineFill(inner)
      PROVE  i \in y0 + t .. (y1 - t) - 1 /\ j \in x0 + t .. (x1 - t) - 1
  <2>1. PICK k \in y0 + t .. (y1 - t) - 1, l \in x0 + t .. (x1 - t) - 1 : At(i, j) = At(k, l)
    BY <1>3, <1>6
  <2>2. /\ i \in 0 .. Height - 1 /\ k \in 0 .. Height - 1
        /\ j \in 0 .. Width - 1 /\ l \in 0 .. Width - 1
    BY <1>1, <2>1
  <2>3. i = k /\ j = l
    BY <2>1, <2>2, OwnAddress
  <2>4. QED
    BY <2>1, <2>3
<1> HIDE DEF AtBorder
<1>7. ASSUME NEW a \in EngineFill(c), a \notin EngineFill(inner) PROVE a \in Border(c, t)
  <2>1. PICK i \in y0 .. y1 - 1, j \in x0 .. x1 - 1 : a = At(i, j)
    BY <1>2, <1>7
  <2>2. ~(i \in y0 + t .. (y1 - t) - 1 /\ j \in x0 + t .. (x1 - t) - 1)
    BY <1>3, <1>7, <2>1
  <2>3. i \in Int /\ j \in Int
    BY <1>1, <2>1
  <2>4. AtBorder(i, j)
    BY <1>5, <2>1, <2>2, <2>3
  <2>5. QED
    BY <1>4, <2>1, <2>3, <2>4
<1>8. ASSUME NEW a \in Border(c, t)
      PROVE  a \in EngineFill(c) /\ a \notin EngineFill(inner)
  <2>1. PICK i \in Int, j \in Int : AtBorder(i, j) /\ a = At(i, j)
    BY <1>4, <1>8
  <2>2. /\ i \in y0 .. y1 - 1 /\ j \in x0 .. x1 - 1
        /\ ~(i \in y0 + t .. (y1 - t) - 1 /\ j \in x0 + t .. (x1 - t) - 1)
    BY <1>5, <2>1
  <2>3. QED
    BY <1>2, <1>6, <2>1, <2>2
<1>9. QED
  BY <1>7, <1>8 DEF inner

\* The engine's two fills leave the border that the loops draw, and one fill
\* what they fill, for every proper rectangle and every thickness - also one
\* that clipping made narrower than two borders.
THEOREM EngineAlike ==
  ASSUME Height * Pitch <= UMod, NEW r, NEW t \in Nat, IsProper(r)
  PROVE  /\ DrawRect({}, r, t) = DrawSoftware(r, t)
         /\ FillRect(r) = FillSoftware(r)
<1> DEFINE c == Clip(r)
<1>1. CASE Rejected(r)
  BY <1>1 DEF DrawRect, DrawSoftware, FillRect, FillSoftware
<1>2. CASE ~Rejected(r)
  <2>1. IsWithin(c)
    BY <1>2, ClipWithin
  <2>2. Clip(c) = c /\ ~Rejected(c)
    BY <2>1, ClipIdentity
  <2>3. FillSoftware(c) = EngineFill(c)
    BY <2>1, FillPlain
  <2>4. FillSoftware(r) = FillSoftware(c)
    BY <1>2, <2>2 DEF FillSoftware
  <2>5. FillRect(r) = FillSoftware(r)
    BY <1>2, <2>3, <2>4 DEF FillRect
  <2>6. DrawRect({}, r, t) = DrawSoftware(r, t)
    <3>1. CASE TooSmall(c, t)
      BY <1>2, <3>1 DEF DrawRect, DrawSoftware
    <3>2. CASE ~TooSmall(c, t)
      <4>1. U(c.w) = c.w /\ U(c.h) = c.h /\ c.w \in Nat /\ c.h \in Nat
        <5>1. c.w \in 0 .. UMod - 1 /\ c.h \in 0 .. UMod - 1
          BY <2>1, SizeAssumption DEF IsWithin, IsProper, Rects
        <5>2. QED
          BY <5>1, WrapSmall
      <4>2. c.w > t /\ c.h > t
        BY <3>2, <4>1 DEF TooSmall
      <4>3. EngineFill(c) \ EngineFill(InnerRect(c, t)) = Border(c, t)
        BY <2>1, <4>2, InnerLeavesBorder
      <4>4. QED
        BY <1>2, <3>2, <4>3 DEF DrawRect, DrawSoftware
    <3>3. QED
      BY <3>1, <3>2
  <2>7. QED
    BY <2>5, <2>6
<1>3. QED
  BY <1>1, <1>2

-----------------------------------------------------------------------------
(***************************************************************************)
(* The ring of render buffers, with what is drawn in them.                 *)
(***************************************************************************)

\* Drawing only adds pixels to the two threads of OverlayRing, and blending and
\* drawing in several steps: every step is one of the ring's or none.
THEOREM DrawImplementsRing == DrawSpec => Spec
<1>1. DrawInit => Init
  BY DEF DrawInit
<1>2. [DrawNext]_allVars => [Next]_vars
  BY DEF DrawNext, FNext, GNext, FTake, FBlend, FRelease, GFull, GChoose,
         GMapFail, GWipe, GBorder, GEnd, GPublish, allVars, Next, DNext, PNext
<1>3. QED
  BY <1>1, <1>2, PTL DEF DrawSpec, Spec

-----------------------------------------------------------------------------
(* The inductive invariant.                                                *)

Starts(r)  == r \in Rects /\ r.x >= 0 /\ r.y >= 0
Drawable   == {r \in Rects : Starts(r)}

DrawTypes ==
  /\ pixels \in [Buffers -> SUBSET Int]
  /\ dirtyRect \in [Buffers -> Rects]
  /\ todo \in Seq(Drawable)
  /\ wiped \in BOOLEAN
  /\ picture \in [Buffers -> Seq(Drawable)]

\* Nothing is painted outside the dirty area.
Covered ==
  \A b \in Buffers \ crooked :
    IsWithin(dirtyRect[b]) /\ pixels[b] \subseteq FillSoftware(dirtyRect[b])

\* What is painted and what is still to be drawn make up the result.
Content ==
  \A b \in Buffers \ crooked :
    IF rpc = "draw" /\ draw_idx = b /\ wiped
    THEN pixels[b] \cup Painted(todo) = Painted(picture[b])
    ELSE pixels[b] = Painted(picture[b])

DInv == DrawTypes /\ Covered /\ Content /\ FrameShowsOneResult

LEMMA PaintedEmpty == Painted(<<>>) = {}
  BY DEF Painted

LEMMA PaintedHeadTail ==
  ASSUME NEW d \in Seq(Drawable), d # <<>>
  PROVE  Painted(d) = DrawSoftware(Head(d), THICKNESS) \cup Painted(Tail(d))
<1>1. /\ Len(d) \in Nat /\ Len(d) >= 1 /\ Head(d) = d[1]
      /\ Len(Tail(d)) = Len(d) - 1
      /\ \A i \in 1 .. Len(Tail(d)) : Tail(d)[i] = d[i + 1]
  OBVIOUS
<1>2. ASSUME NEW i \in 1 .. Len(d)
      PROVE  DrawSoftware(d[i], THICKNESS)
               \subseteq DrawSoftware(Head(d), THICKNESS) \cup Painted(Tail(d))
  <2>1. CASE i = 1
    BY <1>1, <2>1
  <2>2. CASE i # 1
    <3>1. i - 1 \in 1 .. Len(Tail(d)) /\ Tail(d)[i - 1] = d[i]
      BY <1>1, <2>2
    <3>2. DrawSoftware(Tail(d)[i - 1], THICKNESS) \subseteq Painted(Tail(d))
      BY <3>1 DEF Painted
    <3>3. QED
      BY <3>1, <3>2
  <2>3. QED
    BY <2>1, <2>2
<1>3. ASSUME NEW i \in 1 .. Len(Tail(d))
      PROVE  DrawSoftware(Tail(d)[i], THICKNESS) \subseteq Painted(d)
  <2>1. i + 1 \in 1 .. Len(d) /\ Tail(d)[i] = d[i + 1]
    BY <1>1
  <2>2. QED
    BY <2>1 DEF Painted
<1>4. DrawSoftware(Head(d), THICKNESS) \subseteq Painted(d)
  BY <1>1 DEF Painted
<1>5. Painted(d) \subseteq DrawSoftware(Head(d), THICKNESS) \cup Painted(Tail(d))
  BY <1>2 DEF Painted
<1>6. Painted(Tail(d)) \subseteq Painted(d)
  BY <1>3 DEF Painted
<1>7. QED
  BY <1>4, <1>5, <1>6

LEMMA AddressesAreInts ==
  ASSUME NEW r
  PROVE  DrawSoftware(r, THICKNESS) \subseteq Int
<1>1. \A i, j \in Int : At(i, j) \in Int
  BY SizeAssumption DEF At, U, Pitch
<1>2. ASSUME NEW a, NEW b PROVE Run(a, b) \subseteq Int
  BY DEF Run
<1>3. ASSUME NEW a, NEW b, NEW c, NEW d PROVE Block(a, b, c, d) \subseteq Int
  BY <1>1, <1>2 DEF Block
<1>4. QED
  BY <1>3 DEF DrawSoftware, Border

LEMMA DrawingsDrawable == Drawings \subseteq Seq(Drawable)
<1> SUFFICES ASSUME NEW d \in Drawings PROVE d \in Seq(Drawable)
  OBVIOUS
<1>1. d \in Seq(Rects) /\ \A i \in 1 .. Len(d) : d[i] \in Rects
  BY DrawingAssumption
<1>2. \A i \in 1 .. Len(d) : d[i] \in Drawable
  BY <1>1, DrawingAssumption DEF Drawable, Starts
<1>3. QED
  BY <1>1, <1>2, SeqDef

LEMMA DInvInit == DrawInit => DInv
<1> SUFFICES ASSUME DrawInit PROVE DInv
  OBVIOUS
<1>1. DrawTypes
  BY NullWithin, EmptySeq DEF DrawInit, DrawTypes, IsWithin, IsProper
<1>2. Covered
  BY NullWithin DEF DrawInit, Covered
<1>3. Content
  BY PaintedEmpty DEF DrawInit, Init, Content
<1>4. FrameShowsOneResult
  BY DEF DrawInit, FrameShowsOneResult
<1>5. QED
  BY <1>1, <1>2, <1>3, <1>4 DEF DInv

-----------------------------------------------------------------------------
LEMMA Indices ==
  ASSUME TypeOK, IInv
  PROVE  /\ rpc = "draw" => draw_idx \in Buffers
         /\ dpc = "blend" => display_idx \in Buffers
         /\ dpc = "blend" /\ rpc = "draw" => display_idx # draw_idx
  BY DEF TypeOK, IInv, DisplayAnnounced, WriterApart

\* The steps that leave the pixels alone.
LEMMA QuietSteps ==
  ASSUME TypeOK, IInv, DInv,
         FTake \/ FBlend \/ FRelease \/ GFull \/ GChoose \/ GMapFail \/ GEnd
           \/ GPublish \/ UNCHANGED allVars
  PROVE  DInv'
<1> USE DEF DInv
<1>1. CASE FTake
  BY <1>1 DEF FTake, DTake, DrawTypes, Covered, Content, FrameShowsOneResult
<1>2. CASE FBlend
  <2>1. DrawTypes' /\ Covered' /\ Content'
    BY <1>2 DEF FBlend, vars, DrawTypes, Covered, Content
  <2>2. ASSUME display_idx \notin crooked
        PROVE  frame' = Painted(picture[display_idx])
    <3> DEFINE a == dirtyRect[display_idx]
    <3>1. display_idx \in Buffers /\ pixels[display_idx] = Painted(picture[display_idx])
      BY <1>2, <2>2, Indices DEF FBlend, Content
    <3>2. /\ IsWithin(a) /\ ~Rejected(a) /\ Clip(a) = a
          /\ pixels[display_idx] \subseteq FillSoftware(a)
      BY <2>2, <3>1, ClipIdentity DEF Covered
    <3>3. CASE IsEmptyArea(a)
      BY <1>2, <3>1, <3>2, <3>3, NullWithin DEF FBlend, IsEmptyArea
    <3>4. CASE ~IsEmptyArea(a)
      BY <1>2, <3>1, <3>2, <3>4, FillPlain DEF FBlend, Blend
    <3>5. QED
      BY <3>3, <3>4
  <2>3. FrameShowsOneResult'
    BY <1>2, <2>2 DEF FBlend, vars, FrameShowsOneResult
  <2>4. QED
    BY <2>1, <2>3
<1>3. CASE FRelease
  BY <1>3 DEF FRelease, DRelease, drawVars, DrawTypes, Covered, Content,
              FrameShowsOneResult
<1>4. CASE GFull \/ GEnd \/ GPublish
  <2>1. UNCHANGED drawVars /\ UNCHANGED <<dpc, display_idx>>
    BY <1>4 DEF GFull, PFull, GEnd, PDraw, GPublish, PPublish
  <2>2. DrawTypes' /\ Covered' /\ FrameShowsOneResult'
    BY <2>1 DEF drawVars, DrawTypes, Covered, FrameShowsOneResult
  <2>3. ASSUME NEW b \in Buffers \ crooked
        PROVE  Content!(b)'
    <3>1. CASE GFull \/ GPublish
      <4>1. rpc # "draw" /\ rpc' # "draw"
        BY <3>1 DEF GFull, PFull, GPublish, PPublish
      <4>2. pixels[b] = Painted(picture[b])
        BY <4>1 DEF Content
      <4>3. QED
        BY <2>1, <4>1, <4>2 DEF drawVars
    <3>2. CASE GEnd
      <4>1. rpc' # "draw" /\ wiped /\ Painted(todo) = {}
        BY <3>2, PaintedEmpty DEF GEnd, PDraw
      <4>2. pixels[b] = Painted(picture[b])
        BY <4>1 DEF Content
      <4>3. QED
        BY <2>1, <4>1, <4>2 DEF drawVars
    <3>3. QED
      BY <1>4, <3>1, <3>2
  <2>4. crooked' = crooked
    BY <2>1 DEF drawVars
  <2>5. QED
    BY <2>2, <2>3, <2>4 DEF Content
<1>5. CASE GChoose
  <2>1. DrawTypes'
    BY <1>5, DrawingsDrawable DEF GChoose, PChoose, DrawTypes
  <2>2. QED
    BY <1>5, <2>1 DEF GChoose, PChoose, Covered, Content, FrameShowsOneResult
<1>6. CASE GMapFail
  BY <1>6, EmptySeq DEF GMapFail, PMapFail, indexVars, DrawTypes, Covered, Content,
              FrameShowsOneResult
<1>7. CASE UNCHANGED allVars
  BY <1>7 DEF allVars, vars, drawVars, DrawTypes, Covered, Content,
              FrameShowsOneResult
<1>8. QED
  BY <1>1, <1>2, <1>3, <1>4, <1>5, <1>6, <1>7

\* Wiping the dirty area leaves nothing, since nothing is painted outside it.
LEMMA WipeStep ==
  ASSUME TypeOK, IInv, DInv, GWipe
  PROVE  DInv'
<1> USE DEF DInv
<1>1. draw_idx \in Buffers /\ UNCHANGED <<rpc, draw_idx, dpc, display_idx>>
  BY Indices DEF GWipe, vars
<1>2. DrawTypes'
  BY <1>1, NullWithin DEF GWipe, DrawTypes, IsWithin, IsProper
<1>3. draw_idx \notin crooked => pixels'[draw_idx] = {}
  <2> DEFINE a == dirtyRect[draw_idx]
  <2>1. draw_idx \notin crooked => pixels[draw_idx] \subseteq FillSoftware(a)
    BY <1>1 DEF Covered
  <2>2. CASE IsEmptyArea(a)
    <3>1. pixels'[draw_idx] = pixels[draw_idx] /\ FillSoftware(a) = {}
      BY <1>1, <2>2, NullWithin DEF GWipe, DrawTypes, IsEmptyArea
    <3>2. QED
      BY <2>1, <3>1
  <2>3. CASE ~IsEmptyArea(a)
    <3>1. pixels'[draw_idx] = pixels[draw_idx] \ FillSoftware(a)
      BY <1>1, <2>3 DEF GWipe, DrawTypes
    <3>2. QED
      BY <2>1, <3>1
  <2>4. QED
    BY <2>2, <2>3
<1>4. /\ dirtyRect'[draw_idx] = NullRect /\ picture'[draw_idx] = todo
      /\ \A b \in Buffers \ {draw_idx} :
           /\ pixels'[b] = pixels[b] /\ dirtyRect'[b] = dirtyRect[b]
           /\ picture'[b] = picture[b]
      /\ todo' = todo /\ crooked' = crooked
  BY <1>1 DEF GWipe, DrawTypes
<1>5. Covered'
  BY <1>3, <1>4, NullWithin DEF Covered
<1>6. ASSUME NEW b \in Buffers \ crooked
      PROVE  Content!(b)'
  <2>1. CASE b = draw_idx
    <3>1. rpc' = "draw" /\ draw_idx' = b /\ wiped'
      BY <1>1, <2>1 DEF GWipe
    <3>2. pixels'[b] \cup Painted(todo') = Painted(picture'[b])
      BY <1>3, <1>4, <1>6, <2>1
    <3>3. QED
      BY <3>1, <3>2
  <2>2. CASE b # draw_idx
    <3>1. pixels[b] = Painted(picture[b])
      BY <2>2 DEF Content
    <3>2. pixels'[b] = Painted(picture'[b]) /\ draw_idx' # b
      BY <1>1, <1>4, <2>2, <3>1
    <3>3. QED
      BY <3>2
  <2>3. QED
    BY <2>1, <2>2
<1>7. Content'
  BY <1>4, <1>6 DEF Content
<1>8. FrameShowsOneResult'
  <2>1. UNCHANGED <<blended, frame>> /\ rpc = "draw"
    BY DEF GWipe
  <2>2. dpc = "blend" => picture'[display_idx] = picture[display_idx]
    BY <1>4, <2>1, Indices
  <2>3. QED
    BY <1>1, <1>4, <2>1, <2>2 DEF FrameShowsOneResult
<1>9. QED
  BY <1>2, <1>5, <1>7, <1>8

\* A border is added to the pixels and to the dirty area alike.
LEMMA BorderStep ==
  ASSUME TypeOK, IInv, DInv, GBorder
  PROVE  DInv'
<1> USE DEF DInv
<1> DEFINE r == Head(todo)
<1>1. /\ draw_idx \in Buffers /\ rpc = "draw" /\ wiped
      /\ UNCHANGED <<rpc, draw_idx, dpc, display_idx, wiped, blended, frame, picture>>
  BY Indices DEF GBorder, vars
<1>2. r \in Rects /\ r.x >= 0 /\ r.y >= 0 /\ todo' = Tail(todo)
  <2>1. r \in Drawable
    BY DEF GBorder, DrawTypes
  <2>2. QED
    BY <2>1 DEF GBorder, Drawable, Starts
<1>3. /\ dirtyRect'[draw_idx] = UpdateDirtyArea(dirtyRect[draw_idx], r)
      /\ pixels'[draw_idx] = pixels[draw_idx] \cup DrawSoftware(r, THICKNESS)
      /\ \A b \in Buffers \ {draw_idx} :
           pixels'[b] = pixels[b] /\ dirtyRect'[b] = dirtyRect[b]
      /\ crooked \subseteq crooked'
      /\ draw_idx \notin crooked' => IsProper(r)
      /\ \A b \in Buffers \ {draw_idx} : b \in crooked' => b \in crooked
  BY <1>1, <1>2 DEF GBorder, DrawTypes, Crooked, IsProper, Rects
<1> HIDE DEF r
<1>4. DrawTypes'
  <2>1. UpdateDirtyArea(dirtyRect[draw_idx], r) \in Rects
    BY <1>1, <1>2, AreaIsRect DEF DrawTypes
  <2>2. DrawSoftware(r, THICKNESS) \subseteq Int
    BY AddressesAreInts
  <2>3. todo' \in Seq(Drawable)
    BY <1>2 DEF GBorder, DrawTypes
  <2>4. QED
    BY <1>1, <2>1, <2>2, <2>3 DEF GBorder, DrawTypes, r
<1>5. ASSUME NEW b \in Buffers \ crooked'
      PROVE  IsWithin(dirtyRect'[b]) /\ pixels'[b] \subseteq FillSoftware(dirtyRect'[b])
  <2>1. IsWithin(dirtyRect[b]) /\ pixels[b] \subseteq FillSoftware(dirtyRect[b])
    BY <1>3 DEF Covered
  <2>2. CASE b = draw_idx
    <3>1. IsProper(r)
      BY <1>3, <2>2
    <3>2. DrawSoftware(r, THICKNESS) \subseteq FillSoftware(r)
      BY <3>1, BorderInside, DrawingAssumption
    <3>3. QED
      BY <1>3, <2>1, <2>2, <3>1, <3>2, DirtyAreaCovers
  <2>3. CASE b # draw_idx
    BY <1>3, <2>1, <2>3
  <2>4. QED
    BY <2>2, <2>3
<1>6. ASSUME NEW b \in Buffers \ crooked'
      PROVE  Content!(b)'
  <2>1. CASE b = draw_idx
    <3>1. pixels[b] \cup Painted(todo) = Painted(picture[b])
      BY <1>1, <1>3, <2>1 DEF Content
    <3>2. Painted(todo) = DrawSoftware(r, THICKNESS) \cup Painted(todo')
      BY <1>2, PaintedHeadTail DEF GBorder, DrawTypes, r
    <3>3. pixels'[b] \cup Painted(todo') = Painted(picture'[b])
      BY <1>1, <1>3, <2>1, <3>1, <3>2
    <3>4. rpc' = "draw" /\ draw_idx' = b /\ wiped'
      BY <1>1, <2>1
    <3>5. QED
      BY <3>3, <3>4
  <2>2. CASE b # draw_idx
    <3>1. pixels[b] = Painted(picture[b])
      BY <1>3, <2>2 DEF Content
    <3>2. pixels'[b] = Painted(picture'[b]) /\ draw_idx' # b
      BY <1>1, <1>3, <2>2, <3>1
    <3>3. QED
      BY <3>2
  <2>3. QED
    BY <2>1, <2>2
<1>7. FrameShowsOneResult'
  <2>1. dpc = "blend" => display_idx \in Buffers /\ display_idx # draw_idx
    BY <1>1, Indices
  <2>2. QED
    BY <1>1, <1>3, <2>1 DEF FrameShowsOneResult
<1>8. QED
  BY <1>4, <1>5, <1>6, <1>7 DEF Covered, Content

-----------------------------------------------------------------------------
LEMMA DInvHolds == DrawSpec => []DInv
<1>1. TypeOK /\ IInv /\ DInv /\ [DrawNext]_allVars => DInv'
  BY QuietSteps, WipeStep, BorderStep DEF DrawNext, FNext, GNext
<1>2. QED
  BY <1>1, DInvInit, DrawImplementsRing, TypeCorrect, IInvHolds, PTL DEF DrawSpec

\* A render buffer shows the borders of its result and nothing of any earlier
\* one, whatever results were drawn in it before, unless one of them had a
\* rectangle with a negative size.
THEOREM BuffersShowTheirResult == DrawSpec => []ShowsItsResult
<1>1. DInv => ShowsItsResult
  BY DEF DInv, Content, ShowsItsResult
<1>2. QED
  BY <1>1, DInvHolds, PTL

\* A frame shows one result and all of it.
THEOREM FramesShowOneResult == DrawSpec => []FrameShowsOneResult
<1>1. DInv => FrameShowsOneResult
  BY DEF DInv
<1>2. QED
  BY <1>1, DInvHolds, PTL

\* The engine would draw each border that is still to be drawn as the loops do,
\* if the pixels of a render buffer can be counted by an unsigned int.
THEOREM EngineDrawsTheSame ==
  ASSUME Height * Pitch <= UMod
  PROVE  DrawSpec => []EngineDrawsAlike
<1>1. DInv => EngineDrawsAlike
  <2> SUFFICES ASSUME DInv, NEW i \in 1 .. Len(todo),
                      todo[i].w >= 2 * THICKNESS, todo[i].h >= 2 * THICKNESS
               PROVE  /\ DrawRect({}, todo[i], THICKNESS) = DrawSoftware(todo[i], THICKNESS)
                      /\ FillRect(todo[i]) = FillSoftware(todo[i])
    BY DEF EngineDrawsAlike
  <2>1. todo[i] \in Drawable
    BY DEF DInv, DrawTypes
  <2>2. THICKNESS \in Nat
    BY DrawingAssumption
  <2>3. IsProper(todo[i])
    BY <2>1, <2>2 DEF Drawable, Starts, IsProper, Rects
  <2>4. QED
    BY <2>2, <2>3, EngineAlike
<1>2. QED
  BY <1>1, DInvHolds, PTL
=============================================================================

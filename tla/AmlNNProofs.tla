---------------------------- MODULE AmlNNProofs ----------------------------
(***************************************************************************)
(* The amlnn element implements the ring specification, for any ring size, *)
(* set of models, failures and bounds; so what is proved of the ring first *)
(* holds inside the element, also while models are switched and over any   *)
(* number of sessions.  Then what start and stop, the loading of the model *)
(* and the buffers promise to each other when no model is switched.        *)
(***************************************************************************)
EXTENDS AmlNN, TLAPS

-----------------------------------------------------------------------------
(***************************************************************************)
(* The ring, for every size and whether or not mapping can fail.           *)
(***************************************************************************)

\* Succ walks the ring without leaving it and, with two buffers or more,
\* never stays where it is.
LEMMA SuccProperties ==
  ASSUME NEW i \in Buffers \cup {NONE}
  PROVE  /\ Succ(i) \in Buffers
         /\ Succ(i) # i
  BY NNBufCntAssumption DEF Succ, Buffers, NONE

\* So the index T moves to is a buffer, and not the published one.
LEMMA MovedPrepareProperties ==
  ASSUME TypeOK
  PROVE  /\ MovedPrepare \in Buffers \cup {NONE}
         /\ MovedPrepare # next_nn_idx
  BY SuccProperties DEF TypeOK, MovedPrepare

\* Every variable keeps its type: prepare_idx wraps before it leaves the ring.
THEOREM TypeCorrect == Spec => []TypeOK
<1>1. Init => TypeOK
  BY DEF Init, TypeOK, NONE
<1>2. TypeOK /\ [Next]_vars => TypeOK'
  <2> SUFFICES ASSUME TypeOK, [Next]_vars PROVE TypeOK'
    OBVIOUS
  <2> USE DEF TypeOK
  <2>1. MovedPrepare \in Buffers \cup {NONE} /\ Succ(prepare_idx) \in Buffers
    BY SuccProperties, MovedPrepareProperties
  <2>2. CASE Refuse
    BY <2>1, <2>2 DEF Refuse
  <2>3. CASE Accept
    BY <2>1, <2>3 DEF Accept
  <2>4. CASE ConvertFail \/ Convert
    BY <2>4 DEF ConvertFail, Convert, indexVars
  <2>5. CASE Publish \/ Signal
    BY <2>5 DEF Publish, Signal, indexVars
  <2>6. CASE NContinue \/ NExit \/ NLock \/ NSleep \/ NWake \/ NStop \/ NTake
    BY <2>6 DEF NStep, NContinue, NExit, NLock, NSleep, NWake, NStop, NTake
  <2>7. CASE NClaim \/ NMapFail \/ NInfer \/ NNotify
    BY <2>7 DEF NStep, NClaim, NMapFail, NInfer, NNotify
  <2>8. CASE NRelease
    BY <2>1, <2>8 DEF NStep, NRelease, NONE
  <2>9. CASE CNext
    BY <2>9 DEF CNext, CStep, Open, Stop, WakeToStop, Join, indexVars
  <2>10. CASE INext
    BY <2>10 DEF INext, IdleLock, IdleUnlock, indexVars
  <2>11. CASE UNCHANGED vars
    BY <2>11 DEF vars
  <2>12. QED
    BY <2>2, <2>3, <2>4, <2>5, <2>6, <2>7, <2>8, <2>9, <2>10, <2>11
       DEF Next, TNext, NNext
<1>3. QED
  BY <1>1, <1>2, PTL DEF Spec

-----------------------------------------------------------------------------
(***************************************************************************)
(* Mutual exclusion.  NoSharedBuffer is not inductive: that the buffer T   *)
(* fills is not the one N reads follows from its being neither the one N   *)
(* has announced (cur_nn_idx) nor the one N would announce (next_nn_idx).  *)
(***************************************************************************)
Started == prepare_idx = NONE => next_nn_idx = NONE
ReaderAnnounced == npc = "infer" => cur_nn_idx = nn_idx
WriterApart ==
  tpc = "convert" => w_idx \in Buffers \ {next_nn_idx, cur_nn_idx}

IInv == Started /\ ReaderAnnounced /\ WriterApart

LEMMA IInvInit == Init => IInv
  BY DEF Init, IInv, Started, ReaderAnnounced, WriterApart

LEMMA IInvStep == TypeOK /\ IInv /\ [Next]_vars => IInv'
<1> SUFFICES ASSUME TypeOK, IInv, [Next]_vars PROVE IInv'
  OBVIOUS
<1> USE DEF IInv, Started, ReaderAnnounced, WriterApart
<1>1. NONE \notin Buffers
  BY NNBufCntAssumption DEF Buffers, NONE
<1>2. Succ(prepare_idx) \in Buffers
  BY SuccProperties DEF TypeOK
\* T reserves a buffer: it is a proper one, not published, not announced.
<1>3. CASE Accept
  <2>1. MovedPrepare \in Buffers /\ MovedPrepare # next_nn_idx
    BY <1>2, MovedPrepareProperties DEF MovedPrepare, TypeOK
  <2>2. QED
    BY <1>1, <1>3, <2>1 DEF Accept
<1>4. CASE Refuse
  <2>1. MovedPrepare = NONE => next_nn_idx = NONE
    BY <1>1, <1>2 DEF MovedPrepare
  <2>2. QED
    BY <1>4, <2>1 DEF Refuse
<1>5. CASE ConvertFail \/ Convert \/ Publish \/ Signal
  BY <1>5 DEF ConvertFail, Convert, Publish, Signal, indexVars
\* N announces what is published, hence not what T fills.
<1>6. CASE NClaim
  BY <1>6 DEF NClaim, NStep
<1>7. CASE NRelease
  BY <1>1, <1>2, <1>7 DEF NRelease, NStep
<1>8. CASE \/ NContinue \/ NExit \/ NLock \/ NSleep \/ NWake \/ NStop \/ NTake
           \/ NMapFail \/ NInfer \/ NNotify
  BY <1>8 DEF NStep, NContinue, NExit, NLock, NSleep, NWake, NStop, NTake,
              NMapFail, NInfer, NNotify
<1>9. CASE CNext
  BY <1>9 DEF CNext, CStep, Open, Stop, WakeToStop, Join, indexVars
<1>10. CASE INext
  BY <1>10 DEF INext, IdleLock, IdleUnlock, indexVars
<1>11. CASE UNCHANGED vars
  BY <1>11 DEF vars
<1>12. QED
  BY <1>3, <1>4, <1>5, <1>6, <1>7, <1>8, <1>9, <1>10, <1>11
     DEF Next, TNext, NNext

LEMMA IInvHolds == Spec => []IInv
  BY IInvInit, IInvStep, TypeCorrect, PTL DEF Spec

\* GE2D never writes the buffer the network is reading.
THEOREM MutualExclusion == Spec => []NoSharedBuffer
<1>1. IInv => NoSharedBuffer
  BY DEF IInv, ReaderAnnounced, WriterApart, NoSharedBuffer
<1>2. QED
  BY <1>1, IInvHolds, PTL

\* A buffer being filled is a buffer of the ring and is not yet published.
THEOREM FilledBeforePublished == Spec => []FillsAnUnpublishedBuffer
<1>1. IInv => FillsAnUnpublishedBuffer
  BY DEF IInv, WriterApart, FillsAnUnpublishedBuffer
<1>2. QED
  BY <1>1, IInvHolds, PTL

-----------------------------------------------------------------------------
(***************************************************************************)
(* Why three buffers.  N may move prepare_idx between T's choice of a      *)
(* buffer and T's publication.  prepare_idx is then at most two places     *)
(* past next_nn_idx, and N moves it only while it holds a buffer that is   *)
(* no longer the published one; so with three buffers or more what T       *)
(* publishes is never what N has in hand.                                  *)
(***************************************************************************)
HoldsOld == npc \in {"infer", "release"} /\ nn_idx # next_nn_idx

One == Succ(next_nn_idx)
Two == Succ(One)

BetweenFrames ==
  tpc \in {"idle", "signal"} =>
    /\ prepare_idx \in {next_nn_idx, One, Two}
    /\ HoldsOld => prepare_idx # Two

WithinFrame ==
  tpc \in {"convert", "publish"} =>
    /\ w_idx \in {One, Two} /\ w_idx # cur_nn_idx
    /\ HoldsOld => w_idx = One /\ prepare_idx = One
    /\ \/ prepare_idx = w_idx
       \/ w_idx = One /\ prepare_idx = Two /\ cur_nn_idx \in {NONE, next_nn_idx}

KInv == BetweenFrames /\ WithinFrame

\* With three buffers, two steps round the ring do not come back.
LEMMA ThreeApart ==
  ASSUME NN_BUF_CNT >= 3, NEW i \in Buffers \cup {NONE}
  PROVE  /\ Succ(i) \in Buffers /\ Succ(Succ(i)) \in Buffers
         /\ Succ(i) # i /\ Succ(Succ(i)) # i /\ Succ(Succ(i)) # Succ(i)
         /\ NONE \notin Buffers
  BY NNBufCntAssumption DEF Succ, Buffers, NONE

LEMMA KInvStep ==
  ASSUME NN_BUF_CNT >= 3, TypeOK, KInv, [Next]_vars
  PROVE  KInv'
<1> USE DEF KInv, BetweenFrames, WithinFrame, HoldsOld
<1>1. /\ One \in Buffers /\ Two \in Buffers /\ NONE \notin Buffers
      /\ One # next_nn_idx /\ Two # next_nn_idx /\ Two # One
  BY ThreeApart DEF TypeOK, One, Two
<1>2. next_nn_idx' = next_nn_idx => One' = One /\ Two' = Two
  BY DEF One, Two, Succ
\* T moves at most to the first place past the published buffer.
<1>3. CASE Accept \/ Refuse
  <2>1. tpc = "idle" => MovedPrepare \in {One, Two} /\ (HoldsOld => MovedPrepare = One)
    BY DEF MovedPrepare, One
  <2>2. QED
    BY <1>1, <1>2, <1>3, <2>1 DEF Accept, Refuse
<1>4. CASE ConvertFail \/ Convert \/ Signal
  BY <1>1, <1>2, <1>4 DEF ConvertFail, Convert, Signal, indexVars
<1>5. CASE Publish
  <2>1. One' = Succ(prepare_idx)
    BY <1>5 DEF Publish, One, Succ
  <2>2. prepare_idx' = next_nn_idx' /\ prepare_idx \in Buffers \cup {NONE}
    BY <1>5 DEF Publish, TypeOK
  <2>3. Two' # prepare_idx
    BY <2>1, <2>2, ThreeApart DEF Two, Succ
  <2>4. QED
    BY <1>5, <2>2, <2>3 DEF Publish
<1>6. CASE NClaim
  BY <1>1, <1>2, <1>6 DEF NClaim, NStep
\* N moves prepare_idx only from the first place to the second.
<1>7. CASE NRelease
  <2>1. Succ(next_nn_idx) = One /\ Succ(One) = Two
    BY DEF One, Two
  <2>2. QED
    BY <1>1, <1>2, <1>7, <2>1 DEF NRelease, NStep
<1>8. CASE NContinue \/ NExit \/ NLock \/ NSleep \/ NWake \/ NStop \/ NTake
  BY <1>2, <1>8 DEF NStep, NContinue, NExit, NLock, NSleep, NWake, NStop, NTake
<1>9. CASE NMapFail \/ NInfer \/ NNotify
  BY <1>2, <1>9 DEF NStep, NMapFail, NInfer, NNotify
<1>10. CASE CNext
  BY <1>2, <1>10 DEF CNext, CStep, Open, Stop, WakeToStop, Join, indexVars
<1>11. CASE INext
  BY <1>2, <1>11 DEF INext, IdleLock, IdleUnlock, indexVars
<1>12. CASE UNCHANGED vars
  BY <1>2, <1>12 DEF vars
<1>13. QED
  BY <1>3, <1>4, <1>5, <1>6, <1>7, <1>8, <1>9, <1>10, <1>11, <1>12
     DEF Next, TNext, NNext

\* With the three buffers of gstamlnn.h, or more, the index T publishes is
\* never the one N is using.  (With two it can be.)
THEOREM PublishedIsNotInUse ==
  ASSUME NN_BUF_CNT >= 3
  PROVE  Spec => NeverPublishesBufferInUse
<1>1. Init => KInv
  BY DEF Init, KInv, BetweenFrames, WithinFrame, HoldsOld, NONE
<1>2. TypeOK /\ KInv /\ [Next]_vars => KInv'
  BY KInvStep
<1>3. TypeOK /\ KInv => [Publish => next_nn_idx' # cur_nn_idx]_vars
  <2> SUFFICES ASSUME TypeOK, KInv, Publish PROVE next_nn_idx' # cur_nn_idx
    OBVIOUS
  <2>1. One \in Buffers /\ Two # next_nn_idx /\ Two # NONE
    BY ThreeApart DEF TypeOK, One, Two
  <2>2. QED
    BY <2>1 DEF KInv, WithinFrame, Publish
<1>4. QED
  BY <1>1, <1>2, <1>3, TypeCorrect, PTL DEF Spec, NeverPublishesBufferInUse

-----------------------------------------------------------------------------
(***************************************************************************)
(* The element's steps on the ring.                                        *)
(***************************************************************************)

USE DEF vars, vars

LEMMA TStepsKeepRing == TBegin \/ TFrame => [Next]_vars
<1>1. TBegin => UNCHANGED vars
  BY DEF TBegin
<1>2. TOpenModel \/ TOpenFails \/ TAllocate => UNCHANGED vars
  BY DEF TOpenModel, TOpenFails, TAllocate
<1>3. TChoose \/ TConvert \/ TOther => Next
  BY DEF TChoose, TConvert, TOther, Next, TNext
<1>4. QED
  BY <1>1, <1>2, <1>3 DEF TFrame

LEMMA NStepsAreRingSteps == NSteps => Next
  BY DEF NSteps, MapFail, Infer, Notify, NOther, Next, NNext

LEMMA PStepsKeepRing == PNext => UNCHANGED vars
  BY DEF PNext, PStep, PContinue, PLock, PSleep, PWake, PStop, PTake, PGet, PPush

LEMMA CStepsKeepRing == COpens \/ CClose => [Next]_vars
<1>1. COpen \/ CStop \/ CWakeNN \/ CJoinNN => Next
  BY DEF COpen, CStop, CWakeNN, CJoinNN, Next, CNext
<1>2. COpenPP \/ COverlayStops \/ CStopPP \/ CWakePP => UNCHANGED vars
  BY DEF COpenPP, COverlayStops, CStopPP, CWakePP
<1>3. CJoinPP \/ CFree \/ CRelease => UNCHANGED vars
  BY DEF CJoinPP, CFree, CRelease
<1>4. QED
  BY <1>1, <1>2, <1>3 DEF COpens, CClose

LEMMA IStepsKeepRing == ISteps => [Next]_vars
<1>1. IBegin \/ IEnd => Next
  BY DEF IBegin, IEnd, Next, INext
<1>2. IGiveUp \/ ICheck \/ IFree \/ IRelease \/ ISet => UNCHANGED vars
  BY DEF IGiveUp, ICheck, IFree, IRelease, ISet
<1>3. QED
  BY <1>1, <1>2 DEF ISteps

\* The refinement: every step of the element is a step of the ring or leaves
\* the ring alone.
THEOREM ImplementsRing == ElementSpec => RingSpec
<1>1. ElementInit => Init
  BY DEF ElementInit
<1>2. ASSUME NEW m \in Models, ASetModel(m) PROVE UNCHANGED vars
  BY <1>2 DEF ASetModel
<1>3. UNCHANGED elementVars => UNCHANGED vars
  BY DEF elementVars
<1>4. [ElementNext]_elementVars => [Next]_vars
  BY <1>2, <1>3, TStepsKeepRing, NStepsAreRingSteps,
     PStepsKeepRing, CStepsKeepRing, IStepsKeepRing
     DEF ElementNext
<1>5. QED
  BY <1>1, <1>4, PTL DEF ElementSpec, RingSpec, Spec

-----------------------------------------------------------------------------
(***************************************************************************)
(* Lifting: what holds of the ring holds inside the element.               *)
(***************************************************************************)

\* Inside the element too, GE2D never fills the buffer the network reads.
THEOREM ElementExcludes == ElementSpec => []NoSharedBuffer
  BY ImplementsRing, MutualExclusion, PTL DEF RingSpec

-----------------------------------------------------------------------------
(***************************************************************************)
(* Without a switch of models: what close finds, and what it leaves.       *)
(***************************************************************************)

NNStopped == cpc = "closed" /\ npc = "off" /\ tpc = "idle" /\ init_pc = "none"

\* The place of each thread, by the place of the element.
Places ==
  /\ epc = "null" => NNStopped
  /\ epc \in {"opening", "playing", "overlay_stopped"} => cpc = "open"
  /\ epc \in {"stopping", "stopped"} =>
       cpc = "stopping" /\ tpc = "idle" /\ init_pc = "none"
  /\ epc = "join_nn" => cpc = "joining" /\ tpc = "idle" /\ init_pc = "none"
  /\ epc \in {"wake_pp", "join_pp", "free", "release"} => NNStopped
  /\ epc \in {"null", "opening", "playing", "overlay_stopped", "stopping",
              "stopped", "join_nn", "wake_pp", "join_pp", "free", "release"}
  /\ init_pc # "none" => epc \in {"playing", "overlay_stopped"}

\* What is there belongs to the model, and is there only while it is open.
Belongings ==
  /\ loaded \subseteq {model}
  /\ ~initialized => loaded = {} /\ memory = NoBuffers
  /\ init_pc = "alloc" => initialized
  /\ epc = "null" => ~initialized
  /\ epc = "release" => memory = NoBuffers

Unswitched ==
  /\ switches \in Nat
  /\ Places
  /\ switches = 0 => pending = << >> /\ ipc = "none" /\ Belongings

LEMMA PlacesStep == Places /\ [ElementNext]_elementVars => Places'
<1> SUFFICES ASSUME Places, [ElementNext]_elementVars PROVE Places'
  OBVIOUS
<1> USE DEF Places, NNStopped
<1>1. CASE TBegin
  BY <1>1 DEF TBegin, Streaming, runVars
<1>2. CASE TFrame
  <2>1. CASE TOpenModel \/ TOpenFails \/ TAllocate
    BY <2>1 DEF TOpenModel, TOpenFails, TAllocate, runVars
  <2>2. CASE TChoose
    BY <2>2 DEF TChoose, Refuse, Accept, m_running, runVars
  <2>3. CASE TConvert \/ TOther
    BY <2>3 DEF TConvert, TOther, Convert, ConvertFail, Publish,
                Signal, runVars
  <2>4. QED
    BY <1>2, <2>1, <2>2, <2>3 DEF TFrame
<1>3. CASE NSteps
  BY <1>3 DEF NSteps, MapFail, Infer, Notify, NOther, NContinue, NExit,
              NLock, NSleep, NWake, NStop, NTake, NClaim,
              NMapFail, NInfer, NRelease, NNotify, NStep, runVars
<1>4. CASE PNext
  BY <1>4 DEF PNext, PStep, PContinue, PLock, PSleep, PWake, PStop, PTake, PGet,
              PPush, runVars
<1>5. CASE COpens
  BY <1>5 DEF COpens, COpen, COverlayStops, LifeStep, Open, CStep
<1>6. CASE CClose
  <2>1. CASE CStop \/ CWakeNN \/ CJoinNN
    BY <2>1 DEF CStop, CWakeNN, CJoinNN, LifeStep, Stop, WakeToStop,
                Join, CStep
  <2>2. CASE COpenPP \/ CStopPP \/ CWakePP \/ CJoinPP \/ CFree \/ CRelease
    BY <2>2 DEF COpenPP, CStopPP, CWakePP, CJoinPP, CFree, CRelease, LifeStep
  <2>3. QED
    BY <1>6, <2>1, <2>2 DEF CClose
<1>7. CASE ISteps
  BY <1>7 DEF ISteps, IBegin, IGiveUp, ICheck, IFree, IRelease, ISet, IEnd, IStep,
              IdleLock, IdleUnlock, runVars
<1>8. ASSUME NEW m \in Models, ASetModel(m) PROVE Places'
  BY <1>8 DEF ASetModel, runVars
<1>9. CASE UNCHANGED elementVars
  BY <1>9 DEF elementVars, runVars
<1>10. QED
  BY <1>1, <1>2, <1>3, <1>4, <1>5, <1>6, <1>7, <1>8, <1>9 DEF ElementNext

LEMMA SwitchesStep ==
  [ElementNext]_elementVars => (\E m \in Models : ASetModel(m)) \/ UNCHANGED switches
  BY DEF elementVars, ElementNext, TBegin, TFrame, TOpenModel, TOpenFails, TAllocate, TChoose,
         TConvert, TOther, NSteps, MapFail, Infer, Notify, NOther,
         PNext, PStep, PContinue, PLock, PSleep, PWake, PStop, PTake, PGet, PPush,
         COpens, COpen, COverlayStops, CClose, COpenPP, CStop, CStopPP, CWakeNN, CJoinNN,
         CWakePP, CJoinPP, CFree, CRelease, LifeStep,
         ISteps, IBegin, IGiveUp, ICheck, IFree, IRelease, ISet, IEnd, IStep

\* Who touches the buffers' memory.
LEMMA MemorySteps ==
  [ElementNext]_elementVars => CFree \/ TAllocate \/ ipc = "free" \/ UNCHANGED memory
  BY DEF elementVars, memVars, idleVars, runVars, ElementNext, TBegin, TFrame, TOpenModel, TOpenFails,
         TChoose, TConvert, TOther, NSteps, MapFail, Infer, Notify, NOther,
         PNext, PStep, PContinue, PLock, PSleep, PWake, PStop, PTake, PGet, PPush,
         COpens, COpen, COverlayStops, CClose, COpenPP, CStop, CStopPP, CWakeNN, CJoinNN,
         CWakePP, CJoinPP, CRelease, LifeStep, ASetModel,
         ISteps, IBegin, IGiveUp, ICheck, IFree, IRelease, ISet, IEnd, IStep

LEMMA UnswitchedStep == Unswitched /\ [ElementNext]_elementVars => Unswitched'
<1> SUFFICES ASSUME Unswitched, [ElementNext]_elementVars PROVE Unswitched'
  OBVIOUS
<1>0. Places' /\ switches \in Nat
  BY PlacesStep DEF Unswitched
<1>1. ASSUME NEW m \in Models, ASetModel(m) PROVE Unswitched'
  BY <1>0, <1>1 DEF ASetModel, Unswitched
<1>2. CASE switches # 0 /\ UNCHANGED switches
  BY <1>0, <1>2 DEF Unswitched
<1> USE <1>0 DEF Unswitched, Belongings, Places, modelVars, memVars, idleVars, runVars
<1>3. CASE switches = 0 /\ TBegin
  BY <1>3 DEF TBegin
<1>4. CASE switches = 0 /\ TFrame
  <2>1. CASE TOpenModel \/ TOpenFails
    BY <1>4, <2>1 DEF TOpenModel, TOpenFails
  <2>2. CASE TAllocate
    BY <1>4, <2>2 DEF TAllocate
  <2>3. CASE TChoose \/ TConvert \/ TOther
    BY <1>4, <2>3 DEF TChoose, TConvert, TOther
  <2>4. QED
    BY <1>4, <2>1, <2>2, <2>3 DEF TFrame
<1>5. CASE switches = 0 /\ NSteps
  BY <1>5 DEF NSteps, MapFail, Infer, Notify, NOther
<1>6. CASE switches = 0 /\ PNext
  BY <1>6 DEF PNext, PStep, PContinue, PLock, PSleep, PWake, PStop, PTake, PGet, PPush
<1>7. CASE switches = 0 /\ COpens
  BY <1>7 DEF COpens, COpen, COverlayStops, LifeStep
<1>8. CASE switches = 0 /\ CClose
  <2>1. CASE CFree
    BY <1>8, <2>1 DEF CFree, LifeStep, FreeBuffers, NNStopped
  <2>2. CASE CRelease
    BY <1>8, <2>2 DEF CRelease, LifeStep, ReleaseModel, NNStopped
  <2>3. CASE COpenPP \/ CStop \/ CStopPP \/ CWakeNN \/ CJoinNN \/ CWakePP \/ CJoinPP
    BY <1>8, <2>3 DEF COpenPP, CStop, CStopPP, CWakeNN, CJoinNN, CWakePP, CJoinPP, LifeStep
  <2>4. QED
    BY <1>8, <2>1, <2>2, <2>3 DEF CClose
<1>9. CASE switches = 0 /\ ISteps
  BY <1>9 DEF ISteps, IBegin, IGiveUp, ICheck, IFree, IRelease, ISet, IEnd, IStep
<1>10. CASE UNCHANGED elementVars
  BY <1>10 DEF elementVars, NoBuffers
<1>11. [ElementNext]_elementVars => (\E m \in Models : ASetModel(m)) \/ UNCHANGED switches
  BY SwitchesStep
<1>12. QED
  BY <1>1, <1>2, <1>3, <1>4, <1>5, <1>6, <1>7, <1>8, <1>9, <1>10, <1>11 DEF ElementNext

LEMMA UnswitchedHolds == ElementSpec => []Unswitched
<1>1. ElementInit => Unswitched
  BY DEF ElementInit, Init, Unswitched, Places, NNStopped, Belongings
<1>2. QED
  BY <1>1, UnswitchedStep, PTL DEF ElementSpec

\* Close gives back every buffer and model, however far detection_init had got
\* and whatever it failed at, for any ring, in every session, as long as the
\* model was not switched.
THEOREM CloseLeavesNothing == ElementSpec => []NothingLeftAfterClose
<1>1. Unswitched => NothingLeftAfterClose
  BY DEF Unswitched, Belongings, NothingLeftAfterClose
<1>2. QED
  BY <1>1, UnswitchedHolds, PTL

\* Where no switch is allowed, none has happened.
LEMMA NoSwitchHolds ==
  ASSUME MaxSwitches = 0
  PROVE  ElementSpec => [](Unswitched /\ switches = 0)
<1>1. Unswitched /\ switches = 0 /\ [ElementNext]_elementVars => (switches = 0)'
  <2>1. ASSUME switches = 0, NEW m \in Models, ASetModel(m) PROVE FALSE
    BY <2>1 DEF ASetModel
  <2>2. QED
    BY <2>1, SwitchesStep
<1>2. ElementInit => switches = 0
  BY DEF ElementInit
<1>3. QED
  BY <1>1, <1>2, UnswitchedHolds, PTL DEF ElementSpec

\* Stop frees the buffers only when T is out of transform_ip and N has ended:
\* whatever it frees is not in use, in any session, whether models are switched or
\* not.
THEOREM CloseFreesUnusedBuffers == ElementSpec => NoBufferFreedInUse
<1>1. Unswitched /\ [ElementNext]_elementVars
        => [\A b \in Buffers : CFree /\ memory[b] # NoModel =>
              /\ ~(npc = "infer" /\ nn_idx = b)
              /\ ~(tpc = "convert" /\ w_idx = b)]_elementVars
  BY DEF CFree, LifeStep, Unswitched, Places, NNStopped
<1>2. QED
  BY <1>1, UnswitchedHolds, PTL DEF ElementSpec, NoBufferFreedInUse

-----------------------------------------------------------------------------
(***************************************************************************)
(* Without failures of detection_init either: what the threads find.       *)
(***************************************************************************)

Plain == MaxSwitches = 0 /\ InitMayFail = FALSE

\* T comes to the ring with a model and with every buffer.
Equipped ==
  /\ model \in Models
  /\ initialized => loaded = {model} /\ dims = model
  /\ init_pc = "ready" \/ tpc # "idle" =>
       initialized /\ \A b \in Buffers : memory[b] # NoModel

LEMMA EquippedStep ==
  ASSUME Plain, Unswitched, switches = 0, Equipped, [ElementNext]_elementVars
  PROVE  Equipped'
<1> USE DEF Plain, Unswitched, Belongings, Places, NNStopped, Equipped, modelVars, memVars,
            idleVars, runVars
<1>1. CASE TBegin
  BY <1>1 DEF TBegin
<1>2. CASE TFrame
  <2>1. CASE TOpenModel
    BY <2>1 DEF TOpenModel
  <2>2. CASE TOpenFails
    BY <2>2 DEF TOpenFails
  <2>3. CASE TAllocate
    <3>1. memory' = [b \in Buffers |-> IF memory[b] = NoModel THEN dims ELSE memory[b]]
      BY <2>3, NNBufCntAssumption DEF TAllocate, Allocate, Buffers
    <3>2. dims \in Models /\ NoModel \notin Models
      BY <2>3, ModelsAssumption DEF TAllocate
    <3>3. \A b \in Buffers : memory'[b] # NoModel
      BY <3>1, <3>2
    <3>4. QED
      BY <2>3, <3>3 DEF TAllocate
  <2>4. CASE TChoose
    BY <2>4 DEF TChoose, Refuse, Accept
  <2>5. CASE TConvert \/ TOther
    BY <2>5 DEF TConvert, TOther, Convert, ConvertFail, Publish, Signal
  <2>6. QED
    BY <1>2, <2>1, <2>2, <2>3, <2>4, <2>5 DEF TFrame
<1>3. CASE NSteps
  BY <1>3 DEF NSteps, MapFail, Infer, Notify, NOther, NContinue, NExit,
              NLock, NSleep, NWake, NStop, NTake, NClaim,
              NMapFail, NInfer, NRelease, NNotify, NStep
<1>4. CASE PNext
  BY <1>4 DEF PNext, PStep, PContinue, PLock, PSleep, PWake, PStop, PTake, PGet, PPush
<1>5. CASE COpens
  BY <1>5 DEF COpens, COpen, COverlayStops, LifeStep, Open, CStep
<1>6. CASE CClose
  <2>1. CASE CFree
    BY <2>1 DEF CFree, LifeStep, FreeBuffers
  <2>2. CASE CRelease
    BY <2>2 DEF CRelease, LifeStep, ReleaseModel
  <2>3. CASE CStop \/ CWakeNN \/ CJoinNN
    BY <2>3 DEF CStop, CWakeNN, CJoinNN, LifeStep, Stop, WakeToStop, Join,
                CStep
  <2>4. CASE COpenPP \/ CStopPP \/ CWakePP \/ CJoinPP
    BY <2>4 DEF COpenPP, CStopPP, CWakePP, CJoinPP, LifeStep
  <2>5. QED
    BY <1>6, <2>1, <2>2, <2>3, <2>4 DEF CClose
<1>7. ~ISteps
  BY DEF ISteps, IBegin, IGiveUp, ICheck, IFree, IRelease, ISet, IEnd, IStep
<1>8. ASSUME NEW m \in Models, ASetModel(m) PROVE FALSE
  BY <1>8 DEF ASetModel
<1>9. CASE UNCHANGED elementVars
  BY <1>9 DEF elementVars
<1>10. QED
  BY <1>1, <1>2, <1>3, <1>4, <1>5, <1>6, <1>7, <1>8, <1>9 DEF ElementNext

LEMMA EquippedHolds ==
  ASSUME Plain
  PROVE  ElementSpec => []Equipped
<1>1. ElementInit => Equipped
  BY DEF ElementInit, Init, Equipped
<1>2. Unswitched /\ switches = 0 /\ Equipped /\ [ElementNext]_elementVars => Equipped'
  BY EquippedStep
<1>3. ElementSpec => [](Unswitched /\ switches = 0)
  BY NoSwitchHolds DEF Plain
<1>4. QED
  BY <1>1, <1>2, <1>3, PTL DEF ElementSpec

\* detection_init has given T a buffer to convert into, in every session and for
\* any ring, if the model opens, the allocations succeed and no model is
\* switched.
THEOREM ConvertsOnlyIntoMemory ==
  ASSUME MaxSwitches = 0, InitMayFail = FALSE
  PROVE  ElementSpec => []ConvertsIntoMemory
<1>1. FillsAnUnpublishedBuffer /\ Equipped => ConvertsIntoMemory
  BY DEF FillsAnUnpublishedBuffer, Equipped, ConvertsIntoMemory
<1>2. ElementSpec => []Equipped
  BY EquippedHolds DEF Plain
<1>3. QED
  BY <1>1, <1>2, ImplementsRing, FilledBeforePublished, PTL DEF RingSpec

-----------------------------------------------------------------------------
(***************************************************************************)
(* The first session: nobody has work before a model has been loaded.      *)
(***************************************************************************)

\* P's place, by the place of the element.
PostPlaces ==
  /\ pp_running => epc \in {"playing", "overlay_stopped", "stopping"}
  /\ epc \in {"null", "opening", "free", "release"} => ppc = "off"

\* Nothing is left from an earlier session.
Fresh == sessions = 0 => ~m_ready /\ ~pp_ready /\ epc = "null"

\* Whatever sets N or P to work comes after the loading of a model.
FirstWork ==
  sessions <= 1 =>
    /\ npc \in {"claim", "infer", "release", "notify"} => initialized
    /\ m_ready /\ cpc = "open" => initialized
    /\ pp_ready /\ epc \in {"opening", "playing", "overlay_stopped", "stopping"}
         => initialized
    /\ ppc = "get" => initialized

Working == sessions \in Nat /\ PostPlaces /\ Fresh /\ FirstWork

LEMMA WorkingStep ==
  ASSUME Plain, Unswitched, switches = 0, Equipped, Working, [ElementNext]_elementVars
  PROVE  Working'
<1> USE DEF Plain, Unswitched, Places, NNStopped, Working, PostPlaces, Fresh, FirstWork,
            modelVars, memVars, idleVars, runVars, ppVars
<1>1. CASE TBegin
  BY <1>1 DEF TBegin
<1>2. CASE TFrame
  <2>1. CASE TOpenModel \/ TOpenFails \/ TAllocate
    BY <2>1 DEF TOpenModel, TOpenFails, TAllocate
  <2>2. CASE TChoose
    BY <2>2 DEF TChoose, Refuse, Accept
  <2>3. CASE TConvert \/ TOther
    BY <2>3 DEF TConvert, TOther, Convert, ConvertFail, Publish,
                Signal, Equipped
  <2>4. QED
    BY <1>2, <2>1, <2>2, <2>3 DEF TFrame
<1>3. CASE NSteps
  <2>1. CASE MapFail \/ Infer \/ Notify
    BY <2>1 DEF MapFail, Infer, Notify, NMapFail, NInfer, NNotify,
                NStep
  <2>2. CASE NOther
    BY <2>2 DEF NOther, NContinue, NExit, NLock, NSleep, NWake,
                NStop, NTake, NClaim, NRelease, NStep,
                m_running
  <2>3. QED
    BY <1>3, <2>1, <2>2 DEF NSteps
<1>4. CASE PNext
  BY <1>4 DEF PNext, PStep, PContinue, PLock, PSleep, PWake, PStop, PTake, PGet, PPush
<1>5. CASE COpens
  BY <1>5 DEF COpens, COpen, COverlayStops, LifeStep, Open, CStep
<1>6. CASE CClose
  <2>1. CASE CFree
    BY <2>1 DEF CFree, LifeStep
  <2>2. CASE CRelease
    BY <2>2 DEF CRelease, LifeStep, ReleaseModel
  <2>3. CASE CStop \/ CWakeNN \/ CJoinNN
    BY <2>3 DEF CStop, CWakeNN, CJoinNN, LifeStep, Stop, WakeToStop, Join,
                CStep
  <2>4. CASE COpenPP \/ CStopPP \/ CWakePP \/ CJoinPP
    BY <2>4 DEF COpenPP, CStopPP, CWakePP, CJoinPP, LifeStep
  <2>5. QED
    BY <1>6, <2>1, <2>2, <2>3, <2>4 DEF CClose
<1>7. ~ISteps
  BY DEF ISteps, IBegin, IGiveUp, ICheck, IFree, IRelease, ISet, IEnd, IStep
<1>8. ASSUME NEW m \in Models, ASetModel(m) PROVE FALSE
  BY <1>8 DEF ASetModel
<1>9. CASE UNCHANGED elementVars
  BY <1>9 DEF elementVars
<1>10. QED
  BY <1>1, <1>2, <1>3, <1>4, <1>5, <1>6, <1>7, <1>8, <1>9 DEF ElementNext

LEMMA WorkingHolds ==
  ASSUME Plain
  PROVE  ElementSpec => []Working
<1>1. ElementInit => Working
  BY DEF ElementInit, Init, Working, PostPlaces, Fresh, FirstWork
<1>2. Unswitched /\ switches = 0 /\ Equipped /\ Working /\ [ElementNext]_elementVars => Working'
  BY WorkingStep
<1>3. ElementSpec => [](Unswitched /\ switches = 0) /\ []Equipped
  BY NoSwitchHolds, EquippedHolds DEF Plain
<1>4. QED
  BY <1>1, <1>2, <1>3, PTL DEF ElementSpec

\* The library is asked for an inference or a result only of a model that is
\* loaded, for any ring, in the first session.
THEOREM AsksALoadedModel ==
  ASSUME MaxSwitches = 0, InitMayFail = FALSE
  PROVE  ElementSpec => []UsesLoadedModel
<1>1. Equipped /\ Working => UsesLoadedModel
  BY DEF Equipped, Working, FirstWork, UsesLoadedModel, FirstSession
<1>2. QED
  BY <1>1, EquippedHolds, WorkingHolds, PTL DEF Plain

-----------------------------------------------------------------------------
(***************************************************************************)
(* Two or three buffers: what is published has been converted into, even   *)
(* when N moves prepare_idx under T.  With a buffer that N has in hand,    *)
(* one that is published and the one T fills, the move can only lead to    *)
(* one of the other two; a fourth buffer would be published unfilled.      *)
(***************************************************************************)

Taken == npc \in {"infer", "release"}

\* Where prepare_idx may be while T has a buffer: there, or moved on by N.
PrepareKnown ==
  \/ prepare_idx = w_idx /\ (Taken => nn_idx # w_idx)
  \/ prepare_idx \in filled /\ (Taken => nn_idx = next_nn_idx)

ConvertedInTime ==
  /\ next_nn_idx # -1 => next_nn_idx \in filled
  /\ npc = "claim" \/ (m_ready /\ cpc = "open") \/ tpc = "signal" => next_nn_idx # -1
  /\ Taken => nn_idx \in filled /\ cur_nn_idx = nn_idx /\ next_nn_idx # -1
  /\ tpc \in {"convert", "publish"} =>
       w_idx \in Buffers /\ w_idx # next_nn_idx /\ PrepareKnown
  /\ tpc = "publish" => w_idx \in filled

Converted ==
  /\ filled \subseteq {b \in Buffers : memory[b] # NoModel}
  /\ sessions = 0 => next_nn_idx = -1 /\ cur_nn_idx = -1
  /\ sessions = 1 /\ cpc # "closed" => ConvertedInTime

\* Of three buffers, the one after the first is one of the others.
LEMMA NextIsKnown ==
  ASSUME NN_BUF_CNT <= 3, NEW w \in Buffers, NEW a \in Buffers, NEW b \in Buffers,
         w # a, w # b, a # b
  PROVE  Succ(w) \in {a, b}
  BY NNBufCntAssumption DEF Buffers, Succ

\* What T chooses.
LEMMA ChosenBuffer ==
  ASSUME TypeOK, IInv, Accept
  PROVE  w_idx' \in Buffers /\ w_idx' # next_nn_idx /\ w_idx' # cur_nn_idx
<1>1. NN_BUF_CNT \in Nat /\ NN_BUF_CNT >= 2
  BY NNBufCntAssumption
<1>2. QED
  BY <1>1 DEF TypeOK, IInv, Started, Buffers, NONE,
     Accept, MovedPrepare, Succ, Buffers

LEMMA ConvertedStep ==
  ASSUME Plain, NN_BUF_CNT <= 3, Unswitched, switches = 0, Equipped, Working, Converted,
         TypeOK, IInv, [ElementNext]_elementVars
  PROVE  Converted'
<1> USE DEF Plain, Unswitched, Places, NNStopped, Working, Fresh, Converted,
            ConvertedInTime, PrepareKnown, Taken, indexVars, modelVars, memVars, idleVars,
            runVars, ppVars
<1>1. CASE TBegin
  BY <1>1 DEF TBegin
<1>2. CASE TFrame
  <2>1. CASE TOpenModel \/ TOpenFails
    BY <2>1 DEF TOpenModel, TOpenFails
  <2>2. CASE TAllocate
    <3>1. filled' = filled
      BY <2>2 DEF TAllocate, Allocate
    <3>2. \A b \in Buffers : memory[b] # NoModel => memory'[b] # NoModel
      BY <2>2 DEF TAllocate, Allocate
    <3>3. QED
      BY <2>2, <3>1, <3>2 DEF TAllocate
  <2>3. CASE TChoose
    <3>1. CASE Refuse
      BY <2>3, <3>1 DEF TChoose, Refuse
    <3>2. CASE Accept
      <4>1. w_idx' \in Buffers /\ w_idx' # next_nn_idx /\ w_idx' # cur_nn_idx
        BY <3>2, ChosenBuffer
      <4>2. QED
        BY <2>3, <3>2, <4>1 DEF TChoose, Accept
    <3>3. QED
      BY <2>3, <3>1, <3>2 DEF TChoose
  <2>4. CASE TConvert
    <3>1. w_idx \in Buffers => filled' = filled \cup {w_idx} /\ memory[w_idx] # NoModel
      BY <2>4 DEF TConvert, Convert, Equipped
    <3>2. w_idx \in Buffers
      BY <2>4 DEF TConvert, Convert, IInv, WriterApart, Buffers,
                  Buffers
    <3>3. QED
      BY <2>4, <3>1, <3>2 DEF TConvert, Convert
  <2>5. CASE TOther
    <3>1. -1 \notin Buffers
      BY NNBufCntAssumption DEF Buffers
    <3>2. QED
      BY <2>5, <3>1 DEF TOther, ConvertFail, Publish, Signal
  <2>6. QED
    BY <1>2, <2>1, <2>2, <2>3, <2>4, <2>5 DEF TFrame
<1>3. CASE NSteps
  <2>1. CASE MapFail
    BY <2>1 DEF MapFail, NMapFail, NStep
  <2>2. CASE Infer \/ Notify
    BY <2>2 DEF Infer, Notify, NInfer, NNotify, NStep
  <2>3. CASE NOther /\ ~NRelease
    BY <2>3 DEF NOther, NContinue, NExit, NLock, NSleep, NWake,
                NStop, NTake, NClaim, NStep, m_running
  <2>4. CASE NOther /\ NRelease
    <3>1. CASE nn_idx = next_nn_idx
      BY <2>4, <3>1 DEF NOther, NRelease, NStep, NONE
    <3>2. CASE nn_idx # next_nn_idx
      <4>1. ASSUME ConvertedInTime, tpc \in {"convert", "publish"}, nn_idx \in Buffers,
                   next_nn_idx \in Buffers
            PROVE  prepare_idx' \in {nn_idx, next_nn_idx}
        BY <4>1, <2>4, <3>2, NextIsKnown DEF NRelease, NStep
      <4>2. QED
        BY <2>4, <3>2, <4>1 DEF NOther, NRelease, NStep, NONE
    <3>3. QED
      BY <3>1, <3>2
  <2>5. QED
    BY <1>3, <2>1, <2>2, <2>3, <2>4 DEF NSteps
<1>4. CASE PNext
  BY <1>4 DEF PNext, PStep, PContinue, PLock, PSleep, PWake, PStop, PTake, PGet, PPush
<1>5. CASE COpens
  BY <1>5 DEF COpens, COpen, COverlayStops, LifeStep, Open, CStep
<1>6. CASE CClose
  <2>1. CASE CFree
    BY <2>1 DEF CFree, LifeStep, FreeBuffers
  <2>2. CASE CRelease
    BY <2>2 DEF CRelease, LifeStep
  <2>3. CASE CStop \/ CWakeNN \/ CJoinNN
    BY <2>3 DEF CStop, CWakeNN, CJoinNN, LifeStep, Stop, WakeToStop, Join,
                CStep
  <2>4. CASE COpenPP \/ CStopPP \/ CWakePP \/ CJoinPP
    BY <2>4 DEF COpenPP, CStopPP, CWakePP, CJoinPP, LifeStep
  <2>5. QED
    BY <1>6, <2>1, <2>2, <2>3, <2>4 DEF CClose
<1>7. ~ISteps
  BY DEF ISteps, IBegin, IGiveUp, ICheck, IFree, IRelease, ISet, IEnd, IStep
<1>8. ASSUME NEW m \in Models, ASetModel(m) PROVE FALSE
  BY <1>8 DEF ASetModel
<1>9. CASE UNCHANGED elementVars
  BY <1>9 DEF elementVars
<1>10. QED
  BY <1>1, <1>2, <1>3, <1>4, <1>5, <1>6, <1>7, <1>8, <1>9 DEF ElementNext

LEMMA ConvertedHolds ==
  ASSUME Plain, NN_BUF_CNT <= 3
  PROVE  ElementSpec => []Converted
<1>1. ElementInit => Converted
  BY DEF ElementInit, Init, NONE, Converted
<1>2. Unswitched /\ switches = 0 /\ Equipped /\ Working /\ TypeOK /\ IInv
        /\ Converted /\ [ElementNext]_elementVars => Converted'
  BY ConvertedStep
<1>3. Spec => []TypeOK /\ []IInv
  BY TypeCorrect, IInvHolds
<1>4. ElementSpec => [](Unswitched /\ switches = 0) /\ []Equipped /\ []Working
  BY NoSwitchHolds, EquippedHolds, WorkingHolds DEF Plain
<1>5. QED
  BY <1>1, <1>2, <1>3, <1>4, ImplementsRing, PTL DEF ElementSpec, RingSpec

\* No result comes from a buffer that nothing was converted into, with the
\* three buffers of the code or with two, in the first session.
THEOREM InfersOnlyOnConverted ==
  ASSUME MaxSwitches = 0, InitMayFail = FALSE, NN_BUF_CNT <= 3
  PROVE  ElementSpec => InfersOnConvertedFrame
<1>1. Unswitched /\ Converted /\ [ElementNext]_elementVars
        => [Infer /\ FirstSession => nn_idx \in filled]_elementVars
  <2>1. ASSUME Unswitched, Converted, Infer, FirstSession
        PROVE  nn_idx \in filled
    BY <2>1 DEF Infer, NInfer, NStep, FirstSession, Unswitched, Places, NNStopped,
                Converted, ConvertedInTime, Taken
  <2>2. QED
    BY <2>1
<1>2. ElementSpec => []Converted
  BY ConvertedHolds DEF Plain
<1>3. QED
  BY <1>1, <1>2, UnswitchedHolds, PTL DEF ElementSpec, InfersOnConvertedFrame
=============================================================================

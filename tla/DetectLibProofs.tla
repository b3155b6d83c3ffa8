-------------------------- MODULE DetectLibProofs ---------------------------
(***************************************************************************)
(* The detection library keeps its promises to amlnn's threads although it *)
(* locks nothing: for any numbers of results, failures, frames and         *)
(* settings.                                                               *)
(***************************************************************************)
EXTENDS DetectLib, TLAPS

Types ==
  /\ client \in {"element", "sample"} /\ hw_type \in {"vsi", "adla"}
  /\ failures \in Nat /\ number \in Numbers
  /\ pc = [t \in {"T", "N", "R", "A", "C", "S"} |-> pc[t]]

\* Whoever uses the model is between its opening and its release: the threads
\* of an element while T has it open, or the sample.
Places ==
  /\ client = "element" => pc["S"] = "off"
  /\ client = "sample" =>
       pc["T"] = "off" /\ pc["N"] = "idle" /\ pc["R"] = "idle" /\ ~woken
       /\ pc["C"] = "run"
  /\ pc["N"] # "idle" \/ pc["R"] # "idle" => pc["T"] = "open_done"
  /\ woken => pc["T"] = "open_done" \/ pc["C"] = "end"
  /\ pc["T"] \in {"open", "param", "copy", "call", "open_done", "off"}
  /\ pc["T"] = "open" \/ pc["S"] = "open" => status = "UNINIT"
  /\ pc["T"] \in {"param", "copy", "call", "open_done"} => status # "UNINIT"
  /\ pc["S"] \in {"input", "infer", "write", "release"} => status # "UNINIT"
  /\ pc["C"] = "release" => pc["T"] \in {"open", "open_done"}
  /\ pc["C"] = "end" => pc["T"] = "off"

\* What is held, whether or not a model is loaded.
Balance ==
  IF status = "UNINIT"
  THEN /\ handles = failures /\ buffers = failures * BuffersBefore
       /\ context = NoFile
  ELSE /\ handles = failures + 1
       /\ buffers = failures * BuffersBefore + Buffers

\* Whatever can wake R, or overwrite the status between N's input and its
\* output, comes after an inference that had its outputs set, or after a round
\* without one.
Outputs ==
  ~refused /\ ~early =>
    /\ pc["N"] \in {"infer", "wake"} \/ pc["R"] # "idle" \/ (woken /\ pc["T"] # "off")
         => outset
    /\ pc["N"] = "output" => outset \/ status = "PREPARING"

IInv == Types /\ Places

-----------------------------------------------------------------------------
\* The number stays in its range.
LEMMA NumberStep ==
  ASSUME NEW n, SetParam(n), number \in Numbers
  PROVE  number' \in Numbers
  BY NumberAssumption DEF SetParam, Numbers

LEMMA IInvInit == Init => IInv
<1> SUFFICES ASSUME Init PROVE IInv
  OBVIOUS
<1>1. failures \in Nat /\ number \in Numbers
  BY NumberAssumption DEF Init, Numbers
<1>2. pc = [t \in {"T", "N", "R", "A", "C", "S"} |-> pc[t]]
  BY DEF Init
<1>3. Places
  BY DEF Init, Places
<1>4. QED
  BY <1>1, <1>2, <1>3 DEF Init, IInv, Types

LEMMA TypesStep == IInv /\ [Next]_vars => Types'
<1> SUFFICES ASSUME IInv, [Next]_vars PROVE Types'
  OBVIOUS
<1> USE NumberAssumption DEF IInv, Types, Goto, fixed, libVars, numVars, outVars
<1>1. CASE TNext
  BY <1>1, NumberStep DEF TNext, TOpen, TOpenFails, TParam, TCopy, TSetParam,
                          SetModel, SetModelFails
<1>2. CASE ANext
  BY <1>2, NumberStep DEF ANext, ASet, ASetNothing, ACopy, ASetParam
<1>3. CASE NNext
  BY <1>3 DEF NNext, NInput, NMapFails, NOutput, NInfer, NWake, SetInput
<1>4. CASE RNext
  BY <1>4 DEF RNext, RTake, RNothing, RProcessed
<1>5. CASE CNext
  BY <1>5 DEF CNext, CStop, CRelease, ReleaseModel
<1>6. CASE SNext
  BY <1>6 DEF SNext, SOpen, SOpenFails, SInput, SResult, SRelease,
              SetModel, SetModelFails, SetInput, ReleaseModel
<1>7. CASE UNCHANGED vars
  BY <1>7 DEF vars
<1>8. QED
  BY <1>1, <1>2, <1>3, <1>4, <1>5, <1>6, <1>7 DEF Next

LEMMA PlacesStep == IInv /\ [Next]_vars => Places'
<1> SUFFICES ASSUME IInv, [Next]_vars PROVE Places'
  OBVIOUS
<1> USE DEF IInv, Types, Places, Goto, fixed, libVars, numVars, outVars
<1>1. CASE TNext
  BY <1>1 DEF TNext, TOpen, TOpenFails, TParam, TCopy, TSetParam, SetModel,
              SetModelFails
<1>2. CASE ANext
  BY <1>2 DEF ANext, ASet, ASetNothing, ACopy, ASetParam
<1>3. CASE NNext
  BY <1>3 DEF NNext, NInput, NMapFails, NOutput, NInfer, NWake, SetInput
<1>4. CASE RNext
  BY <1>4 DEF RNext, RTake, RNothing, RProcessed
<1>5. CASE CNext
  BY <1>5 DEF CNext, CStop, CRelease, ReleaseModel
<1>6. CASE SNext
  BY <1>6 DEF SNext, SOpen, SOpenFails, SInput, SResult, SRelease, SetModel,
              SetModelFails, SetInput, ReleaseModel
<1>7. CASE UNCHANGED vars
  BY <1>7 DEF vars
<1>8. QED
  BY <1>1, <1>2, <1>3, <1>4, <1>5, <1>6, <1>7 DEF Next

LEMMA IInvHolds == Spec => []IInv
<1>1. IInv /\ [Next]_vars => IInv'
  BY TypesStep, PlacesStep DEF IInv
<1>2. QED
  BY IInvInit, <1>1, PTL DEF Spec

-----------------------------------------------------------------------------
(* What is leaked.                                                         *)

LEMMA BuffersAreCounted ==
  /\ Buffers \in Nat /\ BuffersBefore \in Nat
  /\ \A f \in Nat : (f + 1) * BuffersBefore = f * BuffersBefore + BuffersBefore
<1>1. Buffers \in {0, 1, 4} /\ BuffersBefore \in {0, 1, 4}
  BY DEF Buffers, BuffersBefore
<1>2. \A f \in Nat : (f + 1) * BuffersBefore = f * BuffersBefore + BuffersBefore
  BY <1>1
<1>3. QED
  BY <1>1, <1>2

\* Neither the hardware nor the client changes, so neither does what a network
\* takes.
LEMMA BuffersStay ==
  [Next]_vars => Buffers' = Buffers /\ BuffersBefore' = BuffersBefore
  BY DEF Next, vars, fixed, Buffers, BuffersBefore,
         TNext, TOpen, TOpenFails, TParam, TCopy, TSetParam,
         ANext, ASet, ASetNothing, ACopy, ASetParam, NNext, NInput, NMapFails, NOutput, NInfer, NWake,
         RNext, RTake, RNothing, RProcessed, CNext, CStop, CRelease,
         SNext, SOpen, SOpenFails, SInput, SResult, SRelease

LEMMA BalanceStep == IInv /\ Balance /\ [Next]_vars => Balance'
<1> SUFFICES ASSUME IInv, Balance, [Next]_vars PROVE Balance'
  OBVIOUS
<1>0. /\ failures \in Nat /\ Buffers' = Buffers /\ BuffersBefore' = BuffersBefore
      /\ Buffers \in Nat /\ BuffersBefore \in Nat
      /\ (failures + 1) * BuffersBefore = failures * BuffersBefore + BuffersBefore
      /\ failures * BuffersBefore \in Nat
  BY BuffersAreCounted, BuffersStay DEF IInv, Types
<1> USE <1>0 DEF Balance
<1>1. ASSUME SetModel, status = "UNINIT" PROVE Balance'
  BY <1>1 DEF SetModel
<1>2. ASSUME SetModelFails, status = "UNINIT" PROVE Balance'
  BY <1>2 DEF SetModelFails
<1>3. ASSUME ReleaseModel PROVE Balance'
  BY <1>3 DEF ReleaseModel
<1>4. ASSUME UNCHANGED <<context, handles, buffers, failures>>,
             status' = status \/ (status # "UNINIT" /\ status' # "UNINIT")
      PROVE  Balance'
  BY <1>4
<1> USE DEF IInv, Places, Goto, libVars
<1>5. CASE TNext
  BY <1>1, <1>2, <1>4, <1>5 DEF TNext, TOpen, TOpenFails, TParam, TCopy, TSetParam
<1>6. CASE ANext
  BY <1>4, <1>6 DEF ANext, ASet, ASetNothing, ACopy, ASetParam
<1>7. CASE NNext
  BY <1>4, <1>7 DEF NNext, NInput, NMapFails, NOutput, NInfer, NWake, SetInput
<1>8. CASE RNext
  BY <1>4, <1>8 DEF RNext, RTake, RNothing, RProcessed
<1>9. CASE CNext
  BY <1>3, <1>4, <1>9 DEF CNext, CStop, CRelease
<1>10. CASE SNext
  BY <1>1, <1>2, <1>3, <1>4, <1>10
     DEF SNext, SOpen, SOpenFails, SInput, SResult, SRelease, SetInput
<1>11. CASE UNCHANGED vars
  BY <1>4, <1>11 DEF vars
<1>12. QED
  BY <1>5, <1>6, <1>7, <1>8, <1>9, <1>10, <1>11 DEF Next

\* When no model is loaded, what is held is what failed calls of det_set_model
\* lost: det_release_model gives back all that the last call took.
THEOREM NothingElseLeaks == Spec => []OnlyFailuresLeak
<1>1. Init => Balance
  BY BuffersAreCounted DEF Init, Balance
<1>2. IInv /\ Balance => OnlyFailuresLeak
  BY DEF Balance, OnlyFailuresLeak
<1>3. QED
  BY <1>1, <1>2, BalanceStep, IInvHolds, PTL DEF Spec

-----------------------------------------------------------------------------
(* What N infers with.                                                     *)

LEMMA OutputsStep == IInv /\ Outputs /\ [Next]_vars => Outputs'
<1> SUFFICES ASSUME IInv, Outputs, [Next]_vars PROVE Outputs'
  OBVIOUS
<1> USE DEF IInv, Types, Places, Outputs, Goto, libVars, outVars
<1>1. CASE TNext
  BY <1>1 DEF TNext, TOpen, TOpenFails, TParam, TCopy, TSetParam, SetModel,
              SetModelFails
<1>2. CASE ANext
  BY <1>2 DEF ANext, ASet, ASetNothing, ACopy, ASetParam
<1>3. CASE NNext
  BY <1>3 DEF NNext, NInput, NMapFails, NOutput, NInfer, NWake, SetInput
<1>4. CASE RNext
  BY <1>4 DEF RNext, RTake, RNothing, RProcessed
<1>5. CASE CNext
  BY <1>5 DEF CNext, CStop, CRelease, ReleaseModel
<1>6. CASE SNext
  <2>1. (client = "sample" /\ client' = "sample") \/ pc["S"] = "off"
    BY <1>6 DEF SNext, SOpen, SOpenFails, SInput, SResult, SRelease, fixed
  <2>2. QED
    BY <1>6, <2>1 DEF SNext, SOpen, SOpenFails, SInput, SResult, SRelease
<1>7. CASE UNCHANGED vars
  BY <1>7 DEF vars
<1>8. QED
  BY <1>1, <1>2, <1>3, <1>4, <1>5, <1>6, <1>7 DEF Next

\* No inference runs before the driver was told where its outputs go, although
\* R may overwrite the status that det_set_output_to_NPU asks for, but for a
\* refused input or a round without an inference before that.
THEOREM InfersIntoBuffers == Spec => []OutputsSetBeforeInference
<1>1. Init => Outputs
  BY DEF Init, Outputs
<1>2. Outputs => OutputsSetBeforeInference
  BY DEF Outputs, OutputsSetBeforeInference
<1>3. QED
  BY <1>1, <1>2, OutputsStep, IInvHolds, PTL DEF Spec

-----------------------------------------------------------------------------
(* The number.                                                             *)

\* If A last set the number once T was done with it, then whoever is on the way
\* to det_set_param has the element's number in hand.
Agreement ==
  /\ copied = [t \in {"T", "A"} |-> copied[t]]
  /\ max_num \in Numbers /\ pc["A"] \in {"idle", "copy", "call"}
  /\ pc["T"] = "open" => pc["A"] = "idle"
  /\ ignored \/ wanted = max_num
  /\ ~raced =>
       /\ pc["A"] # "idle" => pc["T"] \in {"open_done", "off"}
       /\ pc["T"] # "param" => param_num = max_num
       /\ pc["T"] = "call" => copied["T"] = max_num
       /\ pc["A"] = "call" => copied["A"] = max_num
       /\ pc["T"] = "open_done" /\ pc["A"] = "idle" => number = max_num

LEMMA NumberIsSet ==
  ASSUME SetParam(max_num), max_num \in Numbers, status # "UNINIT"
  PROVE  number' = max_num
  BY DEF SetParam

LEMMA AgreementStep == IInv /\ Agreement /\ [Next]_vars => Agreement'
<1> SUFFICES ASSUME IInv, Agreement, [Next]_vars PROVE Agreement'
  OBVIOUS
<1> USE DEF IInv, Types, Places, Agreement, Goto, numVars, libVars, Numbers
<1>1. CASE TNext
  <2>1. CASE TSetParam
    BY <2>1, NumberIsSet DEF TSetParam
  <2>2. CASE TOpen \/ TOpenFails \/ TParam \/ TCopy
    BY <2>2 DEF TOpen, TOpenFails, TParam, TCopy
  <2>3. QED
    BY <1>1, <2>1, <2>2 DEF TNext
<1>2. CASE ANext
  <2>1. ASSUME NEW n \in Numbers, ASet(n) PROVE Agreement'
    <3>1. raced' = (pc["T"] # "open_done") /\ pc["T"] # "open"
      BY <2>1, Zenon DEF ASet, Initialized
    <3>2. /\ max_num' = n /\ param_num' = n /\ UNCHANGED copied
          /\ wanted' = n /\ pc' = [pc EXCEPT !["A"] = "copy"]
      BY <2>1 DEF ASet
    <3>3. QED
      BY <3>1, <3>2
  <2>5. ASSUME NEW n \in Numbers, ASetNothing(n) PROVE Agreement'
    BY <2>5 DEF ASetNothing
  <2>2. CASE ACopy
    BY <2>2 DEF ACopy
  <2>3. CASE ASetParam
    <3>1. /\ pc' = [pc EXCEPT !["A"] = "idle"] /\ SetParam(copied["A"])
          /\ UNCHANGED <<status, copied, max_num, param_num, raced, wanted, ignored>>
      BY <2>3 DEF ASetParam
    <3>2. ~raced /\ pc["T"] = "open_done" => number' = max_num
      <4>1. ~raced => copied["A"] = max_num
        BY <2>3 DEF ASetParam
      <4>2. QED
        BY <3>1, <4>1, NumberIsSet
    <3>3. QED
      BY <2>3, <3>1, <3>2 DEF ASetParam
  <2>4. QED
    BY <1>2, <2>1, <2>2, <2>3, <2>5 DEF ANext
<1>3. CASE NNext
  BY <1>3 DEF NNext, NInput, NMapFails, NOutput, NInfer, NWake
<1>4. CASE RNext
  BY <1>4 DEF RNext, RTake, RNothing, RProcessed
<1>5. CASE CNext
  BY <1>5 DEF CNext, CStop, CRelease
<1>6. CASE SNext
  BY <1>6 DEF SNext, SOpen, SOpenFails, SInput, SResult, SRelease
<1>7. CASE UNCHANGED vars
  BY <1>7 DEF vars
<1>8. QED
  BY <1>1, <1>2, <1>3, <1>4, <1>5, <1>6, <1>7 DEF Next

\* Once a model is open and no setting is under way, the library's number is the
\* one the element remembers and the application asked for, unless it asked
\* before the model was open or last while detection_init was passing on the old
\* one.
THEOREM NumbersAgree == Spec => []AgreeOnTheNumber
<1>1. Init => Agreement
  BY NumberAssumption DEF Init, Agreement, Numbers
<1>2. Agreement => AgreeOnTheNumber
  BY DEF Agreement, AgreeOnTheNumber
<1>3. QED
  BY <1>1, <1>2, AgreementStep, IInvHolds, PTL DEF Spec
=============================================================================

------------------------- MODULE OverlayLifeProofs --------------------------
(***************************************************************************)
(* What stop and finalize of nnoverlay leave behind, for any number of     *)
(* render buffers and of starts.                                           *)
(***************************************************************************)
EXTENDS OverlayLife, FiniteSetTheorems, TLAPS

Step == [Next]_vars

-----------------------------------------------------------------------------
(* References.                                                             *)

\* Nothing is there while the element is not started, and m_input points to a
\* frame's memory only if one was seen.
Holdings ==
  /\ m_render \subseteq Buffers
  /\ m_input \in {"null", "staging", "foreign"}
  /\ m_input = "foreign" => foreignSeen
  /\ state # "started" => m_render = {} /\ ~m_output /\ m_input = "null"
  /\ HoldsWhatItPointsTo

LEMMA HoldingsOfAFrame == Holdings /\ DBefore => Holdings'
<1> SUFFICES ASSUME Holdings, DBefore PROVE Holdings'
  OBVIOUS
<1>1. PICK steps \in 0 .. AllSteps, dma \in BOOLEAN :
        /\ m_input' \in InputAfter(steps, dma)
        /\ m_output' = (m_output \/ steps >= 4)
        /\ m_render' = m_render \cup NewRender(steps)
        /\ foreignSeen' = (foreignSeen \/ (dma /\ steps >= 1))
        /\ held' = held \cup NewRender(steps)
                     \cup (IF steps >= 4 THEN {OUTPUT} ELSE {})
                     \cup (IF m_input' = "staging" THEN {STAGING} ELSE {})
  BY DEF DBefore
<1>2. state = "started" /\ state' = "started"
  BY DEF DBefore
<1>3. NewRender(steps) \subseteq Buffers
  BY DEF NewRender
<1>4. /\ m_input' \in {"null", "staging", "foreign"}
      /\ m_input' = "foreign" => foreignSeen'
      /\ m_input = "staging" /\ ~foreignSeen' => m_input' = "staging"
  <2>1. (foreignSeen => foreignSeen') /\ (dma /\ steps >= 1 => foreignSeen')
    BY <1>1, Zenon
  <2>2. m_input' \in InputAfter(steps, dma) /\ steps \in Nat
    BY <1>1, LifeAssumption DEF AllSteps
  <2>3. QED
    BY <2>1, <2>2 DEF InputAfter, Holdings
<1>5. ASSUME ~foreignSeen' PROVE HoldsWhatItPointsTo'
  <2>1. held = m_render \cup (IF m_output THEN {OUTPUT} ELSE {})
                 \cup (IF m_input = "staging" THEN {STAGING} ELSE {})
    BY <1>1, <1>5 DEF Holdings, HoldsWhatItPointsTo
  <2>2. held' = m_render' \cup (IF m_output' THEN {OUTPUT} ELSE {})
                  \cup (IF m_input' = "staging" THEN {STAGING} ELSE {})
    BY <1>1, <1>4, <1>5, <2>1
  <2>3. QED
    BY <1>2, <2>2 DEF HoldsWhatItPointsTo
<1>6. QED
  BY <1>1, <1>2, <1>3, <1>4, <1>5 DEF Holdings, HoldsWhatItPointsTo

LEMMA HoldingsStep == Holdings /\ Step => Holdings'
<1> SUFFICES ASSUME Holdings, Step PROVE Holdings'
  OBVIOUS
<1>1. CASE DBefore
  BY <1>1, HoldingsOfAFrame
<1>2. CASE AStart
  BY <1>2 DEF AStart, Holdings, HoldsWhatItPointsTo, memVars
<1>3. CASE AStop
  BY <1>3 DEF AStop, Holdings, HoldsWhatItPointsTo
<1>4. ASSUME UNCHANGED <<m_render, m_input, m_output, foreignSeen, held>>,
             state' = state \/ (state # "started" /\ state' # "started")
      PROVE  Holdings'
  BY <1>4 DEF Holdings, HoldsWhatItPointsTo
<1>5. CASE AFinalize \/ ASignal \/ AJoin
  BY <1>4, <1>5 DEF AFinalize, ASignal, AJoin, memVars
<1>6. CASE DTake \/ DRelease \/ EEvent
  BY <1>4, <1>6 DEF DTake, DRelease, EEvent, aVars, memVars
<1>7. ASSUME NEW t \in Threads, PNext(t) PROVE Holdings'
  BY <1>4, <1>7 DEF PNext, PLoop, PSleep, PWake, PNothing, PFull, PChoose, PMap, PDraw,
                    PPublish, aVars, memVars
<1>8. CASE UNCHANGED vars
  BY <1>4, <1>8 DEF vars, aVars, memVars
<1>9. QED
  BY <1>1, <1>2, <1>3, <1>5, <1>6, <1>7, <1>8 DEF Step, Next, ANext, DNext

LEMMA HoldingsHold == Spec => []Holdings
<1>1. Init => Holdings
  BY DEF Init, Holdings, HoldsWhatItPointsTo
<1>2. QED
  BY <1>1, HoldingsStep, PTL DEF Spec, Step

\* The element holds references to just the buffers it points to, and to none
\* once it is stopped, wherever before_transform gave up and however often the
\* element was started, as long as no frame came in DMA memory.
THEOREM HoldsJustThat == Spec => []HoldsWhatItPointsTo
<1>1. Holdings => HoldsWhatItPointsTo
  BY DEF Holdings
<1>2. QED
  BY <1>1, HoldingsHold, PTL

-----------------------------------------------------------------------------
(* Threads.                                                                *)

\* The overlay threads are numbered, the last one is the one finalize joins,
\* and there is at most one for each start.
Numbering ==
  /\ ppc = [t \in Threads |-> ppc[t]]
  /\ m_thread \in Nat /\ starts \in 0 .. MaxStarts /\ m_thread <= starts
  /\ state # "started" => ~m_output
  /\ state = "started" /\ ~m_output => m_thread < starts
  /\ state # "finalized" => Created = 1 .. m_thread

TInv == Numbering /\ NoThreadLeft

LEMMA CountOfThreads == ASSUME NEW n \in Nat PROVE Cardinality(1 .. n) = n
<1>1. Cardinality(1 .. n) = IF 1 > n THEN 0 ELSE n - 1 + 1
  BY FS_Interval
<1>2. QED
  BY <1>1

\* A thread that moves was created before and had not ended.
LEMMA ThreadMoves ==
  ASSUME NEW t \in Threads, PNext(t), Numbering
  PROVE  /\ ppc' = [s \in Threads |-> ppc'[s]]
         /\ Created' = Created /\ ppc[t] # "exit" /\ t \in Created
         /\ UNCHANGED <<state, starts, m_output, m_thread>>
<1> USE DEF Numbering
<1>1. /\ ppc[t] \notin {"none", "exit"}
      /\ UNCHANGED <<state, starts, m_output, m_thread>>
  BY DEF PNext, PLoop, PSleep, PWake, PNothing, PFull, PChoose, PMap, PDraw, PPublish,
         aVars, memVars
<1>2. \E place \in {"lock", "exit", "loop", "sleep", "look", "map", "draw", "publish"} :
        ppc' = [ppc EXCEPT ![t] = place]
  BY DEF PNext, PLoop, PSleep, PWake, PNothing, PFull, PChoose, PMap, PDraw, PPublish, Goto
<1>3. QED
  BY <1>1, <1>2 DEF Created

LEMMA SignalWakes ==
  ASSUME Signal, Numbering
  PROVE  ppc' = [s \in Threads |-> ppc'[s]] /\ Created' = Created
  BY DEF Signal, Numbering, Created

LEMMA NumberingOfAFrame == Numbering /\ DBefore => Numbering'
<1> SUFFICES ASSUME Numbering, DBefore PROVE Numbering'
  OBVIOUS
<1> USE DEF Numbering
<1>1. state = "started" /\ state' = "started" /\ starts' = starts
  BY DEF DBefore
<1>2. CASE UNCHANGED <<m_thread, ppc>> /\ (m_output => m_output')
  BY <1>1, <1>2 DEF Created
<1>3. CASE /\ m_thread' = Cardinality(Created) + 1 /\ ~m_output /\ m_output'
           /\ ppc' = [ppc EXCEPT ![Cardinality(Created) + 1] = "loop"]
  <2>1. Created = 1 .. m_thread /\ Cardinality(1 .. m_thread) = m_thread
    BY <1>1, CountOfThreads
  <2>2. m_thread + 1 \in Threads
    BY <1>1, <1>3, LifeAssumption DEF Threads
  <2>3. m_thread' = m_thread + 1 /\ ppc' = [ppc EXCEPT ![m_thread + 1] = "loop"]
    BY <1>3, <2>1
  <2>4. Created' = Created \cup {m_thread + 1}
    BY <2>2, <2>3 DEF Created
  <2>5. Created' = 1 .. m_thread'
    BY <2>1, <2>3, <2>4
  <2>6. QED
    BY <1>1, <1>3, <2>2, <2>3, <2>5, LifeAssumption
<1>4. PICK steps \in 0 .. AllSteps :
        /\ m_output' = (m_output \/ steps >= 4)
        /\ IF steps = AllSteps /\ ~m_output
           THEN /\ m_thread' = Cardinality(Created) + 1
                /\ ppc' = [ppc EXCEPT ![Cardinality(Created) + 1] = "loop"]
           ELSE UNCHANGED <<m_thread, ppc>>
  BY DEF DBefore
<1>5. (m_output => m_output') /\ (steps >= 4 => m_output')
  BY <1>4, Zenon
<1>6. AllSteps \in Nat /\ AllSteps >= 4
  BY LifeAssumption DEF AllSteps
<1>7. CASE steps = AllSteps /\ ~m_output
  BY <1>3, <1>4, <1>5, <1>6, <1>7
<1>8. CASE ~(steps = AllSteps /\ ~m_output)
  BY <1>2, <1>4, <1>5, <1>8
<1>9. QED
  BY <1>7, <1>8

LEMMA TInvStep == TInv /\ Step => TInv'
<1> SUFFICES ASSUME TInv, Step PROVE TInv'
  OBVIOUS
<1> USE DEF TInv
<1>1. CASE DBefore
  <2>1. state' = "started"
    BY <1>1 DEF DBefore
  <2>2. QED
    BY <1>1, <2>1, NumberingOfAFrame DEF NoThreadLeft
<1>2. CASE AStart
  <2>1. state = "ready" /\ state' = "started" /\ starts' = starts + 1
        /\ starts < MaxStarts /\ UNCHANGED <<ppc, m_thread, m_output>>
    BY <1>2 DEF AStart, memVars, threadVars
  <2>2. starts' \in 0 .. MaxStarts /\ m_thread' < starts'
    BY <2>1, LifeAssumption DEF Numbering
  <2>3. Created' = 1 .. m_thread'
    BY <2>1 DEF Numbering, Created
  <2>4. QED
    BY <2>1, <2>2, <2>3, LifeAssumption DEF Numbering, NoThreadLeft
<1>3. CASE AStop
  BY <1>3 DEF AStop, Numbering, NoThreadLeft, Created, threadVars
<1>4. CASE AFinalize
  BY <1>4 DEF AFinalize, Numbering, NoThreadLeft, Created, memVars
<1>5. CASE ASignal
  BY <1>5, SignalWakes DEF ASignal, Numbering, NoThreadLeft, memVars
<1>6. CASE AJoin
  <2>1. Numbering' /\ Created' = Created /\ ppc' = ppc
    BY <1>6 DEF AJoin, Numbering, Created, memVars
  <2>2. Created = 1 .. m_thread /\ (m_thread # 0 => ppc[m_thread] = "exit")
    BY <1>6 DEF AJoin, Numbering
  <2>3. Cardinality(Created) = m_thread
    BY <2>2, CountOfThreads DEF Numbering
  <2>4. Cardinality(Created) <= 1 => \A t \in Created : ppc[t] = "exit"
    BY <2>2, <2>3 DEF Numbering
  <2>5. QED
    BY <2>1, <2>4 DEF NoThreadLeft
<1>7. CASE DTake \/ DRelease
  BY <1>7 DEF DTake, DRelease, Numbering, NoThreadLeft, Created, aVars, memVars, threadVars
<1>8. CASE EEvent
  BY <1>8, SignalWakes DEF EEvent, Numbering, NoThreadLeft, aVars, memVars
<1>9. ASSUME NEW t \in Threads, PNext(t) PROVE TInv'
  BY <1>9, ThreadMoves DEF Numbering, NoThreadLeft
<1>10. CASE UNCHANGED vars
  BY <1>10 DEF vars, aVars, memVars, threadVars, Numbering, NoThreadLeft, Created
<1>11. QED
  BY <1>1, <1>2, <1>3, <1>4, <1>5, <1>6, <1>7, <1>8, <1>9, <1>10
     DEF Step, Next, ANext, DNext

LEMMA NumberingAtFirst == Init => TInv
<1> SUFFICES ASSUME Init PROVE TInv
  OBVIOUS
<1>1. Created = {} /\ m_thread = 0 /\ 1 .. 0 = {}
  BY DEF Init, Created
<1>2. ppc = [t \in Threads |-> ppc[t]]
  BY DEF Init
<1>3. starts = 0 /\ 0 \in 0 .. MaxStarts /\ state = "ready" /\ ~m_output
  BY LifeAssumption DEF Init
<1>4. QED
  BY <1>1, <1>2, <1>3 DEF TInv, Numbering, NoThreadLeft

LEMMA ThreadsNumbered == Spec => []TInv
BY NumberingAtFirst, TInvStep, PTL DEF Spec, Step

\* finalize returns only after the overlay thread has ended, if there never was
\* more than one, whatever the thread was at when finalize was called.
THEOREM FinalizeJoins == Spec => []NoThreadLeft
<1>1. TInv => NoThreadLeft
  BY DEF TInv
<1>2. QED
  BY <1>1, ThreadsNumbered, PTL

-----------------------------------------------------------------------------
(***************************************************************************)
(* The first play.  There is at most one overlay thread, and it was        *)
(* created when all buffers were there; so it meets the streaming thread   *)
(* as in OverlayRing, and with the two buffers of the element D can only   *)
(* have what was published last while the overlay thread draws.            *)
(***************************************************************************)
FirstPlay == state = "started" /\ starts = 1

\* Before the first start nothing has moved.
Untouched ==
  starts = 0 =>
    /\ state # "started" /\ dpc = "idle" /\ Created = {}
    /\ next_display_idx = NONE /\ cur_display_idx = NONE /\ render_idx = NONE
    /\ display_idx = NONE /\ draw_idx = [t \in Threads |-> NONE]

OneThread ==
  /\ \A t \in Threads : t # 1 => ppc[t] = "none"
  /\ ppc[1] # "none" => m_render = Buffers /\ m_output
  /\ ppc[1] = "none" => next_display_idx = NONE

Indices ==
  /\ {next_display_idx, cur_display_idx, render_idx, display_idx} \subseteq Buffers \cup {NONE}
  /\ render_idx = NONE => next_display_idx = NONE
  /\ next_display_idx = NONE => cur_display_idx = NONE
  /\ dpc = "blend" => cur_display_idx = display_idx /\ display_idx # NONE

Busy == ppc[1] \in {"map", "draw", "publish"}

DrawsAside ==
  /\ draw_idx \in [Threads -> Buffers \cup {NONE}]
  /\ Busy => /\ render_idx = draw_idx[1] /\ draw_idx[1] \in Buffers
             /\ draw_idx[1] # next_display_idx
             /\ cur_display_idx \in {next_display_idx, NONE}

ShownIsDrawn ==
  /\ next_display_idx # NONE => next_display_idx \in drawn
  /\ dpc = "blend" => display_idx \in drawn
  /\ ppc[1] = "publish" => draw_idx[1] \in drawn

FInv ==
  /\ Untouched
  /\ FirstPlay => gfx /\ OneThread /\ Indices /\ DrawsAside /\ ShownIsDrawn

LEMMA RingMoves ==
  ASSUME NEW i \in Buffers \cup {NONE}
  PROVE  Ring!Succ(i) \in Buffers /\ Ring!Succ(i) # i /\ NONE \notin Buffers
  BY LifeAssumption DEF Ring!Succ, Buffers, NONE

LEMMA OneIsAThread == 1 \in Threads
  BY LifeAssumption DEF Threads

\* What is proved of each step of the first play.
Kept == gfx /\ OneThread /\ Indices /\ DrawsAside /\ ShownIsDrawn

\* The frame that finds the last buffer creates thread 1, and no later one
\* allocates anything.
LEMMA FirstFrames ==
  ASSUME Kept, Numbering, Holdings, FirstPlay, DBefore
  PROVE  Kept'
<1> USE DEF Kept
<1>1. PICK steps \in 0 .. AllSteps :
        /\ m_output' = (m_output \/ steps >= 4)
        /\ m_render' = m_render \cup NewRender(steps)
        /\ drawn' = drawn \ NewRender(steps)
        /\ IF steps = AllSteps /\ ~m_output
           THEN /\ m_thread' = Cardinality(Created) + 1
                /\ ppc' = [ppc EXCEPT ![Cardinality(Created) + 1] = "loop"]
           ELSE UNCHANGED <<m_thread, ppc>>
  BY DEF DBefore
<1>2. UNCHANGED <<gfx, indexVars, draw_idx, display_idx>> /\ dpc' = "take"
  BY DEF DBefore
<1>3. 1 \in Threads
  BY OneIsAThread
<1>4. CASE ppc[1] # "none"
  <2>1. m_render = Buffers /\ m_output
    BY <1>4 DEF OneThread
  <2>2. NewRender(steps) = {}
    BY <2>1 DEF NewRender
  <2>3. ppc' = ppc /\ m_render' = Buffers /\ m_output' /\ drawn' = drawn
    BY <1>1, <2>1, <2>2
  <2>4. QED
    BY <1>2, <1>4, <2>3 DEF OneThread, Indices, DrawsAside, ShownIsDrawn, Busy, indexVars
<1>5. CASE ppc[1] = "none"
  <2>1. m_thread = 0 /\ Cardinality(Created) = 0
    <3>1. Created = 1 .. m_thread /\ m_thread \in Nat /\ 1 \notin Created
      BY <1>5 DEF Numbering, FirstPlay, Created
    <3>2. m_thread = 0
      BY <3>1
    <3>3. QED
      BY <3>1, <3>2, CountOfThreads
  <2>2. \/ ppc' = ppc
        \/ ppc' = [ppc EXCEPT ![1] = "loop"] /\ steps = AllSteps
    BY <1>1, <2>1
  <2>3. AllSteps \in Nat /\ AllSteps >= 4 /\ \A i \in Buffers : i + 5 <= AllSteps
    BY LifeAssumption DEF AllSteps, Buffers
  <2>4. steps = AllSteps => m_render' = Buffers
    <3>1. NewRender(AllSteps) = Buffers \ m_render
      BY <2>3 DEF NewRender
    <3>2. QED
      BY <1>1, <3>1 DEF Holdings
  <2>5. steps = AllSteps => m_output'
    BY <1>1, <2>3
  <2>6. next_display_idx' = NONE
    BY <1>2, <1>5 DEF OneThread, indexVars
  <2>7. ppc'[1] \in {"none", "loop"} /\ \A t \in Threads : t # 1 => ppc'[t] = "none"
    BY <1>3, <1>5, <2>2 DEF OneThread, Numbering
  <2>8. OneThread'
    BY <1>5, <2>2, <2>4, <2>5, <2>6, <2>7 DEF OneThread
  <2>9. Indices'
    BY <1>2 DEF Indices, indexVars
  <2>10. QED
    BY <1>2, <2>6, <2>7, <2>8, <2>9 DEF DrawsAside, ShownIsDrawn, Busy
<1>6. QED
  BY <1>4, <1>5

LEMMA FirstTake ==
  ASSUME Kept, DTake
  PROVE  Kept'
<1>1. /\ UNCHANGED <<gfx, ppc, m_render, m_output, drawn, draw_idx, next_display_idx, render_idx>>
      /\ display_idx' = next_display_idx /\ cur_display_idx' = next_display_idx
      /\ dpc' = "blend" => next_display_idx # NONE
  BY DEF DTake, aVars, memVars, threadVars
<1>2. QED
  BY <1>1 DEF Kept, OneThread, Indices, DrawsAside, ShownIsDrawn, Busy

\* D moves render_idx only if something newer was published, and then the
\* overlay thread is not at work.
LEMMA FirstRelease ==
  ASSUME Kept, DRelease
  PROVE  Kept'
<1>1. /\ UNCHANGED <<gfx, ppc, m_render, m_output, drawn, draw_idx, next_display_idx,
                     display_idx>>
      /\ dpc = "blend" /\ dpc' = "idle"
  BY DEF DRelease, aVars, memVars, threadVars
<1>2. cur_display_idx = display_idx /\ display_idx # NONE /\ display_idx \in Buffers
  BY <1>1 DEF Kept, Indices
<1>3. CASE display_idx = next_display_idx
  BY <1>1, <1>3 DEF DRelease, Kept, OneThread, Indices, DrawsAside, ShownIsDrawn, Busy
<1>4. CASE display_idx # next_display_idx
  <2>1. ~Busy
    BY <1>2, <1>4 DEF Kept, DrawsAside
  <2>2. render_idx' = Ring!Succ(render_idx) /\ cur_display_idx' = NONE
    BY <1>4 DEF DRelease
  <2>3. render_idx' \in Buffers /\ NONE \notin Buffers
    BY <2>2, RingMoves DEF Kept, Indices
  <2>4. Indices'
    BY <1>1, <2>2, <2>3 DEF Kept, Indices
  <2>5. QED
    BY <1>1, <2>1, <2>4 DEF Kept, OneThread, DrawsAside, ShownIsDrawn, Busy
<1>5. QED
  BY <1>3, <1>4

LEMMA FirstEvent ==
  ASSUME Kept, Numbering, Signal, UNCHANGED <<gfx, memVars, indexVars, draw_idx, dVars>>
  PROVE  Kept'
<1>1. /\ \A t \in Threads : ppc[t] = "none" <=> ppc'[t] = "none"
      /\ ppc'[1] \in {"map", "draw", "publish"} => ppc'[1] = ppc[1]
      /\ ppc[1] \in {"map", "draw", "publish"} => ppc'[1] = ppc[1]
  BY OneIsAThread DEF Signal, Numbering
<1>2. QED
  BY <1>1, OneIsAThread
     DEF Kept, OneThread, Indices, DrawsAside, ShownIsDrawn, Busy, memVars, indexVars, dVars

\* A step that only takes the overlay thread to where it is not at work.
LEMMA FirstIdling ==
  ASSUME Kept, Numbering, NEW place \in {"lock", "exit", "loop", "sleep", "look"},
         ppc[1] # "none", Goto(1, place), UNCHANGED <<gfx, memVars, indexVars, draw_idx, dVars>>
  PROVE  Kept'
<1>1. ppc'[1] = place /\ \A t \in Threads : t # 1 => ppc'[t] = ppc[t]
  BY OneIsAThread DEF Goto, Numbering
<1>2. QED
  BY <1>1 DEF Kept, OneThread, Indices, DrawsAside, ShownIsDrawn, Busy, memVars, indexVars, dVars

LEMMA TwoRenderBuffers ==
  ASSUME RENDER_BUF_CNT = 2, NEW i \in Buffers, NEW j \in Buffers, NEW k \in Buffers,
         i # j, i # k
  PROVE  j = k
  BY DEF Buffers

LEMMA FirstThread ==
  ASSUME RENDER_BUF_CNT = 2, Kept, Numbering, PNext(1)
  PROVE  Kept'
<1> DEFINE moved == Ring!MovedRender
<1>0. 1 \in Threads /\ ppc[1] # "none"
  BY OneIsAThread DEF PNext, PLoop, PSleep, PWake, PNothing, PFull, PChoose, PMap, PDraw, PPublish
<1>1. moved \in Buffers /\ moved # next_display_idx /\ NONE \notin Buffers
  BY RingMoves DEF Kept, Indices, Ring!MovedRender
<1> HIDE DEF moved
<1>2. CASE PLoop(1)
  BY <1>0, <1>2, FirstIdling DEF PLoop, aVars
<1>3. CASE PSleep(1)
  BY <1>0, <1>3, FirstIdling DEF PSleep, aVars
<1>4. CASE PWake(1)
  BY <1>0, <1>4, FirstIdling DEF PWake, aVars
<1>5. CASE PNothing(1)
  BY <1>0, <1>5, FirstIdling DEF PNothing, aVars
<1>6. CASE PFull(1)
  <2>1. /\ ppc'[1] = "loop" /\ \A t \in Threads : t # 1 => ppc'[t] = ppc[t]
        /\ render_idx' = moved
        /\ UNCHANGED <<gfx, m_render, m_output, drawn, dpc, display_idx, next_display_idx,
                       cur_display_idx, draw_idx>>
    BY <1>0, <1>6 DEF PFull, Goto, Numbering, aVars, memVars, dVars, moved
  <2>2. QED
    BY <1>0, <1>1, <2>1 DEF Kept, OneThread, Indices, DrawsAside, ShownIsDrawn, Busy
<1>7. CASE PChoose(1)
  <2>1. /\ ppc'[1] = "map" /\ \A t \in Threads : t # 1 => ppc'[t] = ppc[t]
        /\ render_idx' = moved /\ cur_display_idx # moved
        /\ UNCHANGED <<gfx, m_render, m_output, drawn, dpc, display_idx, next_display_idx,
                       cur_display_idx>>
    BY <1>0, <1>7 DEF PChoose, Goto, Numbering, aVars, memVars, dVars, moved
  <2>2. draw_idx'[1] = moved /\ draw_idx' \in [Threads -> Buffers \cup {NONE}]
    BY <1>0, <1>1, <1>7 DEF PChoose, moved, Kept, DrawsAside
  <2>3. cur_display_idx \in {next_display_idx, NONE}
    <3>1. /\ cur_display_idx \in Buffers \cup {NONE} /\ next_display_idx \in Buffers \cup {NONE}
          /\ next_display_idx = NONE => cur_display_idx = NONE
      BY DEF Kept, Indices
    <3>2. CASE cur_display_idx # NONE
      <4>1. cur_display_idx \in Buffers /\ next_display_idx \in Buffers
        BY <3>1, <3>2
      <4>2. QED
        BY <1>1, <2>1, <4>1, TwoRenderBuffers
    <3>3. QED
      BY <3>2
  <2>4. QED
    BY <1>0, <1>1, <2>1, <2>2, <2>3 DEF Kept, OneThread, Indices, DrawsAside, ShownIsDrawn, Busy
<1>8. CASE PMap(1)
  <2>1. /\ ppc'[1] \in {"draw", "loop"} /\ \A t \in Threads : t # 1 => ppc'[t] = ppc[t]
        /\ ppc[1] = "map"
        /\ UNCHANGED <<gfx, m_render, m_output, drawn, dpc, display_idx, indexVars, draw_idx>>
    BY <1>0, <1>8 DEF PMap, Goto, Numbering, aVars, memVars, dVars
  <2>2. QED
    BY <1>0, <2>1 DEF Kept, OneThread, Indices, DrawsAside, ShownIsDrawn, Busy, indexVars
<1>9. CASE PDraw(1)
  <2>1. /\ ppc'[1] = "publish" /\ \A t \in Threads : t # 1 => ppc'[t] = ppc[t]
        /\ ppc[1] = "draw" /\ drawn' = drawn \cup ({draw_idx[1]} \cap m_render)
        /\ UNCHANGED <<gfx, m_render, m_output, dpc, display_idx, indexVars, draw_idx>>
    BY <1>0, <1>9 DEF PDraw, Goto, Numbering, aVars, dVars
  <2>2. QED
    BY <1>0, <2>1 DEF Kept, OneThread, Indices, DrawsAside, ShownIsDrawn, Busy, indexVars
<1>10. CASE PPublish(1)
  <2>1. /\ ppc'[1] = "loop" /\ \A t \in Threads : t # 1 => ppc'[t] = ppc[t]
        /\ ppc[1] = "publish" /\ next_display_idx' = render_idx
        /\ UNCHANGED <<gfx, m_render, m_output, drawn, dpc, display_idx, cur_display_idx,
                       render_idx, draw_idx>>
    BY <1>0, <1>10 DEF PPublish, Goto, Numbering, aVars, memVars, dVars
  <2>2. QED
    BY <1>0, <1>1, <2>1 DEF Kept, OneThread, Indices, DrawsAside, ShownIsDrawn, Busy
<1>11. QED
  BY <1>2, <1>3, <1>4, <1>5, <1>6, <1>7, <1>8, <1>9, <1>10 DEF PNext

\* The first start finds everything untouched.
LEMMA FirstStart ==
  ASSUME FInv, Numbering, AStart, FirstPlay'
  PROVE  Kept'
<1>1. starts = 0 /\ gfx' /\ UNCHANGED <<memVars, indexVars, threadVars, dVars>>
  BY DEF AStart, FirstPlay, Numbering
<1>2. /\ dpc = "idle" /\ Created = {} /\ next_display_idx = NONE /\ cur_display_idx = NONE
      /\ render_idx = NONE /\ display_idx = NONE /\ draw_idx = [t \in Threads |-> NONE]
  BY <1>1 DEF FInv, Untouched
<1>3. \A t \in Threads : ppc[t] = "none"
  BY <1>2 DEF Created
<1>4. QED
  BY <1>1, <1>2, <1>3, OneIsAThread
     DEF Kept, OneThread, Indices, DrawsAside, ShownIsDrawn, Busy, memVars, indexVars, threadVars,
         dVars

LEMMA UntouchedStep ==
  ASSUME FInv, Numbering, [Next]_vars
  PROVE  Untouched'
<1> SUFFICES ASSUME starts' = 0
             PROVE  /\ state' # "started" /\ dpc' = "idle" /\ Created' = {}
                    /\ next_display_idx' = NONE /\ cur_display_idx' = NONE /\ render_idx' = NONE
                    /\ display_idx' = NONE /\ draw_idx' = [t \in Threads |-> NONE]
  BY DEF Untouched
<1>1. starts' = starts \/ (AStart /\ starts' = starts + 1)
  BY DEF Next, ANext, DNext, PNext, AStart, AStop, AFinalize, ASignal, AJoin, DBefore, DTake,
         DRelease, EEvent, PLoop, PSleep, PWake, PNothing, PFull, PChoose, PMap, PDraw, PPublish,
         vars, aVars
<1>2. starts = 0 /\ ~AStart
  BY <1>1 DEF Numbering, AStart
<1>3. /\ state # "started" /\ dpc = "idle" /\ Created = {}
      /\ next_display_idx = NONE /\ cur_display_idx = NONE /\ render_idx = NONE
      /\ display_idx = NONE /\ draw_idx = [t \in Threads |-> NONE]
  BY <1>2 DEF FInv, Untouched
<1>4. \A t \in Threads : ppc[t] = "none"
  BY <1>3 DEF Created
<1>5. CASE AFinalize \/ AJoin \/ UNCHANGED vars
  BY <1>3, <1>5 DEF AFinalize, AJoin, vars, aVars, indexVars, dVars, threadVars, Created
<1>6. CASE ASignal
  <2>1. ppc' = ppc
    BY <1>4, <1>6 DEF ASignal, Signal
  <2>2. QED
    BY <1>3, <1>6, <2>1 DEF ASignal, indexVars, dVars, Created
<1>7. ~(\E t \in Threads : PNext(t))
  BY <1>4 DEF PNext, PLoop, PSleep, PWake, PNothing, PFull, PChoose, PMap, PDraw, PPublish
<1>8. ~(AStop \/ DNext)
  BY <1>3 DEF AStop, DNext, DBefore, DTake, DRelease, EEvent
<1>9. QED
  BY <1>2, <1>5, <1>6, <1>7, <1>8 DEF Next, ANext

LEMMA FInvStep ==
  ASSUME RENDER_BUF_CNT = 2, FInv, Numbering, Holdings, Step
  PROVE  FInv'
<1>1. Untouched'
  BY UntouchedStep DEF Step
<1>2. ASSUME FirstPlay' PROVE Kept'
  <2>1. CASE AStart
    BY <1>2, <2>1, FirstStart
  <2>2. CASE AStop \/ AFinalize \/ ASignal \/ AJoin
    BY <1>2, <2>2 DEF AStop, AFinalize, ASignal, AJoin, FirstPlay
  <2>3. ASSUME UNCHANGED <<state, starts>> PROVE FirstPlay /\ Kept
    BY <1>2, <2>3 DEF FirstPlay, FInv, Kept
  <2>4. CASE DBefore
    <3>1. UNCHANGED <<state, starts>>
      BY <2>4 DEF DBefore
    <3>2. QED
      BY <2>3, <2>4, <3>1, FirstFrames
  <2>5. CASE DTake \/ DRelease
    <3>1. UNCHANGED <<state, starts>>
      BY <2>5 DEF DTake, DRelease, aVars
    <3>2. QED
      BY <2>3, <2>5, <3>1, FirstTake, FirstRelease
  <2>6. CASE EEvent
    <3>1. UNCHANGED <<state, starts>>
      BY <2>6 DEF EEvent, aVars
    <3>2. QED
      BY <2>3, <2>6, <3>1, FirstEvent DEF EEvent, aVars
  <2>7. ASSUME NEW t \in Threads, PNext(t) PROVE Kept'
    <3>1. UNCHANGED <<state, starts>> /\ ppc[t] # "none"
      BY <2>7 DEF PNext, PLoop, PSleep, PWake, PNothing, PFull, PChoose, PMap, PDraw, PPublish,
                  aVars
    <3>2. t = 1
      BY <2>3, <3>1 DEF Kept, OneThread
    <3>3. QED
      BY <2>3, <2>7, <3>1, <3>2, FirstThread
  <2>8. CASE UNCHANGED vars
    <3>1. UNCHANGED <<state, starts, gfx, memVars, indexVars, threadVars, dVars>>
      BY <2>8 DEF vars, aVars
    <3>2. QED
      BY <2>3, <3>1 DEF Kept, OneThread, Indices, DrawsAside, ShownIsDrawn, Busy, memVars,
                        indexVars, threadVars, dVars
  <2>9. QED
    BY <2>1, <2>2, <2>4, <2>5, <2>6, <2>7, <2>8 DEF Step, Next, ANext, DNext
<1>3. QED
  BY <1>1, <1>2 DEF FInv, Kept

\* During the first play the overlay thread draws only in a buffer that is
\* there, and D blends only one that was drawn in, wherever allocations failed
\* before - with the two buffers of the element, as D may move render_idx while
\* a buffer is drawn if there are more.
THEOREM FirstPlayRight ==
  ASSUME RENDER_BUF_CNT = 2
  PROVE  Spec => []FirstPlayInPlace
<1>1. Init => FInv
  BY DEF Init, FInv, Untouched, FirstPlay, Created
<1>2. FInv /\ Numbering /\ Holdings /\ Step => FInv'
  BY FInvStep
<1>3. FInv => FirstPlayInPlace
  <2> SUFFICES ASSUME FInv, FirstPlay
               PROVE  /\ ppc[1] \in {"draw", "publish"} => draw_idx[1] \in m_render
                      /\ dpc = "blend" => m_output /\ gfx /\ display_idx \in m_render \cap drawn
    BY DEF FirstPlayInPlace, FirstPlay
  <2>1. Kept
    BY DEF FInv, Kept
  <2>2. ppc[1] \in {"draw", "publish"} => draw_idx[1] \in m_render
    BY <2>1 DEF Kept, OneThread, DrawsAside, Busy
  <2>3. ASSUME dpc = "blend" PROVE m_output /\ gfx /\ display_idx \in m_render \cap drawn
    <3>1. display_idx # NONE /\ display_idx \in Buffers \cup {NONE} /\ next_display_idx # NONE
      BY <2>1, <2>3 DEF Kept, Indices
    <3>2. QED
      BY <2>1, <2>3, <3>1 DEF Kept, OneThread, ShownIsDrawn
  <2>4. QED
    BY <2>2, <2>3
<1>4. Spec => []Numbering
  <2>1. TInv => Numbering
    BY DEF TInv
  <2>2. QED
    BY <2>1, ThreadsNumbered, PTL
<1>5. QED
  BY <1>1, <1>2, <1>3, <1>4, HoldingsHold, PTL DEF Spec, Step
=============================================================================

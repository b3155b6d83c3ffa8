------------------------- MODULE TranscodingProofs -------------------------
(***************************************************************************)
(* Proofs about the transcoding library in its demo, for files of any      *)
(* length, any rates, any latency of the codecs, queues and sources of any *)
(* size, and whether or not the pipelines can fail: the frames that have a *)
(* place in the output rate arrive in order, without a gap and, if nobody  *)
(* disturbs, all of them, and the demuxer's thread has come back before    *)
(* the library is freed.                                                   *)
(***************************************************************************)
EXTENDS Transcoding, SequenceTheorems, TLAPS

Places == {"init", "start", "demux", "mux", "callback", "watch", "enter", "run",
           "stop", "quit", "join", "stop_demux", "stop_mux", "end", "killed"}

\* The library's pipeline has been stopped, for good.
Stopped == zpc \in {"quit", "join", "stop_demux", "stop_mux", "end", "killed"}

\* What comes in at one end of the library need not come out at the other.
Cut == Stopped \/ lib_failed

FlagsOK ==
  /\ interrupted \in BOOLEAN /\ watched \in BOOLEAN /\ lost_quit \in BOOLEAN
  /\ is_running \in BOOLEAN /\ freed \in BOOLEAN /\ lib_msg \in BOOLEAN
  /\ lib_failed \in BOOLEAN /\ failed \in BOOLEAN /\ new_sample \in BOOLEAN /\ ended \in BOOLEAN

StreamOK ==
  /\ fpos \in 0 .. 2 * Frames + 1
  /\ video_queue \in Seq(Nat) /\ audio_queue \in Seq(Nat)
  /\ vpc \in Nat \cup {Idle} /\ apc \in Nat \cup {Idle}
  /\ app_source \in Seq(Nat) /\ codecs \in Seq(Nat) /\ app_sink \in Seq(Nat)
  /\ out_frame_count \in Nat /\ lpc \in Nat \cup {Idle}
  /\ app_source_video \in Seq(Nat) /\ app_source_audio \in Seq(Nat)
  /\ video \in Seq(Nat) /\ audio \in Seq(Nat)

PlacesOK ==
  /\ zpc \in Places /\ wpc \in {"none", "watch", "enter", "run", "off"}
  /\ lib \in {"null", "playing"} /\ demux \in {"null", "playing"}
  /\ mux \in {"null", "playing"} /\ mux_msg \in {"none", "eos", "error", "seen"}

TypeOK == PlacesOK /\ StreamOK /\ FlagsOK

-----------------------------------------------------------------------------
(***************************************************************************)
(* The stream, above the conversion.  Counted from the file, the buffers   *)
(* of the video stream are 1, 2, ..., Frames and then the end of stream;   *)
(* Buf(p) is the one at place p.  All that is on its way to amlvconv, back *)
(* to the demuxer's queue, is one stretch of the stream: each queue goes   *)
(* on where the next one down ends.                                        *)
(***************************************************************************)
Buf(p) == IF p = Frames + 1 THEN EOS ELSE p

\* q holds the buffers that follow the first n.
Follows(q, n) == \A i \in 1 .. Len(q) : q[i] = Buf(n + i)

InHand(buffer) == IF buffer = Idle THEN 0 ELSE 1

\* How many buffers of the stream have come as far as the codecs, the library's
\* source, V, the demuxer.
AtCodecs  == out_frame_count + Len(codecs)
AtSource  == AtCodecs + Len(app_source) + (IF ended THEN 1 ELSE 0)
AtWrite   == AtSource + InHand(vpc)
AtDemuxer == AtWrite + Len(video_queue)

\* How many of them F has read.
FromFile == IF fpos = 2 * Frames + 1 THEN Frames + 1 ELSE (fpos + 1) \div 2

\* Nothing is missing, until the library is stopped or fails.
Upstream ==
  ~Cut =>
    /\ Follows(codecs, out_frame_count) /\ Follows(app_source, AtCodecs)
    /\ vpc # Idle => vpc = Buf(AtSource + 1)
    /\ Follows(video_queue, AtWrite)
    /\ AtCodecs <= Frames
    /\ AtDemuxer = FromFile

(***************************************************************************)
(* Below it.  q holds, in order, those of the frames a + 1, ..., b that    *)
(* have a place in the output rate, and no other.                          *)
(***************************************************************************)
Stretch(q, a, b) ==
  /\ a <= b
  /\ \A i \in 1 .. Len(q) : a < q[i] /\ q[i] <= b /\ Kept(q[i])
  /\ Increasing(q)
  /\ \A f \in Nat : a < f /\ f <= b /\ Kept(f) => \E i \in 1 .. Len(q) : q[i] = f

Hand == IF lpc = Idle THEN << >> ELSE <<lpc>>

\* The file, the muxer's source, the callback and the appsink are stretches that
\* follow each other, the last one until the library is stopped; when the end of
\* stream has come, down to the callback is the whole file.
Stretches(a, b, c) ==
  /\ Stretch(video, 0, a) /\ Stretch(app_source_video, a, b) /\ Stretch(Hand, b, c)
  /\ ~Stopped => Stretch(app_sink, c, out_frame_count)
  /\ c <= Frames
  /\ ended /\ ~lib_failed => c = Frames

Downstream == \E a, b, c \in Nat : Stretches(a, b, c)

\* A stopped library holds nothing; before, nothing is written to it that it
\* does not take.
Pipelines ==
  /\ Stopped => lib = "null" /\ lpc = Idle /\ app_source = << >>
                /\ codecs = << >> /\ app_sink = << >>
  /\ zpc = "demux" => lib = "playing"
  /\ ~Stopped /\ demux = "playing" => lib = "playing"
  /\ ~Stopped /\ vpc # Idle => demux = "playing"

\* Behind the end of stream nothing comes, and before it went everything, unless
\* the library's pipeline failed.
Ended ==
  /\ ended => lpc = Idle
  /\ ended /\ ~lib_failed =>
       /\ fpos = 2 * Frames + 1
       /\ video_queue = << >> /\ vpc = Idle /\ app_source = << >> /\ codecs = << >>

\* Undisturbed, main tears down only when the muxer has seen the end.
Teardown ==
  /\ mux_msg = "error" => failed
  /\ mux_msg \in {"eos", "seen"} /\ ~failed => ended /\ app_source_video = << >>
  /\ zpc = "stop" \/ Stopped => interrupted \/ mux_msg = "seen"
  /\ freed => zpc \in {"stop_demux", "stop_mux", "end", "killed"}

IInv == Downstream /\ Upstream /\ Pipelines /\ Ended /\ Teardown

-----------------------------------------------------------------------------
(* Sequences and counts.                                                   *)

LEMMA FollowsAppend ==
  ASSUME NEW q \in Seq(Nat), NEW n \in Nat, Follows(q, n),
         NEW b \in Nat, b = Buf(n + Len(q) + 1)
  PROVE  /\ Append(q, b) \in Seq(Nat) /\ Len(Append(q, b)) = Len(q) + 1
         /\ Follows(Append(q, b), n)
<1>1. /\ Append(q, b) \in Seq(Nat) /\ Len(Append(q, b)) = Len(q) + 1
      /\ \A i \in 1 .. Len(q) : Append(q, b)[i] = q[i]
      /\ Append(q, b)[Len(q) + 1] = b
  BY AppendProperties
<1>2. \A i \in 1 .. Len(q) + 1 : i \in 1 .. Len(q) \/ i = Len(q) + 1
  BY LenProperties
<1>3. n + (Len(q) + 1) = n + Len(q) + 1
  BY LenProperties
<1>4. QED
  BY <1>1, <1>2, <1>3 DEF Follows

LEMMA FollowsTail ==
  ASSUME NEW q \in Seq(Nat), NEW n \in Nat, Follows(q, n), q # << >>
  PROVE  /\ Tail(q) \in Seq(Nat) /\ Len(Tail(q)) = Len(q) - 1 /\ Len(q) >= 1
         /\ Head(q) \in Nat /\ Head(q) = Buf(n + 1)
         /\ Follows(Tail(q), n + 1)
<1>1. /\ Tail(q) \in Seq(Nat) /\ Len(Tail(q)) = Len(q) - 1 /\ Len(q) \in Nat
      /\ Head(q) \in Nat /\ Head(q) = q[1] /\ Len(q) >= 1
      /\ \A i \in 1 .. Len(Tail(q)) : Tail(q)[i] = q[i + 1]
  BY HeadTailProperties, EmptySeq
<1>2. Head(q) = Buf(n + 1)
  BY <1>1 DEF Follows
<1>3. ASSUME NEW i \in 1 .. Len(Tail(q)) PROVE Tail(q)[i] = Buf(n + 1 + i)
  <2>1. i + 1 \in 1 .. Len(q) /\ n + (i + 1) = n + 1 + i
    BY <1>1, <1>3
  <2>2. QED
    BY <1>1, <2>1 DEF Follows
<1>4. QED
  BY <1>1, <1>2, <1>3 DEF Follows

LEMMA FollowsEmpty == \A n : Follows(<< >>, n)
  BY DEF Follows

CountsOK ==
  /\ out_frame_count \in Nat
  /\ AtCodecs \in Nat /\ AtSource \in Nat /\ AtWrite \in Nat /\ AtDemuxer \in Nat
  /\ FromFile \in Nat /\ FromFile <= Frames + 1
  /\ AtCodecs <= AtSource /\ AtSource <= AtWrite /\ AtWrite <= AtDemuxer

LEMMA Counts == StreamOK => CountsOK
<1> SUFFICES ASSUME StreamOK PROVE CountsOK
  OBVIOUS
<1>1. /\ Len(codecs) \in Nat /\ Len(app_source) \in Nat /\ Len(video_queue) \in Nat
      /\ out_frame_count \in Nat
  BY LenProperties DEF StreamOK
<1>2. FromFile \in Nat /\ FromFile <= Frames + 1
  BY TranscodingAssumption DEF StreamOK, FromFile
<1>3. QED
  BY <1>1, <1>2 DEF CountsOK, AtCodecs, AtSource, AtWrite, AtDemuxer, InHand

LEMMA StretchEmpty ==
  ASSUME NEW a \in Nat
  PROVE  Stretch(<< >>, a, a)
  BY EmptySeq DEF Stretch, Increasing

\* Where nothing follows, a stretch reaches as far.
LEMMA StretchExtends ==
  ASSUME NEW q, NEW a \in Nat, NEW b \in Nat, NEW c \in Nat, q \in Seq(Nat),
         Stretch(q, a, b), Stretch(<< >>, b, c)
  PROVE  Stretch(q, a, c)
<1>1. /\ a <= b /\ b <= c
      /\ \A i \in 1 .. Len(q) : q[i] \in Nat
  BY ElementOfSeq DEF Stretch
<1>2. \A f \in Nat : ~(b < f /\ f <= c /\ Kept(f))
  BY EmptySeq DEF Stretch
<1>3. ASSUME NEW f \in Nat, a < f, f <= c, Kept(f)
      PROVE  \E i \in 1 .. Len(q) : q[i] = f
  <2>1. f <= b
    BY <1>2, <1>3
  <2>2. QED
    BY <1>3, <2>1 DEF Stretch
<1>4. \A i \in 1 .. Len(q) : a < q[i] /\ q[i] <= c /\ Kept(q[i])
  BY <1>1 DEF Stretch
<1>5. QED
  BY <1>1, <1>3, <1>4 DEF Stretch

\* A frame behind a stretch, with none of the output rate between.
LEMMA StretchJoins ==
  ASSUME NEW q \in Seq(Nat), NEW a \in Nat, NEW b \in Nat, NEW h \in Nat,
         Stretch(q, a, b), b < h, Kept(h),
         \A f \in Nat : ~(b < f /\ f < h /\ Kept(f))
  PROVE  Stretch(Append(q, h), a, h)
<1> DEFINE p == Append(q, h)
<1>1. /\ Len(p) = Len(q) + 1 /\ Len(q) \in Nat
      /\ \A i \in 1 .. Len(q) : p[i] = q[i] /\ q[i] \in Nat
      /\ p[Len(q) + 1] = h
  BY AppendProperties, LenProperties, ElementOfSeq
<1>2. /\ a <= b
      /\ \A i \in 1 .. Len(q) : a < q[i] /\ q[i] <= b /\ Kept(q[i])
  BY DEF Stretch
<1> HIDE DEF p
<1>3. \A i \in 1 .. Len(p) : i \in 1 .. Len(q) \/ i = Len(q) + 1
  BY <1>1
<1>4. \A i \in 1 .. Len(p) : a < p[i] /\ p[i] <= h /\ Kept(p[i])
  BY <1>1, <1>2, <1>3
<1>5. Increasing(p)
  <2> SUFFICES ASSUME NEW i \in 1 .. Len(p), NEW j \in 1 .. Len(p), i < j
               PROVE  p[i] < p[j]
    BY DEF Increasing
  <2>1. i \in 1 .. Len(q)
    BY <1>1
  <2>2. CASE j \in 1 .. Len(q)
    BY <1>1, <2>1, <2>2 DEF Stretch, Increasing
  <2>3. CASE j = Len(q) + 1
    BY <1>1, <1>2, <2>1, <2>3
  <2>4. QED
    BY <1>3, <2>2, <2>3
<1>6. ASSUME NEW f \in Nat, a < f, f <= h, Kept(f)
      PROVE  \E i \in 1 .. Len(p) : p[i] = f
  <2>1. CASE f <= b
    <3>1. PICK i \in 1 .. Len(q) : q[i] = f
      BY <1>6, <2>1 DEF Stretch
    <3>2. i \in 1 .. Len(p) /\ p[i] = f
      BY <1>1, <3>1
    <3>3. QED
      BY <3>2
  <2>2. CASE b < f
    <3>1. f = h
      BY <1>6, <2>2
    <3>2. Len(q) + 1 \in 1 .. Len(p)
      BY <1>1
    <3>3. QED
      BY <1>1, <3>1, <3>2
  <2>3. QED
    BY <2>1, <2>2
<1>7. QED
  BY <1>2, <1>4, <1>5, <1>6 DEF Stretch, p

\* The next frame of the file joins a stretch or is dropped behind it.
LEMMA StretchNext ==
  ASSUME NEW q \in Seq(Nat), NEW a \in Nat, NEW b \in Nat, Stretch(q, a, b)
  PROVE  /\ Kept(b + 1) => Stretch(Append(q, b + 1), a, b + 1)
         /\ ~Kept(b + 1) => Stretch(q, a, b + 1)
<1>1. ASSUME Kept(b + 1) PROVE Stretch(Append(q, b + 1), a, b + 1)
  <2>1. \A f \in Nat : ~(b < f /\ f < b + 1)
    OBVIOUS
  <2>2. b + 1 \in Nat /\ b < b + 1
    OBVIOUS
  <2>3. QED
    BY <1>1, <2>1, <2>2, StretchJoins
<1>2. ASSUME ~Kept(b + 1) PROVE Stretch(q, a, b + 1)
  <2>1. \A f \in Nat : b < f /\ f <= b + 1 => f = b + 1
    OBVIOUS
  <2>2. Stretch(<< >>, b, b + 1)
    BY <1>2, <2>1, EmptySeq DEF Stretch, Increasing
  <2>3. QED
    BY <2>2, StretchExtends
<1>3. QED
  BY <1>1, <1>2

\* The head of a stretch moves to the end of the one before it.
LEMMA StretchMoves ==
  ASSUME NEW p \in Seq(Nat), NEW q \in Seq(Nat), q # << >>,
         NEW a \in Nat, NEW b \in Nat, NEW c \in Nat,
         Stretch(p, a, b), Stretch(q, b, c)
  PROVE  /\ Head(q) \in Nat /\ Head(q) <= c
         /\ Stretch(Append(p, Head(q)), a, Head(q)) /\ Stretch(Tail(q), Head(q), c)
<1> DEFINE h == Head(q)
           t == Tail(q)
<1>1. /\ t \in Seq(Nat) /\ Len(t) = Len(q) - 1 /\ Len(q) \in Nat /\ Len(q) >= 1
      /\ h \in Nat /\ h = q[1]
      /\ \A i \in 1 .. Len(t) : t[i] = q[i + 1]
  BY HeadTailProperties, EmptySeq
<1>2. \A i \in 1 .. Len(q) : q[i] \in Nat
  BY ElementOfSeq
<1> HIDE DEF h, t
<1>3. b < h /\ h <= c /\ Kept(h)
  BY <1>1 DEF Stretch
<1>4. \A i \in 2 .. Len(q) : h < q[i]
  <2>1. \A i \in 2 .. Len(q) : 1 \in 1 .. Len(q) /\ i \in 1 .. Len(q) /\ 1 < i
    BY <1>1
  <2>2. QED
    BY <1>1, <2>1 DEF Stretch, Increasing
<1>5. \A f \in Nat : ~(b < f /\ f < h /\ Kept(f))
  <2> SUFFICES ASSUME NEW f \in Nat, b < f, f < h, Kept(f) PROVE FALSE
    OBVIOUS
  <2>1. f <= c
    BY <1>1, <1>3 DEF Stretch
  <2>2. PICK i \in 1 .. Len(q) : q[i] = f
    BY <2>1 DEF Stretch
  <2>3. i = 1 \/ i \in 2 .. Len(q)
    BY <1>1
  <2>4. QED
    BY <1>1, <1>2, <1>4, <2>2, <2>3
<1>6. Stretch(Append(p, h), a, h)
  BY <1>1, <1>3, <1>5, StretchJoins
<1>7. Stretch(t, h, c)
  <2>1. \A i \in 1 .. Len(t) : i + 1 \in 2 .. Len(q) /\ i + 1 \in 1 .. Len(q)
    BY <1>1
  <2>2. \A i \in 1 .. Len(t) : h < t[i] /\ t[i] <= c /\ Kept(t[i])
    BY <1>1, <1>4, <2>1 DEF Stretch
  <2>3. Increasing(t)
    <3> SUFFICES ASSUME NEW i \in 1 .. Len(t), NEW j \in 1 .. Len(t), i < j
                 PROVE  t[i] < t[j]
      BY DEF Increasing
    <3>1. i + 1 \in 1 .. Len(q) /\ j + 1 \in 1 .. Len(q) /\ i + 1 < j + 1
      BY <1>1
    <3>2. q[i + 1] < q[j + 1]
      BY <3>1 DEF Stretch, Increasing
    <3>3. QED
      BY <1>1, <3>2
  <2>4. ASSUME NEW f \in Nat, h < f, f <= c, Kept(f)
        PROVE  \E i \in 1 .. Len(t) : t[i] = f
    <3>1. b < f
      BY <1>1, <1>3, <2>4
    <3>2. PICK i \in 1 .. Len(q) : q[i] = f
      BY <2>4, <3>1 DEF Stretch
    <3>3. i # 1
      BY <1>1, <2>4, <3>2
    <3>4. i - 1 \in 1 .. Len(t) /\ (i - 1) + 1 = i
      BY <1>1, <3>2, <3>3
    <3>5. t[i - 1] = f
      BY <1>1, <3>2, <3>4
    <3>6. QED
      BY <3>4, <3>5
  <2>5. QED
    BY <1>3, <2>2, <2>3, <2>4 DEF Stretch
<1>8. QED
  BY <1>1, <1>3, <1>6, <1>7 DEF h, t

-----------------------------------------------------------------------------
(* Types.                                                                  *)

LEMMA QueueProperties ==
  ASSUME NEW q \in Seq(Nat)
  PROVE  /\ q # << >> => Head(q) \in Nat /\ Tail(q) \in Seq(Nat)
         /\ \A b \in Nat : Append(q, b) \in Seq(Nat) /\ Append(q, b) # << >>
<1>1. q # << >> => Head(q) \in Nat /\ Tail(q) \in Seq(Nat)
  BY HeadTailProperties
<1>2. \A b \in Nat : Append(q, b) \in Seq(Nat) /\ Append(q, b) # << >>
  BY AppendProperties
<1>3. QED
  BY <1>1, <1>2

\* What Emit makes of the callback's frame and of the appsink.
LEMMA EmitTypes ==
  ASSUME StreamOK, NEW b \in Nat, Emit(b)
  PROVE  lpc' \in Nat \cup {Idle} /\ app_sink' \in Seq(Nat)
<1>1. /\ Append(app_sink, b) \in Seq(Nat) /\ Append(app_sink, b) # << >>
  BY QueueProperties DEF StreamOK
<1>2. Head(Append(app_sink, b)) \in Nat /\ Tail(Append(app_sink, b)) \in Seq(Nat)
  BY <1>1, QueueProperties
<1>3. QED
  BY <1>1, <1>2 DEF Emit, StreamOK

\* What amlvconv makes of a frame.
LEMMA ConvertTypes ==
  ASSUME StreamOK, NEW b \in Nat, Convert(b)
  PROVE  /\ lpc' \in Nat \cup {Idle} /\ app_sink' \in Seq(Nat)
         /\ out_frame_count' \in Nat
<1>1. out_frame_count' \in Nat
  BY DEF Convert, StreamOK
<1>2. CASE Emit(b)
  BY <1>1, <1>2, EmitTypes
<1>3. CASE UNCHANGED <<app_sink, lpc>>
  BY <1>1, <1>3 DEF StreamOK
<1>4. QED
  BY <1>2, <1>3 DEF Convert

streamVars == <<fpos, video_queue, audio_queue, vpc, apc, app_source, codecs,
                out_frame_count, app_sink, lpc, app_source_video, app_source_audio, video, audio>>

\* Most steps of Z and W, and the messages, leave the stream alone.
LEMMA OutsideTheStream ==
  \/ ZInit \/ ZStart \/ ZDemux \/ ZMux \/ ZCallback \/ ZWatch \/ ZRun
  \/ ZQuit \/ ZJoin \/ ZStopDemux \/ ZStopMux \/ Interrupt
  \/ WNext \/ LibMessage \/ MuxMessage \/ MEnd \/ MFail \/ UNCHANGED vars
  => UNCHANGED <<streamVars, ended, lib_failed>>
<1> USE DEF mainVars, loopVars, stateVars, busVars, demuxVars, libVars, muxVars,
            streamVars
<1>1. ZInit \/ ZStart \/ ZDemux \/ ZMux \/ ZCallback \/ ZWatch \/ ZRun
      => UNCHANGED <<streamVars, ended, lib_failed>>
  BY DEF ZInit, ZStart, ZDemux, ZMux, ZCallback, ZWatch, ZRun
<1>2. ZQuit \/ ZJoin \/ ZStopDemux \/ ZStopMux \/ Interrupt
      => UNCHANGED <<streamVars, ended, lib_failed>>
  BY DEF ZQuit, ZJoin, ZStopDemux, ZStopMux, Interrupt
<1>3. WNext \/ LibMessage \/ MuxMessage => UNCHANGED <<streamVars, ended, lib_failed>>
  BY DEF WNext, WWatch, WRun, WReturn, LibMessage, MuxMessage
<1>4. MEnd \/ MFail \/ UNCHANGED vars => UNCHANGED <<streamVars, ended, lib_failed>>
  BY DEF MEnd, MFail, vars
<1>5. QED
  BY <1>1, <1>2, <1>3, <1>4

LEMMA PlacesStep == PlacesOK /\ [Next]_vars => PlacesOK'
<1> SUFFICES ASSUME PlacesOK, [Next]_vars PROVE PlacesOK'
  OBVIOUS
<1> USE DEF PlacesOK, Places, mainVars, loopVars, stateVars, busVars
<1>1. CASE ZInit \/ ZStart \/ ZDemux \/ ZMux \/ ZCallback \/ ZWatch \/ ZRun
  BY <1>1 DEF ZStep, ZInit, ZStart, ZDemux, ZMux, ZCallback, ZWatch, ZRun
<1>2. CASE ZStop \/ ZQuit \/ ZJoin \/ ZStopDemux \/ ZStopMux \/ Interrupt
  BY <1>2 DEF ZStep, ZStop, ZQuit, ZJoin, ZStopDemux, ZStopMux, Interrupt
<1>3. CASE WNext \/ LibMessage
  BY <1>3 DEF WNext, WWatch, WRun, WReturn, LibMessage
<1>4. CASE MuxMessage
  BY <1>4 DEF MuxMessage
<1>5. CASE FNext \/ VNext \/ ANext \/ LNext \/ LFail \/ LGiveUp
  BY <1>5 DEF FNext, FRead, FEnd, VNext, VTake, VWrite, ANext, ATake, APush,
              LNext, LCode, LPush, LEnd, LFail, LGiveUp, SendEos
<1>6. CASE MNext \/ MFail \/ UNCHANGED vars
  BY <1>6 DEF MNext, MWrite, MEnd, MFail, vars
<1>7. QED
  BY <1>1, <1>2, <1>3, <1>4, <1>5, <1>6 DEF Next, ZNext

LEMMA FlagsStep == FlagsOK /\ [Next]_vars => FlagsOK'
<1> SUFFICES ASSUME FlagsOK, [Next]_vars PROVE FlagsOK'
  OBVIOUS
<1> USE DEF FlagsOK, mainVars, loopVars, stateVars, busVars, muxVars
<1>1. CASE ZInit \/ ZStart \/ ZDemux \/ ZMux
  <2>1. UNCHANGED <<interrupted, watched, lost_quit, is_running, freed, lib_msg,
                    lib_failed, failed, new_sample, ended>>
    BY <1>1 DEF ZInit, ZStart, ZDemux, ZMux
  <2>2. QED
    BY ONLY <2>1, FlagsOK, ZenonT(60) DEF FlagsOK
<1>2. CASE ZCallback \/ ZWatch \/ ZRun
  BY <1>2, ZenonT(60) DEF ZCallback, ZWatch, ZRun
<1>3. CASE ZStop \/ ZJoin \/ ZStopDemux \/ ZStopMux \/ Interrupt
  <2>1. (TRUE \in BOOLEAN) /\ (FALSE \in BOOLEAN)
    OBVIOUS
  <2>2. CASE ZStop
    BY <2>1, <2>2, ZenonT(60) DEF ZStop
  <2>3. CASE ZJoin \/ ZStopDemux \/ ZStopMux
    BY <2>1, <2>3, ZenonT(60) DEF ZJoin, ZStopDemux, ZStopMux
  <2>4. CASE Interrupt
    <3>1. /\ interrupted' = TRUE
          /\ UNCHANGED <<watched, lost_quit, is_running, freed, lib_msg, lib_failed,
                         failed, new_sample, ended>>
      BY <2>4 DEF Interrupt
    <3>2. QED
      BY <2>1, <3>1, ZenonT(60)
  <2>5. QED
    BY <1>3, <2>2, <2>3, <2>4
<1>4. CASE ZQuit
  BY <1>4, ZenonT(60) DEF ZQuit
<1>5. CASE WNext \/ LibMessage
  BY <1>5, ZenonT(60) DEF WNext, WWatch, WRun, WReturn, LibMessage
<1>6. CASE MuxMessage
  BY <1>6, ZenonT(60) DEF MuxMessage
<1>7. CASE FNext
  BY <1>7, ZenonT(60) DEF FNext, FRead, FEnd
<1>8. CASE VNext \/ ANext
  <2>1. UNCHANGED <<interrupted, watched, lost_quit, is_running, freed, lib_msg,
                    lib_failed, failed, new_sample, ended>>
    BY <1>8 DEF VNext, VTake, VWrite, ANext, ATake, APush
  <2>2. QED
    BY <2>1, ZenonT(60)
<1>9. CASE LNext \/ LFail \/ LGiveUp
  <2>1. (TRUE \in BOOLEAN) /\ (FALSE \in BOOLEAN)
    OBVIOUS
  <2>2. UNCHANGED <<interrupted, watched, lost_quit, is_running, freed, failed, new_sample>>
    BY <1>9 DEF LNext, LCode, LPush, LEnd, LFail, LGiveUp, SendEos
  <2>3. /\ \/ lib_msg' = lib_msg \/ lib_msg' = TRUE
        /\ \/ lib_failed' = lib_failed \/ lib_failed' = TRUE
        /\ \/ ended' = ended \/ ended' = TRUE
    BY <1>9 DEF LNext, LCode, LPush, LEnd, LFail, LGiveUp, SendEos, muxVars
  <2>4. lib_msg' \in BOOLEAN /\ lib_failed' \in BOOLEAN /\ ended' \in BOOLEAN
    <3>1. lib_msg' \in BOOLEAN
      BY ONLY <2>1, <2>3, FlagsOK, ZenonT(60) DEF FlagsOK
    <3>2. lib_failed' \in BOOLEAN
      BY ONLY <2>1, <2>3, FlagsOK, ZenonT(60) DEF FlagsOK
    <3>3. ended' \in BOOLEAN
      BY ONLY <2>1, <2>3, FlagsOK, ZenonT(60) DEF FlagsOK
    <3>4. QED
      BY ONLY <3>1, <3>2, <3>3
  <2>5. QED
    BY ONLY <2>2, <2>4, FlagsOK, ZenonT(60) DEF FlagsOK
<1>10. CASE MNext \/ MFail \/ UNCHANGED vars
  BY <1>10, ZenonT(60) DEF MNext, MWrite, MEnd, MFail, vars
<1>11. QED
  BY <1>1, <1>2, <1>3, <1>4, <1>5, <1>6, <1>7, <1>8, <1>9, <1>10 DEF Next, ZNext

LEMMA LCodeTypes == StreamOK /\ LCode => StreamOK'
<1> SUFFICES ASSUME StreamOK, LCode PROVE StreamOK'
  OBVIOUS
<1> USE DEF demuxVars, muxVars
<1>1. Head(app_source) \in Nat /\ Tail(app_source) \in Seq(Nat)
  BY QueueProperties DEF LCode, StreamOK
<1>2. CASE Head(app_source) # EOS
  <2> DEFINE in == Append(codecs, Head(app_source))
  <2>1. in \in Seq(Nat) /\ in # << >>
    BY <1>1, QueueProperties DEF StreamOK
  <2>2. Head(in) \in Nat /\ Tail(in) \in Seq(Nat)
    BY <2>1, QueueProperties
  <2>3. IF Len(in) > Latency
        THEN codecs' = Tail(in) /\ Convert(Head(in))
        ELSE codecs' = in /\ UNCHANGED <<out_frame_count, app_sink, lpc>>
    BY <1>2 DEF LCode
  <2>4. /\ codecs' \in Seq(Nat) /\ lpc' \in Nat \cup {Idle} /\ app_sink' \in Seq(Nat)
        /\ out_frame_count' \in Nat
    <3> HIDE DEF in
    <3> QED
      BY <2>1, <2>2, <2>3, ConvertTypes DEF StreamOK
  <2>5. app_source' \in Seq(Nat)
    BY <1>1, <1>2 DEF LCode
  <2>6. QED
    BY <2>4, <2>5 DEF LCode, StreamOK
<1>3. CASE Head(app_source) = EOS
  <2>1. /\ codecs # << >> /\ codecs' = Tail(codecs) /\ Convert(Head(codecs))
        /\ UNCHANGED app_source
    BY <1>3 DEF LCode
  <2>2. Head(codecs) \in Nat /\ Tail(codecs) \in Seq(Nat)
    BY <2>1, QueueProperties DEF StreamOK
  <2>3. /\ lpc' \in Nat \cup {Idle} /\ app_sink' \in Seq(Nat)
        /\ out_frame_count' \in Nat
    BY <2>1, <2>2, ConvertTypes
  <2>4. QED
    BY <2>1, <2>2, <2>3 DEF LCode, StreamOK
<1>4. QED
  BY <1>2, <1>3

LEMMA StreamStep == StreamOK /\ [Next]_vars => StreamOK'
<1> SUFFICES ASSUME StreamOK, [Next]_vars PROVE StreamOK'
  OBVIOUS
<1> USE DEF demuxVars, libVars, muxVars
<1>1. CASE UNCHANGED streamVars
  BY <1>1 DEF streamVars, StreamOK
<1>2. CASE ZStop
  BY <1>2, EmptySeq DEF ZStop, StreamOK
<1>3. CASE FNext
  <2>1. fpos \div 2 + 1 \in Nat /\ EOS \in Nat
    BY DEF StreamOK, EOS
  <2>2. /\ Append(video_queue, (fpos \div 2) + 1) \in Seq(Nat)
        /\ Append(audio_queue, (fpos \div 2) + 1) \in Seq(Nat)
        /\ Append(video_queue, EOS) \in Seq(Nat)
    BY <2>1, QueueProperties DEF StreamOK
  <2>3. fpos' = fpos + 1 /\ fpos <= 2 * Frames
    BY <1>3, TranscodingAssumption DEF FNext, FRead, FEnd, StreamOK
  <2>4. fpos' \in 0 .. 2 * Frames + 1
    BY <2>3, TranscodingAssumption DEF StreamOK
  <2>5. video_queue' \in Seq(Nat) /\ audio_queue' \in Seq(Nat)
    BY <1>3, <2>2 DEF FNext, FRead, FEnd, StreamOK
  <2>6. UNCHANGED <<vpc, apc, app_source, codecs, out_frame_count, app_sink, lpc,
                    app_source_video, app_source_audio, video, audio>>
    BY <1>3 DEF FNext, FRead, FEnd
  <2>7. QED
    BY <2>4, <2>5, <2>6 DEF StreamOK
<1>4. CASE VNext
  <2>1. VTake => Head(video_queue) \in Nat /\ Tail(video_queue) \in Seq(Nat)
    BY QueueProperties DEF StreamOK, VTake
  <2>2. vpc # Idle => Append(app_source, vpc) \in Seq(Nat)
    BY QueueProperties DEF StreamOK
  <2>3. QED
    BY <1>4, <2>1, <2>2 DEF VNext, VTake, VWrite, StreamOK
<1>5. CASE ANext
  <2>1. ATake => Head(audio_queue) \in Nat /\ Tail(audio_queue) \in Seq(Nat)
    BY QueueProperties DEF StreamOK, ATake
  <2>2. apc # Idle => Append(app_source_audio, apc) \in Seq(Nat)
    BY QueueProperties DEF StreamOK
  <2>3. QED
    BY <1>5, <2>1, <2>2 DEF ANext, ATake, APush, StreamOK
<1>6. CASE LPush \/ LEnd \/ LGiveUp
  <2>1. lpc # Idle => Append(app_source_video, lpc) \in Seq(Nat)
    BY QueueProperties DEF StreamOK
  <2>2. app_source # << >> => Tail(app_source) \in Seq(Nat)
    BY QueueProperties DEF StreamOK
  <2>3. QED
    BY <1>6, <2>1, <2>2 DEF LPush, LEnd, LGiveUp, SendEos, StreamOK
<1>7. CASE MWrite
  <2>1. app_source_video # << >> =>
          /\ Tail(app_source_video) \in Seq(Nat)
          /\ Append(video, Head(app_source_video)) \in Seq(Nat)
    BY QueueProperties DEF StreamOK
  <2>2. app_source_audio # << >> =>
          /\ Tail(app_source_audio) \in Seq(Nat)
          /\ Append(audio, Head(app_source_audio)) \in Seq(Nat)
    BY QueueProperties DEF StreamOK
  <2>3. QED
    BY <1>7, <2>1, <2>2 DEF MWrite, StreamOK
<1>8. CASE LFail
  BY <1>8 DEF LFail, StreamOK
<1>9. QED
  BY <1>1, <1>2, <1>3, <1>4, <1>5, <1>6, <1>7, <1>8, LCodeTypes, OutsideTheStream
     DEF Next, ZNext, LNext, MNext

\* Every variable keeps its type: no step takes from an empty queue.
THEOREM TypeCorrect == Spec => []TypeOK
<1>1. Init => PlacesOK
  BY DEF Init, PlacesOK, Places
<1>2. Init => StreamOK
  BY TranscodingAssumption, EmptySeq DEF Init, StreamOK
<1>3. Init => FlagsOK
  BY Zenon DEF Init, FlagsOK
<1>4. TypeOK /\ [Next]_vars => TypeOK'
  BY PlacesStep, StreamStep, FlagsStep DEF TypeOK
<1>5. QED
  BY <1>1, <1>2, <1>3, <1>4, PTL DEF Spec, TypeOK
-----------------------------------------------------------------------------
(***************************************************************************)
(* The stream, step by step.  A step that moves a buffer takes it from the *)
(* head of one stretch and puts it at the end of the next one down, so the *)
(* counts of all the others stay.                                          *)
(***************************************************************************)
flowVars == <<fpos, video_queue, vpc, app_source, codecs, out_frame_count, app_sink,
              lpc, app_source_video, ended, video, lib_failed>>

Flow == Downstream /\ Upstream /\ Ended

LEMMA BufIsEnd ==
  ASSUME NEW n \in Nat, Buf(n + 1) = EOS
  PROVE  n = Frames
  BY TranscodingAssumption DEF Buf, EOS

\* A step of another thread than Z and the handler leaves Stopped as it is.
LEMMA OthersKeepPlace ==
  \/ WNext \/ LibMessage \/ FNext \/ VNext \/ ANext \/ LNext \/ LFail \/ LGiveUp
  \/ MNext \/ MFail \/ UNCHANGED vars
  => zpc' = zpc /\ Stopped' = Stopped
<1>1. WNext \/ LibMessage \/ FNext \/ VNext \/ ANext \/ LNext \/ LFail \/ LGiveUp
      \/ MNext \/ MFail \/ UNCHANGED vars => zpc' = zpc
  BY DEF LFail, LGiveUp, SendEos, WNext, WWatch, WRun, WReturn, LibMessage, FNext, FRead, FEnd, VNext, VTake,
         VWrite, ANext, ATake, APush, LNext, LCode, LPush, LEnd, MNext, MWrite, MEnd,
         MFail, vars, mainVars
<1>2. QED
  BY <1>1 DEF Stopped

LEMMA StoppedStays == Stopped /\ [Next]_vars => Stopped'
<1> USE DEF Stopped
<1>1. Stopped /\ ZNext => Stopped'
  BY DEF ZNext, ZStep, ZInit, ZStart, ZDemux, ZMux, ZCallback, ZWatch, ZRun, ZStop, ZQuit,
         ZJoin, ZStopDemux, ZStopMux
<1>2. Stopped /\ Alive /\ (Interrupt \/ MuxMessage) => Stopped'
  BY DEF Alive, Interrupt, MuxMessage
<1>3. QED
  BY <1>1, <1>2, OthersKeepPlace DEF Next

\* A step below the conversion, or above it, leaves the other side alone.
LEMMA DownstreamKept ==
  ASSUME Downstream, UNCHANGED <<video, app_source_video, lpc, app_sink, out_frame_count,
                                 ended, lib_failed>>,
         Stopped => Stopped'
  PROVE  Downstream'
<1>1. PICK a \in Nat, b \in Nat, c \in Nat : Stretches(a, b, c)
  BY DEF Downstream
<1>2. Hand' = Hand
  BY DEF Hand
<1>3. Stretches(a, b, c)'
  BY <1>1, <1>2 DEF Stretches, Stretch, Increasing
<1>4. QED
  BY <1>3 DEF Downstream

LEMMA UpstreamKept ==
  ASSUME Upstream, UNCHANGED <<fpos, video_queue, vpc, app_source, codecs,
                               out_frame_count, ended>>,
         Cut => Cut'
  PROVE  Upstream'
<1>1. /\ AtCodecs' = AtCodecs /\ AtSource' = AtSource /\ AtWrite' = AtWrite
      /\ AtDemuxer' = AtDemuxer /\ FromFile' = FromFile
  BY DEF AtCodecs, AtSource, AtWrite, AtDemuxer, FromFile
<1>2. QED
  BY <1>1 DEF Upstream, Follows

LEMMA FlowKept ==
  ASSUME Flow, UNCHANGED flowVars, Stopped => Stopped'
  PROVE  Flow'
<1> USE DEF flowVars
<1>1. Downstream'
  BY DownstreamKept DEF Flow
<1>2. Cut => Cut'
  BY DEF Cut
<1>3. Upstream'
  BY <1>2, UpstreamKept DEF Flow
<1>4. Ended'
  BY DEF Flow, Ended
<1>5. QED
  BY <1>1, <1>3, <1>4 DEF Flow

LEMMA ZStopFlow ==
  ASSUME StreamOK, Flow, ZStop
  PROVE  Flow'
<1> USE DEF demuxVars, muxVars
<1>1. Stopped' /\ Cut' /\ lpc = Idle
  BY DEF ZStop, ZStep, Stopped, Cut
<1>2. /\ UNCHANGED <<video, app_source_video, lpc, ended, fpos, video_queue, vpc>>
      /\ UNCHANGED <<out_frame_count, lib_failed>>
  BY DEF ZStop
<1>3. PICK a \in Nat, b \in Nat, c \in Nat : Stretches(a, b, c)
  BY DEF Flow, Downstream
<1>4. Hand' = Hand
  BY <1>2 DEF Hand
<1>5. Stretches(a, b, c)'
  BY <1>1, <1>2, <1>3, <1>4 DEF Stretches, Stretch, Increasing
<1>6. Ended'
  BY <1>2 DEF Flow, Ended, ZStop
<1>7. QED
  BY <1>1, <1>5, <1>6 DEF Flow, Upstream, Downstream

\* The pipeline's failure, and an end of stream after it.
LEMMA LFailFlow ==
  ASSUME Flow, LFail \/ LGiveUp, Stopped' = Stopped
  PROVE  Flow'
<1> USE DEF demuxVars, libVars, muxVars
<1>1. UNCHANGED <<video, app_source_video, lpc, app_sink, out_frame_count>>
  BY DEF LFail, LGiveUp, SendEos
<1>2. lib_failed' = TRUE
  BY DEF LFail, LGiveUp, SendEos, Flow
<1>3. PICK a \in Nat, b \in Nat, c \in Nat : Stretches(a, b, c)
  BY DEF Flow, Downstream
<1>4. Hand' = Hand
  BY <1>1 DEF Hand
<1>5. Stretches(a, b, c)'
  BY <1>1, <1>2, <1>3, <1>4 DEF Stretches, Stretch, Increasing
<1>6. ended' => lpc' = Idle
  BY DEF LFail, LGiveUp, SendEos, Flow, Ended
<1>7. QED
  BY <1>2, <1>5, <1>6 DEF Flow, Upstream, Downstream, Ended, Cut

LEMMA FNextFlow ==
  ASSUME StreamOK, Flow, FNext, Stopped' = Stopped
  PROVE  Flow'
<1> USE DEF libVars, muxVars
<1>1. UNCHANGED <<vpc, app_source, codecs, out_frame_count, app_sink, lpc,
                  app_source_video, ended, video, lib_failed>>
  BY DEF FNext, FRead, FEnd, busVars
<1>2. fpos \in Nat /\ fpos <= 2 * Frames /\ fpos' = fpos + 1
  BY TranscodingAssumption DEF FNext, FRead, FEnd, StreamOK
<1>3. ~(ended /\ ~lib_failed) /\ Cut' = Cut
  BY <1>1, <1>2, TranscodingAssumption DEF Flow, Ended, Cut
<1>4. AtCodecs' = AtCodecs /\ AtSource' = AtSource /\ AtWrite' = AtWrite
  BY <1>1 DEF AtCodecs, AtSource, AtWrite
<1>5. Downstream' /\ Ended'
  <2>1. Downstream'
    BY <1>1, DownstreamKept DEF Flow
  <2>2. Ended'
    BY <1>1, <1>3 DEF Flow, Ended
  <2>3. QED
    BY <2>1, <2>2
<1>6. CASE Cut
  BY <1>3, <1>5, <1>6 DEF Flow, Upstream
<1>7. ASSUME ~Cut PROVE Follows(video_queue', AtWrite) /\ AtDemuxer' = FromFile'
  <2>1. /\ Follows(video_queue, AtWrite) /\ AtWrite \in Nat
        /\ AtWrite + Len(video_queue) = FromFile
        /\ video_queue \in Seq(Nat) /\ Len(video_queue) \in Nat
    BY <1>7, Counts, LenProperties DEF CountsOK, Flow, Upstream, AtDemuxer, StreamOK
  <2>2. AtDemuxer' = AtWrite + Len(video_queue')
    BY <1>4 DEF AtDemuxer
  <2>3. FromFile = (fpos + 1) \div 2
    BY <1>2, TranscodingAssumption DEF FromFile
  \* A frame goes into the queue: the next of the stream.
  <2>4. CASE FRead /\ fpos % 2 = 0
    <3>1. video_queue' = Append(video_queue, (fpos \div 2) + 1)
      BY <2>4 DEF FRead
    <3>2. /\ (fpos + 1) \div 2 = fpos \div 2 /\ (fpos + 1 + 1) \div 2 = fpos \div 2 + 1
          /\ fpos \div 2 \in Nat /\ fpos \div 2 + 1 <= Frames
          /\ fpos + 1 # 2 * Frames + 1
      BY <1>2, <2>4, TranscodingAssumption DEF FRead
    <3>3. FromFile' = fpos \div 2 + 1
      BY <1>2, <3>2 DEF FromFile
    <3>4. fpos \div 2 + 1 = Buf(AtWrite + Len(video_queue) + 1)
      BY <2>1, <2>3, <3>2, TranscodingAssumption DEF Buf
    <3>5. /\ Follows(video_queue', AtWrite)
          /\ Len(video_queue') = Len(video_queue) + 1
      BY <2>1, <3>1, <3>2, <3>4, FollowsAppend
    <3>6. QED
      BY <2>1, <2>2, <2>3, <3>2, <3>3, <3>5
  \* Audio goes into the other queue.
  <2>5. CASE FRead /\ fpos % 2 # 0
    <3>1. video_queue' = video_queue
      BY <2>5 DEF FRead
    <3>2. (fpos + 1 + 1) \div 2 = (fpos + 1) \div 2 /\ fpos + 1 # 2 * Frames + 1
      BY <1>2, <2>5, TranscodingAssumption DEF FRead
    <3>3. FromFile' = FromFile
      BY <1>2, <2>3, <3>2 DEF FromFile
    <3>4. QED
      BY <2>1, <2>2, <3>1, <3>3
  <2>6. CASE FEnd
    <3>1. video_queue' = Append(video_queue, EOS) /\ fpos = 2 * Frames
      BY <2>6 DEF FEnd
    <3>2. FromFile = Frames /\ FromFile' = Frames + 1
      BY <1>2, <2>3, <3>1, TranscodingAssumption DEF FromFile
    <3>3. EOS \in Nat /\ EOS = Buf(AtWrite + Len(video_queue) + 1)
      BY <2>1, <3>2 DEF Buf, EOS
    <3>4. /\ Follows(video_queue', AtWrite)
          /\ Len(video_queue') = Len(video_queue) + 1
      BY <2>1, <3>1, <3>3, FollowsAppend
    <3>5. QED
      BY <2>1, <2>2, <3>2, <3>4
  <2>7. QED
    BY <2>4, <2>5, <2>6 DEF FNext
<1>8. ~Cut => Upstream'
  BY <1>1, <1>3, <1>4, <1>7 DEF Flow, Upstream, Follows
<1>9. QED
  BY <1>5, <1>6, <1>8 DEF Flow

LEMMA VTakeFlow ==
  ASSUME StreamOK, Flow, VTake, Stopped' = Stopped
  PROVE  Flow'
<1> USE DEF libVars, muxVars
<1>1. UNCHANGED <<fpos, app_source, codecs, out_frame_count, app_sink, lpc,
                  app_source_video, ended, video, lib_failed>>
  BY DEF VTake, busVars
<1>2. /\ vpc = Idle /\ video_queue # << >>
      /\ vpc' = Head(video_queue) /\ video_queue' = Tail(video_queue)
  BY DEF VTake
<1>3. ~(ended /\ ~lib_failed) /\ Cut' = Cut
  BY <1>1, <1>2 DEF Flow, Ended, Cut
<1>4. AtCodecs' = AtCodecs /\ AtSource' = AtSource /\ FromFile' = FromFile
  BY <1>1 DEF AtCodecs, AtSource, FromFile
<1>5. Downstream' /\ Ended'
  <2>1. Downstream'
    BY <1>1, DownstreamKept DEF Flow
  <2>2. Ended'
    BY <1>1, <1>3 DEF Flow, Ended
  <2>3. QED
    BY <2>1, <2>2
<1>6. CASE Cut
  BY <1>3, <1>5, <1>6 DEF Flow, Upstream
<1>7. CASE ~Cut
  <2>1. /\ Follows(video_queue, AtWrite) /\ AtSource \in Nat /\ AtWrite = AtSource
        /\ video_queue \in Seq(Nat)
    BY <1>2, <1>7, Counts DEF CountsOK, Flow, Upstream, StreamOK, AtWrite, InHand
  <2>2. /\ vpc' \in Nat /\ vpc' = Buf(AtSource + 1) /\ Follows(video_queue', AtSource + 1)
        /\ Len(video_queue') = Len(video_queue) - 1 /\ Len(video_queue) \in Nat
    BY <1>2, <2>1, FollowsTail, LenProperties
  <2>3. AtWrite' = AtSource + 1 /\ AtDemuxer' = AtDemuxer
    BY <1>4, <2>1, <2>2 DEF AtWrite, AtDemuxer, InHand, Idle
  <2>4. Upstream'
    BY <1>1, <1>3, <1>4, <1>7, <2>2, <2>3 DEF Flow, Upstream, Follows
  <2>5. QED
    BY <1>5, <2>4 DEF Flow
<1>8. QED
  BY <1>6, <1>7

LEMMA VWriteFlow ==
  ASSUME StreamOK, Pipelines, Flow, VWrite, Stopped' = Stopped
  PROVE  Flow'
<1> USE DEF muxVars
<1>1. UNCHANGED <<fpos, video_queue, codecs, out_frame_count, app_sink, lpc,
                  app_source_video, ended, video, lib_failed>>
  BY DEF VWrite, busVars
<1>2. vpc # Idle /\ vpc' = Idle
  BY DEF VWrite
<1>3. ~(ended /\ ~lib_failed) /\ Cut' = Cut
  BY <1>1, <1>2 DEF Flow, Ended, Cut
<1>4. AtCodecs' = AtCodecs /\ FromFile' = FromFile
  BY <1>1 DEF AtCodecs, FromFile
<1>5. Downstream' /\ Ended'
  <2>1. Downstream'
    BY <1>1, DownstreamKept DEF Flow
  <2>2. Ended'
    BY <1>1, <1>3 DEF Flow, Ended
  <2>3. QED
    BY <2>1, <2>2
<1>6. CASE Cut
  BY <1>3, <1>5, <1>6 DEF Flow, Upstream
<1>7. CASE ~Cut
  <2>0. ~ended
    BY <1>3, <1>7 DEF Cut
  <2>1. app_source' = Append(app_source, vpc)
    BY <1>2, <1>7 DEF VWrite, Pipelines, Cut
  <2>2. /\ Follows(app_source, AtCodecs) /\ AtCodecs \in Nat /\ app_source \in Seq(Nat)
        /\ vpc \in Nat /\ vpc = Buf(AtSource + 1)
        /\ AtSource = AtCodecs + Len(app_source) /\ Len(app_source) \in Nat
    BY <1>2, <1>7, <2>0, Counts, LenProperties DEF CountsOK, Flow, Upstream, StreamOK, AtSource
  <2>3. /\ Follows(app_source', AtCodecs) /\ Len(app_source') = Len(app_source) + 1
    BY <2>1, <2>2, FollowsAppend
  <2>4. AtSource' = AtSource + 1 /\ AtWrite' = AtWrite /\ AtDemuxer' = AtDemuxer
    BY <1>1, <1>2, <1>4, <2>0, <2>2, <2>3 DEF AtSource, AtWrite, AtDemuxer, InHand
  <2>5. Upstream'
    BY <1>1, <1>2, <1>3, <1>4, <1>7, <2>3, <2>4 DEF Flow, Upstream, Follows
  <2>6. QED
    BY <1>5, <2>5 DEF Flow
<1>8. QED
  BY <1>6, <1>7

\* A frame that comes to amlvconv is dropped, or reaches the appsink and, through
\* it, the callback.
LEMMA ConvertFlow ==
  ASSUME StreamOK, Downstream, lpc = Idle, ~Stopped, ~ended,
         UNCHANGED <<video, app_source_video, ended>>,
         out_frame_count + 1 <= Frames, Convert(out_frame_count + 1)
  PROVE  Downstream' /\ out_frame_count' = out_frame_count + 1
<1> DEFINE n == out_frame_count + 1
           sink == Append(app_sink, n)
<1>1. /\ out_frame_count \in Nat /\ n \in Nat /\ n <= Frames
      /\ app_sink \in Seq(Nat) /\ out_frame_count' = n
  BY DEF Convert, StreamOK
<1>2. PICK a \in Nat, b \in Nat, c \in Nat : Stretches(a, b, c)
  BY DEF Downstream
<1>3. /\ Stretch(video, 0, a) /\ Stretch(app_source_video, a, b)
      /\ Stretch(<< >>, b, c) /\ Stretch(app_sink, c, out_frame_count) /\ c <= Frames
  BY <1>2 DEF Stretches, Hand
<1>4. /\ Kept(n) => Stretch(sink, c, n)
      /\ ~Kept(n) => Stretch(app_sink, c, n)
  BY <1>1, <1>3, StretchNext
<1>5. Stretch(video', 0, a) /\ Stretch(app_source_video', a, b) /\ ~ended'
  BY <1>3 DEF Stretch, Increasing
<1>6. /\ Kept(n) => IF new_sample THEN lpc' = Head(sink) /\ app_sink' = Tail(sink)
                                  ELSE app_sink' = sink /\ lpc' = lpc
      /\ ~Kept(n) => app_sink' = app_sink /\ lpc' = lpc
  BY DEF Convert, Emit
<1>7. sink \in Seq(Nat) /\ sink # << >>
  BY <1>1, QueueProperties
<1> HIDE DEF sink, n
\* Nobody takes a sample.
<1>8. ASSUME lpc' = lpc, Stretch(app_sink', c, n) PROVE Downstream'
  <2>1. Hand' = << >>
    BY <1>8 DEF Hand
  <2>2. Stretch(Hand', b, c) /\ Stretch(app_sink', c, out_frame_count')
    BY <1>1, <1>3, <1>8, <2>1
  <2>3. Stretches(a, b, c)'
    BY <1>3, <1>5, <2>2 DEF Stretches, Stretch, Increasing
  <2>4. QED
    BY <2>3 DEF Downstream
\* The callback takes the oldest one.
<1>9. ASSUME Kept(n), new_sample PROVE Downstream'
  <2>1. << >> \in Seq(Nat)
    BY EmptySeq
  <2>2. /\ Head(sink) \in Nat /\ Head(sink) <= n
        /\ Stretch(Append(<< >>, Head(sink)), b, Head(sink))
        /\ Stretch(Tail(sink), Head(sink), n)
    BY <1>1, <1>3, <1>4, <1>7, <1>9, <2>1, StretchMoves
  <2>3. lpc' = Head(sink) /\ app_sink' = Tail(sink)
    BY <1>6, <1>9
  <2>4. Append(<< >>, Head(sink)) = <<Head(sink)>>
    BY <2>2
  <2>5. Hand' = <<Head(sink)>>
    BY <2>2, <2>3 DEF Hand, Idle
  <2>6. /\ Stretch(Hand', b, Head(sink))
        /\ Stretch(app_sink', Head(sink), out_frame_count')
    BY <1>1, <2>2, <2>3, <2>4, <2>5
  <2>7. Head(sink) <= Frames
    BY <1>1, <2>2, TranscodingAssumption
  <2>8. \E d \in Nat :
          /\ Stretch(video', 0, a) /\ Stretch(app_source_video', a, b)
          /\ Stretch(Hand', b, d) /\ Stretch(app_sink', d, out_frame_count') /\ d <= Frames
    BY <1>5, <2>2, <2>6, <2>7
  <2>9. PICK d \in Nat :
          /\ Stretch(video', 0, a) /\ Stretch(app_source_video', a, b)
          /\ Stretch(Hand', b, d) /\ Stretch(app_sink', d, out_frame_count') /\ d <= Frames
    BY <2>8
  <2>10. Stretches(a, b, d)'
    BY <1>5, <2>9 DEF Stretches, Stretch, Increasing
  <2>11. QED
    BY <2>10 DEF Downstream
<1>10. QED
  BY <1>1, <1>4, <1>6, <1>8, <1>9 DEF n

LEMMA LCodeFlow ==
  ASSUME StreamOK, Pipelines, Flow, LCode, Stopped' = Stopped
  PROVE  Flow'
<1> USE DEF demuxVars, muxVars
<1>1. /\ UNCHANGED <<fpos, video_queue, vpc, app_source_video, ended, video, lib_failed>>
      /\ lib = "playing" /\ ~lib_failed /\ lpc = Idle /\ app_source # << >>
  BY DEF LCode, busVars
<1>2. ~ended /\ ~Stopped /\ ~Cut /\ ~Cut'
  BY <1>1 DEF Flow, Ended, Pipelines, Cut
<1>3. /\ Follows(codecs, out_frame_count)
      /\ Follows(app_source, AtCodecs) /\ AtCodecs <= Frames
      /\ codecs \in Seq(Nat) /\ app_source \in Seq(Nat)
      /\ out_frame_count \in Nat /\ AtCodecs \in Nat
      /\ Len(codecs) \in Nat /\ Len(app_source) \in Nat
      /\ AtCodecs = out_frame_count + Len(codecs) /\ AtSource = AtCodecs + Len(app_source)
  BY <1>2, Counts, LenProperties DEF CountsOK, Flow, Upstream, StreamOK, AtCodecs, AtSource
\* What is left to show: the codecs and the source go on from what was converted.
<1>4. SUFFICES /\ Downstream' /\ AtCodecs' <= Frames
               /\ Follows(codecs', out_frame_count') /\ Follows(app_source', AtCodecs')
               /\ AtCodecs' + Len(app_source') = AtCodecs + Len(app_source)
  <2>1. AtSource' = AtSource
    BY <1>1, <1>2, <1>3, <1>4 DEF AtSource
  <2>2. AtWrite' = AtWrite /\ AtDemuxer' = AtDemuxer /\ FromFile' = FromFile
    BY <1>1, <2>1 DEF AtWrite, AtDemuxer, FromFile
  <2>3. Upstream'
    BY <1>1, <1>2, <1>4, <2>1, <2>2 DEF Flow, Upstream, Follows
  <2>4. QED
    BY <1>1, <1>2, <1>4, <2>3 DEF Flow, Ended
\* A frame that the codecs give out is the one after those converted.
<1>5. ASSUME NEW q \in Seq(Nat), q # << >>, Follows(q, out_frame_count),
             out_frame_count + Len(q) <= Frames, Convert(Head(q))
      PROVE  /\ Downstream' /\ out_frame_count' = out_frame_count + 1
             /\ Follows(Tail(q), out_frame_count') /\ Len(Tail(q)) = Len(q) - 1
             /\ Len(q) \in Nat
  <2>1. /\ Head(q) \in Nat /\ Head(q) = Buf(out_frame_count + 1)
        /\ Follows(Tail(q), out_frame_count + 1) /\ Len(Tail(q)) = Len(q) - 1
        /\ Len(q) >= 1 /\ Len(q) \in Nat
    BY <1>3, <1>5, FollowsTail, LenProperties
  <2>2. out_frame_count + 1 <= Frames
    BY <1>3, <1>5, <2>1, TranscodingAssumption
  <2>3. Head(q) = out_frame_count + 1
    BY <1>3, <2>1, <2>2, TranscodingAssumption DEF Buf
  <2>4. Convert(out_frame_count + 1)
    BY <1>5, <2>3
  <2>5. Downstream' /\ out_frame_count' = out_frame_count + 1
    BY <1>1, <1>2, <2>2, <2>4, ConvertFlow DEF Flow
  <2>6. QED
    BY <2>1, <2>5
<1>6. CASE Head(app_source) # EOS
  <2> DEFINE in == Append(codecs, Head(app_source))
  <2>1. /\ Head(app_source) \in Nat /\ Head(app_source) = Buf(AtCodecs + 1)
        /\ Follows(Tail(app_source), AtCodecs + 1)
        /\ Len(Tail(app_source)) = Len(app_source) - 1
    BY <1>1, <1>3, FollowsTail
  <2>2. AtCodecs + 1 <= Frames
    BY <1>3, <1>6, <2>1, TranscodingAssumption DEF Buf
  <2>3. /\ in \in Seq(Nat) /\ Len(in) = Len(codecs) + 1 /\ Follows(in, out_frame_count)
    BY <1>3, <2>1, FollowsAppend
  <2>4. /\ app_source' = Tail(app_source)
        /\ IF Len(in) > Latency
           THEN codecs' = Tail(in) /\ Convert(Head(in))
           ELSE codecs' = in /\ UNCHANGED <<out_frame_count, app_sink, lpc>>
    BY <1>6 DEF LCode
  <2> HIDE DEF in
  <2>5. in # << >> /\ out_frame_count + Len(in) <= Frames
    BY <1>3, <2>2, <2>3, EmptySeq
  <2>6. ASSUME AtCodecs' = AtCodecs + 1
        PROVE  /\ AtCodecs' <= Frames /\ Follows(app_source', AtCodecs')
               /\ AtCodecs' + Len(app_source') = AtCodecs + Len(app_source)
    <3>1. AtCodecs' <= Frames /\ Follows(app_source', AtCodecs')
      BY <2>1, <2>2, <2>4, <2>6
    <3>2. Len(app_source') = Len(app_source) - 1
      BY <2>1, <2>4
    <3>3. AtCodecs \in Nat /\ Len(app_source) \in Nat
      BY <1>3
    <3>4. AtCodecs' + Len(app_source') = AtCodecs + Len(app_source)
      BY ONLY <3>2, <3>3, <2>6
    <3>5. QED
      BY <3>1, <3>4
  <2>7. CASE Len(in) > Latency
    <3>1. codecs' = Tail(in) /\ Convert(Head(in))
      BY <2>4, <2>7
    <3>2. /\ Downstream' /\ out_frame_count' = out_frame_count + 1
          /\ Follows(Tail(in), out_frame_count') /\ Len(Tail(in)) = Len(in) - 1
      BY <1>5, <2>3, <2>5, <3>1
    <3>3. AtCodecs' = AtCodecs + 1
      <4>1. Len(codecs') = Len(codecs)
        BY <1>3, <2>3, <3>1, <3>2
      <4>2. AtCodecs' = out_frame_count' + Len(codecs')
        BY DEF AtCodecs
      <4>3. QED
        BY ONLY <1>3, <3>2, <4>1, <4>2
    <3>4. QED
      BY <2>6, <3>1, <3>2, <3>3
  <2>8. CASE ~(Len(in) > Latency)
    <3>1. codecs' = in /\ UNCHANGED <<out_frame_count, app_sink, lpc>>
      BY <2>4, <2>8
    <3>2. Downstream'
      BY <1>1, <3>1, DownstreamKept DEF Flow
    <3>3. AtCodecs' = AtCodecs + 1 /\ Follows(codecs', out_frame_count')
      BY <1>3, <2>3, <3>1 DEF AtCodecs
    <3>4. QED
      BY <2>6, <3>2, <3>3
  <2>9. QED
    BY <2>7, <2>8
\* The end of the stream pushes them out, one by one.
<1>7. CASE Head(app_source) = EOS
  <2>1. /\ codecs # << >> /\ codecs' = Tail(codecs) /\ Convert(Head(codecs))
        /\ app_source' = app_source
    BY <1>7 DEF LCode
  <2>2. out_frame_count + Len(codecs) <= Frames
    BY <1>3
  <2>3. /\ Downstream' /\ out_frame_count' = out_frame_count + 1
        /\ Follows(codecs', out_frame_count') /\ Len(codecs') = Len(codecs) - 1
    BY <1>3, <1>5, <2>1, <2>2
  <2>4. AtCodecs' = AtCodecs
    BY <1>3, <2>3 DEF AtCodecs
  <2>5. QED
    BY <1>3, <2>1, <2>3, <2>4
<1>8. QED
  BY <1>6, <1>7

LEMMA LPushFlow ==
  ASSUME StreamOK, Flow, LPush, Stopped' = Stopped
  PROVE  Flow'
<1> USE DEF demuxVars
<1>1. /\ UNCHANGED <<fpos, video_queue, vpc, app_source, codecs, out_frame_count,
                     app_sink, ended, video, lib_failed>>
      /\ lpc # Idle /\ lpc' = Idle
      /\ app_source_video' = Append(app_source_video, lpc)
  BY DEF LPush, busVars
<1>2. ~ended
  BY <1>1 DEF Flow, Ended
<1>3. lpc \in Nat /\ app_source_video \in Seq(Nat) /\ Hand = <<lpc>> /\ Hand' = << >>
  BY <1>1 DEF StreamOK, Hand
<1>4. PICK a \in Nat, b \in Nat, c \in Nat : Stretches(a, b, c)
  BY DEF Flow, Downstream
<1>5. /\ Stretch(video, 0, a) /\ Stretch(app_source_video, a, b) /\ Stretch(<<lpc>>, b, c)
      /\ ~Stopped => Stretch(app_sink, c, out_frame_count)
      /\ c <= Frames
  BY <1>3, <1>4 DEF Stretches
<1>6. /\ <<lpc>> \in Seq(Nat) /\ <<lpc>> # << >>
      /\ Head(<<lpc>>) = lpc /\ Tail(<<lpc>>) = << >>
  BY <1>3
<1>7. Stretch(app_source_video', a, lpc) /\ Stretch(<< >>, lpc, c)
  <2> DEFINE hand == <<lpc>>
  <2>1. /\ hand \in Seq(Nat) /\ hand # << >> /\ Stretch(hand, b, c)
        /\ Head(hand) = lpc /\ Tail(hand) = << >>
    BY <1>5, <1>6
  <2> HIDE DEF hand
  <2>2. /\ Stretch(Append(app_source_video, Head(hand)), a, Head(hand))
        /\ Stretch(Tail(hand), Head(hand), c)
    BY <1>3, <1>5, <2>1, StretchMoves
  <2>3. QED
    BY <1>1, <2>1, <2>2
<1>8. Stretch(Hand', lpc, c)
  BY <1>3, <1>7
<1>9. Stretch(video', 0, a) /\ (~Stopped' => Stretch(app_sink', c, out_frame_count')) /\ ~ended'
  BY <1>1, <1>2, <1>5 DEF Stretch, Increasing
<1>10. Downstream'
  <2>1. \E d \in Nat : Stretch(app_source_video', a, d) /\ Stretch(Hand', d, c)
    BY <1>3, <1>7, <1>8
  <2>2. PICK d \in Nat : Stretch(app_source_video', a, d) /\ Stretch(Hand', d, c)
    BY <2>1
  <2>3. Stretches(a, d, c)'
    BY <1>5, <1>9, <2>2 DEF Stretches, Stretch, Increasing
  <2>4. QED
    BY <2>3 DEF Downstream
<1>11. Upstream'
  BY <1>1, UpstreamKept DEF Flow, Cut
<1>12. QED
  BY <1>1, <1>2, <1>10, <1>11 DEF Flow, Ended

\* When the end of the stream has come through, so has everything else.
LEMMA LEndFlow ==
  ASSUME StreamOK, Pipelines, Flow, LEnd, Stopped' = Stopped
  PROVE  Flow'
<1> USE DEF demuxVars
<1>1. /\ UNCHANGED <<fpos, video_queue, vpc, codecs, out_frame_count, app_sink, lpc,
                     app_source_video, video, lib_failed>>
      /\ lib = "playing" /\ ~lib_failed /\ lpc = Idle /\ codecs = << >> /\ app_sink = << >>
      /\ app_source # << >> /\ Head(app_source) = EOS
      /\ app_source' = Tail(app_source) /\ ended'
  BY DEF LEnd, SendEos
<1>2. ~ended /\ ~Stopped /\ ~Cut /\ ~Cut'
  BY <1>1 DEF Flow, Ended, Pipelines, Cut
<1>3. /\ Follows(app_source, AtCodecs) /\ AtCodecs \in Nat /\ app_source \in Seq(Nat)
      /\ Len(app_source) \in Nat /\ AtSource = AtCodecs + Len(app_source)
      /\ AtDemuxer = FromFile
  BY <1>2, Counts, LenProperties DEF CountsOK, Flow, Upstream, StreamOK, AtSource
<1>4. /\ Head(app_source) = Buf(AtCodecs + 1) /\ Follows(app_source', AtCodecs + 1)
      /\ Len(app_source') = Len(app_source) - 1 /\ Len(app_source) >= 1
      /\ app_source' \in Seq(Nat)
  BY <1>1, <1>3, FollowsTail
<1>5. AtCodecs = Frames
  BY <1>1, <1>3, <1>4, BufIsEnd
<1>6. out_frame_count = Frames
  BY <1>1, <1>5, EmptySeq DEF AtCodecs, StreamOK
<1>7. /\ FromFile = Frames + 1 /\ Len(app_source) = 1
      /\ InHand(vpc) = 0 /\ Len(video_queue) = 0
  <2>1. /\ FromFile <= Frames + 1 /\ FromFile \in Nat /\ InHand(vpc) \in Nat
        /\ Len(video_queue) \in Nat
    BY Counts, LenProperties DEF CountsOK, InHand, StreamOK
  <2>2. FromFile = Frames + Len(app_source) + InHand(vpc) + Len(video_queue)
    BY <1>3, <1>5 DEF AtDemuxer, AtWrite
  <2>3. QED
    BY <1>3, <1>4, <2>1, <2>2, TranscodingAssumption
<1>8. fpos = 2 * Frames + 1
  BY <1>7, TranscodingAssumption DEF FromFile, StreamOK
<1>9. video_queue = << >> /\ vpc = Idle /\ app_source' = << >>
  BY <1>4, <1>7, EmptySeq DEF InHand, StreamOK
<1>10. AtCodecs' = AtCodecs /\ FromFile' = FromFile
  BY <1>1 DEF AtCodecs, FromFile
<1>11. AtSource' = AtSource
  BY <1>1, <1>2, <1>3, <1>4, <1>10 DEF AtSource
<1>12. AtWrite' = AtWrite /\ AtDemuxer' = AtDemuxer
  BY <1>1, <1>11 DEF AtWrite, AtDemuxer
<1>13. Ended'
  BY <1>1, <1>8, <1>9 DEF Ended
<1>14. Downstream'
  <2>1. PICK a \in Nat, b \in Nat, c \in Nat : Stretches(a, b, c)
    BY DEF Flow, Downstream
  <2>2. /\ Stretch(video, 0, a) /\ Stretch(app_source_video, a, b)
        /\ Stretch(<< >>, b, c) /\ Stretch(<< >>, c, Frames)
    BY <1>1, <1>2, <1>6, <2>1 DEF Stretches, Hand
  <2>3. Frames \in Nat /\ << >> \in Seq(Nat) /\ Hand' = << >>
    BY <1>1, TranscodingAssumption, EmptySeq DEF Hand
  <2>4. Stretch(Hand', b, Frames) /\ Stretch(app_sink', Frames, out_frame_count')
    BY <1>1, <1>6, <2>2, <2>3, StretchExtends, StretchEmpty
  <2>5. \E d \in Nat : /\ Stretch(Hand', b, d) /\ Stretch(app_sink', d, out_frame_count')
                       /\ d = Frames
    BY <2>3, <2>4
  <2>6. PICK d \in Nat : /\ Stretch(Hand', b, d) /\ Stretch(app_sink', d, out_frame_count')
                        /\ d = Frames
    BY <2>5
  <2>7. Stretch(video', 0, a) /\ Stretch(app_source_video', a, b)
    BY <1>1, <2>2 DEF Stretch, Increasing
  <2>8. Stretches(a, b, d)'
    BY <2>3, <2>6, <2>7 DEF Stretches, Stretch, Increasing
  <2>9. QED
    BY <2>8 DEF Downstream
<1>15. Upstream'
  <2>1. Follows(app_source', AtCodecs')
    BY <1>9, FollowsEmpty
  <2>2. Follows(codecs', out_frame_count') /\ Follows(video_queue', AtWrite')
    BY <1>1, <1>9, FollowsEmpty
  <2>3. AtCodecs' <= Frames /\ AtDemuxer' = FromFile' /\ vpc' = Idle
    BY <1>1, <1>2, <1>9, <1>10, <1>12 DEF Flow, Upstream
  <2>4. QED
    BY <2>1, <2>2, <2>3 DEF Upstream
<1>16. QED
  BY <1>13, <1>14, <1>15 DEF Flow

LEMMA MWriteFlow ==
  ASSUME StreamOK, Flow, MWrite, Stopped' = Stopped
  PROVE  Flow'
<1> USE DEF demuxVars, libVars
<1>1. /\ UNCHANGED <<fpos, video_queue, vpc, app_source, codecs, out_frame_count,
                     app_sink, lpc, ended, lib_failed>>
      /\ \/ UNCHANGED <<app_source_video, video>>
         \/ /\ app_source_video # << >>
            /\ app_source_video' = Tail(app_source_video)
            /\ video' = Append(video, Head(app_source_video))
  BY DEF MWrite, busVars
<1>2. CASE UNCHANGED <<app_source_video, video>>
  BY <1>1, <1>2, FlowKept DEF flowVars
<1>3. CASE /\ app_source_video # << >>
           /\ app_source_video' = Tail(app_source_video)
           /\ video' = Append(video, Head(app_source_video))
  <2>1. PICK a \in Nat, b \in Nat, c \in Nat : Stretches(a, b, c)
    BY DEF Flow, Downstream
  <2>2. /\ Stretch(video, 0, a) /\ Stretch(app_source_video, a, b)
        /\ video \in Seq(Nat) /\ app_source_video \in Seq(Nat)
    BY <2>1 DEF Stretches, StreamOK
  <2>3. /\ Head(app_source_video) \in Nat
        /\ Stretch(video', 0, Head(app_source_video))
        /\ Stretch(app_source_video', Head(app_source_video), b)
    BY <1>3, <2>2, StretchMoves
  <2>4. PICK d \in Nat : Stretch(video', 0, d) /\ Stretch(app_source_video', d, b)
    BY <2>3
  <2>5. Hand' = Hand
    BY <1>1 DEF Hand
  <2>6. Stretches(d, b, c)'
    BY <1>1, <2>1, <2>4, <2>5 DEF Stretches, Stretch, Increasing
  <2>7. Downstream'
    BY <2>6 DEF Downstream
  <2>8. Upstream'
    BY <1>1, UpstreamKept DEF Flow, Cut
  <2>9. QED
    BY <1>1, <2>7, <2>8 DEF Flow, Ended
<1>4. QED
  BY <1>1, <1>2, <1>3

LEMMA FlowStep == StreamOK /\ Pipelines /\ Flow /\ [Next]_vars => Flow'
<1> SUFFICES ASSUME StreamOK, Pipelines, Flow, [Next]_vars PROVE Flow'
  OBVIOUS
<1>1. CASE UNCHANGED flowVars
  BY <1>1, FlowKept, StoppedStays
<1>2. CASE ZStop
  BY <1>2, ZStopFlow
<1>3. CASE FNext
  BY <1>3, FNextFlow, OthersKeepPlace
<1>4. CASE VNext
  BY <1>4, VTakeFlow, VWriteFlow, OthersKeepPlace DEF VNext
<1>5. ANext => UNCHANGED flowVars
  BY DEF ANext, ATake, APush, busVars, libVars, muxVars, flowVars
<1>6. CASE LNext
  BY <1>6, LCodeFlow, LPushFlow, LEndFlow, OthersKeepPlace DEF LNext
<1>7. CASE MWrite
  BY <1>7, MWriteFlow, OthersKeepPlace DEF MNext
<1>8. CASE LFail \/ LGiveUp
  BY <1>8, LFailFlow, OthersKeepPlace
<1>9. UNCHANGED <<streamVars, ended, lib_failed>> => UNCHANGED flowVars
  BY DEF streamVars, flowVars
<1>10. QED
  BY <1>1, <1>2, <1>3, <1>4, <1>5, <1>6, <1>7, <1>8, <1>9, OutsideTheStream
     DEF Next, ZNext, MNext

-----------------------------------------------------------------------------
(* The life of the pipelines, and what main's tearing down tells.          *)

LEMMA PipelinesStep == PlacesOK /\ Pipelines /\ [Next]_vars => Pipelines'
<1> SUFFICES ASSUME PlacesOK, Pipelines, [Next]_vars PROVE Pipelines'
  OBVIOUS
<1> USE DEF Pipelines, Stopped, PlacesOK, mainVars, stateVars, demuxVars, libVars
<1>1. CASE ZInit \/ ZStart \/ ZDemux \/ ZMux \/ ZCallback \/ ZWatch \/ ZRun
  BY <1>1 DEF ZStep, ZInit, ZStart, ZDemux, ZMux, ZCallback, ZWatch, ZRun
<1>2. CASE ZStop \/ ZQuit \/ ZJoin \/ ZStopDemux \/ ZStopMux
  BY <1>2 DEF ZStep, ZStop, ZQuit, ZJoin, ZStopDemux, ZStopMux
<1>3. CASE WNext \/ LibMessage
  BY <1>3 DEF WNext, WWatch, WRun, WReturn, LibMessage
<1>4. CASE MuxMessage
  BY <1>4 DEF MuxMessage
<1>5. CASE FNext \/ VTake \/ ANext
  BY <1>5 DEF FNext, FRead, FEnd, VTake, ANext, ATake, APush
\* V may still write after the stop: the library takes nothing.
<1>6. CASE VWrite
  BY <1>6 DEF VWrite
<1>7. CASE LNext \/ LFail \/ LGiveUp
  BY <1>7 DEF LNext, LCode, LPush, LEnd, LFail, LGiveUp, SendEos
<1>8. CASE MNext \/ MFail
  BY <1>8 DEF MNext, MWrite, MEnd, MFail
<1>9. CASE UNCHANGED vars
  BY <1>9 DEF vars
<1>10. CASE Alive /\ Interrupt
  BY <1>10 DEF Alive, Interrupt
<1>11. QED
  BY <1>1, <1>2, <1>3, <1>4, <1>5, <1>6, <1>7, <1>8, <1>9, <1>10 DEF Next, ZNext, VNext

LEMMA TeardownStep == PlacesOK /\ Flow /\ Teardown /\ [Next]_vars => Teardown'
<1> SUFFICES ASSUME PlacesOK, Flow, Teardown, [Next]_vars PROVE Teardown'
  OBVIOUS
<1> USE DEF Teardown, Stopped, mainVars, stateVars, busVars, muxVars
<1>1. CASE ZInit \/ ZStart \/ ZDemux \/ ZMux \/ ZCallback \/ ZWatch \/ ZRun
  BY <1>1 DEF ZStep, ZInit, ZStart, ZDemux, ZMux, ZCallback, ZWatch, ZRun
<1>2. CASE ZStop \/ ZQuit \/ ZJoin \/ ZStopDemux \/ ZStopMux
  BY <1>2 DEF ZStep, ZStop, ZQuit, ZJoin, ZStopDemux, ZStopMux
<1>3. CASE WNext \/ LibMessage
  BY <1>3 DEF WNext, WWatch, WRun, WReturn, LibMessage
\* Main's loop ends for a message of the muxer, and for nothing else.
<1>4. CASE MuxMessage
  BY <1>4 DEF MuxMessage
<1>5. CASE FNext \/ VNext
  BY <1>5 DEF FNext, FRead, FEnd, VNext, VTake, VWrite
<1>6. CASE ANext
  BY <1>6 DEF ANext, ATake, APush
<1>7. CASE LCode
  BY <1>7 DEF LCode
\* Nothing is pushed behind the end of stream.
<1>8. CASE LPush
  BY <1>8 DEF LPush, Flow, Ended
<1>9. CASE LEnd \/ LFail \/ LGiveUp
  BY <1>9 DEF LEnd, LFail, LGiveUp, SendEos
<1>10. CASE MWrite
  BY <1>10 DEF MWrite
<1>11. CASE MEnd
  BY <1>11 DEF MEnd
<1>12. CASE MFail
  BY <1>12 DEF MFail
<1>13. CASE UNCHANGED vars
  BY <1>13 DEF vars
<1>14. CASE Alive /\ Interrupt
  BY <1>14 DEF Alive, Interrupt
<1>15. QED
  BY <1>1, <1>2, <1>3, <1>4, <1>5, <1>6, <1>7, <1>8, <1>9, <1>10, <1>11, <1>12, <1>13, <1>14
     DEF Next, ZNext, LNext, MNext

LEMMA IInvHolds == Spec => []IInv
<1>1. Init => Flow
  <2> SUFFICES ASSUME Init PROVE Flow
    OBVIOUS
  <2>1. /\ Len(codecs) = 0 /\ Len(app_source) = 0 /\ Len(video_queue) = 0
        /\ InHand(vpc) = 0 /\ ~ended /\ out_frame_count = 0
    BY DEF Init, InHand
  <2>2. AtCodecs = 0 /\ AtSource = 0 /\ AtWrite = 0 /\ AtDemuxer = 0
    BY <2>1 DEF AtCodecs, AtSource, AtWrite, AtDemuxer
  <2>3. FromFile = 0
    BY TranscodingAssumption DEF Init, FromFile
  <2>4. Downstream
    <3>1. Hand = << >> /\ Stretch(<< >>, 0, 0)
      BY StretchEmpty DEF Init, Hand
    <3>2. Stretches(0, 0, 0)
      BY <3>1, TranscodingAssumption DEF Init, Stretches
    <3>3. QED
      BY <3>2 DEF Downstream
  <2>5. Upstream
    BY <2>2, <2>3, FollowsEmpty, TranscodingAssumption DEF Init, Upstream
  <2>6. Ended
    BY DEF Init, Ended
  <2>7. QED
    BY <2>4, <2>5, <2>6 DEF Flow
<1>2. Init => Pipelines /\ Teardown
  BY DEF Init, Pipelines, Teardown, Stopped
<1>3. TypeOK /\ Flow /\ Pipelines /\ Teardown /\ [Next]_vars
      => Flow' /\ Pipelines' /\ Teardown'
  BY FlowStep, PipelinesStep, TeardownStep DEF TypeOK
<1>4. Flow /\ Pipelines /\ Teardown => IInv
  BY DEF Flow, IInv
<1>5. QED
  BY <1>1, <1>2, <1>3, <1>4, TypeCorrect, PTL DEF Spec

\* Nobody writes to a library that is freed: undisturbed, main frees it only
\* after the end of stream, which is the last that V writes.
THEOREM FreedAfterUse == Spec => []NoUseAfterFree
<1>1. IInv => NoUseAfterFree
  BY DEF IInv, Teardown, Stopped, Ended, NoUseAfterFree, Undisturbed
<1>2. QED
  BY <1>1, IInvHolds, PTL

\* The written video is what the output rate takes of the beginning of the file,
\* always, and of all of it when the demo ends undisturbed.
THEOREM VideoArrives == Spec => []VideoIsComplete
<1>1. TypeOK /\ IInv => VideoIsComplete
  <2> SUFFICES ASSUME TypeOK, IInv PROVE VideoIsComplete
    OBVIOUS
  <2>1. PICK a \in Nat, b \in Nat, c \in Nat : Stretches(a, b, c)
    BY DEF IInv, Downstream
  <2>2. /\ Stretch(video, 0, a) /\ Stretch(app_source_video, a, b) /\ Stretch(Hand, b, c)
        /\ a <= Frames /\ Frames \in Nat /\ video \in Seq(Nat)
    BY <2>1, TranscodingAssumption DEF Stretches, Stretch, TypeOK, StreamOK
  \* A stretch from the beginning is what the property speaks of.
  <2>3. ASSUME NEW n \in Nat, Stretch(video, 0, n)
        PROVE  {video[i] : i \in 1 .. Len(video)} = {f \in 1 .. n : Kept(f)}
    <3>1. \A i \in 1 .. Len(video) : video[i] \in 1 .. n /\ Kept(video[i])
      <4>1. \A i \in 1 .. Len(video) : video[i] \in Nat
        BY <2>2, ElementOfSeq
      <4>2. QED
        BY <2>3, <4>1 DEF Stretch
    <3>2. \A f \in 1 .. n : Kept(f) => \E i \in 1 .. Len(video) : video[i] = f
      BY <2>3 DEF Stretch
    <3>3. QED
      BY <3>1, <3>2
  <2>4. Increasing(video)
    BY <2>2 DEF Stretch
  <2>5. CASE zpc = "end" /\ Undisturbed
    <3>1. ended /\ ~lib_failed /\ app_source_video = << >> /\ lpc = Idle
      BY <2>5 DEF IInv, Teardown, Stopped, Ended, Undisturbed
    <3>2. c = Frames /\ Stretch(<< >>, a, b) /\ Stretch(<< >>, b, Frames)
      BY <2>1, <2>2, <3>1 DEF Stretches, Hand
    <3>3. Stretch(video, 0, b)
      BY <2>2, <3>2, StretchExtends
    <3>4. Stretch(video, 0, Frames)
      BY <2>2, <3>2, <3>3, StretchExtends
    <3>5. {video[i] : i \in 1 .. Len(video)} = {f \in 1 .. Frames : Kept(f)}
      BY <2>2, <2>3, <3>4
    <3>6. Frames \in 0 .. Frames
      BY <2>2
    <3>7. QED
      BY <2>4, <3>5, <3>6, Zenon DEF VideoIsComplete
  <2>6. CASE ~(zpc = "end" /\ Undisturbed)
    <3>1. {video[i] : i \in 1 .. Len(video)} = {f \in 1 .. a : Kept(f)} /\ a \in 0 .. Frames
      BY <2>2, <2>3
    <3>2. QED
      BY <2>4, <2>6, <3>1, Zenon DEF VideoIsComplete
  <2>7. QED
    BY <2>5, <2>6
<1>2. QED
  BY <1>1, IInvHolds, TypeCorrect, PTL
=============================================================================

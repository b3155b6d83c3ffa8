---------------------------- MODULE Transcoding -----------------------------
(***************************************************************************)
(* The transcoding library (gst-aml-videotranscoding/video_transcoding.c)  *)
(* in the demo that drives it                                              *)
(* (videotranscoding-demo/videotranscoding_demo.c).                        *)
(*                                                                         *)
(*   Z  main: starts the three pipelines, runs its loop, tears down; the   *)
(*      SIGINT handler tears down the same way, in the middle of main;     *)
(*   W  the library's thread (video_transcoding_workloop);                 *)
(*   F  the demuxer reads the file, V and A are its two sinks' threads,    *)
(*      which push video to the library and audio to the muxer;            *)
(*   L  the library's pipeline decodes, converts and encodes, and hands    *)
(*      the samples to the demo's callback, which pushes them to the muxer;*)
(*      amlvconv drops the frames that the lower output rate has no place  *)
(*      for;                                                               *)
(*   M  the muxer writes the file.                                         *)
(*                                                                         *)
(* GStreamer is external: a queue blocks when it is full; an appsrc in     *)
(* blocking mode too, unless its pipeline has been stopped or its end of   *)
(* stream been called; an appsink holds back its end of stream until all   *)
(* its samples were pulled; the muxer waits for data on both inputs.  Both *)
(* main loops run on the default context, whose messages are dispatched by *)
(* either of the threads that run one.  All elements can be created and    *)
(* linked, and all state changes succeed.  The library's pipeline and the  *)
(* muxer can fail; the demuxer does not, on whose bus nobody listens.      *)
(***************************************************************************)
EXTENDS Integers, Sequences, FrameRate

CONSTANTS
  Frames,      \* how many frames of video, and of audio, the file has
  Latency,     \* how many frames the codecs keep
  QueueMax,    \* buffers a queue of the demuxer takes
  SourceMax,   \* buffers an appsrc takes
  FromRate,    \* frames per second of the file, as amlvconv's input caps say
  ToRate,      \* and dst_framerate, which the appsink's caps ask for
  RoundedUp,   \* whether their quotient is rounded up
  MayFail      \* whether the library's pipeline and the muxer can fail

ASSUME TranscodingAssumption ==
  /\ Frames \in Nat \ {0} /\ Latency \in Nat
  /\ QueueMax \in Nat \ {0} /\ SourceMax \in Nat \ {0}
  /\ FromRate \in Nat /\ ToRate \in Nat
  /\ RoundedUp \in BOOLEAN /\ MayFail \in BOOLEAN

VARIABLES
  zpc,          \* Z's place
  interrupted,  \* history: the signal handler tears down
  watched,      \* main watches the muxer's bus
  lost_quit,    \* history: a quit of either loop came before its run
  wpc,          \* W's place: "none", "watch", "enter", "run" or "off"
  is_running,   \* the library's main loop is running
  freed,        \* the library's data is freed
  lib, demux, mux, \* the pipelines: "null" or "playing"
  lib_msg,      \* end of stream or an error is on the library's bus
  lib_failed,   \* history: the library's pipeline failed
  mux_msg,      \* what is on the muxer's bus: "none", "eos", "error" or "seen"
  failed,       \* history: the muxer failed
  fpos,         \* how many buffers F has read
  video_queue, audio_queue, \* the demuxer's queues
  vpc, apc,     \* the buffer that V and A are pushing, or Idle
  app_source,   \* the library's appsrc
  codecs,       \* the frames in the codecs
  out_frame_count, \* how many have come to amlvconv
  app_sink,     \* the library's appsink
  lpc,          \* the frame that L's callback is pushing, or Idle
  new_sample,   \* the demo's callback is set and connected to the appsink
  app_source_video, app_source_audio, \* the muxer's
  ended,        \* end of stream has been called on both
  video, audio  \* what was written

mainVars   == <<zpc, interrupted, watched, lost_quit>>
loopVars   == <<wpc, is_running>>
stateVars  == <<lib, demux, mux, freed>>
busVars    == <<lib_msg, lib_failed, mux_msg, failed>>
demuxVars  == <<fpos, video_queue, audio_queue, vpc, apc>>
libVars    == <<app_source, codecs, out_frame_count, app_sink, lpc>>
muxVars    == <<app_source_video, app_source_audio, ended, video, audio>>
vars == <<mainVars, loopVars, stateVars, busVars, demuxVars, libVars,
          new_sample, muxVars>>

EOS  == 0       \* buffers are numbered from 1
Idle == -1

Init ==
  /\ zpc = "init" /\ interrupted = FALSE /\ watched = FALSE /\ lost_quit = FALSE
  /\ wpc = "none" /\ is_running = FALSE /\ freed = FALSE
  /\ lib = "null" /\ demux = "null" /\ mux = "null"
  /\ lib_msg = FALSE /\ lib_failed = FALSE
  /\ mux_msg = "none" /\ failed = FALSE
  /\ fpos = 0 /\ video_queue = << >> /\ audio_queue = << >>
  /\ vpc = Idle /\ apc = Idle
  /\ app_source = << >> /\ codecs = << >> /\ app_sink = << >> /\ lpc = Idle
  /\ out_frame_count = 0 /\ new_sample = FALSE
  /\ app_source_video = << >> /\ app_source_audio = << >> /\ ended = FALSE
  /\ video = << >> /\ audio = << >>

-----------------------------------------------------------------------------
(* Z: main, and SignalHandler from "stop" on.                              *)

ZStep(from, to) == zpc = from /\ zpc' = to

\* video_transcoding_init creates the thread as its last step.
ZInit ==
  /\ ZStep("init", "start")
  /\ wpc' = "watch"
  /\ UNCHANGED <<interrupted, watched, lost_quit, is_running, stateVars,
                 busVars, demuxVars, libVars, new_sample, muxVars>>

ZStart ==
  /\ ZStep("start", "demux")
  /\ lib' = "playing"
  /\ UNCHANGED <<interrupted, watched, lost_quit, loopVars, demux, mux, freed,
                 busVars, demuxVars, libVars, new_sample, muxVars>>

ZDemux ==
  /\ ZStep("demux", "mux")
  /\ demux' = "playing"
  /\ UNCHANGED <<interrupted, watched, lost_quit, loopVars, lib, mux, freed,
                 busVars, demuxVars, libVars, new_sample, muxVars>>

ZMux ==
  /\ ZStep("mux", "callback")
  /\ mux' = "playing"
  /\ UNCHANGED <<interrupted, watched, lost_quit, loopVars, lib, demux, freed,
                 busVars, demuxVars, libVars, new_sample, muxVars>>

\* video_transcoding_setSinkCallback, after the pipelines are running: the
\* callback is set before the signal that calls it is connected.
ZCallback ==
  /\ ZStep("callback", "watch")
  /\ new_sample' = TRUE
  /\ UNCHANGED <<interrupted, watched, lost_quit, loopVars, stateVars, busVars,
                 demuxVars, libVars, muxVars>>

ZWatch ==
  /\ ZStep("watch", "enter")
  /\ watched' = TRUE
  /\ UNCHANGED <<interrupted, lost_quit, loopVars, stateVars, busVars,
                 demuxVars, libVars, new_sample, muxVars>>

ZRun ==
  /\ ZStep("enter", "run")
  /\ UNCHANGED <<interrupted, watched, lost_quit, loopVars, stateVars, busVars,
                 demuxVars, libVars, new_sample, muxVars>>

\* SIGINT, once the handle is there, between two of main's calls.  The handler
\* does again what main has done of the tearing down: stopping and telling the
\* loop to end do no harm a second time, but when the handle has been freed
\* nothing is defined any more.
Interrupt ==
  /\ ~interrupted /\ interrupted' = TRUE
  /\ zpc \notin {"init", "end"}
  /\ zpc' = CASE zpc \in {"quit", "join"} -> "quit"
              [] zpc \in {"stop_demux", "stop_mux"} -> "killed"
              [] OTHER -> "stop"
  /\ UNCHANGED <<watched, lost_quit, loopVars, stateVars, busVars, demuxVars,
                 libVars, new_sample, muxVars>>

\* video_transcoding_stop waits for L, which may be in the callback, and throws
\* away what the pipeline and its bus hold.
ZStop ==
  /\ ZStep("stop", "quit")
  /\ lpc = Idle
  /\ lib' = "null"
  /\ app_source' = << >> /\ codecs' = << >> /\ app_sink' = << >>
  /\ lib_msg' = FALSE
  /\ UNCHANGED <<interrupted, watched, lost_quit, loopVars, demux, mux, freed,
                 lib_failed, mux_msg, failed, demuxVars, out_frame_count, lpc,
                 new_sample, muxVars>>

\* Variant: the library's loop is not told to end.
ZQuitForgets ==
  /\ ZStep("quit", "join")
  /\ UNCHANGED <<interrupted, watched, lost_quit, loopVars, stateVars, busVars,
                 demuxVars, libVars, new_sample, muxVars>>

\* video_transcoding_deinit: a loop that has not begun misses it.
ZQuit ==
  /\ ZStep("quit", "join")
  /\ is_running' = FALSE
  /\ lost_quit' = (lost_quit \/ wpc \in {"watch", "enter"})
  /\ UNCHANGED <<interrupted, watched, wpc, stateVars, busVars,
                 demuxVars, libVars, new_sample, muxVars>>

ZJoin ==
  /\ ZStep("join", "stop_demux")
  /\ wpc = "off"
  /\ freed' = TRUE
  /\ UNCHANGED <<interrupted, watched, lost_quit, loopVars, lib, demux, mux,
                 busVars, demuxVars, libVars, new_sample, muxVars>>

\* The demuxer stops when V and A have come back from their pushes.
ZStopDemux ==
  /\ ZStep("stop_demux", "stop_mux")
  /\ vpc = Idle /\ apc = Idle
  /\ demux' = "null"
  /\ UNCHANGED <<interrupted, watched, lost_quit, loopVars, lib, mux, freed,
                 busVars, demuxVars, libVars, new_sample, muxVars>>

ZStopMux ==
  /\ ZStep("stop_mux", "end")
  /\ mux' = "null"
  /\ UNCHANGED <<interrupted, watched, lost_quit, loopVars, lib, demux, freed,
                 busVars, demuxVars, libVars, new_sample, muxVars>>

-----------------------------------------------------------------------------
(* W, and the messages that the default context dispatches.                *)

WWatch ==
  /\ wpc = "watch" /\ wpc' = "enter"
  /\ UNCHANGED <<mainVars, is_running, stateVars, busVars, demuxVars, libVars,
                 new_sample, muxVars>>

WRun ==
  /\ wpc = "enter" /\ wpc' = "run"
  /\ is_running' = TRUE
  /\ UNCHANGED <<mainVars, stateVars, busVars, demuxVars, libVars, new_sample,
                 muxVars>>

WReturn ==
  /\ wpc = "run" /\ ~is_running
  /\ wpc' = "off"
  /\ UNCHANGED <<mainVars, is_running, stateVars, busVars, demuxVars, libVars,
                 new_sample, muxVars>>

Dispatches == zpc = "run" \/ (wpc = "run" /\ is_running)

\* handle_message of the library ends W's loop, if it has begun, for an error
\* and for the end of stream.
LibMessage ==
  /\ Dispatches /\ lib_msg /\ wpc \in {"enter", "run", "off"}
  /\ lib_msg' = FALSE
  /\ is_running' = FALSE
  /\ UNCHANGED <<mainVars, wpc, stateVars, lib_failed, mux_msg, failed,
                 demuxVars, libVars, new_sample, muxVars>>

\* Variant: any message of the muxer ends the loop.
MuxMessageOfAnyKind ==
  /\ Dispatches /\ watched /\ zpc' = IF zpc = "run" THEN "stop" ELSE zpc
  /\ mux_msg' = IF mux_msg = "none" THEN "none" ELSE "seen"
  /\ lost_quit' = (lost_quit \/ zpc = "enter")
  /\ UNCHANGED <<interrupted, watched, loopVars, stateVars, lib_msg, lib_failed,
                 failed, demuxVars, libVars, new_sample, muxVars>>

\* handle_message of the demo ends main's loop, if it has begun.
MuxMessage ==
  /\ Dispatches /\ watched /\ mux_msg \in {"eos", "error"}
  /\ mux_msg' = "seen"
  /\ zpc' = IF zpc = "run" THEN "stop" ELSE zpc
  /\ lost_quit' = (lost_quit \/ zpc = "enter")
  /\ UNCHANGED <<interrupted, watched, loopVars, stateVars, lib_msg, lib_failed,
                 failed, demuxVars, libVars, new_sample, muxVars>>

-----------------------------------------------------------------------------
(* F, V and A: the demuxer.  Video and audio alternate in the file.        *)

FRead ==
  /\ demux = "playing" /\ fpos < 2 * Frames
  /\ fpos' = fpos + 1
  /\ IF fpos % 2 = 0
     THEN /\ Len(video_queue) < QueueMax
          /\ video_queue' = Append(video_queue, (fpos \div 2) + 1)
          /\ UNCHANGED audio_queue
     ELSE /\ Len(audio_queue) < QueueMax
          /\ audio_queue' = Append(audio_queue, (fpos \div 2) + 1)
          /\ UNCHANGED video_queue
  /\ UNCHANGED <<mainVars, loopVars, stateVars, busVars, vpc, apc, libVars,
                 new_sample, muxVars>>

\* The end of the file goes down both ways; nobody listens for A's.
FEnd ==
  /\ demux = "playing" /\ fpos = 2 * Frames
  /\ fpos' = fpos + 1
  /\ video_queue' = Append(video_queue, EOS)
  /\ UNCHANGED <<mainVars, loopVars, stateVars, busVars, audio_queue, vpc, apc,
                 libVars, new_sample, muxVars>>

\* new_sample_video takes a sample; send_eos_event is for the end.
VTake ==
  /\ demux = "playing" /\ vpc = Idle /\ video_queue # << >>
  /\ vpc' = Head(video_queue)
  /\ video_queue' = Tail(video_queue)
  /\ UNCHANGED <<mainVars, loopVars, stateVars, busVars, fpos, audio_queue, apc,
                 libVars, new_sample, muxVars>>

\* Variant: a full appsrc makes writeData drop the buffer.
VWriteDrops ==
  /\ vpc # Idle
  /\ vpc' = Idle
  /\ app_source' = IF lib = "null" \/ (vpc # EOS /\ Len(app_source) >= SourceMax)
                   THEN app_source ELSE Append(app_source, vpc)
  /\ UNCHANGED <<mainVars, loopVars, stateVars, busVars, fpos, video_queue,
                 audio_queue, apc, codecs, out_frame_count, app_sink, lpc,
                 new_sample, muxVars>>

\* video_transcoding_writeData; the end of stream does not wait for room.
VWrite ==
  /\ vpc # Idle
  /\ lib = "playing" /\ vpc # EOS => Len(app_source) < SourceMax
  /\ vpc' = Idle
  /\ app_source' = IF lib = "null" THEN app_source ELSE Append(app_source, vpc)
  /\ UNCHANGED <<mainVars, loopVars, stateVars, busVars, fpos, video_queue,
                 audio_queue, apc, codecs, out_frame_count, app_sink, lpc,
                 new_sample, muxVars>>

ATake ==
  /\ demux = "playing" /\ apc = Idle /\ audio_queue # << >>
  /\ apc' = Head(audio_queue)
  /\ audio_queue' = Tail(audio_queue)
  /\ UNCHANGED <<mainVars, loopVars, stateVars, busVars, fpos, video_queue, vpc,
                 libVars, new_sample, muxVars>>

\* new_sample_audio; after the end of stream the sample is lost.
APush ==
  /\ apc # Idle
  /\ ended \/ Len(app_source_audio) < SourceMax
  /\ apc' = Idle
  /\ app_source_audio' = IF ended THEN app_source_audio
                         ELSE Append(app_source_audio, apc)
  /\ UNCHANGED <<mainVars, loopVars, stateVars, busVars, fpos, video_queue,
                 audio_queue, vpc, libVars, new_sample, app_source_video, ended,
                 video, audio>>

-----------------------------------------------------------------------------
(* L: the library's pipeline, and the demo's callback on its thread.       *)

\* The appsink emits new-sample for each frame, and appsink_pull_data_callback
\* takes the oldest one: those that came before it was connected stay.
Emit(frame) ==
  LET sink == Append(app_sink, frame) IN
  IF new_sample THEN lpc' = Head(sink) /\ app_sink' = Tail(sink)
                ELSE app_sink' = sink /\ UNCHANGED lpc

\* amlvconv's frame count n has a place in the output rate.
Kept(n) == ToRate = 0 \/ KeptByRate(n, FromRate, ToRate, RoundedUp)

\* A frame comes to amlvconv, between the decoder and the encoder, and goes on
\* or is dropped.
Convert(frame) ==
  /\ out_frame_count' = out_frame_count + 1
  /\ IF Kept(out_frame_count + 1) THEN Emit(frame)
                                  ELSE UNCHANGED <<app_sink, lpc>>

\* A frame that comes in pushes out the one that the codecs have kept longest;
\* the end of stream pushes them all out.  What both codecs keep is taken to
\* wait before the conversion.
LCode ==
  /\ lib = "playing" /\ ~lib_failed /\ lpc = Idle /\ app_source # << >>
  /\ IF Head(app_source) # EOS
     THEN /\ app_source' = Tail(app_source)
          /\ LET in == Append(codecs, Head(app_source)) IN
             IF Len(in) > Latency
             THEN codecs' = Tail(in) /\ Convert(Head(in))
             ELSE codecs' = in /\ UNCHANGED <<out_frame_count, app_sink, lpc>>
     ELSE /\ codecs # << >> /\ codecs' = Tail(codecs) /\ Convert(Head(codecs))
          /\ UNCHANGED app_source
  /\ UNCHANGED <<mainVars, loopVars, stateVars, busVars, demuxVars, new_sample,
                 muxVars>>

\* video_transcoding_pulldata_callback.
LPush ==
  /\ lpc # Idle
  /\ Len(app_source_video) < SourceMax
  /\ lpc' = Idle
  /\ app_source_video' = Append(app_source_video, lpc)
  /\ UNCHANGED <<mainVars, loopVars, stateVars, busVars, demuxVars, app_source,
                 codecs, out_frame_count, app_sink, new_sample, app_source_audio,
                 ended, video, audio>>

\* The end of the stream has come to the appsink and every sample was pulled:
\* send_eos_event_to_app, and the message on the bus.
SendEos ==
  /\ lib = "playing" /\ lpc = Idle /\ app_sink = << >>
  /\ ended' = TRUE /\ lib_msg' = TRUE
  /\ UNCHANGED <<mainVars, loopVars, stateVars, lib_failed, mux_msg, failed,
                 demuxVars, codecs, out_frame_count, app_sink, lpc, new_sample,
                 app_source_video, app_source_audio, video, audio>>

LEnd ==
  /\ SendEos /\ ~lib_failed
  /\ app_source # << >> /\ Head(app_source) = EOS /\ codecs = << >>
  /\ app_source' = Tail(app_source)

\* An element fails, which posts an error, and hands over nothing more.
LFail ==
  /\ MayFail /\ lib = "playing" /\ ~lib_failed
  /\ lib_failed' = TRUE /\ lib_msg' = TRUE
  /\ UNCHANGED <<mainVars, loopVars, stateVars, mux_msg, failed, demuxVars,
                 libVars, new_sample, muxVars>>

\* The appsrc of a pipeline that failed gives up: it pushes an end of stream of
\* its own, which comes to the appsink if the elements let it pass.
LGiveUp == SendEos /\ lib_failed /\ ~ended /\ UNCHANGED app_source

-----------------------------------------------------------------------------
(* M: the muxer takes the earlier of the two streams' heads.               *)

Ready(q) == q # << >> \/ ended

MWrite ==
  /\ mux = "playing" /\ ~failed
  /\ Ready(app_source_video) /\ Ready(app_source_audio)
  /\ \/ /\ app_source_video # << >>
        /\ app_source_audio # << >> => Head(app_source_video) <= Head(app_source_audio)
        /\ app_source_video' = Tail(app_source_video)
        /\ video' = Append(video, Head(app_source_video))
        /\ UNCHANGED <<app_source_audio, audio>>
     \/ /\ app_source_audio # << >>
        /\ app_source_video # << >> => Head(app_source_audio) < Head(app_source_video)
        /\ app_source_audio' = Tail(app_source_audio)
        /\ audio' = Append(audio, Head(app_source_audio))
        /\ UNCHANGED <<app_source_video, video>>
  /\ UNCHANGED <<mainVars, loopVars, stateVars, busVars, demuxVars, libVars,
                 new_sample, ended>>

MEnd ==
  /\ mux = "playing" /\ mux_msg = "none" /\ ended
  /\ app_source_video = << >> /\ app_source_audio = << >>
  /\ mux_msg' = "eos" /\ failed' = failed
  /\ UNCHANGED <<mainVars, loopVars, stateVars, lib_msg, lib_failed, demuxVars,
                 libVars, new_sample, muxVars>>

MFail ==
  /\ MayFail /\ mux = "playing" /\ mux_msg = "none"
  /\ failed' = TRUE /\ mux_msg' = "error"
  /\ UNCHANGED <<mainVars, loopVars, stateVars, lib_msg, lib_failed, demuxVars,
                 libVars, new_sample, muxVars>>

-----------------------------------------------------------------------------
ZNext == \/ ZInit \/ ZStart \/ ZDemux \/ ZMux \/ ZCallback \/ ZWatch
         \/ ZRun \/ ZStop \/ ZQuit \/ ZJoin \/ ZStopDemux \/ ZStopMux
WNext == WWatch \/ WRun \/ WReturn
FNext == FRead \/ FEnd
VNext == VTake \/ VWrite
ANext == ATake \/ APush
LNext == LCode \/ LPush \/ LEnd
MNext == MWrite \/ MEnd

Alive == zpc \notin {"end", "killed"}

Next == Alive /\ (ZNext \/ Interrupt \/ WNext \/ LibMessage \/ MuxMessage
                  \/ FNext \/ VNext \/ ANext \/ LNext \/ LFail \/ LGiveUp
                  \/ MNext \/ MFail)

Spec == Init /\ [][Next]_vars

\* Every thread takes a step in the end if it can.  The user need not interrupt,
\* nothing need fail, and the end of stream of a failed pipeline need not arrive.
Fairness ==
  /\ WF_vars(Alive /\ ZNext) /\ WF_vars(Alive /\ WNext)
  /\ WF_vars(Alive /\ LibMessage) /\ WF_vars(Alive /\ MuxMessage)
  /\ WF_vars(Alive /\ FNext) /\ WF_vars(Alive /\ VNext) /\ WF_vars(Alive /\ ANext)
  /\ WF_vars(Alive /\ LNext) /\ WF_vars(Alive /\ MNext)

FairSpec == Spec /\ Fairness

-----------------------------------------------------------------------------
Undisturbed == ~interrupted /\ ~lib_failed /\ ~failed

\* The demuxer's thread never writes to a library that is freed, although main
\* frees it before it stops the demuxer, unless the user interrupts or the
\* library's pipeline or the muxer fails.
NoUseAfterFree == freed /\ Undisturbed => vpc = Idle

Increasing(q) == \A i, j \in 1 .. Len(q) : i < j => q[i] < q[j]

\* Video is written in its order and without a gap: of the first frames of the
\* file all that have a place in the output rate, and no other.  Nothing is
\* missing when the demo ends undisturbed, however the blocking pushes, the end
\* of stream and the two loops interleave.
VideoIsComplete ==
  /\ Increasing(video)
  /\ \E n \in 0 .. Frames :
       /\ {video[i] : i \in 1 .. Len(video)} = {f \in 1 .. n : Kept(f)}
       /\ zpc = "end" /\ Undisturbed => n = Frames

\* A sample came before the callback was connected: it is never pulled, and the
\* appsink holds back the end of stream for it.
Early == app_sink # << >> /\ ~new_sample

\* How many frames of the file come to amlvconv for one that goes on.
Gap == IF 0 < ToRate /\ ToRate < FromRate
       THEN (FromRate + ToRate - 1) \div ToRate ELSE 1

\* A queue and an appsrc take the audio of the frames that the codecs keep and
\* amlvconv drops, or the reader waits for room for audio, the muxer for video,
\* and the codecs for the reader.
Roomy == Latency + Gap - 1 <= QueueMax + SourceMax

\* The demo ends by itself, once the file is read: no thread waits for ever for
\* room, for data, for a message or for another thread.  This fails only if the
\* user interrupts it or the muxer fails (the threads it waits for may be
\* blocked in a push then), if the library's pipeline fails (its error ends W's
\* loop and not main's, which waits for the muxer), if a loop is told to end
\* before it begins, or if a sample comes too early.
Finishes == Roomy => <>(zpc = "end" \/ ~Undisturbed \/ lost_quit \/ Early)
=============================================================================

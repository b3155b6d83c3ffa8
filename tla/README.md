# Formal models of the Amlogic GStreamer utilities

TLA+ models, TLC runs and TLAPS proofs for the code in `src/`: GStreamer
elements that run a neural network on camera frames and draw the result over
them (`amlnn`, `nnoverlay`), a hardware format converter (`amlvconv`), and the
libraries they stand on.

## 1. The system

```
  camera -> [amlvconv] ->  amlnn  -------- frames --------> nnoverlay -> sink
                            |  T: streaming thread            |  D: streaming thread
                            |  N: nn thread                   |  P: overlay thread
                            |  P: post-process thread --event-> E: event handler
                            |                                 |  L: result timer (main loop)
                            +<------ "overlay stops" ---------+
```

| Component | Source | State | Operations | Hard parts |
|---|---|---|---|---|
| amlnn | `gst-plugin-nn/src/gstamlnn.c` | ring of 3 input buffers (`prepare_idx`, `next_nn_idx`, `cur_nn_idx`), two threads with `m_ready`/`m_running`/`m_mutex`, the open model, `pr_ready` | `transform_ip`, `amlnn_process`, `amlnn_post_process`, `open`, `close`, `set_property`, `idle_close_model`, upstream event | three threads and the main loop share the ring; signals are dropped (`trylock`); a model is switched while it is in use; stop and start again |
| nnoverlay | `gst-plugin-overlay/src/gstamlnnoverlay.c` | stored result and its timer, two render buffers and their dirty areas, `m_face_absence_cnt`, `enabled` | `event`, `timeout_nn_release_result`, `overlay_process`, `transform_ip`, `set_property`, `stop`, `finalize` | the timer races with the next result; drawing overlaps with blending; a result may find the buffers full |
| base overlay | `gst-plugin-overlay/src/gstamlbaseoverlay.c` | DMA buffers `m_input`, `m_output`, `m_render`, engine handle, overlay thread | `start`, `stop`, `before_transform`, `transform_ip`, `set_caps` | buffers are freed under a running thread; a restart starts a second one |
| amlvconv | `gst-plugin-conv/src/gstamlvconv.c` | frame rates of both sides, frame counter, staging buffer, rotation | `transform_caps`, `set_info`, `prepare_output_buffer`, `transform_frame` | which frames are dropped, over a renegotiation too; failures half-way; sizes after renegotiation |
| gfx2d | `gst-aml-gfx2d/*.c` | none but the GE2D handle | clip, fill, draw, blend, blit, dirty area | mixed signed and unsigned rectangle arithmetic |
| GStreamer DMA allocator | `gst-aml-dma-allocator/gstamldmaallocator.c` | fd and mapping of each memory | obtain, alloc, free, map | ownership of the fd, failure half-way |
| dma-allocator | `dma-allocator/dma_allocator.c` | device fd | open, alloc, sync, close | error paths |
| detect library | `detect-library/detect.cpp` | a status per network, one number of results | set model, input, inference, result, release | two threads of amlnn drive one network; statuses are set but not checked |
| detect sample | `detect-sample/main.cpp` | none | one sequential run | none |
| jpeg decoder | `gst-jpeg-swdec/jpeg.c` | decompressor and buffers | create, decode, release | error paths |
| transcoding library | `gst-aml-videotranscoding/video_transcoding.c` | pipeline, loop thread, callbacks | init, start, write, eos, stop, deinit | loop thread against deinit; bus messages, errors among them; frames that amlvconv drops |
| transcoding demo | `videotranscoding-demo/videotranscoding_demo.c` | two pipelines | main, callbacks, signal handler | signal handler against main; ends of two streams |
| demo post-processing | `nndemo-library/src/demo/verisilicon/` | scratch arrays and counters, `g_detect_number` shared with the detect library | decode, suppress within a scale, suppress between scales, report | three threads count what one gathers; `qsort` and ties; a ladder of cases by the valid scales, written anew for each network |

Plugin registration (`gstamloverlay.c`), build files, network data and sample
images hold no logic and are not modelled.

What makes the two big elements correct: no buffer is used by two hardware users
at once or freed while one uses it; what the network sees and what the frames
show is a complete image, in order; nothing stalls for ever, although signals are
dropped and results refused; stop always returns and leaves nothing behind.
`PROJECT.json` lists the hazards at their lines.

## 2. The modules

| Module | Models |
|---|---|
| `NNRing` | the input-buffer ring of amlnn: T, N, start/stop and the mutex of the model switch |
| `AmlNN` | the whole element: the ring (`NNRing`, extended), loading of models, buffer memory, the post-process thread, start/stop, the model switch |
| `OverlayRing` | the render buffers of nnoverlay: overlay thread and streaming thread |
| `NNOverlay` | the element while it plays: results, timer, overlay thread, display, `enabled` (`Ring == INSTANCE OverlayRing`) |
| `Gfx2d` | clip, fill, border and dirty area, as operators on sets of pixels |
| `OverlayDraw` | OverlayRing (extended) with the pixels of the buffers and of the frame, drawn with `Gfx2d` |
| `OverlayLife` | nnoverlay and its base class from start to finalize: buffers, references, overlay threads (index moves from `OverlayRing`) |
| `DetectLib` | the detection library under amlnn's threads, or under detect-sample |
| `Suppress` | suppression within and between scales, choice of scales, the parameters of six networks; operators |
| `PostProcess` | calls of the post-processing (extends `Suppress`): yolo's three threads, the report, the shared result number |
| `DmaAllocator` | the DMA allocators of a process, their memories and descriptors: steps as operators |
| `FrameRate` | which frames the lower of two rates keeps; one operator |
| `VConv` | amlvconv next to another element, on `DmaAllocator` (extended), with `FrameRate` |
| `Transcoding` | the transcoding library in the demo that drives it; amlvconv's dropping of frames by `FrameRate` |
| `NNOverlayProofs`, `OverlayLifeProofs`, `DetectLibProofs`, `PostProcessProofs`, `VConvProofs`, `TranscodingProofs` | theorems about the module of that name |
| `AmlNNProofs` | theorems about `AmlNN` and the ring that it extends, `NNRing` |
| `OverlayDrawProofs` | theorems about `OverlayDraw` and the two modules it is built on, `OverlayRing` and `Gfx2d` |
| `MCAmlNN`, `MCOverlayDraw`, `MCPostProcess`, `MCVConv` | symmetries and small inputs for TLC |

**Steps.** A step is the code between two points where another thread can see or
change what it uses. A `buffer_lock` or `surface_lock` section is one step, and
what happens between two such sections (a conversion, an inference, a drawing,
a blend) lies between two steps, so that two of them can overlap. A thread's
place is a program counter (`tpc`, `npc`, `ppc`, `rpc`, ...). `m_mutex` of a
worker thread is a variable with its holder, because others `trylock` it;
`g_cond_wait` gives it up (`NSleep`) and takes it again (`NWake`).

**NNRing to code.** `Refuse`/`Accept`, `Convert`/`ConvertFail`, `Publish` and
`Signal` are `gst_aml_nn_transform_ip`; `NContinue` to `NTake` and `NNotify` are
the loop of `amlnn_process`; `NClaim`, `NMapFail`, `NInfer`, `NRelease` are
`detection_process` (`NMapFail` is its two early returns: any buffer may fail to be mapped,
and any inference may fail, after which `cur_nn_idx` names the buffer until N claims again); `Open`, `Stop`, `WakeToStop`, `Join` are open and close;
`IdleLock`/`IdleUnlock` are what the ring sees of `idle_close_model`.

**AmlNN to code.** Adds `detection_init` (`TBegin`, `TOpenModel`, `TOpenFails`,
`TAllocate`) before T's choice of a buffer; `amlnn_post_process` (`PContinue` to
`PPush`); the two halves of `close_model` (`FreeBuffers`, `ReleaseModel`) as C and
as I run them; `set_property` (`ASetModel`); the overlay's change of state
(`COverlayStops`), which comes before amlnn's own, as GStreamer stops a pipeline
from the sink. Content is abstracted to which model a buffer was allocated for
and whether a frame was converted into it since.

**NNOverlay to code.** `ERemoveTimer`, `EReplace`, `EClear`, `ESignal` are the
event handler with its three unlocked gaps; `LFire` is the main loop calling the
callback, `LRelease` the callback once it has the lock; `PWake` to `PPublish` are
`overlay_process`; `DTake`/`DRelease` are `transform_ip`. A result is its number
in the order of arrival, a drawing is the result it shows (0: none).

**OverlayDraw to code.** A render buffer is the set of addresses that are painted,
so that a loop that runs past a row or wraps shows in the next one. `GWipe` fills
the old dirty area with nothing, `GBorder` extends the dirty area by a rectangle
(`gfx_update_dirty_area`, which clips it in place) and draws its border
(`gfx_drawrect_software`); `FBlend` blends the dirty area into the frame. Rectangles
are signed and loop bounds unsigned with width `UMod`. `picture` and `crooked` are
history: what should be seen, and the buffers a negative size was drawn in.

**OverlayLife to code.** `AStart`, `AStop`, `AFinalize`/`ASignal`/`AJoin` are
`gst_aml_overlay_start`, `_stop` and nnoverlay's `finalize`; `DBefore` is
`before_transform` with each allocation that may fail, `DTake`/`DRelease`
`transform_ip`, `EEvent` an event's signal; `PLoop` to `PPublish` the overlay thread.
`held` is a history of references, to be compared with the pointers.

**DetectLib to code.** One network's entry: `SetModel`, `SetParam`, `SetInput`,
`ReleaseModel` are the library's functions, and the
`T`, `A`, `N`, `R`, `C` actions are amlnn's threads calling them, whose places lie
where another thread can come between (the library has no lock); the `S` actions
are `run_detect_model` of detect-sample. N wakes R in every round (`NWake`), also in one that
could not map its buffer (`NMapFails`), so R may store its status before any inference.
`ASetNothing` is a setting that `set_property` drops. `early`, `refused`, `wanted` and
`ignored` are history. The driver library is external.

**PostProcess to code.** `YBegin`, `YCell(i)`, `YJoin`, `YNms` are yolo's
multi-threaded post-processing, one step per cell and thread; `FBegin`, `FWithin`,
`FAcross` the other networks; both end in `Report`, one candidate a step, because
`SetNumber` (`det_set_param`) may come between. The decoded boxes are inputs: the
decoding's arithmetic is not modelled, whatever boxes it yields. A `qsort` gives
any order of equal candidates. The nested loops of the suppressions are folds, one
operator per loop: `Compare` in `SuppressAfter` in `InOrder`, `WorseOfPair` in
`AgainstAll` in `Between` in `Across`. Each network has the overlap of its own source:
retina, person and aiface take the stored corner as a corner, rfb, plate and yolo take it for
the centre (`CentreOverlap`), whatever the box holds. `BoxWithin` and `BoxAcross` name the
two that the properties judge a network by: rfb suppresses between scales by retina's.

**DmaAllocator and VConv to code.** `OpenHeap`, `Register` and `Find` are the three
parts of `gst_amldma_allocator_obtain`; `Allocate` and `Free`/`FreeAgain` make and free a memory,
whose descriptor `gst_amldma_alloc_free` and GStreamer's dma-buf memory both close.
The kernel gives out the lowest free number. VConv's `T` actions are
`transform_caps`/`set_info`, `prepare_output_buffer` and `transform_frame` with
every early return (a memory that cannot be mapped, an input without descriptor); `D` frees frames downstream in its own thread.

**Transcoding to code.** `W` is `video_transcoding_workloop`; `Z` is main with the
library's init, start, stop and deinit in it; `V`, `A`, `L` are the callbacks
(appsink of the demuxer, appsink of the library); `LibMessage` and `MuxMessage` are
the two bus watches, which either main loop may dispatch, for the end of stream and for an
error (`LFail`, `MFail`). `LCode` is one frame through decoder, amlvconv and encoder: the
codecs are external, `Convert` drops the frames that the output rate has no place for.
`Interrupt` is the signal handler at any place of main, in its teardown too. Queues, appsrc, appsink
and muxer are GStreamer's and external: bounded queues that block.

## 3. The runs

Passing runs:

| Run | Bounds | Shows |
|---|---|---|
| `ring` | 3 buffers, map failures, switches | mutual exclusion of GE2D and network; T fills no published buffer and publishes no buffer in use; the network keeps running |
| `nn_play` | 2 buffers, 2 sessions, one model | map and inference failures of any buffer; refinement of `NNRing`; a stop frees nothing in use and always returns; first session: results keep reaching the overlay unless a buffer stays claimed, only loaded models and converted frames |
| `nn_switch` | 2 buffers, 2 models (symmetric), 1 session, 1 switch, failures to open and allocate | nothing left after close, however far `detection_init` got |
| `overlay_play` | 2 buffers, 2 results, toggles, map failures | refinement of `OverlayRing`; newest shown; never a step back; every result has a timer; the frames clear in the end |
| `overlay_draw` | 2 buffers of 9 x 6 pixels, thickness 2, unsigned range 4096, results of up to three rectangles: inside, over the edges, outside, too small, negative | no buffer is drawn in while it is blended; wiping the dirty area leaves nothing old; a frame shows one whole result; the engine's border equals the loops' |
| `overlay_life` | 2 buffers, 2 starts, a failure at every allocation | references neither lost nor kept; the first play draws and blends only in what is there; finalize reaches and joins the thread |
| `postprocess` | six networks and yolo with 2 classes, 2 calls, number 1 or 2, three or four scales of up to three boxes | room for every box; suppression leaves a kernel; no face twice from neighbouring scales; the result is cut at the number |
| `detect` | numbers 1 to 3, 2 failures, 2 frames, 2 settings, both kinds of hardware, element and sample | outputs are set before any inference, and element and library agree on the number, but for the exceptions below; only failures leak |
| `convert` | 3 allocators, 3 memories, 7 descriptors, 1 failure, 4 frames, 1 negotiation, 1 session of each element | own heap; own descriptors in every blit; nothing left open |
| `convert_rate` | 2 allocators, 2 memories, no failure, 7 frames, 2 negotiations | the frames kept follow the rate, over a renegotiation and with a quotient rounded up |
| `transcode` | 5 frames at rate 2 for an output at rate 1, 1 frame in the codecs, queues of 1 | the written video has just the frames the rate keeps; nothing writes to the freed library; the demo ends |

*Bounds.* Nothing but the bounds named here is cut. Three buffers are the code's
number in amlnn and two in nnoverlay; `nn_play` and `nn_switch` use two to keep the
liveness checks short: the ring's own properties are checked with three, and the
element's safety properties are proved for every number of buffers, or for two and
three where a fourth would break them. Two sessions are needed for what a stop
leaves behind; a third starts as the second does.
One switch with a whole session around it meets every stage of the threads. Two
results are a stored one and the one that replaces it. The 9 x 6 image has rows
that are not a whole number of padded units, and each kind of rectangle; what is
shown of pixels is proved for every size. Two calls of the post-processing are what
a counter left behind needs, and three boxes a chain of nearness; the code's 80
classes are treated one by one, and two of them let a box keep one and lose the other. In `detect`, two
settings can overtake one another, or one is dropped before another is passed on, and two
frames set an input while R is at work for the round before. In `convert` a third memory can take a number that the second
close of another is about to hit. Seven frames in `convert_rate` are more than a cycle of any
of its rates on either side of the second negotiation; it needs no more memories, because the
rate does not look at them.
In `transcode` a queue of one is full as soon as it is used, and five frames are
more than the codecs, amlvconv's gap and one queue hold; the bounds fill `Roomy` to its limit, and with
one frame more in the codecs the demo does wait for ever.

*Deadlock.* Where a cfg disables the check the system really stops: amlnn after
`MaxSessions` sessions, a finalized overlay, the last call of the post-processing,
the end of detect-sample or of an element, a killed process, the end of the demo.

*Fairness.* Every thread that can step does so (weak fairness per thread): the
kernel schedules them. The mutexes need no more, except in `nn_v_switch`, which
grants every waiter its lock (`LocksAreFair`) so that its counterexample is not
one of starvation. `BusySpec` adds that frames keep coming and that some frame can
be converted, `ChattySpec` that amlnn keeps sending events; the properties that
use them speak of an element that is fed. Nothing obliges the application to
start, stop or switch. In `overlay_play` the timers are fair: five seconds end.
`OverlayLife` assumes it of its overlay threads and of finalize once called, and
`Transcoding` of every thread and of the delivery of messages; nobody has to send
a frame or an event there, to interrupt the demo, or to make the muxer or the library's pipeline
fail, and the end of stream of a failed pipeline (`LGiveUp`) need not come.

*Exceptions stated in the properties.* Some promises hold only with a
restriction, which the property names because the code is the reason for it:

- `NNKeepsRunning` and `ResultsReachOverlay` except a buffer that could not be mapped or
  inferred on (`LeftClaimed`): `cur_nn_idx` keeps naming it, and T may then refuse every
  further frame.
- `NoBufferFreedInUse` is about the close of a stop (`CFree`). A switch of the model
  (`IFree`, `gstamlnn.c:361`) waits for neither thread and does free a buffer in use.
- `UsesLoadedModel`, `InfersOnConvertedFrame`, `ResultsReachOverlay` are about the
  first session: close leaves both `m_ready` TRUE (lines 458 and 469), the indices
  where they are, and `pr_ready` FALSE (line 759).
- `ConvertsIntoMemory` and the other promises of `nn_play` are about an element whose
  model opens and whose buffers can be allocated, and which is not switched: `gst_aml_nn_transform_ip` ignores
  the result of `detection_init` (line 925) and goes on to the ring without memory.
- `NothingLeftAfterClose` is about an element whose model was not switched: a frame
  between `close_model` and `model = new_model` loads the old model again.
- `ShowsNewest` and `NeverStepsBack` need exactly two render buffers; with
  more, D may move `render_idx` while P draws, as in amlnn.
- `ShowsItsResult` and `FrameShowsOneResult` except buffers in which a rectangle of
  negative size was drawn (`crooked`). Such a size does not come from the networks but from
  the library: `detect.cpp:696` and `:734` clamp left to at least 2 and right to at most the
  width less 2, each for itself, so a box beyond an edge gets its sides swapped.
- `HoldsWhatItPointsTo` is about frames in user memory: the input memory of a frame
  in DMA memory is unreffed twice (`gstamlbaseoverlay.c:354`).
- `FirstPlayInPlace` is about the first start: stop frees the render buffers while
  the overlay thread lives on (`gstamlbaseoverlay.c:253`).
- `NoThreadLeft` and `FinalizeReturns` are about one overlay thread: a restart creates
  a second one and forgets the first (`gstamlbaseoverlay.c:470`).
- `LeavesKernel` leaves out aiface, whose merging of equal candidates changes a box
  after others were compared with it; `ReportedOnce` is about neighbouring scales,
  the only ones the code compares.
- `CutAtTheNumber` allows for the numbers set during the call. `AgreeOnTheNumber` excepts,
  as to what the application asked for, a number set before the model was open
  (`gstamlnn.c:399` drops it) and, altogether, one set during `detection_init`.
- `OutputsSetBeforeInference` excepts a refused input and a round of N that woke R without
  an inference before the outputs were first set (`gstamlnn.c:601` and `:689`): R's
  `NETWORK_PROCESSING` (`detect.cpp:1237`) may then come between N's input and its output,
  which does nothing, and the inference runs without outputs.
- `ObtainsItsHeap` excepts an element that was overtaken between registration and
  lookup; the promises of `convert` end when a second close has hit another's file
  (`gstamldmaallocator.c:153`) or a rate of zero has killed the process by a division
  (`gstamlvconv.c:406`). `KeepsTheRate` is about whole rates and an output that is not
  faster than the input, and allows for one frame too few: with a quotient that is
  rounded up, 25 to 15 keeps 2 of the first 5 frames and 3 of every 5 after them.
- `NoUseAfterFree` and the completeness at the end (`VideoIsComplete`) are about a demo that
  is not interrupted and in which neither the library's pipeline nor the muxer fails: main's
  own teardown frees the library before it stops the thread that writes to it
  (`videotranscoding_demo.c:525`).
- `Finishes` is about queues with room for the audio of the frames that the codecs keep and
  amlvconv drops (`Roomy`), and excepts an interrupt, a failing muxer, an error of the library's
  pipeline, whose handler quits the library's loop and not main's
  (`video_transcoding.c:266`), a loop told to quit before it runs (`:244`) and a sample
  before the callback is connected (`:388`).

One run finds a violation, a finding in `PROJECT.json`: `nn_v_switch`, in which
`idle_close_model` returns with the mutex held; close hangs and the switch is lost.

*Other places where the models leave what one would expect.* They have no run of
their own, because no line of the repository promises otherwise, or because a
property above names them as its exception:

- T publishes the shared `prepare_idx`, which N may have moved since T chose: what N
  takes next may not be the newest frame (`gstamlnn.c:1091`).
- After a failed map or inference `cur_nn_idx` keeps naming a buffer nobody uses (`gstamlnn.c:601`, `:633`).
- A model switch frees input buffers under T's conversion (`gstamlnn.c:361`).
- After a restart of amlnn `pr_ready` is never set: no result is pushed (`gstamlnn.c:759`).
- A timer callback that waits for the lock drops the result that replaced its own
  (`gstamlnnoverlay.c:371`), and a timeout does not wake the overlay thread: the
  rectangles stay until the next event (`:376`).
- Each memory's descriptor is closed twice (`gstamldmaallocator.c:153`).
- A failed `det_set_model` gives back neither the driver library nor buffers
  (`detect.cpp:367`).
- A rectangle of negative size passes the guard against too small ones, which compares it with
  an unsigned thickness, and its loops run over wrapped bounds (`gfx_2d.c:292`).
- rfb and plate store the corner of a box, but their overlap takes what is stored for the
  centre (`model_rfb_face_detect.c:100`, `traffic_postprocess.cpp:122`).
- When the number of results is lowered between the element's request and the report, the
  entries above it are read unwritten; and for faces `result_name` is never written
  (`detect.cpp:720`), which the element reads (`gstamlnn.c:830`).
- The end of the video ends the audio too, and what is left of it is lost
  (`videotranscoding_demo.c:262`).
- An interrupt during main's own teardown works on a handle that is freed and not cleared
  (`videotranscoding_demo.c:134`).
- The plate network has 4608 candidates on its finest scale and looks at 4508 of them
  when all scales are valid (`traffic_postprocess.cpp:400`).

## 4. The proofs

All theorems are about the specification without fairness, for every value of the
constants that the named assumptions admit.

- **NNRing** (in `AmlNNProofs`)**, any number of buffers >= 2.** `NoSharedBuffer` is not inductive.
  `IInv` adds that N has announced (`cur_nn_idx`) what it reads, that T's buffer is
  neither published nor announced, and that nothing is published before
  `prepare_idx` has left -1. N can only announce what is published, and T chooses
  only what is neither: each action keeps this, although N moves the shared
  `prepare_idx` under T.
- **NeverPublishesBufferInUse, >= 3 buffers.** `KInv` places `prepare_idx`: at most
  two places past `next_nn_idx`, and one only while N holds an older buffer. The
  argument needs three different places, and fails for two.
- **AmlNN implements NNRing.** AmlNN has the variables of the ring and its own, and
  takes some of the ring's steps as parts of larger ones. Each action is a ring step or
  leaves the ring's variables alone; `ElementExcludes` then lifts the exclusion. The proof
  holds for all models, failures, sessions and switches, where TLC has one model and no
  switch. In the same way `CloseFreesUnusedBuffers` needs nothing but the places: at a stop
  both threads are gone before `CFree`, whatever was switched.
- **AmlNN without a switch of models, any ring and any number of sessions.**
  `Unswitched` gives the place of every thread by the place of the element (`Places`)
  and says that what is held belongs to the open model (`Belongings`): so close leaves nothing
  (`NothingLeftAfterClose`). If `detection_init` does not fail
  either, `Equipped` says what T finds when it comes to the ring (`ConvertsIntoMemory`)
  and `Working`, for the first session, that whatever sets N or P to work comes after
  the loading of the model (`UsesLoadedModel`).
- **InfersOnConvertedFrame, two or three buffers.** `publish` takes the shared
  `prepare_idx`, which N may have moved on since T chose its buffer. `Converted` says
  where it can then be: with N's buffer, the published one and T's own, the move ends
  on one of the first two, which are converted. With four buffers it is false: TLC
  finds the fourth published before anything was converted into it.
- **OverlayRing** (in `OverlayDrawProofs`)**.** Exclusion for any number of buffers, like
  NNRing. For two: while P draws, D can only announce the published buffer and so never moves
  `render_idx`; hence what is published is what was drawn (`PublishesDrawing`), and
  it is the newest (`NewestIsShown`).
- **NNOverlay.** Refinement and lifting as above. `TimerIsThere` for any number of
  results. `FramesNeverStepBack`: the stored result is always the last one sent,
  so what P copies is at least as new as all that is drawn; `OInv` carries this from
  the hand to the drawing, to the published buffer, to the frame.
- **Gfx2d** (there too)**, any size of buffer and thickness.** `BorderInside`: all four
  loops of a border write only pixels that filling the rectangle would. It rests on the guard, which makes the inner bounds not wrap, for sizes that are not negative.
  `DirtyAreaCovers`: a dirty area after an update covers the old one and what
  filling the new rectangle writes, and stays within the buffer.
  `EngineAlike`: for every proper rectangle the two fills of the engine's border write
  what the four loops write, and its one fill what the loops fill, also where clipping
  left less than two borders. It needs `Height * Pitch <= UMod`: the loops compute
  addresses in unsigned ints, which tell the pixels apart only below that bound.
- **OverlayDraw.** `DrawImplementsRing`: each step is a step of OverlayRing or leaves
  its variables alone, which brings exclusion in. `DInv` then says of every buffer:
  its dirty area lies in the buffer and covers its pixels, and its pixels are the
  borders drawn so far. A wipe of the dirty area hence leaves nothing
  (`BuffersShowTheirResult`), and a blend of it takes everything
  (`FramesShowOneResult`), for any drawings. `EngineDrawsTheSame`
  puts `EngineAlike` to the rectangles a run draws.
- **OverlayLife, any number of buffers and starts.** `HoldsJustThat`: `Holdings` adds
  that a stopped element points to nothing and that `m_input` is foreign only after a
  frame in DMA memory. `FinalizeJoins`: threads are numbered and the last is the one
  that is joined; `Numbering` counts them against the starts, because only a frame
  that finds no output buffer creates one and only stop takes the output buffer away.
  `FirstPlayRight`, for two buffers: in the first play there is one overlay thread,
  created when all buffers were there (`OneThread`), and while it draws D can only have
  what was published last (`DrawsAside`), so what is shown was drawn (`ShownIsDrawn`);
  `Untouched` says that nothing has moved before the first start.
- **DetectLib, any numbers of results, failures, frames and settings.** `Places` says
  that whoever uses the model is between its opening and its release. From it:
  `Balance` counts what is held with and without a model; `Outputs` says that, but for the
  two exceptions, whatever can overwrite the status between N's two calls comes after an
  inference with its outputs set; `Agreement`
  says what T and A carry on their way to `det_set_param`.
- **PostProcess, any boxes, scales of any length, any numbers of classes, calls and
  results, and every order that `qsort` gives to equal candidates.** A fold of the
  community modules is a function over sets of places, given by `CHOOSE`. `FoldExists`
  builds one, and `FoldSteps` shows that it has a run: the values after 0, 1, ..., n
  elements, each the loop's step from the one before. What the first has and each step
  keeps, the last has (`UpTo`, from the well-foundedness of `<` on `Nat`: a set of
  numbers with 0 and, with each number, the next one).
  - `KernelIsLeft`. The inner loop of `do_nms_sort` is a `Row`: of those after place i
    the near ones are cleared, and nothing else changes. The outer loop takes
    `Turns`: after i of them no two candidates of the first i places that are left are
    near each other or near one behind, and all that went did so for one that was left
    then. As the order is best first, and what has had its turn is never cleared again,
    that one is at least as probable and is left at the end.
  - `NothingReportedTwice`. A comparison of two scales clears and never restores, so a
    pair that is apart stays so (`StillApart`), and the loops reach every pair
    (`NeighboursAreApart`). What is cleared from one scale against the next may have been
    the reason for clearing something before; that does not matter here. The theorem
    needs one fact of each network, `NetworksAre`: the suppression looks at all that is
    reported.
  - `RoomSuffices`. `Counting`: a thread's counter is the number of boxes in its part
    with a `prob_obj`. Gathering finds just these (`GatheredIs`), in whatever order the
    threads counted.
  - `ResultIsCut`. `Reporting`: all that comes before the place of the report and was to be
    reported has been, or the result is as long as some number was during the call.

  TLC finds `IInv` to hold on the instance of `postprocess`.
- **VConv, any rates, frames, heaps and buffers.** `RateIsKept`: a frame is kept when a
  rounded quotient of the running frame count grows. The invariant `RInv` is linear: the
  frames kept, times the source's rate, plus the rest of that division make what the
  frames seen add up to, and the rest never exceeds the source's rate; where exact
  division leaves nothing, a quotient that is rounded up leaves almost the whole divisor, and
  the rest is counted as such. `IInv`
  counts: an allocator has a reference for each memory of its, for the registry and for
  each element that holds it (`References`: `Held`, `Used`); numbers and files match
  both ways until a second close hits another's file (`Files`, `hit`); whose each
  memory is, is said by `Hands`. A number is always free because there is one for each
  allocator and memory. So an element that nobody overtook obtains its own heap
  (`OwnHeapObtained`), the engine gets the memories' own descriptors
  (`OwnBuffersBlitted`), and nothing but the registered heap stays open (`NothingLeft`).
- **Transcoding, files of any length, any rates, queues of any size, any latency of the codecs.**
  `FreedAfterUse`: undisturbed, main frees the library only after the muxer has seen the end
  of stream, and that is the last V writes (`Teardown`, `Ended`).
  `VideoArrives`: above amlvconv, what is queued and what was read are one stretch of the
  stream, until the library stops or fails (`Upstream`, by `FollowsAppend` and
  `FollowsTail`). Below it, what was written and what is on its way are stretches of the kept
  frames that follow each other (`Downstream`): each holds, in order, all frames between its
  two ends that the rate keeps. A frame that moves on, and one that is dropped, move an end
  (`StretchMoves`, `StretchNext`); a stage ends only when its source has ended and its queue
  is empty (`Ended`). Nothing is asked of `Kept`: it could be any choice of frames.

The assumptions are the named `ASSUME`s of the modules (at least two buffers, numbers
that are numbers, a file number for each allocator and memory, rates of two natural
numbers, as many scales as a network has); a theorem that needs more has it in its own `ASSUME`: exactly two buffers (or
two or three), as the sources have, or a render buffer that an unsigned int can count.

Only model-checked:

- liveness (`NNKeepsRunning`, `StopCompletes`, `ResultsReachOverlay`, `ClearsInTheEnd`,
  `FinalizeReturns`, `Finishes`): the prover has no fairness and no ENABLED;
- the violation of `nn_v_switch`, which is a counterexample.

Every other property of the passing runs is a theorem. The library's theorems of
induction take an operator, which the provers here cannot instantiate; where a proof
needs induction it is done by a set of numbers and its least element, as above.

## 5. Not modelled

- amlnn: the disabled model (`DET_BUTT`), a failing `det_release_model`, caps, and the
  scaling of results (`max-detect-num` is in `DetectLib`);
- overlays: text and landmarks, colours, caps, and the sizes of buffers over
  renegotiation (`gstamlbaseoverlay.c:399`);
- amlvconv: inputs of several planes, the rotation property, formats and sizes;
- gfx2d: the command structures of GE2D, formats, scaling;
- the detect library: queries (`det_get_param`, `det_get_model_size`), refused
  arguments, the layout of results;
- post-processing: floating-point decoding of network outputs, pose, text detection,
  centerface, attributes;
- transcoding: choice and linking of codec elements, parsing of the parameter file;
- the jpeg decoder, one sequential chain of calls around libjpeg that nothing here
  uses; image content, ioctl and driver internals, which are outside TLC's reach;
- plugin registration, build files, model data and sample inputs: no program logic.

## 6. Plan

Done: all modules of section 2; proofs for every safety property of the passing runs.
Left, most important first:

1. amlnn's pushes and nnoverlay's results against an abstract mailbox, by refinement.
2. Sizes of the staging and render buffers over a renegotiation, for the base overlay
   and amlvconv together.
3. The single-threaded variants of yolo's post-processing.
4. The error paths of the jpeg decoder.

------------------------------- MODULE VConv --------------------------------
(***************************************************************************)
(* The amlvconv element (gst-plugin-conv/src/gstamlvconv.c) on the shared  *)
(* DMA allocator, next to another element of the process that obtains one  *)
(* for a heap of its own.                                                  *)
(*                                                                         *)
(*   C  starts and stops the converter (open, close),                      *)
(*   T  its streaming thread: negotiates, then per frame allocates the     *)
(*      output (prepare_output_buffer) and converts or drops the frame     *)
(*      (transform_frame),                                                 *)
(*   D  downstream frees the frames it was sent, in a thread of its own,   *)
(*   O  the other element obtains an allocator and gives it back.          *)
(*                                                                         *)
(* Not modelled: frames whose input has several planes, sizes, and what    *)
(* the engine computes.  The counter of frames does not wrap.              *)
(***************************************************************************)
EXTENDS DmaAllocator, FrameRate

CONSTANTS
  Rates,         \* the frame rates of caps: <<numerator, denominator>>
  MaxFailures,   \* bound: how many heaps and buffers cannot be had or mapped
  MaxFrames,     \* bound: how many frames are counted
  MaxCaps,       \* bound: how often caps are negotiated
  MaxSessions    \* bound: how often each element is started

ASSUME RatesAssumption == Rates \subseteq Nat \X Nat

Elements == {"conv", "other"}

\* The names that gst_aml_vconv_open and the other elements obtain.
HeapName == [conv |-> "heap-codecmm", other |-> "heap-gfx"]

VARIABLES
  pc,          \* each element's place in its life
  made,        \* the allocator each element is registering, or Nobody
  dmabuf_alloc,\* the allocator each element uses, or Nobody
  overtaken,   \* history: another one registered before it had looked, or its
               \*   heap could not be opened
  sessions,    \* how often each was started
  failures,    \* how many heaps and buffers could not be had or mapped
  gfx,         \* handles of the engine that are open
  lost_gfx,    \* history: handles lost by a start that failed
  tpc,         \* T's place: "idle", "count", "drop", "out", "blit", "fail", "error"
  out,         \* T's output memory, or Nobody
  staged,      \* T converts from the staging memory
  staging,     \* graphic.m_input.memory, or Nobody
  sent,        \* memories downstream
  lost,        \* memories that an early return forgot
  from, to,    \* videorate: the two rates, or Unset
  up,          \* whether the quotient of the rates is rounded up
  count,       \* out_frame_count
  seen, kept,  \* history: frames counted and kept since the negotiation
  caps         \* how often caps were negotiated

lifeVars  == <<pc, made, dmabuf_alloc, overtaken, sessions, gfx, lost_gfx>>
frameVars == <<tpc, out, staged, staging, sent, lost>>
rateVars  == <<from, to, up, count, seen, kept, caps>>
vars == <<dmaVars, lifeVars, failures, frameVars, rateVars>>

Unset == <<0, 0>>

Init ==
  /\ InitDma
  /\ pc = [e \in Elements |-> "null"]
  /\ made = [e \in Elements |-> Nobody] /\ dmabuf_alloc = [e \in Elements |-> Nobody]
  /\ overtaken = [e \in Elements |-> FALSE] /\ sessions = [e \in Elements |-> 0]
  /\ failures = 0 /\ gfx = 0 /\ lost_gfx = 0
  /\ tpc = "idle" /\ out = Nobody /\ staged = FALSE /\ staging = Nobody
  /\ sent = {} /\ lost = {}
  /\ from = Unset /\ to = Unset /\ up = FALSE
  /\ count = 0 /\ seen = 0 /\ kept = 0 /\ caps = 0

-----------------------------------------------------------------------------
(* C and O: gst_amldma_allocator_obtain, and giving it back.               *)

Goto(e, from_, to_) == pc[e] = from_ /\ pc' = [pc EXCEPT ![e] = to_]

Fails == failures < MaxFailures /\ failures' = failures + 1

\* The converter opens the engine first.
Start(e) ==
  /\ Goto(e, "null", "open")
  /\ sessions[e] < MaxSessions
  /\ sessions' = [sessions EXCEPT ![e] = @ + 1]
  /\ overtaken' = [overtaken EXCEPT ![e] = FALSE]
  /\ gfx' = IF e = "conv" THEN gfx + 1 ELSE gfx
  /\ UNCHANGED <<dmaVars, made, dmabuf_alloc, lost_gfx, failures, frameVars, rateVars>>

Open(e) ==
  /\ Goto(e, "open", "register")
  /\ \E a \in Allocators : OpenHeap(a, HeapName[e]) /\ made' = [made EXCEPT ![e] = a]
  /\ UNCHANGED <<dmabuf_alloc, overtaken, sessions, gfx, lost_gfx, failures, frameVars, rateVars>>

\* The heap cannot be opened: the name is looked up all the same.
OpenFails(e) ==
  /\ Goto(e, "open", "find")
  /\ Fails
  /\ overtaken' = [overtaken EXCEPT ![e] = TRUE]
  /\ UNCHANGED <<dmaVars, made, dmabuf_alloc, sessions, gfx, lost_gfx, frameVars, rateVars>>

Registers(e) ==
  /\ Goto(e, "register", "find")
  /\ Register(made[e])
  /\ made' = [made EXCEPT ![e] = Nobody]
  /\ overtaken' = [o \in Elements |-> overtaken[o] \/ (o # e /\ pc[o] = "find")]
  /\ UNCHANGED <<dmabuf_alloc, sessions, gfx, lost_gfx, failures, frameVars, rateVars>>

Finds(e) ==
  /\ registered # Nobody
  /\ Goto(e, "find", "play")
  /\ Find
  /\ dmabuf_alloc' = [dmabuf_alloc EXCEPT ![e] = registered]
  /\ UNCHANGED <<made, overtaken, sessions, gfx, lost_gfx, failures, frameVars, rateVars>>

\* There is none: start fails, and the base class does not call stop.
FindsNone(e) ==
  /\ registered = Nobody
  /\ Goto(e, "find", "null")
  /\ lost_gfx' = IF e = "conv" THEN lost_gfx + 1 ELSE lost_gfx
  /\ UNCHANGED <<dmaVars, made, dmabuf_alloc, overtaken, sessions, gfx, failures, frameVars, rateVars>>

\* gst_aml_vconv_close: first the staging memory.
Close ==
  /\ tpc \in {"idle", "error"} /\ tpc' = "idle"
  /\ IF staging = Nobody THEN Goto("conv", "play", "stop") /\ UNCHANGED dmaVars
     ELSE Goto("conv", "play", "unstage") /\ Free(staging)
  /\ UNCHANGED <<made, dmabuf_alloc, overtaken, sessions, gfx, lost_gfx, failures,
                 out, staged, staging, sent, lost, rateVars>>

CloseStaging ==
  /\ Goto("conv", "unstage", "stop")
  /\ FreeAgain(staging)
  /\ staging' = Nobody
  /\ UNCHANGED <<made, dmabuf_alloc, overtaken, sessions, gfx, lost_gfx, failures,
                 tpc, out, staged, sent, lost, rateVars>>

\* The allocator, and the converter's engine.
Stop(e) ==
  /\ Goto(e, IF e = "conv" THEN "stop" ELSE "play", "null")
  /\ Unref(dmabuf_alloc[e])
  /\ dmabuf_alloc' = [dmabuf_alloc EXCEPT ![e] = Nobody]
  /\ gfx' = IF e = "conv" THEN gfx - 1 ELSE gfx
  /\ UNCHANGED <<made, overtaken, sessions, lost_gfx, failures, frameVars, rateVars>>

-----------------------------------------------------------------------------
(* T: negotiation and frames.                                              *)

Playing == pc["conv"] = "play"

\* gst_aml_vconv_transform_caps keeps a rate that is not zero.
Keeps(old, r) == IF r[1] # 0 THEN r ELSE old

\* A rate of caps that name none is an uninitialised number: any of the rates.
\* The quotient of the rates may be rounded up unless it is whole.
Negotiate(in, out_) ==
  /\ Playing /\ tpc = "idle" /\ caps < MaxCaps
  /\ caps' = caps + 1
  /\ from' = Keeps(from, in) /\ to' = Keeps(to, out_)
  /\ up' \in IF from'[1] > to'[1] /\ to'[1] > 1 /\ from'[1] % to'[1] # 0 THEN BOOLEAN
             ELSE {FALSE}
  /\ seen' = 0 /\ kept' = 0
  /\ UNCHANGED <<dmaVars, lifeVars, failures, frameVars, count>>

\* Variant: a memory that is still downstream is used again.
PrepareReuses ==
  /\ Playing /\ tpc = "idle" /\ caps > 0
  /\ count < MaxFrames
  /\ tpc' = "count"
  /\ \E m \in Memories :
       /\ out' = m
       /\ UNCHANGED failures
       /\ IF m \in sent THEN UNCHANGED dmaVars ELSE Allocate(m, dmabuf_alloc["conv"])
  /\ UNCHANGED <<lifeVars, staged, staging, sent, lost, rateVars>>

\* prepare_output_buffer of a frame that is converted; one that passes through
\* changes nothing.
Prepare ==
  /\ Playing /\ tpc = "idle" /\ caps > 0
  /\ count < MaxFrames
  /\ tpc' = "count"
  /\ \E m \in Memories :
       /\ out' = m
       /\ \/ Allocate(m, dmabuf_alloc["conv"]) /\ UNCHANGED failures
          \/ AllocateFails(m, dmabuf_alloc["conv"]) /\ Fails
  /\ UNCHANGED <<lifeVars, staged, staging, sent, lost, rateVars>>

\* The rates as transform_frame divides them.
Whole(r) == r[1] \div r[2]

\* Variant: a remainder of exactly one frame is kept as well.
KeepsTooMany(n, p, q) ==
  IF p = 0 THEN TRUE ELSE (n * q) % p <= q

KeepsFrame(n, p, q) == KeptByRate(n, p, q, up)

\* A rate that was never set has no denominator to divide by.
Divisible == to[1] # 0 => from[2] # 0

Count ==
  /\ tpc = "count" /\ Divisible
  /\ count' = count + 1 /\ seen' = seen + 1
  /\ IF to[1] = 0 \/ KeepsFrame(count + 1, Whole(from), Whole(to))
     THEN tpc' = "out" /\ kept' = kept + 1
     ELSE tpc' = "drop" /\ UNCHANGED kept
  /\ UNCHANGED <<dmaVars, lifeVars, failures, out, staged, staging, sent, lost,
                 from, to, up, caps>>

\* The division by zero ends the process.
DividesByZero ==
  /\ tpc = "count" /\ ~Divisible
  /\ tpc' = "killed"
  /\ UNCHANGED <<dmaVars, lifeVars, failures, out, staged, staging, sent, lost, rateVars>>

\* The base class frees the output of a frame that is dropped or has failed.
Drop ==
  /\ tpc \in {"drop", "fail"}
  /\ Free(out)
  /\ UNCHANGED <<lifeVars, failures, frameVars, rateVars>>

DropAgain ==
  /\ tpc \in {"drop", "fail"}
  /\ FreeAgain(out)
  /\ tpc' = IF tpc = "fail" THEN "error" ELSE "idle"
  /\ out' = Nobody
  /\ UNCHANGED <<lifeVars, failures, staged, staging, sent, lost, rateVars>>

\* "output should be dmabuffer": the early return keeps a reference to it.
NoOutput ==
  /\ tpc = "out" /\ mem_fd[out] = -1
  /\ tpc' = "error" /\ lost' = lost \cup {out} /\ out' = Nobody
  /\ UNCHANGED <<dmaVars, lifeVars, failures, staged, staging, sent, rateVars>>

\* The input is a dma buffer itself; it may have no descriptor.
Direct ==
  /\ tpc = "out" /\ mem_fd[out] # -1
  /\ staged' = FALSE
  /\ (tpc' = "blit" /\ UNCHANGED failures) \/ (tpc' = "fail" /\ Fails)
  /\ UNCHANGED <<dmaVars, lifeVars, out, staging, sent, lost, rateVars>>

\* Or it is copied into the staging memory, which is allocated once; that one
\* or the input may fail to be mapped.
Stage ==
  /\ tpc = "out" /\ mem_fd[out] # -1
  /\ staged' = TRUE
  /\ IF staging # Nobody
     THEN /\ UNCHANGED <<dmaVars, staging>>
          /\ \/ mem_fd[staging] # -1 /\ tpc' = "blit" /\ UNCHANGED failures
             \/ mem_fd[staging] = -1 /\ tpc' = "fail" /\ UNCHANGED failures
             \/ mem_fd[staging] # -1 /\ tpc' = "fail" /\ Fails
     ELSE \E m \in Memories :
            /\ staging' = m
            /\ \/ /\ Allocate(m, dmabuf_alloc["conv"])
                  /\ (tpc' = "blit" /\ UNCHANGED failures) \/ (tpc' = "fail" /\ Fails)
               \/ /\ AllocateFails(m, dmabuf_alloc["conv"])
                  /\ tpc' = "fail" /\ Fails
  /\ UNCHANGED <<lifeVars, out, sent, lost, rateVars>>

\* gfx_stretchblit and gfx_sync_cmd; the frame is pushed.
Blit ==
  /\ tpc = "blit"
  /\ tpc' = "idle" /\ sent' = sent \cup {out} /\ out' = Nobody
  /\ UNCHANGED <<dmaVars, lifeVars, failures, staged, staging, lost, rateVars>>

-----------------------------------------------------------------------------
(* D, and the second half of freeing the staging memory.                   *)

Consume(m) ==
  /\ m \in sent /\ Free(m)
  /\ sent' = sent \ {m}
  /\ UNCHANGED <<lifeVars, failures, tpc, out, staged, staging, lost, rateVars>>

ConsumeAgain(m) ==
  /\ m \notin {out, staging} /\ FreeAgain(m)
  /\ UNCHANGED <<lifeVars, failures, frameVars, rateVars>>

-----------------------------------------------------------------------------
LifeNext ==
  \/ \E e \in Elements : Start(e) \/ Open(e) \/ OpenFails(e) \/ Registers(e)
                         \/ Finds(e) \/ FindsNone(e) \/ Stop(e)
  \/ Close \/ CloseStaging

TNext ==
  \/ \E in, out_ \in Rates : Negotiate(in, out_)
  \/ Prepare \/ Count \/ DividesByZero \/ Drop \/ DropAgain \/ NoOutput
  \/ Direct \/ Stage \/ Blit

DNext == \E m \in Memories : Consume(m) \/ ConsumeAgain(m)

\* Nothing is said of a process that was killed, or of one whose descriptors a
\* second close has mixed up.
Next == tpc # "killed" /\ ~hit /\ (LifeNext \/ TNext \/ DNext)

Spec == Init /\ [][Next]_vars

-----------------------------------------------------------------------------
\* An element allocates from the heap it named, although all allocators share
\* one name, unless another element registered its own between the two halves
\* of obtain, or the heap could not be opened.
ObtainsItsHeap ==
  \A e \in Elements :
    dmabuf_alloc[e] # Nobody /\ ~overtaken[e] => heap[dmabuf_alloc[e]] = HeapName[e]

\* The engine is given the memories' own descriptors, although buffers are freed
\* and allocated by several threads meanwhile, as long as no second close of a
\* number has hit another's file.
BlitsItsOwnBuffers ==
  tpc = "blit" /\ ~hit =>
    /\ fds[mem_fd[out]] = out
    /\ staged => fds[mem_fd[staging]] = staging

\* When both elements have stopped and downstream has freed its frames, all that
\* is open is the heap of the allocator that is registered, and the engine
\* handles of starts that failed.
NothingLeftOpen ==
  (\A e \in Elements : pc[e] = "null") /\ ~hit /\ {m \in Memories : Live(m)} = {} =>
    /\ \A n \in Fds : fds[n] # Nobody => fds[n] = registered
    /\ \A a \in Allocators : refs[a] = IF a = registered THEN 1 ELSE 0
    /\ gfx = lost_gfx

\* Of the frames since the negotiation as many are kept as the output rate asks
\* for, less than one too many and at most one too few, if both rates are set
\* and whole and the output is not the faster one; although the counter goes on
\* over a negotiation.
KeepsTheRate ==
  from[2] = 1 /\ to[2] = 1 /\ to[1] <= from[1] =>
    /\ kept * from[1] < seen * to[1] + from[1]
    /\ kept * from[1] >= seen * to[1] - from[1]
=============================================================================

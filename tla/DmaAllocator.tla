---------------------------- MODULE DmaAllocator ----------------------------
(***************************************************************************)
(* The GStreamer allocator of DMA buffers                                  *)
(* (gst-aml-dma-allocator/gstamldmaallocator.c over                        *)
(* dma-allocator/dma_allocator.c), as the elements of a process share it.  *)
(*                                                                         *)
(* Obtaining an allocator opens a heap, registers a new allocator under    *)
(* the one name they all have, and looks that name up again: three steps   *)
(* that other elements may come between.  A memory holds a reference to    *)
(* its allocator, and its file descriptor is closed twice, by              *)
(* gst_amldma_alloc_free and by the dma-buf memory of GStreamer around it. *)
(*                                                                         *)
(* GStreamer's registry and reference counts and the kernel's table of     *)
(* file descriptors, which gives out the lowest number that is free, are   *)
(* external.  The operators below are the steps; the elements that take    *)
(* them are those of a module that extends this one.                       *)
(***************************************************************************)
EXTENDS Integers, FiniteSetsExt

CONSTANTS
  Allocators,   \* the allocators that can be there at once
  Memories,     \* the memories that can be there at once
  Nobody,       \* neither of them
  Fds           \* numbers of file descriptors; enough for all of them

ASSUME AllocatorAssumption ==
  /\ Nobody \notin Allocators \cup Memories
  /\ Allocators \cap Memories = {}
  /\ Fds \subseteq Nat /\ IsFiniteSet(Fds)
  /\ IsFiniteSet(Allocators) /\ IsFiniteSet(Memories)
  /\ Cardinality(Fds) >= Cardinality(Allocators) + Cardinality(Memories)

VARIABLES
  fds,          \* what each number stands for: an allocator's heap, a memory,
                \*   or Nobody
  heap,         \* each allocator's heap
  heap_fd,      \* each allocator's heap_fd
  refs,         \* references to each allocator; 0: it is not there
  registered,   \* the allocator the registry names, or Nobody
  mem_fd,       \* each memory's fd, or -1
  mem_by,       \* each memory's allocator; Nobody: the memory is not there
  freed,        \* memories whose fd was closed once
  hit           \* history: the second close closed another's file

dmaVars == <<fds, heap, heap_fd, refs, registered, mem_fd, mem_by, freed, hit>>

LowestFree == Min({n \in Fds : fds[n] = Nobody})

Exists(a) == refs[a] > 0
Live(m)   == mem_by[m] # Nobody

\* What is left of a table of descriptors t when n is closed; n may be -1.
Closed(t, n) == [k \in Fds |-> IF k = n THEN Nobody ELSE t[k]]

\* The table t when a lost one of r references: gst_amldma_allocator_dispose
\* closes the heap with the last one.
Dropped(t, a, r) == IF r = 1 THEN Closed(t, heap_fd[a]) ELSE t

InitDma ==
  /\ fds = [n \in Fds |-> Nobody]
  /\ heap = [a \in Allocators |-> "none"] /\ heap_fd = [a \in Allocators |-> -1]
  /\ refs = [a \in Allocators |-> 0] /\ registered = Nobody
  /\ mem_fd = [m \in Memories |-> -1] /\ mem_by = [m \in Memories |-> Nobody]
  /\ freed = {} /\ hit = FALSE

-----------------------------------------------------------------------------
\* gst_amldma_mem_init up to the registration: aml_dmabuf_heap_open.
OpenHeap(a, name) ==
  /\ ~Exists(a)
  /\ heap' = [heap EXCEPT ![a] = name]
  /\ heap_fd' = [heap_fd EXCEPT ![a] = LowestFree]
  /\ fds' = [fds EXCEPT ![LowestFree] = a]
  /\ refs' = [refs EXCEPT ![a] = 1]
  /\ UNCHANGED <<registered, mem_fd, mem_by, freed, hit>>

\* Variant: only the first allocator is registered, as with the GOnce that is
\* commented out; a new one is given back.
RegisterOnce(a) ==
  IF registered = Nobody
  THEN registered' = a /\ UNCHANGED <<fds, heap, heap_fd, refs, mem_fd, mem_by, freed, hit>>
  ELSE /\ fds' = Closed(fds, heap_fd[a])
       /\ refs' = [refs EXCEPT ![a] = 0]
       /\ UNCHANGED <<heap, heap_fd, registered, mem_fd, mem_by, freed, hit>>

\* gst_allocator_register: the registry gives up the allocator it had.
Register(a) ==
  /\ registered' = a
  /\ IF registered = Nobody THEN UNCHANGED <<fds, refs>>
     ELSE /\ refs' = [refs EXCEPT ![registered] = @ - 1]
          /\ fds' = Dropped(fds, registered, refs[registered])
  /\ UNCHANGED <<heap, heap_fd, mem_fd, mem_by, freed, hit>>

\* gst_allocator_find, when there is one.
Find ==
  /\ refs' = [refs EXCEPT ![registered] = @ + 1]
  /\ UNCHANGED <<fds, heap, heap_fd, registered, mem_fd, mem_by, freed, hit>>

\* An element gives its reference back.
Unref(a) ==
  /\ refs' = [refs EXCEPT ![a] = @ - 1]
  /\ fds' = Dropped(fds, a, refs[a])
  /\ UNCHANGED <<heap, heap_fd, registered, mem_fd, mem_by, freed, hit>>

\* gst_amldma_alloc_alloc.
Allocate(m, a) ==
  /\ ~Live(m)
  /\ mem_fd' = [mem_fd EXCEPT ![m] = LowestFree]
  /\ fds' = [fds EXCEPT ![LowestFree] = m]
  /\ mem_by' = [mem_by EXCEPT ![m] = a]
  /\ refs' = [refs EXCEPT ![a] = @ + 1]
  /\ UNCHANGED <<heap, heap_fd, registered, freed, hit>>

\* The heap has no buffer: there is a memory all the same, of descriptor -1.
AllocateFails(m, a) ==
  /\ ~Live(m)
  /\ mem_fd' = [mem_fd EXCEPT ![m] = -1]
  /\ mem_by' = [mem_by EXCEPT ![m] = a]
  /\ refs' = [refs EXCEPT ![a] = @ + 1]
  /\ UNCHANGED <<fds, heap, heap_fd, registered, freed, hit>>

\* Variant: the memory's reference to its allocator is kept.
FreeKeepsReference(m) ==
  /\ Live(m) /\ m \notin freed
  /\ fds' = Closed(fds, mem_fd[m])
  /\ freed' = freed \cup {m}
  /\ UNCHANGED <<heap, heap_fd, refs, registered, mem_fd, mem_by, hit>>

\* The last reference to the dma-buf memory is gone: gst_amldma_alloc_free
\* closes the descriptor and the allocator loses a reference.
Free(m) ==
  /\ Live(m) /\ m \notin freed
  /\ fds' = Dropped(Closed(fds, mem_fd[m]), mem_by[m], refs[mem_by[m]])
  /\ refs' = [refs EXCEPT ![mem_by[m]] = @ - 1]
  /\ freed' = freed \cup {m}
  /\ UNCHANGED <<heap, heap_fd, registered, mem_fd, mem_by, hit>>

\* And then the dma-buf memory closes the number again.
FreeAgain(m) ==
  /\ m \in freed
  /\ fds' = Closed(fds, mem_fd[m])
  /\ hit' = (hit \/ fds' # fds)
  /\ freed' = freed \ {m}
  /\ mem_by' = [mem_by EXCEPT ![m] = Nobody]
  /\ UNCHANGED <<heap, heap_fd, refs, registered, mem_fd>>
=============================================================================

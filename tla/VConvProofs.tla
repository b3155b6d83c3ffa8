---------------------------- MODULE VConvProofs -----------------------------
(***************************************************************************)
(* Proofs about the converter on the shared DMA allocator, for any number  *)
(* of allocators and memories, any frame rates and any bounds.             *)
(***************************************************************************)
EXTENDS VConv, FiniteSetTheorems, WellFoundedInduction, TLAPS

One(p) == IF p THEN 1 ELSE 0

-----------------------------------------------------------------------------
(***************************************************************************)
(* The inductive invariant.                                                *)
(***************************************************************************)

Heaps == {"none", "heap-codecmm", "heap-gfx"}
Someone == Allocators \cup {Nobody}

DmaTypes ==
  /\ fds \in [Fds -> Allocators \cup Memories \cup {Nobody}]
  /\ heap \in [Allocators -> Heaps] /\ heap_fd \in [Allocators -> Fds \cup {-1}]
  /\ refs \in [Allocators -> Int] /\ registered \in Someone
  /\ mem_fd \in [Memories -> Fds \cup {-1}] /\ mem_by \in [Memories -> Someone]
  /\ freed \subseteq {m \in Memories : Live(m)} /\ hit \in BOOLEAN

\* A memory whose descriptor was not closed yet.
Opened(m) == Live(m) /\ m \notin freed

\* A number stands for the file of an allocator or a memory that is there, and
\* each of them has the number it knows.
HeapNumbers == \A n \in Fds : fds[n] \in Allocators => Exists(fds[n]) /\ heap_fd[fds[n]] = n
MemNumbers  == \A n \in Fds : fds[n] \in Memories => Opened(fds[n]) /\ mem_fd[fds[n]] = n
HeapFiles   == \A a \in Allocators : Exists(a) => heap_fd[a] # -1 /\ fds[heap_fd[a]] = a
MemFiles    == \A m \in Memories : Opened(m) /\ mem_fd[m] # -1 => fds[mem_fd[m]] = m
Files == HeapNumbers /\ MemNumbers /\ HeapFiles /\ MemFiles

\* The references to an allocator: its memories, the registry, the elements.
Held(a) == {m \in Memories : mem_by[m] = a /\ m \notin freed}
Used(a) == One(registered = a)
           + One(dmabuf_alloc["conv"] = a) + One(dmabuf_alloc["other"] = a)
           + One(made["conv"] = a) + One(made["other"] = a)
References == \A a \in Allocators : refs[a] = Cardinality(Held(a)) + Used(a)

Life ==
  /\ pc \in [Elements -> {"null", "open", "register", "find", "play", "unstage", "stop"}]
  /\ made \in [Elements -> Someone] /\ dmabuf_alloc \in [Elements -> Someone]
  /\ overtaken \in [Elements -> BOOLEAN]
  /\ \A e \in Elements : made[e] # Nobody <=> pc[e] = "register"
  /\ \A e \in Elements : dmabuf_alloc[e] # Nobody <=> pc[e] \in {"play", "unstage", "stop"}
  /\ gfx \in Int /\ lost_gfx \in Int /\ gfx = lost_gfx + One(pc["conv"] # "null")

\* An element that nobody overtook is on its way to an allocator of its heap.
OwnHeap ==
  \A e \in Elements :
    /\ pc[e] = "register" => heap[made[e]] = HeapName[e]
    /\ pc[e] = "find" /\ ~overtaken[e] => registered # Nobody /\ heap[registered] = HeapName[e]
    /\ dmabuf_alloc[e] # Nobody /\ ~overtaken[e] => heap[dmabuf_alloc[e]] = HeapName[e]

InFrame == {"count", "drop", "out", "blit", "fail"}

\* Whose the memories are: T's, the staging one, those downstream.
Hands ==
  /\ tpc \in InFrame \cup {"idle", "error", "killed"}
  /\ \A m \in sent : m \in Memories /\ Opened(m)
  /\ tpc \in InFrame => /\ pc["conv"] = "play"
                        /\ out \in Memories /\ Live(out) /\ out \notin sent /\ out # staging
  /\ tpc \in {"count", "out", "blit"} => out \notin freed
  /\ tpc = "blit" => /\ mem_fd[out] # -1 /\ staged \in BOOLEAN
                     /\ staged => staging # Nobody /\ mem_fd[staging] # -1
  /\ staging # Nobody => /\ staging \in Memories /\ Live(staging) /\ staging \notin sent
                         /\ pc["conv"] \in {"play", "unstage"}
                         /\ staging \in freed => pc["conv"] = "unstage"

IInv == DmaTypes /\ (~hit => Files) /\ References /\ Life /\ OwnHeap /\ Hands

\* What is left of the quotient after the last frame; a quotient rounded up
\* leaves a whole divisor instead of nothing, once there is a frame.
Rest(n) ==
  LET r == (n * to[1]) % from[1] IN
  IF up /\ n > 0 /\ r = 0 THEN from[1] ELSE r

\* The frames kept since the negotiation make up what was seen, but for the rest
\* there was and the rest there is.
RInv ==
  /\ from \in Nat \X Nat /\ to \in Nat \X Nat
  /\ to = Unset \/ to[1] # 0
  /\ up \in BOOLEAN /\ (up => to[1] < from[1]) /\ count \in Nat /\ seen \in 0 .. count /\ kept \in Nat
  /\ from[2] = 1 /\ to[2] = 1 /\ to[1] <= from[1] =>
       kept * from[1] + Rest(count) = seen * to[1] + Rest(count - seen)

-----------------------------------------------------------------------------
(***************************************************************************)
(* The frame rate.                                                         *)
(***************************************************************************)

\* Division with rest is what it should be.
LEMMA Division ==
  ASSUME NEW x \in Nat, NEW p \in Nat, p > 0
  PROVE  /\ x \div p \in Nat /\ x % p \in 0 .. p - 1
         /\ x = p * (x \div p) + (x % p)
  OBVIOUS

LEMMA SmallMultiple ==
  ASSUME NEW k \in Int, NEW p \in Nat, p * k < p, p * k > -p
  PROVE  k = 0
<1>1. CASE k >= 1
  <2>1. p * k >= p
    BY <1>1
  <2>2. QED
    BY <2>1
<1>2. CASE k <= -1
  <2>1. p * k <= -p
    BY <1>2
  <2>2. QED
    BY <2>1
<1>3. QED
  BY <1>1, <1>2

LEMMA RestIsUnique ==
  ASSUME NEW x \in Nat, NEW p \in Nat, p > 0, NEW k \in Int, NEW r \in 0 .. p - 1,
         x = p * k + r
  PROVE  x % p = r
<1> DEFINE d == x \div p
<1>1. d \in Nat /\ x % p \in 0 .. p - 1 /\ x = p * d + (x % p)
  BY Division
<1>2. p * (d - k) = r - (x % p)
  <2>1. p * (d - k) = p * d - p * k
    BY <1>1
  <2>2. QED
    BY <1>1, <2>1
<1>3. d - k = 0
  BY <1>1, <1>2, SmallMultiple
<1>4. QED
  BY <1>1, <1>2, <1>3

\* The rest after one more frame.
LEMMA RestStep ==
  ASSUME NEW a \in Nat, NEW q \in Nat, NEW p \in Nat, p > 0, q <= p
  PROVE  /\ a % p \in 0 .. p - 1
         /\ (a + q) % p = IF (a % p) + q < p THEN (a % p) + q ELSE (a % p) + q - p
<1> DEFINE d == a \div p
           r == a % p
<1>1. d \in Nat /\ r \in 0 .. p - 1 /\ a = p * d + r
  BY Division
<1>2. CASE r + q < p
  BY <1>1, <1>2, RestIsUnique
<1>3. CASE r + q >= p
  <2>1. p * (d + 1) = p * d + p
    BY <1>1
  <2>2. a + q = p * (d + 1) + (r + q - p)
    BY <1>1, <2>1
  <2>3. r + q - p \in 0 .. p - 1 /\ d + 1 \in Int /\ a + q \in Nat
    BY <1>1, <1>3
  <2>4. (a + q) % p = r + q - p
    BY <2>2, <2>3, RestIsUnique
  <2>5. QED
    BY <1>1, <1>3, <2>4
<1>4. QED
  BY <1>1, <1>2, <1>3

\* The rest of no more than the divisor.
Rests == IF up THEN 0 .. from[1] ELSE 0 .. from[1] - 1

\* What a frame that is kept, or not, does to the rest.
LEMMA RestOfAFrame ==
  ASSUME NEW n \in Nat, from \in Nat \X Nat, to \in Nat \X Nat, up \in BOOLEAN,
         to[1] # 0, to[1] <= from[1], up => to[1] < from[1]
  PROVE  /\ Rest(n) \in Rests /\ (up /\ n > 0 => Rest(n) # 0)
         /\ Rest(n + 1) = IF KeepsFrame(n + 1, from[1], to[1])
                          THEN Rest(n) + to[1] - from[1]
                          ELSE Rest(n) + to[1]
<1> DEFINE p == from[1]
           q == to[1]
           a == n * q
<1>1. p \in Nat /\ q \in Nat /\ p > 0 /\ q > 0 /\ q <= p /\ a \in Nat
  OBVIOUS
<1>2. (n + 1) * q = a + q /\ (n = 0 => a = 0)
  BY <1>1
<1>3. /\ a % p \in 0 .. p - 1
      /\ (a + q) % p = IF (a % p) + q < p THEN (a % p) + q ELSE (a % p) + q - p
  BY <1>1, RestStep
<1>4. Rest(n) = IF up /\ n > 0 /\ a % p = 0 THEN p ELSE a % p
  BY DEF Rest
<1>5. Rest(n + 1) = IF up /\ (a + q) % p = 0 THEN p ELSE (a + q) % p
  BY <1>2 DEF Rest
<1>6. KeepsFrame(n + 1, p, q) <=>
        IF up /\ n > 0 THEN (IF (a + q) % p = 0 THEN p ELSE (a + q) % p) <= q
                       ELSE (a + q) % p < q
  BY <1>1, <1>2 DEF KeepsFrame, KeptByRate
<1>7. up => q < p
  OBVIOUS
<1>8. n = 0 => a % p = 0
  <2>1. 0 % p = 0
    BY <1>1, RestIsUnique
  <2>2. QED
    BY <2>1, <1>2
<1> HIDE DEF a, p, q
<1>9. CASE up /\ n > 0
  BY <1>1, <1>3, <1>4, <1>5, <1>6, <1>7, <1>9 DEF p, q, Rests
<1>10. CASE up /\ n = 0
  BY <1>1, <1>3, <1>4, <1>5, <1>6, <1>7, <1>8, <1>10 DEF p, q, Rests
<1>11. CASE ~up
  BY <1>1, <1>3, <1>4, <1>5, <1>6, <1>11 DEF p, q, Rests
<1>12. QED
  BY <1>9, <1>10, <1>11

\* One frame counted: it is kept, or the rest grows.
LEMMA RInvOfAFrame ==
  ASSUME RInv, Count
  PROVE  RInv'
<1> USE DEF RInv
<1>1. /\ UNCHANGED <<from, to, up>>
      /\ count' = count + 1 /\ seen' = seen + 1
      /\ kept' = IF to[1] = 0 \/ KeepsFrame(count + 1, Whole(from), Whole(to))
                 THEN kept + 1 ELSE kept
  BY DEF Count
<1>2. /\ from' \in Nat \X Nat /\ to' \in Nat \X Nat /\ (to' = Unset \/ to'[1] # 0)
      /\ up' \in BOOLEAN /\ (up' => to'[1] < from'[1]) /\ count' \in Nat /\ seen' \in 0 .. count' /\ kept' \in Nat
      /\ count' - seen' = count - seen
  BY <1>1
<1>3. ASSUME from[2] = 1, to[2] = 1, to[1] <= from[1]
      PROVE  kept' * from[1] + Rest(count)' = seen' * to[1] + Rest(count - seen)
  <2>1. /\ from[1] \in Nat /\ to[1] \in Nat /\ to[1] # 0
    BY <1>3 DEF Unset
  <2>2. Whole(from) = from[1] /\ Whole(to) = to[1]
    BY <2>1, <1>3 DEF Whole
  <2>3. /\ Rest(count) \in Int
        /\ Rest(count + 1) = IF KeepsFrame(count + 1, from[1], to[1])
                             THEN Rest(count) + to[1] - from[1]
                             ELSE Rest(count) + to[1]
    BY <2>1, <1>3, RestOfAFrame DEF Rests
  <2>4. Rest(count)' = Rest(count + 1)
    BY <1>1 DEF Rest
  <2>5. kept * from[1] + Rest(count) = seen * to[1] + Rest(count - seen)
    BY <1>3
  <2>6. (kept + 1) * from[1] = kept * from[1] + from[1] /\ (seen + 1) * to[1] = seen * to[1] + to[1]
    BY <2>1
  <2>7. /\ kept * from[1] \in Int /\ seen * to[1] \in Int
        /\ kept' = IF KeepsFrame(count + 1, from[1], to[1]) THEN kept + 1 ELSE kept
    BY <1>1, <2>1, <2>2
  <2>8. Rest(count - seen) \in Int
    BY <2>1, <1>3, RestOfAFrame DEF Rests
  <2> DEFINE kp == kept * from[1]
             sq == seen * to[1]
             rc == Rest(count)
             r0 == Rest(count - seen)
  <2>9. /\ kp \in Int /\ sq \in Int /\ rc \in Int /\ r0 \in Int /\ kp + rc = sq + r0
        /\ (kept + 1) * from[1] = kp + from[1] /\ (seen + 1) * to[1] = sq + to[1]
    BY <2>3, <2>5, <2>6, <2>7, <2>8
  <2>10. CASE KeepsFrame(count + 1, from[1], to[1])
    <3>1. kept' * from[1] = kp + from[1] /\ seen' * to[1] = sq + to[1]
      BY <2>7, <2>9, <2>10, <1>1
    <3>2. Rest(count)' = rc + to[1] - from[1]
      BY <2>3, <2>4, <2>10
    <3> HIDE DEF RInv, kp, sq, rc, r0
    <3>3. ASSUME NEW f \in Int, NEW t \in Int, NEW w \in Int, NEW x \in Int,
                 NEW y \in Int, NEW z \in Int, w + x = y + z
          PROVE  (w + f) + (x + t - f) = (y + t) + z
      BY <3>3
    <3>4. from[1] \in Int /\ to[1] \in Int
          /\ kp \in Int /\ rc \in Int /\ sq \in Int /\ r0 \in Int /\ kp + rc = sq + r0
      BY <2>1, <2>9
    <3>5. (kp + from[1]) + (rc + to[1] - from[1]) = (sq + to[1]) + r0
      BY <3>4
    <3>6. kept' * from[1] + Rest(count)' = seen' * to[1] + r0
      BY <3>1, <3>2, <3>5, Zenon
    <3>7. QED
      BY <3>6 DEF r0
  <2>11. CASE ~KeepsFrame(count + 1, from[1], to[1])
    <3>1. kept' * from[1] = kp /\ seen' * to[1] = sq + to[1]
      BY <2>7, <2>9, <2>11, <1>1
    <3>2. Rest(count)' = rc + to[1]
      BY <2>3, <2>4, <2>11
    <3> HIDE DEF RInv, kp, sq, rc, r0
    <3>3. kept' * from[1] + Rest(count)' = seen' * to[1] + r0
      BY <3>1, <3>2, <2>1, <2>9
    <3>4. QED
      BY <3>3 DEF r0
  <2>12. QED
    BY <2>10, <2>11
<1>4. Rest(count - seen)' = Rest(count - seen)
  BY <1>1, <1>2 DEF Rest
<1>5. QED
  BY <1>1, <1>2, <1>3, <1>4

LEMMA RInvOfNewCaps ==
  ASSUME RInv, NEW in \in Rates, NEW out_ \in Rates, Negotiate(in, out_)
  PROVE  RInv'
<1>1. /\ from' \in Nat \X Nat /\ to' \in Nat \X Nat
      /\ to' = Unset \/ to'[1] # 0
  BY RatesAssumption DEF RInv, Negotiate, Keeps
<1>2. up' \in BOOLEAN /\ (up' => to'[1] < from'[1])
  BY <1>1 DEF Negotiate
<1>3. seen' = 0 /\ kept' = 0 /\ count' = count /\ count \in Nat
  BY DEF RInv, Negotiate
<1>4. ASSUME to'[1] # 0, to'[1] <= from'[1] PROVE Rest(count)' \in Int
  <2>1. from'[1] \in Nat /\ to'[1] \in Nat /\ from'[1] > 0 /\ count' * to'[1] \in Nat
    BY <1>1, <1>3, <1>4
  <2>2. (count' * to'[1]) % from'[1] \in 0 .. from'[1] - 1
    BY <2>1, Division
  <2>3. QED
    BY <2>1, <2>2 DEF Rest
<1>5. Rest(count - seen)' = Rest(count)'
  BY <1>3 DEF Rest
<1>6. to'[2] = 1 => to'[1] # 0
  BY <1>1 DEF Unset
<1>7. to'[2] = 1 /\ to'[1] <= from'[1] =>
        kept' * from'[1] + Rest(count)' = seen' * to'[1] + Rest(count - seen)'
  BY <1>1, <1>3, <1>4, <1>5, <1>6
<1>8. QED
  BY <1>1, <1>2, <1>3, <1>7 DEF RInv

LEMMA RatesStay ==
  ASSUME [Next]_vars
  PROVE  \/ Count
         \/ \E in, out_ \in Rates : Negotiate(in, out_)
         \/ UNCHANGED rateVars
  BY DEF Next, LifeNext, TNext, DNext, vars, Start, Open, OpenFails, Registers, Finds,
         FindsNone, Stop, Close, CloseStaging, Prepare, DividesByZero, Drop, DropAgain,
         NoOutput, Direct, Stage, Blit, Consume, ConsumeAgain

LEMMA RInvHolds == Spec => []RInv
<1>1. Init => RInv
  <2> SUFFICES ASSUME Init PROVE RInv
    OBVIOUS
  <2>1. from = <<0, 0>> /\ to = <<0, 0>> /\ up = FALSE /\ count = 0 /\ seen = 0 /\ kept = 0
    BY DEF Init, Unset
  <2>2. from \in Nat \X Nat /\ to \in Nat \X Nat /\ ~(from[2] = 1)
    BY <2>1
  <2>3. to = Unset
    BY <2>1 DEF Unset
  <2>4. up \in BOOLEAN /\ ~up
    BY <2>1, Zenon
  <2>5. count \in Nat /\ seen \in 0 .. count /\ kept \in Nat
    BY <2>1
  <2>6. QED
    BY <2>2, <2>3, <2>4, <2>5 DEF RInv
<1>2. RInv /\ [Next]_vars => RInv'
  <2>1. RInv /\ UNCHANGED rateVars => RInv'
    BY DEF RInv, rateVars, Rest
  <2>2. QED
    BY <2>1, RatesStay, RInvOfAFrame, RInvOfNewCaps
<1>3. QED
  BY <1>1, <1>2, PTL DEF Spec

\* The products are taken as numbers, for the arithmetic to stay linear.
LEMMA WithinOneFrame ==
  ASSUME NEW k \in Int, NEW s \in Int, NEW p \in Nat, NEW r \in 0 .. p, NEW r0 \in 0 .. p,
         k + r = s + r0, r > r0 - p
  PROVE  k < s + p /\ k >= s - p
  OBVIOUS

\* The output rate is kept, with less than one frame too many and at most one
\* too few, for all rates that are set and whole, and over any number of frames and negotiations.
THEOREM RateIsKept == Spec => []KeepsTheRate
<1>1. RInv => KeepsTheRate
  <2> SUFFICES ASSUME RInv, from[2] = 1, to[2] = 1, to[1] <= from[1]
               PROVE  /\ kept * from[1] < seen * to[1] + from[1]
                      /\ kept * from[1] >= seen * to[1] - from[1]
    BY DEF KeepsTheRate
  <2>1. from[1] \in Nat /\ to[1] \in Nat /\ to[1] # 0
    BY DEF RInv, Unset
  <2>2. count \in Nat /\ count - seen \in Nat
    BY DEF RInv
  <2>3. /\ Rest(count) \in Rests /\ (up /\ count > 0 => Rest(count) # 0)
        /\ Rest(count - seen) \in Rests
        /\ count = 0 => Rest(count) = Rest(count - seen)
    <3>1. count = 0 => seen = 0
      BY DEF RInv
    <3>2. QED
      BY <2>1, <2>2, <3>1, RestOfAFrame DEF RInv
  <2>4. kept * from[1] + Rest(count) = seen * to[1] + Rest(count - seen)
    BY DEF RInv
  <2>5. kept * from[1] \in Int /\ seen * to[1] \in Int
    BY <2>1 DEF RInv
  <2>6. /\ Rest(count) \in 0 .. from[1] /\ Rest(count - seen) \in 0 .. from[1]
        /\ Rest(count) > Rest(count - seen) - from[1]
    <3>1. CASE up
      BY <2>1, <2>2, <2>3, <3>1 DEF Rests
    <3>2. CASE ~up
      BY <2>1, <2>3, <3>2 DEF Rests
    <3>3. QED
      BY <3>1, <3>2
  <2>7. QED
    BY ONLY <2>1, <2>4, <2>5, <2>6, WithinOneFrame
<1>2. QED
  BY <1>1, RInvHolds, PTL

-----------------------------------------------------------------------------
(***************************************************************************)
(* Descriptors.                                                            *)
(***************************************************************************)

FilesInv == DmaTypes /\ Files

LEMMA SomethingFree ==
  ASSUME FilesInv, NEW x \in Allocators \cup Memories,
         x \in Allocators => ~Exists(x), x \in Memories => ~Opened(x)
  PROVE  \E n \in Fds : fds[n] = Nobody
<1> DEFINE T == (Allocators \cup Memories) \ {x}
<1> SUFFICES ASSUME \A n \in Fds : fds[n] # Nobody PROVE FALSE
  OBVIOUS
<1>1. fds \in [Fds -> T]
  BY DEF FilesInv, DmaTypes, Files, HeapNumbers, MemNumbers
<1>2. /\ IsFiniteSet(Allocators \cup Memories)
      /\ Cardinality(Allocators \cup Memories) <= Cardinality(Allocators) + Cardinality(Memories)
  <2>1. /\ IsFiniteSet(Allocators \cup Memories)
        /\ Cardinality(Allocators \cup Memories)
             = Cardinality(Allocators) + Cardinality(Memories) - Cardinality(Allocators \cap Memories)
    BY AllocatorAssumption, FS_Union
  <2>2. Cardinality(Allocators \cap Memories) = 0
    BY AllocatorAssumption, FS_EmptySet
  <2>3. Cardinality(Allocators) \in Nat /\ Cardinality(Memories) \in Nat
    BY AllocatorAssumption, FS_CardinalityType
  <2>4. QED
    BY <2>1, <2>2, <2>3
<1>3. IsFiniteSet(T) /\ Cardinality(T) = Cardinality(Allocators \cup Memories) - 1
  BY <1>2, FS_RemoveElement
<1>4. Cardinality(T) < Cardinality(Fds)
  <2>1. /\ Cardinality(Allocators) \in Nat /\ Cardinality(Memories) \in Nat
        /\ Cardinality(Fds) \in Nat /\ Cardinality(Allocators \cup Memories) \in Nat
        /\ Cardinality(Fds) >= Cardinality(Allocators) + Cardinality(Memories)
    BY AllocatorAssumption, <1>2, FS_CardinalityType
  <2>2. QED
    BY <1>2, <1>3, <2>1
<1> HIDE DEF T
<1>5. PICK n \in Fds, k \in Fds : n # k /\ fds[n] = fds[k]
  <2>1. IsFiniteSet(Fds)
    BY AllocatorAssumption
  <2>2. \E n, k \in Fds : n # k /\ fds[n] = fds[k]
    BY ONLY <1>1, <1>3, <1>4, <2>1, FS_PigeonHole
  <2>3. QED
    BY <2>2
<1>6. fds[n] \in Allocators \cup Memories
  BY <1>1 DEF T
<1>7. QED
  BY <1>5, <1>6 DEF FilesInv, Files, HeapNumbers, MemNumbers

LEMMA LeastNumber ==
  ASSUME NEW S, S \subseteq Nat, S # {}
  PROVE  Min(S) \in S
<1>1. \E n \in S : \A k \in S : ~(<<k, n>> \in OpToRel(<, Nat))
  BY NatLessThanWellFounded, WFMin
<1>2. PICK n \in S : \A k \in S : ~(<<k, n>> \in OpToRel(<, Nat))
  BY <1>1
<1>3. ASSUME NEW k \in S PROVE n =< k
  <2>1. n \in Nat /\ k \in Nat
    OBVIOUS
  <2>2. ~(k < n)
    BY <1>2, <2>1 DEF OpToRel
  <2>3. QED
    BY <2>1, <2>2
<1>4. QED
  BY <1>3 DEF Min

LEMMA FreeNumber ==
  ASSUME FilesInv, NEW x \in Allocators \cup Memories,
         x \in Allocators => ~Exists(x), x \in Memories => ~Opened(x)
  PROVE  LowestFree \in Fds /\ fds[LowestFree] = Nobody
<1>1. {n \in Fds : fds[n] = Nobody} # {}
  BY SomethingFree
<1>2. {n \in Fds : fds[n] = Nobody} \subseteq Nat
  BY AllocatorAssumption
<1>3. QED
  BY <1>1, <1>2, LeastNumber DEF LowestFree

\* Each step of the allocator keeps the files in order.
LEMMA FilesOpenHeap ==
  ASSUME FilesInv, NEW a \in Allocators, NEW e \in Elements, OpenHeap(a, HeapName[e])
  PROVE  FilesInv'
<1>1. LowestFree \in Fds /\ fds[LowestFree] = Nobody
  BY FreeNumber, AllocatorAssumption DEF OpenHeap
<1>2. HeapName[e] \in Heaps
  BY DEF Elements, HeapName, Heaps
<1> DEFINE n == LowestFree
<1> HIDE DEF n
<1>3. /\ fds' = [fds EXCEPT ![n] = a] /\ heap_fd' = [heap_fd EXCEPT ![a] = n]
      /\ refs' = [refs EXCEPT ![a] = 1] /\ heap' = [heap EXCEPT ![a] = HeapName[e]]
      /\ UNCHANGED <<registered, mem_fd, mem_by, freed, hit>> /\ ~Exists(a)
  BY DEF OpenHeap, n
<1>4. n \in Fds /\ fds[n] = Nobody
  BY <1>1 DEF n
<1>5. DmaTypes'
  BY <1>2, <1>3, <1>4 DEF FilesInv, DmaTypes, Someone, Live
<1>6. Files'
  BY <1>3, <1>4, AllocatorAssumption
     DEF FilesInv, DmaTypes, Files, HeapNumbers, MemNumbers, HeapFiles, MemFiles, Exists,
         Opened, Live
<1>7. QED
  BY <1>5, <1>6 DEF FilesInv

LEMMA FilesAllocate ==
  ASSUME FilesInv, NEW m \in Memories, NEW a \in Allocators, Exists(a), Allocate(m, a)
  PROVE  FilesInv' /\ mem_fd'[m] # -1
<1>1. LowestFree \in Fds /\ fds[LowestFree] = Nobody
  BY FreeNumber, AllocatorAssumption DEF Allocate, Opened
<1> DEFINE n == LowestFree
<1> HIDE DEF n
<1>2. /\ fds' = [fds EXCEPT ![n] = m] /\ mem_fd' = [mem_fd EXCEPT ![m] = n]
      /\ refs' = [refs EXCEPT ![a] = @ + 1] /\ mem_by' = [mem_by EXCEPT ![m] = a]
      /\ UNCHANGED <<heap, heap_fd, registered, freed, hit>> /\ ~Live(m)
  BY DEF Allocate, n
<1>3. n \in Fds /\ fds[n] = Nobody /\ n # -1
  BY <1>1, AllocatorAssumption DEF n
<1>4. DmaTypes'
  BY <1>2, <1>3, AllocatorAssumption DEF FilesInv, DmaTypes, Someone, Live
<1>5. \A b \in Allocators : refs'[b] > 0 <=> refs[b] > 0
  BY <1>2 DEF FilesInv, DmaTypes, Exists
<1> DEFINE Op(o) == mem_by'[o] # Nobody /\ o \notin freed'
<1>6. \A o \in Memories : Op(o) <=> Opened(o) \/ o = m
  BY <1>2, AllocatorAssumption DEF FilesInv, DmaTypes, Opened, Live
<1> USE DEF FilesInv, DmaTypes
<1>7. HeapNumbers'
  BY <1>2, <1>3, <1>5, AllocatorAssumption DEF Files, HeapNumbers, Exists
<1>8. MemNumbers'
  BY <1>2, <1>3, <1>6, AllocatorAssumption DEF Files, MemNumbers, Opened, Live
<1>9. HeapFiles'
  BY <1>2, <1>3, <1>5, AllocatorAssumption DEF Files, HeapFiles, Exists
<1>10. MemFiles'
  BY <1>2, <1>3, <1>6, AllocatorAssumption DEF Files, MemFiles, Opened, Live
<1>11. QED
  BY <1>2, <1>3, <1>4, <1>7, <1>8, <1>9, <1>10 DEF Files

\* What Dropped leaves of the numbers when allocator b loses a reference.
LEMMA FilesLoseReference ==
  ASSUME FilesInv, NEW b \in Allocators, Exists(b), registered' \in Someone,
         fds' = Dropped(fds, b, refs[b]), refs' = [refs EXCEPT ![b] = @ - 1],
         UNCHANGED <<heap, heap_fd, mem_fd, mem_by, freed, hit>>
  PROVE  FilesInv'
<1> USE DEF FilesInv, DmaTypes
<1>1. heap_fd[b] # -1 /\ heap_fd[b] \in Fds /\ fds[heap_fd[b]] = b
  BY DEF Files, HeapFiles
<1>2. refs[b] \in Int /\ refs[b] > 0
  BY DEF Exists
<1>3. CASE refs[b] = 1
  <2>1. fds' = [k \in Fds |-> IF k = heap_fd[b] THEN Nobody ELSE fds[k]]
    BY <1>3 DEF Dropped, Closed
  <2>2. refs'[b] = 0 /\ \A o \in Allocators : o # b => refs'[o] = refs[o]
    BY <1>3
  <2>3. DmaTypes'
    BY <2>1 DEF Live
  <2>4. HeapNumbers' /\ HeapFiles'
    BY <1>1, <2>1, <2>2, AllocatorAssumption DEF Files, HeapNumbers, HeapFiles, Exists
  <2>5. MemNumbers' /\ MemFiles'
    BY <1>1, <2>1, AllocatorAssumption DEF Files, MemNumbers, MemFiles, Opened, Live
  <2>6. QED
    BY <2>3, <2>4, <2>5 DEF Files
<1>4. CASE refs[b] # 1
  <2>1. fds' = fds
    BY <1>4 DEF Dropped
  <2>2. \A o \in Allocators : refs'[o] > 0 <=> refs[o] > 0
    BY <1>2, <1>4
  <2>3. DmaTypes'
    BY <2>1 DEF Live
  <2>4. HeapNumbers' /\ HeapFiles'
    BY <2>1, <2>2, AllocatorAssumption DEF Files, HeapNumbers, HeapFiles, Exists
  <2>5. MemNumbers' /\ MemFiles'
    BY <2>1 DEF Files, MemNumbers, MemFiles, Opened, Live
  <2>6. QED
    BY <2>3, <2>4, <2>5 DEF Files
<1>5. QED
  BY <1>3, <1>4

LEMMA FilesRegister ==
  ASSUME FilesInv, NEW a \in Allocators, Register(a),
         registered # Nobody => Exists(registered)
  PROVE  FilesInv'
<1>1. CASE registered = Nobody
  BY <1>1 DEF FilesInv, DmaTypes, Files, HeapNumbers, MemNumbers, HeapFiles, MemFiles,
              Register, Exists, Opened, Live, Someone
<1>2. CASE registered # Nobody
  <2>1. registered \in Allocators /\ registered' \in Someone
    BY <1>2 DEF FilesInv, DmaTypes, Someone, Register
  <2>2. QED
    BY <1>2, <2>1, FilesLoseReference DEF Register
<1>3. QED
  BY <1>1, <1>2

LEMMA FilesFind ==
  ASSUME FilesInv, registered # Nobody, Exists(registered), Find
  PROVE  FilesInv'
<1> USE DEF FilesInv, DmaTypes
<1>1. registered \in Allocators
  BY DEF Someone
<1>2. \A o \in Allocators : refs'[o] > 0 <=> refs[o] > 0
  BY <1>1 DEF Find, Exists
<1>3. DmaTypes'
  BY <1>1 DEF Find, Live
<1>4. HeapNumbers' /\ HeapFiles'
  BY <1>2 DEF Find, Files, HeapNumbers, HeapFiles, Exists
<1>5. MemNumbers' /\ MemFiles'
  BY DEF Find, Files, MemNumbers, MemFiles, Opened, Live
<1>6. QED
  BY <1>3, <1>4, <1>5 DEF Files

LEMMA FilesAllocateFails ==
  ASSUME FilesInv, NEW m \in Memories, NEW a \in Allocators, Exists(a), AllocateFails(m, a)
  PROVE  FilesInv'
<1> USE DEF FilesInv, DmaTypes
<1>1. \A o \in Allocators : refs'[o] > 0 <=> refs[o] > 0
  BY DEF AllocateFails, Exists
<1>2. DmaTypes'
  BY AllocatorAssumption DEF AllocateFails, Live, Someone
<1>3. HeapNumbers' /\ HeapFiles'
  BY <1>1 DEF AllocateFails, Files, HeapNumbers, HeapFiles, Exists
<1>4. MemNumbers' /\ MemFiles'
  BY AllocatorAssumption DEF AllocateFails, Files, MemNumbers, MemFiles, Opened, Live
<1>5. QED
  BY <1>2, <1>3, <1>4 DEF Files

LEMMA FilesFree ==
  ASSUME FilesInv, NEW m \in Memories, Free(m), Exists(mem_by[m])
  PROVE  FilesInv'
<1> USE DEF FilesInv, DmaTypes
<1> DEFINE b == mem_by[m]
           t == Closed(fds, mem_fd[m])
<1>1. b \in Allocators /\ refs[b] \in Int /\ refs[b] > 0 /\ Opened(m)
  BY DEF Free, Live, Someone, Exists, Opened
<1>2. heap_fd[b] # -1 /\ heap_fd[b] \in Fds /\ fds[heap_fd[b]] = b
  BY <1>1 DEF Files, HeapFiles
<1>3. \A k \in Fds : k = mem_fd[m] => fds[k] = m
  <2>1. \A k \in Fds : k # -1
    BY AllocatorAssumption
  <2>2. QED
    BY <1>1, <2>1 DEF Files, MemFiles
<1>4. t = [k \in Fds |-> IF k = mem_fd[m] THEN Nobody ELSE fds[k]]
  BY DEF Closed
<1>5. \A k \in Fds : fds'[k] = IF k = mem_fd[m] \/ (refs[b] = 1 /\ k = heap_fd[b])
                               THEN Nobody ELSE fds[k]
  BY <1>4 DEF Free, Dropped, Closed
<1>6. fds' \in [Fds -> Allocators \cup Memories \cup {Nobody}]
  BY <1>4 DEF Free, Dropped, Closed
<1>7. refs' = [refs EXCEPT ![b] = @ - 1] /\ UNCHANGED <<heap, heap_fd, registered, mem_fd, mem_by, hit>>
      /\ freed' = freed \cup {m}
  BY DEF Free
<1>8. \A o \in Allocators : refs'[o] > 0 <=> refs[o] > 0 /\ ~(o = b /\ refs[b] = 1)
  BY <1>1, <1>7
<1> HIDE DEF b, t
<1>9. DmaTypes'
  BY <1>1, <1>6, <1>7 DEF Live, Opened
<1>10. HeapNumbers'
  BY <1>2, <1>5, <1>7, <1>8, AllocatorAssumption DEF Files, HeapNumbers, Exists
<1>11. HeapFiles'
  <2> SUFFICES ASSUME NEW o \in Allocators, Exists(o)'
               PROVE  heap_fd'[o] # -1 /\ fds'[heap_fd'[o]] = o
    BY DEF HeapFiles
  <2>1. Exists(o) /\ ~(o = b /\ refs[b] = 1) /\ heap_fd'[o] = heap_fd[o]
    BY <1>7, <1>8 DEF Exists
  <2>2. heap_fd[o] # -1 /\ heap_fd[o] \in Fds /\ fds[heap_fd[o]] = o
    BY <2>1 DEF Files, HeapFiles
  <2>3. heap_fd[o] # mem_fd[m]
    BY <1>3, <2>2, AllocatorAssumption
  <2>4. ~(refs[b] = 1 /\ heap_fd[o] = heap_fd[b])
    BY <1>2, <2>1, <2>2
  <2>5. QED
    BY <1>5, <2>1, <2>2, <2>3, <2>4
<1>12. MemNumbers'
  BY <1>1, <1>3, <1>5, <1>7, AllocatorAssumption DEF Files, MemNumbers, Opened, Live
<1>13. MemFiles'
  <2> SUFFICES ASSUME NEW o \in Memories, Opened(o)', mem_fd'[o] # -1
               PROVE  fds'[mem_fd'[o]] = o
    BY DEF MemFiles
  <2>1. Opened(o) /\ o # m /\ mem_fd[o] \in Fds /\ mem_fd'[o] = mem_fd[o]
    BY <1>7 DEF Opened, Live
  <2>2. fds[mem_fd[o]] = o
    BY <2>1, <1>7 DEF Files, MemFiles
  <2>3. QED
    BY <1>1, <1>2, <1>3, <1>5, <2>1, <2>2, AllocatorAssumption
<1>14. QED
  BY <1>9, <1>10, <1>11, <1>12, <1>13 DEF Files

\* The second close leaves the files in order unless it hits another's.
LEMMA FilesFreeAgain ==
  ASSUME FilesInv, NEW m \in Memories, FreeAgain(m)
  PROVE  DmaTypes' /\ (~hit' => Files')
<1> USE DEF FilesInv, DmaTypes
<1>1. DmaTypes'
  <2>1. fds' \in [Fds -> Allocators \cup Memories \cup {Nobody}]
    BY DEF FreeAgain, Closed
  <2>2. hit' \in BOOLEAN
    BY DEF FreeAgain
  <2>3. freed' \subseteq {o \in Memories : mem_by'[o] # Nobody}
    BY DEF FreeAgain, Live
  <2>4. mem_by' \in [Memories -> Someone]
    BY DEF FreeAgain, Someone
  <2>5. QED
    BY <2>1, <2>2, <2>3, <2>4 DEF FreeAgain, Live
<1>2. ASSUME ~hit' PROVE Files'
  <2>1. fds' = fds
    BY <1>2 DEF FreeAgain
  <2>2. HeapNumbers' /\ HeapFiles'
    BY <2>1 DEF FreeAgain, Files, HeapNumbers, HeapFiles, Exists
  <2>3. MemNumbers' /\ MemFiles'
    BY <2>1 DEF FreeAgain, Files, MemNumbers, MemFiles, Opened, Live
  <2>4. QED
    BY <2>2, <2>3 DEF Files
<1>3. QED
  BY <1>1, <1>2

-----------------------------------------------------------------------------
(***************************************************************************)
(* References.                                                             *)
(***************************************************************************)

LEMMA HeldCount ==
  ASSUME NEW a \in Allocators
  PROVE  /\ IsFiniteSet(Held(a)) /\ Cardinality(Held(a)) \in Nat
         /\ \A m \in Held(a) : Cardinality(Held(a)) > 0
<1>1. Held(a) \subseteq Memories
  BY DEF Held
<1>2. IsFiniteSet(Held(a))
  BY <1>1, AllocatorAssumption, FS_Subset
<1>3. Cardinality(Held(a)) \in Nat /\ (Cardinality(Held(a)) = 0 <=> Held(a) = {})
  BY <1>2, FS_CardinalityType, FS_EmptySet
<1>4. QED
  BY <1>2, <1>3

\* What is referred to is there.
LEMMA InUse ==
  ASSUME DmaTypes, References, NEW a \in Allocators,
         \/ registered = a
         \/ \E e \in Elements : dmabuf_alloc[e] = a \/ made[e] = a
         \/ \E m \in Memories : mem_by[m] = a /\ m \notin freed
  PROVE  Exists(a)
<1>1. Cardinality(Held(a)) \in Nat
  BY HeldCount
<1>2. refs[a] = Cardinality(Held(a)) + Used(a)
  BY DEF References
<1>3. CASE registered = a \/ \E e \in Elements : dmabuf_alloc[e] = a \/ made[e] = a
  BY <1>1, <1>2, <1>3 DEF Used, One, Elements, Exists
<1>4. CASE \E m \in Memories : mem_by[m] = a /\ m \notin freed
  <2>1. \E m \in Memories : m \in Held(a)
    BY <1>4 DEF Held
  <2>2. Cardinality(Held(a)) > 0
    BY <2>1, HeldCount
  <2>3. QED
    BY <1>1, <1>2, <2>2 DEF Used, One, Exists
<1>5. QED
  BY <1>3, <1>4

\* What is not there is referred to by nothing.
LEMMA NotInUse ==
  ASSUME DmaTypes, References, NEW a \in Allocators, ~Exists(a)
  PROVE  refs[a] = 0 /\ Cardinality(Held(a)) = 0 /\ Used(a) = 0
<1>1. Cardinality(Held(a)) \in Nat
  BY HeldCount
<1>2. refs[a] = Cardinality(Held(a)) + Used(a) /\ ~(refs[a] > 0)
  BY DEF References, Exists
<1>3. Used(a) \in Nat
  BY DEF Used, One
<1>4. QED
  BY <1>1, <1>2, <1>3

\* A step that puts m among what a holds, and one that takes it away.
Holds(m, a)  == ~Live(m) /\ mem_by' = [mem_by EXCEPT ![m] = a] /\ freed' = freed
GivesBack(m) == Opened(m) /\ mem_by' = mem_by /\ freed' = freed \cup {m}

LEMMA HeldGrows ==
  ASSUME DmaTypes, NEW m \in Memories, NEW a \in Allocators, Holds(m, a),
         NEW b \in Allocators
  PROVE  Cardinality(Held(b)') = Cardinality(Held(b)) + One(b = a)
<1> USE DEF Holds
<1>1. m \notin freed /\ m \notin Held(b)
  BY AllocatorAssumption DEF DmaTypes, Live, Held
<1>2. CASE b = a
  <2>1. Held(b)' = Held(b) \cup {m}
    BY <1>1, <1>2 DEF Held, DmaTypes
  <2>2. QED
    BY <1>1, <1>2, <2>1, HeldCount, FS_AddElement DEF One
<1>3. CASE b # a
  <2>1. Held(b)' = Held(b)
    BY <1>1, <1>3 DEF Held, DmaTypes
  <2>2. QED
    BY <1>3, <2>1, HeldCount DEF One
<1>4. QED
  BY <1>2, <1>3

LEMMA HeldShrinks ==
  ASSUME DmaTypes, NEW m \in Memories, GivesBack(m), NEW b \in Allocators
  PROVE  Cardinality(Held(b)') = Cardinality(Held(b)) - One(b = mem_by[m])
<1> USE DEF GivesBack
<1>1. CASE b = mem_by[m]
  <2>1. Held(b)' = Held(b) \ {m} /\ m \in Held(b)
    BY <1>1 DEF Held, Opened
  <2>2. QED
    BY <1>1, <2>1, HeldCount, FS_RemoveElement DEF One
<1>2. CASE b # mem_by[m]
  <2>1. Held(b)' = Held(b)
    BY <1>2 DEF Held
  <2>2. QED
    BY <1>2, <2>1, HeldCount DEF One
<1>3. QED
  BY <1>1, <1>2

LEMMA HeldStays ==
  ASSUME DmaTypes, NEW b \in Allocators,
         \/ UNCHANGED <<mem_by, freed>>
         \/ \E m \in Memories : FreeAgain(m)
  PROVE  Held(b)' = Held(b)
<1>1. CASE UNCHANGED <<mem_by, freed>>
  BY <1>1 DEF Held
<1>2. CASE \E m \in Memories : FreeAgain(m)
  BY <1>2, AllocatorAssumption DEF Held, FreeAgain, DmaTypes
<1>3. QED
  BY <1>1, <1>2

\* How many references each step leaves.
LEMMA ReferencesStay ==
  ASSUME DmaTypes, References,
         UNCHANGED <<refs, registered, dmabuf_alloc, made>>,
         \/ UNCHANGED <<mem_by, freed>>
         \/ \E m \in Memories : FreeAgain(m)
  PROVE  References'
BY HeldStays DEF References, Used

LEMMA ReferencesGrow ==
  ASSUME DmaTypes, References, UNCHANGED <<registered, dmabuf_alloc, made>>,
         NEW m \in Memories, NEW a \in Allocators, Holds(m, a),
         refs' = [refs EXCEPT ![a] = @ + 1]
  PROVE  References'
<1> SUFFICES ASSUME NEW b \in Allocators PROVE refs'[b] = Cardinality(Held(b)') + Used(b)'
  BY DEF References
<1>1. /\ Cardinality(Held(b)') = Cardinality(Held(b)) + One(b = a)
      /\ Cardinality(Held(b)) \in Nat
  <2>1. Cardinality(Held(b)') = Cardinality(Held(b)) + One(b = a)
    BY HeldGrows
  <2>2. QED
    BY <2>1, HeldCount
<1>2. Used(b)' = Used(b) /\ Used(b) \in Nat
  BY DEF Used, One
<1>3. refs[b] = Cardinality(Held(b)) + Used(b) /\ refs'[b] = refs[b] + One(b = a)
  BY DEF References, One, DmaTypes
<1>4. QED
  BY <1>1, <1>2, <1>3 DEF One

LEMMA ReferencesShrink ==
  ASSUME DmaTypes, References, UNCHANGED <<registered, dmabuf_alloc, made>>,
         NEW m \in Memories, GivesBack(m),
         refs' = [refs EXCEPT ![mem_by[m]] = @ - 1]
  PROVE  References'
<1> SUFFICES ASSUME NEW b \in Allocators PROVE refs'[b] = Cardinality(Held(b)') + Used(b)'
  BY DEF References
<1>1. /\ Cardinality(Held(b)') = Cardinality(Held(b)) - One(b = mem_by[m])
      /\ Cardinality(Held(b)) \in Nat
  <2>1. Cardinality(Held(b)') = Cardinality(Held(b)) - One(b = mem_by[m])
    BY HeldShrinks
  <2>2. QED
    BY <2>1, HeldCount
<1>2. Used(b)' = Used(b) /\ Used(b) \in Nat
  BY DEF Used, One
<1>3. refs[b] = Cardinality(Held(b)) + Used(b) /\ refs'[b] = refs[b] - One(b = mem_by[m])
  BY DEF References, One, DmaTypes
<1>4. QED
  BY <1>1, <1>2, <1>3 DEF One

-----------------------------------------------------------------------------
(***************************************************************************)
(* The steps of the elements' lives.                                       *)
(***************************************************************************)

LEMMA FilesStay ==
  ASSUME DmaTypes, Files, UNCHANGED dmaVars
  PROVE  DmaTypes' /\ Files'
BY DEF DmaTypes, Files, HeapNumbers, MemNumbers, HeapFiles, MemFiles, dmaVars, Exists, Opened,
       Live, Someone

\* An element's step leaves the frames alone while the converter plays.
LEMMA HandsStay ==
  ASSUME Hands, UNCHANGED <<tpc, out, staged, staging, sent, mem_by, freed, mem_fd>>,
         pc["conv"] \in {"play", "unstage"} => pc'["conv"] = pc["conv"]
  PROVE  Hands'
BY DEF Hands, Opened, Live, InFrame

LEMMA LifeStays ==
  ASSUME Life, OwnHeap, UNCHANGED <<lifeVars, heap, registered>>
  PROVE  Life' /\ OwnHeap'
BY DEF Life, OwnHeap, lifeVars, One, Someone

\* The allocators in the elements' hands are there.
LEMMA AllocatorsExist ==
  ASSUME IInv
  PROVE  /\ registered # Nobody => registered \in Allocators /\ Exists(registered)
         /\ \A e \in Elements : made[e] # Nobody => made[e] \in Allocators /\ Exists(made[e])
         /\ \A e \in Elements : dmabuf_alloc[e] # Nobody =>
              dmabuf_alloc[e] \in Allocators /\ Exists(dmabuf_alloc[e])
         /\ \A m \in Memories : Opened(m) => mem_by[m] \in Allocators /\ Exists(mem_by[m])
<1>1. registered # Nobody => registered \in Allocators
  BY DEF IInv, DmaTypes, Someone
<1>2. \A e \in Elements : /\ made[e] # Nobody => made[e] \in Allocators
                          /\ dmabuf_alloc[e] # Nobody => dmabuf_alloc[e] \in Allocators
  BY DEF IInv, Life, Someone
<1>3. \A m \in Memories : Opened(m) => mem_by[m] \in Allocators
  BY DEF IInv, DmaTypes, Someone, Opened, Live
<1>4. \A m \in Memories : Opened(m) => Exists(mem_by[m])
  BY <1>3, InUse DEF IInv, Opened
<1>5. QED
  BY <1>1, <1>2, <1>3, <1>4, InUse DEF IInv

LEMMA StartKeeps ==
  ASSUME IInv, ~hit, NEW e \in Elements, Start(e)
  PROVE  IInv'
<1> USE DEF IInv
<1>1. DmaTypes' /\ Files'
  BY FilesStay DEF Start
<1>2. References'
  BY ReferencesStay DEF Start, dmaVars
<1>3. Life'
  BY DEF Start, Goto, Life, Elements, One, Someone
<1>4. OwnHeap'
  BY DEF Start, Goto, Life, OwnHeap, dmaVars
<1>5. Hands'
  BY HandsStay DEF Start, Goto, Life, frameVars, dmaVars
<1>6. QED
  BY <1>1, <1>2, <1>3, <1>4, <1>5

LEMMA OpenKeeps ==
  ASSUME IInv, ~hit, NEW e \in Elements, Open(e)
  PROVE  IInv'
<1> USE DEF IInv
<1>1. PICK a \in Allocators : OpenHeap(a, HeapName[e]) /\ made' = [made EXCEPT ![e] = a]
  BY DEF Open
<1>2. DmaTypes' /\ Files'
  BY <1>1, FilesOpenHeap DEF FilesInv
<1>3. ~Exists(a) /\ a # Nobody /\ made[e] = Nobody
  BY <1>1, AllocatorAssumption DEF OpenHeap, Open, Goto, Life
<1>4. References'
  <2> SUFFICES ASSUME NEW b \in Allocators PROVE refs'[b] = Cardinality(Held(b)') + Used(b)'
    BY DEF References
  <2>1. Held(b)' = Held(b) /\ Cardinality(Held(b)) \in Nat
    BY <1>1, HeldStays, HeldCount DEF OpenHeap
  <2>2. Used(b)' = Used(b) + One(b = a) /\ Used(b) \in Nat
    BY <1>1, <1>3, AllocatorAssumption DEF OpenHeap, Open, Used, One, Life, Elements
  <2>3. refs'[b] = IF b = a THEN 1 ELSE refs[b]
    BY <1>1 DEF OpenHeap, DmaTypes
  <2>4. CASE b = a
    BY <1>3, <2>1, <2>2, <2>3, <2>4, NotInUse DEF One
  <2>5. CASE b # a
    BY <2>1, <2>2, <2>3, <2>5 DEF One, References
  <2>6. QED
    BY <2>4, <2>5
<1>5. Life'
  BY <1>1, <1>3 DEF Open, Goto, Life, Elements, One, Someone
<1>6. OwnHeap'
  <2>1. \A b \in Allocators : Exists(b) => b # a /\ heap'[b] = heap[b]
    BY <1>1, <1>3 DEF OpenHeap, DmaTypes
  <2>2. heap'[a] = HeapName[e] /\ registered' = registered
    BY <1>1 DEF OpenHeap, DmaTypes
  <2> SUFFICES ASSUME NEW o \in Elements
               PROVE  /\ pc'[o] = "register" => heap'[made'[o]] = HeapName[o]
                      /\ pc'[o] = "find" /\ ~overtaken'[o] =>
                           registered' # Nobody /\ heap'[registered'] = HeapName[o]
                      /\ dmabuf_alloc'[o] # Nobody /\ ~overtaken'[o] =>
                           heap'[dmabuf_alloc'[o]] = HeapName[o]
    BY DEF OwnHeap
  <2>3. pc'[o] = "register" => heap'[made'[o]] = HeapName[o]
    BY <1>1, <2>1, <2>2, AllocatorsExist DEF Open, Goto, Life, OwnHeap
  <2>4. pc'[o] = "find" /\ ~overtaken'[o] =>
          registered' # Nobody /\ heap'[registered'] = HeapName[o]
    BY <2>1, <2>2, AllocatorsExist DEF Open, Goto, Life, OwnHeap
  <2>5. dmabuf_alloc'[o] # Nobody /\ ~overtaken'[o] =>
          heap'[dmabuf_alloc'[o]] = HeapName[o]
    BY <2>1, <2>2, AllocatorsExist DEF Open, Goto, Life, OwnHeap
  <2>6. QED
    BY <2>3, <2>4, <2>5
<1>7. Hands'
  BY <1>1, HandsStay DEF Open, Goto, OpenHeap, frameVars, Life
<1>8. QED
  BY <1>2, <1>4, <1>5, <1>6, <1>7

LEMMA OpenFailsKeeps ==
  ASSUME IInv, ~hit, NEW e \in Elements, OpenFails(e)
  PROVE  IInv'
<1> USE DEF IInv
<1>1. DmaTypes' /\ Files'
  BY FilesStay DEF OpenFails
<1>2. References'
  BY ReferencesStay DEF OpenFails, dmaVars
<1>3. Life'
  BY DEF OpenFails, Goto, Life, Elements, One, Someone
<1>4. OwnHeap'
  BY DEF OpenFails, Goto, Life, OwnHeap, dmaVars
<1>5. Hands'
  BY HandsStay DEF OpenFails, Goto, Life, frameVars, dmaVars
<1>6. QED
  BY <1>1, <1>2, <1>3, <1>4, <1>5

LEMMA RegistersKeeps ==
  ASSUME IInv, ~hit, NEW e \in Elements, Registers(e)
  PROVE  IInv'
<1> USE DEF IInv
<1> DEFINE a == made[e]
<1>1. a \in Allocators /\ a # Nobody /\ Exists(a)
  BY AllocatorsExist DEF Registers, Goto, Life
<1>2. DmaTypes' /\ Files'
  BY <1>1, AllocatorsExist, FilesRegister DEF FilesInv, Registers
<1>3. /\ registered' = a /\ made' = [made EXCEPT ![e] = Nobody]
      /\ UNCHANGED <<mem_by, freed, mem_fd, heap, dmabuf_alloc>>
      /\ refs' = IF registered = Nobody THEN refs ELSE [refs EXCEPT ![registered] = @ - 1]
  BY DEF Registers, Register
<1>4. References'
  <2> SUFFICES ASSUME NEW b \in Allocators PROVE refs'[b] = Cardinality(Held(b)') + Used(b)'
    BY DEF References
  <2>1. Held(b)' = Held(b) /\ Cardinality(Held(b)) \in Nat
    BY <1>3, HeldStays, HeldCount
  <2>2. Used(b)' = Used(b) - One(registered = b) /\ Used(b) \in Nat
    BY <1>1, <1>3, AllocatorAssumption DEF Used, One, Life, Elements
  <2>3. refs'[b] = refs[b] - One(registered = b)
    BY <1>3, AllocatorAssumption DEF One, DmaTypes
  <2>4. QED
    BY <2>1, <2>2, <2>3 DEF References, One
<1>5. Life'
  BY <1>1, <1>3 DEF Registers, Goto, Life, Elements, One, Someone
<1>6. OwnHeap'
  BY <1>1, <1>3 DEF Registers, Goto, Life, OwnHeap
<1>7. Hands'
  BY <1>3, HandsStay DEF Registers, Goto, frameVars, Life
<1>8. QED
  BY <1>2, <1>4, <1>5, <1>6, <1>7

LEMMA FindsKeeps ==
  ASSUME IInv, ~hit, NEW e \in Elements, Finds(e)
  PROVE  IInv'
<1> USE DEF IInv
<1> DEFINE a == registered
<1>1. a \in Allocators /\ a # Nobody /\ Exists(a) /\ dmabuf_alloc[e] = Nobody
  BY AllocatorsExist DEF Finds, Goto, Life
<1>2. DmaTypes' /\ Files'
  BY <1>1, FilesFind DEF FilesInv, Finds
<1>3. /\ dmabuf_alloc' = [dmabuf_alloc EXCEPT ![e] = a]
      /\ UNCHANGED <<mem_by, freed, mem_fd, heap, made, registered>>
      /\ refs' = [refs EXCEPT ![a] = @ + 1]
  BY DEF Finds, Find
<1>4. References'
  <2> SUFFICES ASSUME NEW b \in Allocators PROVE refs'[b] = Cardinality(Held(b)') + Used(b)'
    BY DEF References
  <2>1. Held(b)' = Held(b) /\ Cardinality(Held(b)) \in Nat
    BY <1>3, HeldStays, HeldCount
  <2>2. Used(b)' = Used(b) + One(b = a) /\ Used(b) \in Nat
    BY <1>1, <1>3, AllocatorAssumption DEF Used, One, Life, Elements
  <2>3. refs'[b] = refs[b] + One(b = a)
    BY <1>3 DEF One, DmaTypes
  <2>4. QED
    BY <2>1, <2>2, <2>3 DEF References, One
<1>5. Life'
  BY <1>1, <1>3 DEF Finds, Goto, Life, Elements, One, Someone
<1>6. OwnHeap'
  BY <1>1, <1>3 DEF Finds, Goto, Life, OwnHeap
<1>7. Hands'
  BY <1>3, HandsStay DEF Finds, Goto, frameVars, Life
<1>8. QED
  BY <1>2, <1>4, <1>5, <1>6, <1>7

LEMMA FindsNoneKeeps ==
  ASSUME IInv, ~hit, NEW e \in Elements, FindsNone(e)
  PROVE  IInv'
<1> USE DEF IInv
<1>1. DmaTypes' /\ Files'
  BY FilesStay DEF FindsNone
<1>2. References'
  BY ReferencesStay DEF FindsNone, dmaVars
<1>3. Life'
  BY DEF FindsNone, Goto, Life, Elements, One, Someone
<1>4. OwnHeap'
  BY DEF FindsNone, Goto, Life, OwnHeap, dmaVars
<1>5. Hands'
  BY HandsStay DEF FindsNone, Goto, Life, frameVars, dmaVars
<1>6. QED
  BY <1>1, <1>2, <1>3, <1>4, <1>5

LEMMA StopKeeps ==
  ASSUME IInv, ~hit, NEW e \in Elements, Stop(e)
  PROVE  IInv'
<1> USE DEF IInv
<1> DEFINE a == dmabuf_alloc[e]
<1>1. a \in Allocators /\ a # Nobody /\ Exists(a)
  BY AllocatorsExist DEF Stop, Goto, Life
<1>2. /\ fds' = Dropped(fds, a, refs[a]) /\ refs' = [refs EXCEPT ![a] = @ - 1]
      /\ UNCHANGED <<heap, heap_fd, registered, mem_fd, mem_by, freed, hit, made>>
      /\ dmabuf_alloc' = [dmabuf_alloc EXCEPT ![e] = Nobody]
  BY DEF Stop, Unref
<1>3. DmaTypes' /\ Files'
  <2>1. registered' \in Someone
    BY <1>2 DEF DmaTypes
  <2>2. QED
    BY <1>1, <1>2, <2>1, FilesLoseReference DEF FilesInv
<1>4. References'
  <2> SUFFICES ASSUME NEW b \in Allocators PROVE refs'[b] = Cardinality(Held(b)') + Used(b)'
    BY DEF References
  <2>1. Held(b)' = Held(b) /\ Cardinality(Held(b)) \in Nat
    BY <1>2, HeldStays, HeldCount
  <2>2. Used(b)' = Used(b) - One(b = a) /\ Used(b) \in Nat
    BY <1>1, <1>2, AllocatorAssumption DEF Used, One, Life, Elements
  <2>3. refs'[b] = refs[b] - One(b = a)
    BY <1>2 DEF One, DmaTypes
  <2>4. QED
    BY <2>1, <2>2, <2>3 DEF References, One
<1>5. Life'
  BY <1>1, <1>2 DEF Stop, Goto, Life, Elements, One, Someone
<1>6. OwnHeap'
  BY <1>1, <1>2 DEF Stop, Goto, Life, OwnHeap
<1>7. Hands'
  BY <1>2, HandsStay DEF Stop, Goto, frameVars, Life, Elements
<1>8. QED
  BY <1>3, <1>4, <1>5, <1>6, <1>7

LEMMA FreeKeeps ==
  ASSUME IInv, ~hit, NEW m \in Memories, Free(m), UNCHANGED <<dmabuf_alloc, made>>
  PROVE  DmaTypes' /\ Files' /\ References'
<1>1. Opened(m) /\ Exists(mem_by[m])
  BY AllocatorsExist DEF Free, Opened
<1>2. DmaTypes' /\ Files'
  BY <1>1, FilesFree DEF FilesInv, IInv
<1>3. References'
  <2>1. GivesBack(m) /\ refs' = [refs EXCEPT ![mem_by[m]] = @ - 1]
    BY <1>1 DEF Free, GivesBack
  <2>2. DmaTypes /\ References /\ UNCHANGED <<registered, dmabuf_alloc, made>>
    BY DEF IInv, Free
  <2>3. QED
    BY <2>1, <2>2, ReferencesShrink
<1>4. QED
  BY <1>2, <1>3

LEMMA FreeAgainKeeps ==
  ASSUME IInv, ~hit, NEW m \in Memories, FreeAgain(m), UNCHANGED <<dmabuf_alloc, made>>
  PROVE  DmaTypes' /\ (~hit' => Files') /\ References'
<1>1. DmaTypes' /\ (~hit' => Files')
  BY FilesFreeAgain DEF FilesInv, IInv
<1>2. UNCHANGED <<refs, registered, dmabuf_alloc, made>> /\ \E k \in Memories : FreeAgain(k)
  BY DEF FreeAgain
<1>3. References'
  BY <1>2, ReferencesStay DEF IInv
<1>4. QED
  BY <1>1, <1>3

LEMMA CloseKeeps ==
  ASSUME IInv, ~hit, Close
  PROVE  IInv'
<1> USE DEF IInv
<1>1. CASE staging = Nobody
  <2>1. DmaTypes' /\ Files'
    BY <1>1, FilesStay DEF Close
  <2>2. References'
    BY <1>1, ReferencesStay DEF Close, dmaVars
  <2>3. Life'
    BY <1>1 DEF Close, Goto, Life, Elements, One, Someone
  <2>4. OwnHeap'
    BY <1>1 DEF Close, Goto, Life, OwnHeap, dmaVars
  <2>5. Hands'
    BY <1>1 DEF Close, Goto, Life, Hands, dmaVars, InFrame, Opened, Live
  <2>6. QED
    BY <2>1, <2>2, <2>3, <2>4, <2>5
<1>2. CASE staging # Nobody
  <2>1. staging \in Memories /\ Free(staging) /\ Goto("conv", "play", "unstage")
    BY <1>2 DEF Close, Hands
  <2>2. DmaTypes' /\ Files' /\ References'
    BY <2>1, FreeKeeps DEF Close
  <2>3. Life'
    BY <2>1 DEF Close, Goto, Life, Elements, One, Someone
  <2>4. OwnHeap'
    BY <2>1 DEF Close, Goto, Life, OwnHeap, Free
  <2>5. Hands'
    BY <2>1, AllocatorAssumption DEF Close, Goto, Life, Hands, Free, InFrame, Opened, Live, Elements
  <2>6. QED
    BY <2>2, <2>3, <2>4, <2>5
<1>3. QED
  BY <1>1, <1>2

LEMMA CloseStagingKeeps ==
  ASSUME IInv, ~hit, CloseStaging
  PROVE  IInv'
<1> USE DEF IInv
<1>1. FreeAgain(staging) /\ Goto("conv", "unstage", "stop") /\ staging' = Nobody
  BY DEF CloseStaging
<1>2. staging \in Memories
  BY <1>1 DEF FreeAgain, DmaTypes
<1>3. DmaTypes' /\ (~hit' => Files') /\ References'
  BY <1>1, <1>2, FreeAgainKeeps DEF CloseStaging
<1>4. Life'
  BY <1>1 DEF CloseStaging, Goto, Life, Elements, One, Someone
<1>5. OwnHeap'
  BY <1>1 DEF CloseStaging, Goto, Life, OwnHeap, FreeAgain
<1>6. Hands'
  BY <1>1, <1>2, AllocatorAssumption
     DEF CloseStaging, Goto, Life, Hands, FreeAgain, InFrame, Opened, Live, Elements, DmaTypes
<1>7. QED
  BY <1>3, <1>4, <1>5, <1>6

-----------------------------------------------------------------------------
(***************************************************************************)
(* The steps of the streaming thread, and downstream's.                    *)
(***************************************************************************)

LEMMA AllocateKeeps ==
  ASSUME IInv, ~hit, Playing, NEW m \in Memories, UNCHANGED lifeVars,
         \/ Allocate(m, dmabuf_alloc["conv"])
         \/ AllocateFails(m, dmabuf_alloc["conv"])
  PROVE  /\ DmaTypes' /\ Files' /\ References' /\ Life' /\ OwnHeap'
         /\ Allocate(m, dmabuf_alloc["conv"]) => mem_fd'[m] # -1
         /\ ~Live(m) /\ m \notin freed /\ mem_by'[m] # Nobody /\ freed' = freed
         /\ \A o \in Memories : o # m => mem_by'[o] = mem_by[o] /\ mem_fd'[o] = mem_fd[o]
<1> USE DEF IInv
<1> DEFINE a == dmabuf_alloc["conv"]
<1>1. a \in Allocators /\ a # Nobody /\ Exists(a)
  BY AllocatorsExist DEF Playing, Life, Elements
<1> HIDE DEF a
<1>2. /\ ~Live(m) /\ mem_by' = [mem_by EXCEPT ![m] = a] /\ freed' = freed
      /\ refs' = [refs EXCEPT ![a] = @ + 1]
      /\ UNCHANGED <<heap, registered, dmabuf_alloc, made>>
      /\ \A o \in Memories : o # m => mem_fd'[o] = mem_fd[o]
  BY DEF Allocate, AllocateFails, lifeVars, a, DmaTypes
<1>3. DmaTypes' /\ Files' /\ (Allocate(m, a) => mem_fd'[m] # -1)
  <2>1. CASE Allocate(m, a)
    BY <1>1, <2>1, FilesAllocate DEF FilesInv
  <2>2. CASE ~Allocate(m, a)
    <3>1. AllocateFails(m, a)
      BY <2>2 DEF a
    <3>2. QED
      BY <1>1, <2>2, <3>1, FilesAllocateFails DEF FilesInv
  <2>3. QED
    BY <2>1, <2>2
<1>4. References'
  <2>1. Holds(m, a) /\ refs' = [refs EXCEPT ![a] = @ + 1]
    BY <1>2 DEF Holds
  <2>2. DmaTypes /\ References /\ UNCHANGED <<registered, dmabuf_alloc, made>>
    BY <1>2
  <2>3. QED
    BY <1>1, <2>1, <2>2, ReferencesGrow
<1>5. Life' /\ OwnHeap'
  BY <1>2, LifeStays
<1>6. m \notin freed /\ mem_by'[m] # Nobody
     /\ \A o \in Memories : o # m => mem_by'[o] = mem_by[o]
  BY <1>1, <1>2 DEF DmaTypes
<1>7. QED
  BY <1>2, <1>3, <1>4, <1>5, <1>6 DEF a

LEMMA NegotiateKeeps ==
  ASSUME IInv, ~hit, NEW in \in Rates, NEW out_ \in Rates, Negotiate(in, out_)
  PROVE  IInv'
<1> USE DEF IInv, Negotiate
<1>1. DmaTypes' /\ Files' /\ References' /\ Life' /\ OwnHeap'
  BY FilesStay, ReferencesStay, LifeStays DEF dmaVars, lifeVars
<1>2. Hands'
  BY HandsStay DEF dmaVars, lifeVars, frameVars
<1>3. QED
  BY <1>1, <1>2

LEMMA PrepareKeeps ==
  ASSUME IInv, ~hit, Prepare
  PROVE  IInv'
<1> USE DEF IInv
<1>1. PICK m \in Memories :
        out' = m /\ (\/ Allocate(m, dmabuf_alloc["conv"])
                     \/ AllocateFails(m, dmabuf_alloc["conv"]))
  BY DEF Prepare
<1>2. Playing /\ tpc' = "count" /\ UNCHANGED <<lifeVars, staged, staging, sent>>
  BY DEF Prepare
<1>3. /\ DmaTypes' /\ Files' /\ References' /\ Life' /\ OwnHeap'
      /\ ~Live(m) /\ m \notin freed /\ mem_by'[m] # Nobody /\ freed' = freed
      /\ \A o \in Memories : o # m => mem_by'[o] = mem_by[o] /\ mem_fd'[o] = mem_fd[o]
  BY <1>1, <1>2, AllocateKeeps
<1>4. pc'["conv"] = "play" /\ m \notin sent /\ m # staging
  BY <1>1, <1>2, <1>3, AllocatorAssumption DEF Playing, lifeVars, Hands, Opened
<1>5. Hands'
  BY <1>1, <1>2, <1>3, <1>4, AllocatorAssumption DEF Hands, InFrame, Opened, Live, Playing
<1>6. QED
  BY <1>3, <1>5

\* Steps that change neither descriptors nor the elements' lives.
LEMMA FrameKeeps ==
  ASSUME IInv, ~hit, UNCHANGED <<dmaVars, lifeVars>>, Hands'
  PROVE  IInv'
BY FilesStay, ReferencesStay, LifeStays DEF IInv, dmaVars, lifeVars

LEMMA CountKeeps ==
  ASSUME IInv, ~hit, Count \/ DividesByZero
  PROVE  IInv'
<1>1. Hands'
  BY DEF IInv, Count, DividesByZero, dmaVars, lifeVars, Hands, InFrame, Opened, Live
<1>2. QED
  BY <1>1, FrameKeeps DEF Count, DividesByZero

LEMMA DropKeeps ==
  ASSUME IInv, ~hit, Drop
  PROVE  IInv'
<1> USE DEF IInv
<1>1. out \in Memories /\ Free(out) /\ tpc \in {"drop", "fail"}
  BY DEF Drop, Hands, InFrame
<1>2. DmaTypes' /\ Files' /\ References'
  BY <1>1, FreeKeeps DEF Drop, lifeVars
<1>3. Life' /\ OwnHeap'
  BY <1>1, LifeStays DEF Drop, Free
<1>4. Hands'
  BY <1>1 DEF Drop, Free, Hands, InFrame, Opened, Live, lifeVars, frameVars
<1>5. QED
  BY <1>2, <1>3, <1>4

LEMMA DropAgainKeeps ==
  ASSUME IInv, ~hit, DropAgain
  PROVE  IInv'
<1> USE DEF IInv
<1>1. out \in Memories /\ FreeAgain(out) /\ tpc \in {"drop", "fail"}
  BY DEF DropAgain, Hands, InFrame
<1>2. DmaTypes' /\ (~hit' => Files') /\ References'
  BY <1>1, FreeAgainKeeps DEF DropAgain, lifeVars
<1>3. Life' /\ OwnHeap'
  BY <1>1, LifeStays DEF DropAgain, FreeAgain
<1>4. tpc' \in {"idle", "error"} /\ out \in freed /\ out # staging
  BY <1>1 DEF DropAgain, FreeAgain, Hands, InFrame
<1>5. Hands'
  BY <1>1, <1>4 DEF DropAgain, FreeAgain, Hands, InFrame, Opened, Live, lifeVars, DmaTypes
<1>6. QED
  BY <1>2, <1>3, <1>5

LEMMA NoOutputKeeps ==
  ASSUME IInv, ~hit, NoOutput
  PROVE  IInv'
<1>1. Hands'
  BY DEF IInv, NoOutput, dmaVars, lifeVars, Hands, InFrame, Opened, Live
<1>2. QED
  BY <1>1, FrameKeeps DEF NoOutput

LEMMA DirectKeeps ==
  ASSUME IInv, ~hit, Direct
  PROVE  IInv'
<1>1. Hands'
  BY DEF IInv, Direct, dmaVars, lifeVars, Hands, InFrame, Opened, Live
<1>2. QED
  BY <1>1, FrameKeeps DEF Direct

LEMMA StageKeeps ==
  ASSUME IInv, ~hit, Stage
  PROVE  IInv'
<1> USE DEF IInv
<1>1. /\ tpc = "out" /\ mem_fd[out] # -1 /\ staged' = TRUE /\ pc["conv"] = "play"
      /\ UNCHANGED <<lifeVars, out, sent>> /\ out \in Memories /\ Live(out)
      /\ out \notin freed /\ out \notin sent
  BY DEF Stage, Hands, InFrame
<1>2. CASE staging # Nobody
  <2>1. /\ UNCHANGED <<dmaVars, staging>>
        /\ tpc' = "fail" \/ (tpc' = "blit" /\ mem_fd[staging] # -1)
    BY <1>2 DEF Stage
  <2>2. Hands'
    BY <1>1, <1>2, <2>1 DEF dmaVars, lifeVars, Hands, InFrame, Opened, Live
  <2>3. QED
    BY <1>1, <2>1, <2>2, FrameKeeps
<1>3. CASE staging = Nobody
  <2>1. PICK m \in Memories :
          /\ staging' = m
          /\ \/ Allocate(m, dmabuf_alloc["conv"]) /\ tpc' \in {"blit", "fail"}
             \/ AllocateFails(m, dmabuf_alloc["conv"]) /\ tpc' = "fail"
    BY <1>3 DEF Stage
  <2>2. /\ DmaTypes' /\ Files' /\ References' /\ Life' /\ OwnHeap'
        /\ Allocate(m, dmabuf_alloc["conv"]) => mem_fd'[m] # -1
        /\ ~Live(m) /\ m \notin freed /\ mem_by'[m] # Nobody /\ freed' = freed
        /\ \A o \in Memories : o # m => mem_by'[o] = mem_by[o] /\ mem_fd'[o] = mem_fd[o]
    BY <1>1, <2>1, AllocateKeeps DEF Playing
  <2>3. m # out /\ m \notin sent /\ m # Nobody
    BY <1>1, <2>2, AllocatorAssumption DEF Hands, Opened
  <2>4. pc' = pc /\ tpc' \in {"blit", "fail"} /\ (tpc' = "blit" => mem_fd'[m] # -1)
    BY <1>1, <2>1, <2>2 DEF lifeVars
  <2>5. Hands'
    BY <1>1, <2>1, <2>2, <2>3, <2>4 DEF Hands, InFrame, Opened, Live
  <2>6. QED
    BY <2>2, <2>5
<1>4. QED
  BY <1>2, <1>3

LEMMA BlitKeeps ==
  ASSUME IInv, ~hit, Blit
  PROVE  IInv'
<1>1. Hands'
  BY DEF IInv, Blit, dmaVars, lifeVars, Hands, InFrame, Opened, Live
<1>2. QED
  BY <1>1, FrameKeeps DEF Blit

LEMMA ConsumeKeeps ==
  ASSUME IInv, ~hit, NEW m \in Memories, Consume(m)
  PROVE  IInv'
<1> USE DEF IInv
<1>1. DmaTypes' /\ Files' /\ References'
  BY FreeKeeps DEF Consume, lifeVars
<1>2. Life' /\ OwnHeap'
  BY LifeStays DEF Consume, Free
<1>3. Hands'
  BY DEF Consume, Free, Hands, InFrame, Opened, Live, lifeVars
<1>4. QED
  BY <1>1, <1>2, <1>3

LEMMA ConsumeAgainKeeps ==
  ASSUME IInv, ~hit, NEW m \in Memories, ConsumeAgain(m)
  PROVE  IInv'
<1> USE DEF IInv
<1>1. DmaTypes' /\ (~hit' => Files') /\ References'
  BY FreeAgainKeeps DEF ConsumeAgain, lifeVars
<1>2. Life' /\ OwnHeap'
  BY LifeStays DEF ConsumeAgain, FreeAgain
<1>3. Hands'
  BY DEF ConsumeAgain, FreeAgain, Hands, InFrame, Opened, Live, lifeVars, frameVars, DmaTypes
<1>4. QED
  BY <1>1, <1>2, <1>3

-----------------------------------------------------------------------------
LEMMA IInvAtFirst == Init => IInv
<1> SUFFICES ASSUME Init PROVE IInv
  OBVIOUS
<1> USE DEF Init, InitDma
<1>1. DmaTypes
  <2>1. hit \in BOOLEAN
    BY Zenon
  <2>2. freed \subseteq {m \in Memories : Live(m)}
    OBVIOUS
  <2>3. QED
    BY <2>1, <2>2 DEF DmaTypes, Heaps, Someone
<1>2. Files
  BY AllocatorAssumption
     DEF Files, HeapNumbers, MemNumbers, HeapFiles, MemFiles, Exists, Opened, Live
<1>3. References
  <2> SUFFICES ASSUME NEW a \in Allocators PROVE refs[a] = Cardinality(Held(a)) + Used(a)
    BY DEF References
  <2>1. Held(a) = {}
    BY AllocatorAssumption DEF Held
  <2>2. Cardinality(Held(a)) = 0
    BY <2>1, FS_EmptySet
  <2>3. Used(a) = 0
    BY AllocatorAssumption DEF Used, One, Elements
  <2>4. QED
    BY <2>2, <2>3
<1>4. Life
  BY DEF Life, Elements, Someone, One
<1>5. OwnHeap
  BY DEF OwnHeap
<1>6. Hands
  BY DEF Hands, InFrame
<1>7. QED
  BY <1>1, <1>2, <1>3, <1>4, <1>5, <1>6 DEF IInv

LEMMA IInvStutters ==
  ASSUME IInv, UNCHANGED vars
  PROVE  IInv'
<1>1. CASE hit
  BY <1>1 DEF IInv, vars, dmaVars, lifeVars, frameVars, DmaTypes, References, Held, Used, Life,
              OwnHeap, Hands, Opened, Live, InFrame, Someone
<1>2. CASE ~hit
  <2>1. Hands'
    BY HandsStay DEF vars, dmaVars, lifeVars, frameVars, IInv
  <2>2. QED
    BY <1>2, <2>1, FrameKeeps DEF vars
<1>3. QED
  BY <1>1, <1>2

LEMMA IInvHolds == Spec => []IInv
<1>1. IInv /\ [Next]_vars => IInv'
  <2> SUFFICES ASSUME IInv, [Next]_vars PROVE IInv'
    OBVIOUS
  <2>1. CASE UNCHANGED vars
    BY <2>1, IInvStutters
  <2>2. ASSUME ~hit, LifeNext PROVE IInv'
    BY <2>2, StartKeeps, OpenKeeps, OpenFailsKeeps, RegistersKeeps, FindsKeeps, FindsNoneKeeps,
       StopKeeps, CloseKeeps, CloseStagingKeeps DEF LifeNext
  <2>3. ASSUME ~hit, TNext PROVE IInv'
    BY <2>3, NegotiateKeeps, PrepareKeeps, CountKeeps, DropKeeps, DropAgainKeeps, NoOutputKeeps,
       DirectKeeps, StageKeeps, BlitKeeps DEF TNext
  <2>4. ASSUME ~hit, DNext PROVE IInv'
    BY <2>4, ConsumeKeeps, ConsumeAgainKeeps DEF DNext
  <2>5. QED
    BY <2>1, <2>2, <2>3, <2>4 DEF Next
<1>2. QED
  BY <1>1, IInvAtFirst, PTL DEF Spec

\* An element that was not overtaken allocates from the heap it named, for any
\* number of allocators: made, registered and found are one and the same.
THEOREM OwnHeapObtained == Spec => []ObtainsItsHeap
<1>1. IInv => ObtainsItsHeap
  BY DEF IInv, OwnHeap, ObtainsItsHeap
<1>2. QED
  BY <1>1, IInvHolds, PTL

\* What is blitted are the memories' own files, however many buffers other
\* threads free and allocate meanwhile.
THEOREM OwnBuffersBlitted == Spec => []BlitsItsOwnBuffers
<1>1. IInv => BlitsItsOwnBuffers
  <2> SUFFICES ASSUME IInv, tpc = "blit", ~hit
               PROVE  /\ fds[mem_fd[out]] = out
                      /\ staged => fds[mem_fd[staging]] = staging
    BY DEF BlitsItsOwnBuffers
  <2>1. MemFiles /\ Hands
    BY DEF IInv, Files
  <2>2. out \in Memories /\ Opened(out) /\ mem_fd[out] # -1
    BY <2>1 DEF Hands, InFrame, Opened
  <2>3. staged => staging \in Memories /\ Opened(staging) /\ mem_fd[staging] # -1
    BY <2>1 DEF Hands, InFrame, Opened
  <2>4. QED
    BY <2>1, <2>2, <2>3 DEF MemFiles
<1>2. QED
  BY <1>1, IInvHolds, PTL

\* No descriptor, no reference and no handle is left by elements that have
\* stopped, but for those of starts that failed: all references are accounted
\* for by a memory, the registry or an element.
THEOREM NothingLeft == Spec => []NothingLeftOpen
<1>1. IInv => NothingLeftOpen
  <2> SUFFICES ASSUME IInv, \A e \in Elements : pc[e] = "null", ~hit,
                      {m \in Memories : Live(m)} = {}
               PROVE  /\ \A n \in Fds : fds[n] # Nobody => fds[n] = registered
                      /\ \A a \in Allocators : refs[a] = IF a = registered THEN 1 ELSE 0
                      /\ gfx = lost_gfx
    BY DEF NothingLeftOpen
  <2>1. \A a \in Allocators : refs[a] = One(registered = a)
    <3> TAKE a \in Allocators
    <3>1. Held(a) = {}
      BY AllocatorAssumption DEF Held, Live
    <3>2. Cardinality(Held(a)) = 0
      BY <3>1, FS_EmptySet
    <3>3. Used(a) = One(registered = a)
      BY AllocatorAssumption DEF IInv, Life, Used, One, Elements
    <3>4. QED
      BY <3>2, <3>3 DEF IInv, References, One
  <2>2. \A n \in Fds : fds[n] # Nobody => fds[n] = registered
    BY <2>1 DEF IInv, DmaTypes, Files, HeapNumbers, MemNumbers, Opened, Exists, One
  <2>3. gfx = lost_gfx
    BY DEF IInv, Life, One, Elements
  <2>4. QED
    BY <2>1, <2>2, <2>3 DEF One
<1>2. QED
  BY <1>1, IInvHolds, PTL
=============================================================================

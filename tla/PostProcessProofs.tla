-------------------------- MODULE PostProcessProofs --------------------------
(***************************************************************************)
(* The post-processing, for scales of any length, any boxes and            *)
(* probabilities, every order that qsort gives to equal candidates, and    *)
(* any numbers of classes, calls and results.                              *)
(*                                                                         *)
(* The loops of the code are folds.  A fold is shown to have a run: the    *)
(* values it has after 0, 1, ..., n of its elements, each the step of the  *)
(* one before.  What holds of the first and is kept by a step then holds   *)
(* of the last (UpTo, from the well-foundedness of < on Nat).  So the two  *)
(* nested loops of do_nms_sort leave a kernel (SuppressionLeavesKernel),   *)
(* the three of do_global_sort set neighbouring scales apart               *)
(* (NeighboursAreApart), and gathering finds the boxes that the threads    *)
(* counted.  The inductive invariant IInv hands this from one step of the  *)
(* call to the next, and says of the report how far it has come.           *)
(***************************************************************************)
EXTENDS PostProcess, FiniteSetTheorems, SequenceTheorems, WellFoundedInduction, TLAPS

-----------------------------------------------------------------------------
(* Numbers.                                                                *)

\* Every nonempty set of natural numbers has a least element.
LEMMA LeastNumber ==
  ASSUME NEW S \in SUBSET Nat, S # {}
  PROVE  Min(S) \in S /\ \A k \in S : Min(S) =< k
<1>1. \E x \in S : \A y \in S : ~(<<y, x>> \in OpToRel(<, Nat))
  BY NatLessThanWellFounded, WFMin
<1>2. PICK x \in S : \A y \in S : ~(<<y, x>> \in OpToRel(<, Nat))
  BY <1>1
<1>3. ASSUME NEW y \in S PROVE x =< y
  <2>1. x \in Nat /\ y \in Nat /\ ~(y < x)
    BY <1>2 DEF OpToRel
  <2> QED
    BY <2>1
<1> QED
  BY <1>3 DEF Min

\* A set that holds 0 and each of 1 .. n with the one before it holds all.
LEMMA UpTo ==
  ASSUME NEW n \in Nat, NEW T, 0 \in T, \A k \in 1 .. n : k - 1 \in T => k \in T
  PROVE  \A k \in 0 .. n : k \in T
<1> DEFINE Out == {k \in 0 .. n : k \notin T}
<1> SUFFICES ASSUME Out # {} PROVE FALSE
  OBVIOUS
<1> HIDE DEF Out
<1>1. Out \in SUBSET Nat
  BY DEF Out
<1>2. Min(Out) \in Out /\ \A k \in Out : Min(Out) =< k
  BY <1>1, LeastNumber
<1>3. PICK m \in Out : \A k \in Out : m =< k
  BY <1>2
<1>4. m \in 1 .. n
  BY <1>3 DEF Out
<1>5. m - 1 \in 0 .. n /\ m - 1 \notin Out
  BY <1>3, <1>4
<1>6. m - 1 \in T
  BY <1>5 DEF Out
<1> QED
  BY <1>3, <1>4, <1>6 DEF Out

\* A nonempty set of the numbers from 1 to n has a greatest element.
LEMMA GreatestNumber ==
  ASSUME NEW n \in Nat, NEW S \in SUBSET (1 .. n), S # {}
  PROVE  Max(S) \in S /\ \A k \in S : Max(S) >= k
<1> DEFINE Distances == {n - k : k \in S}
<1>1. Distances \in SUBSET Nat /\ Distances # {}
  OBVIOUS
<1>2. PICK m \in Distances : \A k \in Distances : m =< k
  BY <1>1, LeastNumber, Zenon
<1>3. PICK x \in S : m = n - x
  OBVIOUS
<1>4. ASSUME NEW y \in S PROVE x >= y
  <2>1. n - y \in Distances
    OBVIOUS
  <2> QED
    BY <1>2, <1>3, <2>1
<1> QED
  BY <1>4 DEF Max

\* The greatest of two whole numbers.
LEMMA MaxOfTwo ==
  ASSUME NEW a \in Int, NEW b \in Int
  PROVE  Max({a, b}) \in {a, b} /\ Max({a, b}) >= a /\ Max({a, b}) >= b
<1>1. \E x \in {a, b} : \A y \in {a, b} : x >= y
  OBVIOUS
<1> QED
  BY <1>1 DEF Max

\* The least of two whole numbers.
LEMMA MinOfTwo ==
  ASSUME NEW a \in Int, NEW b \in Int
  PROVE  Min({a, b}) \in {a, b} /\ Min({a, b}) =< a /\ Min({a, b}) =< b
<1>1. \E x \in {a, b} : \A y \in {a, b} : x =< y
  OBVIOUS
<1> QED
  BY <1>1 DEF Min

-----------------------------------------------------------------------------
(* Folds.                                                                  *)

\* The numbers from m to n, counted.
LEMMA UptoIs ==
  ASSUME NEW m \in Int, NEW n \in Int, m =< n + 1
  PROVE  /\ Upto(m, n) \in Seq(m .. n) /\ Len(Upto(m, n)) = n - m + 1
         /\ DOMAIN Upto(m, n) = 1 .. n - m + 1
         /\ \A i \in 1 .. n - m + 1 : Upto(m, n)[i] = m + i - 1
  BY DEF Upto

\* G is the function by which a fold of n elements over the sets of their
\* places is defined: F[i] is the step of element i on the values Val.
FoldFunctionOf(G, Val, n, b, F) ==
  /\ G \in [SUBSET (1 .. n) -> Val]
  /\ \A T \in SUBSET (1 .. n) : G[T] = IF T = {} THEN b ELSE F[Max(T)][G[T \ {Max(T)}]]

\* G does so on the first k elements, for every k, at least if it stays in Val.
FoldsPrefixes(G, Val, n, b, F) ==
  /\ G[{}] = b
  /\ \A k \in 1 .. n : G[1 .. k - 1] \in Val => G[1 .. k] = F[k][G[1 .. k - 1]]

\* r is what the fold has after 0 .. n of the elements.
RunOf(r, Val, n, b, F) ==
  r \in [0 .. n -> Val] /\ r[0] = b /\ \A k \in 1 .. n : r[k] = F[k][r[k - 1]]

\* The fold ends with c.
HasRun(Val, n, b, F, c) == \E r : RunOf(r, Val, n, b, F) /\ r[n] = c

\* The function that a fold over a sequence of length n is defined by exists,
\* whatever the step F[i] that its element i makes on the values Val.
LEMMA FoldExists ==
  ASSUME NEW Val, NEW n \in Nat, NEW b \in Val, NEW F \in [1 .. n -> [Val -> Val]]
  PROVE  \E G : FoldFunctionOf(G, Val, n, b, F)
<1> DEFINE Ok(m, G) == \A T \in SUBSET (1 .. m) :
                         G[T] = IF T = {} THEN b ELSE F[Max(T)][G[T \ {Max(T)}]]
           Has(m) == \E G \in [SUBSET (1 .. m) -> Val] : Ok(m, G)
           Good == {m \in 0 .. n : Has(m)}
<1>1. Has(0)
  <2>1. SUBSET (1 .. 0) = {{}}
    OBVIOUS
  <2> DEFINE G == [T \in {{}} |-> b]
  <2>2. G \in [SUBSET (1 .. 0) -> Val] /\ Ok(0, G)
    BY <2>1
  <2> HIDE DEF G, Ok
  <2> QED
    BY <2>2
<1>2. ASSUME NEW m \in 1 .. n, Has(m - 1) PROVE Has(m)
  <2>1. PICK G \in [SUBSET (1 .. m - 1) -> Val] : Ok(m - 1, G)
    BY <1>2
  <2> DEFINE H == [T \in SUBSET (1 .. m) |->
                     IF m \in T THEN F[m][G[T \ {m}]] ELSE G[T]]
  <2>2. \A T \in SUBSET (1 .. m) :
          /\ T \ {m} \in SUBSET (1 .. m - 1)
          /\ m \notin T => T \in SUBSET (1 .. m - 1)
    OBVIOUS
  <2>3. H \in [SUBSET (1 .. m) -> Val]
    BY <2>2
  <2>4. ASSUME NEW T \in SUBSET (1 .. m), T # {}
        PROVE  H[T] = F[Max(T)][H[T \ {Max(T)}]]
    <3>1. Max(T) \in T /\ \A k \in T : Max(T) >= k
      <4>1. m \in Nat
        OBVIOUS
      <4> HIDE DEF H
      <4> QED
        BY <4>1, <2>4, GreatestNumber
    <3>2. T \ {Max(T)} \in SUBSET (1 .. m)
      OBVIOUS
    <3>3. CASE m \in T
      <4>1. Max(T) = m
        <5>1. Max(T) \in 1 .. m /\ Max(T) >= m
          BY <3>1, <3>3
        <5> QED
          BY <5>1
      <4>2. m \notin T \ {Max(T)}
        BY <4>1
      <4>3. H[T] = F[m][G[T \ {m}]] /\ H[T \ {Max(T)}] = G[T \ {Max(T)}]
        BY <3>2, <3>3, <4>2
      <4> QED
        BY <4>1, <4>3
    <3>4. CASE m \notin T
      <4>1. H[T] = G[T] /\ H[T \ {Max(T)}] = G[T \ {Max(T)}]
        BY <3>2, <3>4
      <4>2. T \in SUBSET (1 .. m - 1)
        BY <2>2, <3>4
      <4>3. G[T] = F[Max(T)][G[T \ {Max(T)}]]
        BY <2>1, <4>2, <2>4
      <4> QED
        BY <4>1, <4>3
    <3> QED
      BY <3>3, <3>4
  <2>5. H[{}] = b
    BY <2>1
  <2>6. Ok(m, H)
    <3> HIDE DEF H
    <3> QED
      BY <2>4, <2>5
  <2> HIDE DEF Ok
  <2> QED
    BY <2>3, <2>6
<1> HIDE DEF Has, Ok
<1>3. 0 \in Good /\ \A m \in 1 .. n : m - 1 \in Good => m \in Good
  BY <1>1, <1>2
<1> HIDE DEF Good
<1>4. \A m \in 0 .. n : m \in Good
  BY <1>3, UpTo
<1>5. n \in Good
  BY <1>4
<1> QED
  BY <1>5 DEF Good, Has, Ok, FoldFunctionOf

\* The steps of a fold: what it is after k of n elements is the step F[k] of
\* what it was after k - 1.
LEMMA FoldSteps ==
  ASSUME NEW Val, NEW n \in Nat, NEW b \in Val, NEW F \in [1 .. n -> [Val -> Val]],
         NEW G, FoldsPrefixes(G, Val, n, b, F)
  PROVE  HasRun(Val, n, b, F, G[1 .. n])
<1> DEFINE r == [k \in 0 .. n |-> G[1 .. k]]
           Typed == {k \in 0 .. n : G[1 .. k] \in Val}
<1>1. 0 \in Typed
  BY 1 .. 0 = {} DEF FoldsPrefixes
<1>2. ASSUME NEW k \in 1 .. n, k - 1 \in Typed PROVE k \in Typed
  <2>1. G[1 .. k - 1] \in Val
    BY <1>2
  <2>2. G[1 .. k] = F[k][G[1 .. k - 1]]
    BY <2>1 DEF FoldsPrefixes
  <2> QED
    BY <2>1, <2>2
<1> HIDE DEF Typed
<1>3. \A k \in 0 .. n : k \in Typed
  BY <1>1, <1>2, UpTo
<1>4. \A k \in 0 .. n : G[1 .. k] \in Val
  BY <1>3 DEF Typed
<1>5. r \in [0 .. n -> Val]
  BY <1>4
<1>6. r[0] = b
  BY 1 .. 0 = {} DEF FoldsPrefixes
<1>7. \A k \in 1 .. n : r[k] = F[k][r[k - 1]]
  <2> SUFFICES ASSUME NEW k \in 1 .. n PROVE r[k] = F[k][r[k - 1]]
    OBVIOUS
  <2>1. k - 1 \in 0 .. n /\ k \in 0 .. n
    OBVIOUS
  <2>2. G[1 .. k - 1] \in Val
    BY <2>1, <1>4
  <2> QED
    BY <2>1, <2>2 DEF FoldsPrefixes
<1>8. r[n] = G[1 .. n]
  OBVIOUS
<1> HIDE DEF r
<1> QED
  BY <1>5, <1>6, <1>7, <1>8 DEF RunOf, HasRun

\* The first k of n numbers, and the greatest of them.
LEMMA Prefix ==
  ASSUME NEW n \in Nat, NEW k \in 1 .. n
  PROVE  /\ 1 .. k \in SUBSET (1 .. n) /\ 1 .. k # {}
         /\ Max(1 .. k) = k /\ (1 .. k) \ {k} = 1 .. k - 1
<1>1. k \in Nat /\ 1 .. k # {} /\ k \in 1 .. k
  OBVIOUS
<1>2. Max(1 .. k) \in 1 .. k /\ \A j \in 1 .. k : Max(1 .. k) >= j
  BY <1>1, GreatestNumber
<1> QED
  BY <1>1, <1>2

\* The candidate in place i against those after it, one after the other: the
\* scale s goes through the values r[i] to r[Len(o)].
SuppressAfterRun(r, Val, n, s, box, percent, o, i) ==
  /\ r \in [0 .. n - i -> Val] /\ r[0] = s /\ r[n - i] = SuppressAfter(box, percent, s, o, i)
  /\ \A k \in 1 .. n - i : r[k] = Compare(box, percent, r[k - 1], o[i], o[i + k])

\* There is such a run, if no comparison leaves the values Val.
LEMMA SuppressAfterSteps ==
  ASSUME NEW Val, NEW s \in Val, NEW box, NEW percent, NEW o, NEW n \in Nat, Len(o) = n,
         NEW i \in 1 .. n,
         \A t \in Val : \A j \in i + 1 .. n : Compare(box, percent, t, o[i], o[j]) \in Val
  PROVE  \E r : SuppressAfterRun(r, Val, n, s, box, percent, o, i)
<1> DEFINE m == n - i
           seq == Upto(i + 1, Len(o))
           F == [k \in 1 .. m |-> [t \in Val |-> Compare(box, percent, t, o[i], o[i + k])]]
           Is(G) == G = [T \in SUBSET DOMAIN seq |->
                           IF T = {} THEN s
                           ELSE Compare(box, percent, G[T \ {Max(T)}], o[i], o[seq[Max(T)]])]
           C == CHOOSE G : Is(G)
<1>1. m \in Nat /\ DOMAIN seq = 1 .. m /\ \A k \in 1 .. m : seq[k] = i + k /\ i + k \in i + 1 .. n
  BY DEF Upto
<1>a. m \in Nat
  OBVIOUS
<1> HIDE DEF m, seq
<1>2. F \in [1 .. m -> [Val -> Val]]
  BY <1>1
<1>3. \A k \in 1 .. m : \A t \in Val : F[k][t] = Compare(box, percent, t, o[i], o[seq[k]])
  BY <1>1
<1> HIDE DEF F
<1>4. PICK G : FoldFunctionOf(G, Val, m, s, F)
  BY <1>a, <1>2, FoldExists
<1>5. Is(G)
  <2>1. ASSUME NEW T \in SUBSET (1 .. m), T # {}
        PROVE  G[T] = Compare(box, percent, G[T \ {Max(T)}], o[i], o[seq[Max(T)]])
    <3>1. Max(T) \in 1 .. m
      BY <1>1, <2>1, GreatestNumber
    <3>2. G[T \ {Max(T)}] \in Val /\ G[T] = F[Max(T)][G[T \ {Max(T)}]]
      BY <1>4, <2>1 DEF FoldFunctionOf
    <3> QED
      BY <3>1, <3>2, <1>3
  <2>2. G[{}] = s /\ G \in [SUBSET (1 .. m) -> Val]
    BY <1>4 DEF FoldFunctionOf
  <2> QED
    BY <1>1, <2>1, <2>2
<1> HIDE DEF Is
<1>6. Is(C)
  BY <1>5
<1> HIDE DEF C
<1>7. SuppressAfter(box, percent, s, o, i) = C[1 .. m]
  <2>1. SuppressAfter(box, percent, s, o, i) = C[DOMAIN seq]
    BY DEF SuppressAfter, FoldLeft, MapThenFoldSet, C, Is, seq
  <2> QED
    BY <2>1, <1>1
<1>8. FoldsPrefixes(C, Val, m, s, F)
  <2>1. C[{}] = s
    BY <1>6 DEF Is
  <2>2. ASSUME NEW k \in 1 .. m, C[1 .. k - 1] \in Val PROVE C[1 .. k] = F[k][C[1 .. k - 1]]
    <3>1. /\ 1 .. k \in SUBSET (1 .. m) /\ 1 .. k # {}
          /\ Max(1 .. k) = k /\ (1 .. k) \ {k} = 1 .. k - 1
      BY <1>a, Prefix
    <3>2. C[1 .. k] = Compare(box, percent, C[1 .. k - 1], o[i], o[seq[k]])
      BY <3>1, <1>1, <1>6 DEF Is
    <3> QED
      BY <3>2, <1>3, <2>2
  <2> QED
    BY <2>1, <2>2 DEF FoldsPrefixes
<1>9. PICK r : RunOf(r, Val, m, s, F) /\ r[m] = C[1 .. m]
  <2>1. s \in Val /\ m \in Nat
    BY <1>a
  <2>2. HasRun(Val, m, s, F, C[1 .. m])
    BY <2>1, <1>2, <1>8, FoldSteps
  <2> QED
    BY <2>2 DEF HasRun
<1>10. r \in [0 .. m -> Val] /\ r[0] = s /\ \A k \in 1 .. m : r[k] = F[k][r[k - 1]]
  BY <1>9 DEF RunOf
<1>11. ASSUME NEW k \in 1 .. m PROVE r[k] = Compare(box, percent, r[k - 1], o[i], o[i + k])
  <2>1. r[k - 1] \in Val
    BY <1>a, <1>10
  <2> QED
    BY <2>1, <1>1, <1>3, <1>10
<1> QED
  BY <1>7, <1>9, <1>10, <1>11 DEF m, SuppressAfterRun

\* Every candidate in turn: the scale s goes through r[0] to r[n].
InOrderRun(r, Val, n, s, box, percent, o) ==
  /\ r \in [0 .. n -> Val] /\ r[0] = s /\ r[n] = InOrder(box, percent, s, o)
  /\ \A k \in 1 .. n : r[k] = SuppressAfter(box, percent, r[k - 1], o, k)

\* There is such a run, if no turn leaves the values Val.
LEMMA InOrderSteps ==
  ASSUME NEW Val, NEW s \in Val, NEW box, NEW percent, NEW o, NEW n \in Nat, Len(o) = n,
         \A t \in Val : \A k \in 1 .. n : SuppressAfter(box, percent, t, o, k) \in Val
  PROVE  \E r : InOrderRun(r, Val, n, s, box, percent, o)
<1> DEFINE F == [k \in 1 .. n |-> [t \in Val |-> SuppressAfter(box, percent, t, o, k)]]
           Is(G) == G = [T \in SUBSET DOMAIN Upto(1, Len(o)) |->
                           IF T = {} THEN s
                           ELSE SuppressAfter(box, percent, G[T \ {Max(T)}], o, Upto(1, Len(o))[Max(T)])]
           C == CHOOSE G : Is(G)
<1>1. DOMAIN Upto(1, Len(o)) = 1 .. n
  BY DEF Upto
<1>elem. \A k \in 1 .. n : Upto(1, Len(o))[k] = k
  BY DEF Upto
<1>2. F \in [1 .. n -> [Val -> Val]]
  OBVIOUS
<1>3. \A k \in 1 .. n : \A t \in Val : F[k][t] = SuppressAfter(box, percent, t, o, k)
  OBVIOUS
<1> HIDE DEF F
<1>4. PICK G : FoldFunctionOf(G, Val, n, s, F)
  BY <1>2, FoldExists
<1>5. Is(G)
  <2>1. ASSUME NEW T \in SUBSET (1 .. n), T # {}
        PROVE  G[T] = SuppressAfter(box, percent, G[T \ {Max(T)}], o, Upto(1, Len(o))[Max(T)])
    <3>1. Max(T) \in 1 .. n
      BY <2>1, GreatestNumber
    <3>2. G[T \ {Max(T)}] \in Val /\ G[T] = F[Max(T)][G[T \ {Max(T)}]]
      BY <1>4, <2>1 DEF FoldFunctionOf
    <3> QED
      BY <3>1, <3>2, <1>elem, <1>3
  <2>2. G[{}] = s /\ G \in [SUBSET (1 .. n) -> Val]
    BY <1>4 DEF FoldFunctionOf
  <2> QED
    BY <1>1, <2>1, <2>2
<1> HIDE DEF Is
<1>6. Is(C)
  BY <1>5
<1> HIDE DEF C
<1>7. InOrder(box, percent, s, o) = C[1 .. n]
  <2>1. InOrder(box, percent, s, o) = C[DOMAIN Upto(1, Len(o))]
    BY DEF InOrder, FoldLeft, MapThenFoldSet, C, Is
  <2> QED
    BY <2>1, <1>1
<1>8. FoldsPrefixes(C, Val, n, s, F)
  <2>1. C[{}] = s
    BY <1>6 DEF Is
  <2>2. ASSUME NEW k \in 1 .. n, C[1 .. k - 1] \in Val PROVE C[1 .. k] = F[k][C[1 .. k - 1]]
    <3>1. /\ 1 .. k \in SUBSET (1 .. n) /\ 1 .. k # {}
          /\ Max(1 .. k) = k /\ (1 .. k) \ {k} = 1 .. k - 1
      BY Prefix
    <3>2. C[1 .. k] = SuppressAfter(box, percent, C[1 .. k - 1], o, Upto(1, Len(o))[k])
      BY <3>1, <1>1, <1>6 DEF Is
    <3> QED
      BY <3>2, <1>elem, <1>3, <2>2
  <2> QED
    BY <2>1, <2>2 DEF FoldsPrefixes
<1>9. PICK r : RunOf(r, Val, n, s, F) /\ r[n] = C[1 .. n]
  <2>1. s \in Val /\ n \in Nat
    BY Zenon
  <2>2. HasRun(Val, n, s, F, C[1 .. n])
    BY <2>1, <1>2, <1>8, FoldSteps
  <2> QED
    BY <2>2 DEF HasRun
<1>10. r \in [0 .. n -> Val] /\ r[0] = s /\ \A k \in 1 .. n : r[k] = F[k][r[k - 1]]
  BY <1>9 DEF RunOf
<1>11. ASSUME NEW k \in 1 .. n PROVE r[k] = SuppressAfter(box, percent, r[k - 1], o, k)
  <2>1. r[k - 1] \in Val
    BY <1>10
  <2> QED
    BY <2>1, <1>3, <1>10
<1> QED
  BY <1>7, <1>9, <1>10, <1>11 DEF InOrderRun

\* One candidate against a scale of n: the two scales go through r[0] to r[n].
AgainstAllRun(r, Val, n, st, box, thresh, i) ==
  /\ r \in [0 .. n -> Val] /\ r[0] = st /\ r[n] = AgainstAll(box, thresh, st, i)
  /\ \A k \in 1 .. n : r[k] = WorseOfPair(box, thresh, r[k - 1], i, k)

\* There is such a run, if no pair leaves the values Val.
LEMMA AgainstAllSteps ==
  ASSUME NEW Val, NEW st \in Val, NEW box, NEW thresh, NEW i, NEW n \in Nat, Len(st[2]) = n,
         \A t \in Val : \A k \in 1 .. n : WorseOfPair(box, thresh, t, i, k) \in Val
  PROVE  \E r : AgainstAllRun(r, Val, n, st, box, thresh, i)
<1> DEFINE F == [k \in 1 .. n |-> [t \in Val |-> WorseOfPair(box, thresh, t, i, k)]]
           Is(G) == G = [T \in SUBSET DOMAIN Upto(1, Len(st[2])) |->
                           IF T = {} THEN st
                           ELSE WorseOfPair(box, thresh, G[T \ {Max(T)}], i, Upto(1, Len(st[2]))[Max(T)])]
           C == CHOOSE G : Is(G)
<1>1. DOMAIN Upto(1, Len(st[2])) = 1 .. n
  BY DEF Upto
<1>elem. \A k \in 1 .. n : Upto(1, Len(st[2]))[k] = k
  BY DEF Upto
<1>2. F \in [1 .. n -> [Val -> Val]]
  OBVIOUS
<1>3. \A k \in 1 .. n : \A t \in Val : F[k][t] = WorseOfPair(box, thresh, t, i, k)
  OBVIOUS
<1> HIDE DEF F
<1>4. PICK G : FoldFunctionOf(G, Val, n, st, F)
  BY <1>2, FoldExists
<1>5. Is(G)
  <2>1. ASSUME NEW T \in SUBSET (1 .. n), T # {}
        PROVE  G[T] = WorseOfPair(box, thresh, G[T \ {Max(T)}], i, Upto(1, Len(st[2]))[Max(T)])
    <3>1. Max(T) \in 1 .. n
      BY <2>1, GreatestNumber
    <3>2. G[T \ {Max(T)}] \in Val /\ G[T] = F[Max(T)][G[T \ {Max(T)}]]
      BY <1>4, <2>1 DEF FoldFunctionOf
    <3> QED
      BY <3>1, <3>2, <1>elem, <1>3
  <2>2. G[{}] = st /\ G \in [SUBSET (1 .. n) -> Val]
    BY <1>4 DEF FoldFunctionOf
  <2> QED
    BY <1>1, <2>1, <2>2
<1> HIDE DEF Is
<1>6. Is(C)
  BY <1>5
<1> HIDE DEF C
<1>7. AgainstAll(box, thresh, st, i) = C[1 .. n]
  <2>1. AgainstAll(box, thresh, st, i) = C[DOMAIN Upto(1, Len(st[2]))]
    BY DEF AgainstAll, FoldLeft, MapThenFoldSet, C, Is
  <2> QED
    BY <2>1, <1>1
<1>8. FoldsPrefixes(C, Val, n, st, F)
  <2>1. C[{}] = st
    BY <1>6 DEF Is
  <2>2. ASSUME NEW k \in 1 .. n, C[1 .. k - 1] \in Val PROVE C[1 .. k] = F[k][C[1 .. k - 1]]
    <3>1. /\ 1 .. k \in SUBSET (1 .. n) /\ 1 .. k # {}
          /\ Max(1 .. k) = k /\ (1 .. k) \ {k} = 1 .. k - 1
      BY Prefix
    <3>2. C[1 .. k] = WorseOfPair(box, thresh, C[1 .. k - 1], i, Upto(1, Len(st[2]))[k])
      BY <3>1, <1>1, <1>6 DEF Is
    <3> QED
      BY <3>2, <1>elem, <1>3, <2>2
  <2> QED
    BY <2>1, <2>2 DEF FoldsPrefixes
<1>9. PICK r : RunOf(r, Val, n, st, F) /\ r[n] = C[1 .. n]
  <2>1. st \in Val /\ n \in Nat
    BY Zenon
  <2>2. HasRun(Val, n, st, F, C[1 .. n])
    BY <2>1, <1>2, <1>8, FoldSteps
  <2> QED
    BY <2>2 DEF HasRun
<1>10. r \in [0 .. n -> Val] /\ r[0] = st /\ \A k \in 1 .. n : r[k] = F[k][r[k - 1]]
  BY <1>9 DEF RunOf
<1>11. ASSUME NEW k \in 1 .. n PROVE r[k] = WorseOfPair(box, thresh, r[k - 1], i, k)
  <2>1. r[k - 1] \in Val
    BY <1>10
  <2> QED
    BY <2>1, <1>3, <1>10
<1> QED
  BY <1>7, <1>9, <1>10, <1>11 DEF AgainstAllRun

\* A scale of n candidates against the next: the two go through r[0] to r[n].
BetweenRun(r, Val, n, s, u, box, thresh) ==
  /\ r \in [0 .. n -> Val] /\ r[0] = <<s, u>> /\ r[n] = Between(box, thresh, s, u)
  /\ \A k \in 1 .. n : r[k] = AgainstAll(box, thresh, r[k - 1], k)

\* There is such a run, if no candidate leaves the values Val.
LEMMA BetweenSteps ==
  ASSUME NEW Val, NEW s, NEW u, <<s, u>> \in Val, NEW box, NEW thresh, NEW n \in Nat, Len(s) = n,
         \A t \in Val : \A k \in 1 .. n : AgainstAll(box, thresh, t, k) \in Val
  PROVE  \E r : BetweenRun(r, Val, n, s, u, box, thresh)
<1> DEFINE F == [k \in 1 .. n |-> [t \in Val |-> AgainstAll(box, thresh, t, k)]]
           Is(G) == G = [T \in SUBSET DOMAIN Upto(1, Len(s)) |->
                           IF T = {} THEN <<s, u>>
                           ELSE AgainstAll(box, thresh, G[T \ {Max(T)}], Upto(1, Len(s))[Max(T)])]
           C == CHOOSE G : Is(G)
<1>1. DOMAIN Upto(1, Len(s)) = 1 .. n
  BY DEF Upto
<1>elem. \A k \in 1 .. n : Upto(1, Len(s))[k] = k
  BY DEF Upto
<1>2. F \in [1 .. n -> [Val -> Val]]
  OBVIOUS
<1>3. \A k \in 1 .. n : \A t \in Val : F[k][t] = AgainstAll(box, thresh, t, k)
  OBVIOUS
<1> HIDE DEF F
<1>4. PICK G : FoldFunctionOf(G, Val, n, <<s, u>>, F)
  BY <1>2, FoldExists
<1>5. Is(G)
  <2>1. ASSUME NEW T \in SUBSET (1 .. n), T # {}
        PROVE  G[T] = AgainstAll(box, thresh, G[T \ {Max(T)}], Upto(1, Len(s))[Max(T)])
    <3>1. Max(T) \in 1 .. n
      BY <2>1, GreatestNumber
    <3>2. G[T \ {Max(T)}] \in Val /\ G[T] = F[Max(T)][G[T \ {Max(T)}]]
      BY <1>4, <2>1 DEF FoldFunctionOf
    <3> QED
      BY <3>1, <3>2, <1>elem, <1>3
  <2>2. G[{}] = <<s, u>> /\ G \in [SUBSET (1 .. n) -> Val]
    BY <1>4 DEF FoldFunctionOf
  <2> QED
    BY <1>1, <2>1, <2>2
<1> HIDE DEF Is
<1>6. Is(C)
  BY <1>5
<1> HIDE DEF C
<1>7. Between(box, thresh, s, u) = C[1 .. n]
  <2>1. Between(box, thresh, s, u) = C[DOMAIN Upto(1, Len(s))]
    BY DEF Between, FoldLeft, MapThenFoldSet, C, Is
  <2> QED
    BY <2>1, <1>1
<1>8. FoldsPrefixes(C, Val, n, <<s, u>>, F)
  <2>1. C[{}] = <<s, u>>
    BY <1>6 DEF Is
  <2>2. ASSUME NEW k \in 1 .. n, C[1 .. k - 1] \in Val PROVE C[1 .. k] = F[k][C[1 .. k - 1]]
    <3>1. /\ 1 .. k \in SUBSET (1 .. n) /\ 1 .. k # {}
          /\ Max(1 .. k) = k /\ (1 .. k) \ {k} = 1 .. k - 1
      BY Prefix
    <3>2. C[1 .. k] = AgainstAll(box, thresh, C[1 .. k - 1], Upto(1, Len(s))[k])
      BY <3>1, <1>1, <1>6 DEF Is
    <3> QED
      BY <3>2, <1>elem, <1>3, <2>2
  <2> QED
    BY <2>1, <2>2 DEF FoldsPrefixes
<1>9. PICK r : RunOf(r, Val, n, <<s, u>>, F) /\ r[n] = C[1 .. n]
  <2>1. <<s, u>> \in Val /\ n \in Nat
    BY Zenon
  <2>2. HasRun(Val, n, <<s, u>>, F, C[1 .. n])
    BY <2>1, <1>2, <1>8, FoldSteps
  <2> QED
    BY <2>2 DEF HasRun
<1>10. r \in [0 .. n -> Val] /\ r[0] = <<s, u>> /\ \A k \in 1 .. n : r[k] = F[k][r[k - 1]]
  BY <1>9 DEF RunOf
<1>11. ASSUME NEW k \in 1 .. n PROVE r[k] = AgainstAll(box, thresh, r[k - 1], k)
  <2>1. r[k - 1] \in Val
    BY <1>10
  <2> QED
    BY <2>1, <1>3, <1>10
<1> QED
  BY <1>7, <1>9, <1>10, <1>11 DEF BetweenRun

\* Every scale against the next: the scales go through r[0] to r[n].
AcrossRun(r, Val, n, s, nw, us) ==
  /\ r \in [0 .. n -> Val] /\ r[0] = s /\ r[n] = Across(nw, s, us)
  /\ \A k \in 1 .. n : r[k] = AcrossStep(nw, r[k - 1], us, k)

\* There is such a run, if no scale leaves the values Val.
LEMMA AcrossSteps ==
  ASSUME NEW Val, NEW s \in Val, NEW nw, NEW us, NEW n \in Nat, Len(s) - 1 = n,
         \A t \in Val : \A k \in 1 .. n : AcrossStep(nw, t, us, k) \in Val
  PROVE  \E r : AcrossRun(r, Val, n, s, nw, us)
<1> DEFINE F == [k \in 1 .. n |-> [t \in Val |-> AcrossStep(nw, t, us, k)]]
           Is(G) == G = [T \in SUBSET DOMAIN Upto(1, Len(s) - 1) |->
                           IF T = {} THEN s
                           ELSE AcrossStep(nw, G[T \ {Max(T)}], us, Upto(1, Len(s) - 1)[Max(T)])]
           C == CHOOSE G : Is(G)
<1>1. DOMAIN Upto(1, Len(s) - 1) = 1 .. n
  BY DEF Upto
<1>elem. \A k \in 1 .. n : Upto(1, Len(s) - 1)[k] = k
  BY DEF Upto
<1>2. F \in [1 .. n -> [Val -> Val]]
  OBVIOUS
<1>3. \A k \in 1 .. n : \A t \in Val : F[k][t] = AcrossStep(nw, t, us, k)
  OBVIOUS
<1> HIDE DEF F
<1>4. PICK G : FoldFunctionOf(G, Val, n, s, F)
  BY <1>2, FoldExists
<1>5. Is(G)
  <2>1. ASSUME NEW T \in SUBSET (1 .. n), T # {}
        PROVE  G[T] = AcrossStep(nw, G[T \ {Max(T)}], us, Upto(1, Len(s) - 1)[Max(T)])
    <3>1. Max(T) \in 1 .. n
      BY <2>1, GreatestNumber
    <3>2. G[T \ {Max(T)}] \in Val /\ G[T] = F[Max(T)][G[T \ {Max(T)}]]
      BY <1>4, <2>1 DEF FoldFunctionOf
    <3> QED
      BY <3>1, <3>2, <1>elem, <1>3
  <2>2. G[{}] = s /\ G \in [SUBSET (1 .. n) -> Val]
    BY <1>4 DEF FoldFunctionOf
  <2> QED
    BY <1>1, <2>1, <2>2
<1> HIDE DEF Is
<1>6. Is(C)
  BY <1>5
<1> HIDE DEF C
<1>7. Across(nw, s, us) = C[1 .. n]
  <2>1. Across(nw, s, us) = C[DOMAIN Upto(1, Len(s) - 1)]
    BY DEF Across, FoldLeft, MapThenFoldSet, C, Is
  <2> QED
    BY <2>1, <1>1
<1>8. FoldsPrefixes(C, Val, n, s, F)
  <2>1. C[{}] = s
    BY <1>6 DEF Is
  <2>2. ASSUME NEW k \in 1 .. n, C[1 .. k - 1] \in Val PROVE C[1 .. k] = F[k][C[1 .. k - 1]]
    <3>1. /\ 1 .. k \in SUBSET (1 .. n) /\ 1 .. k # {}
          /\ Max(1 .. k) = k /\ (1 .. k) \ {k} = 1 .. k - 1
      BY Prefix
    <3>2. C[1 .. k] = AcrossStep(nw, C[1 .. k - 1], us, Upto(1, Len(s) - 1)[k])
      BY <3>1, <1>1, <1>6 DEF Is
    <3> QED
      BY <3>2, <1>elem, <1>3, <2>2
  <2> QED
    BY <2>1, <2>2 DEF FoldsPrefixes
<1>9. PICK r : RunOf(r, Val, n, s, F) /\ r[n] = C[1 .. n]
  <2>1. s \in Val /\ n \in Nat
    BY Zenon
  <2>2. HasRun(Val, n, s, F, C[1 .. n])
    BY <2>1, <1>2, <1>8, FoldSteps
  <2> QED
    BY <2>2 DEF HasRun
<1>10. r \in [0 .. n -> Val] /\ r[0] = s /\ \A k \in 1 .. n : r[k] = F[k][r[k - 1]]
  BY <1>9 DEF RunOf
<1>11. ASSUME NEW k \in 1 .. n PROVE r[k] = AcrossStep(nw, r[k - 1], us, k)
  <2>1. r[k - 1] \in Val
    BY <1>10
  <2> QED
    BY <2>1, <1>3, <1>10
<1> QED
  BY <1>7, <1>9, <1>10, <1>11 DEF AcrossRun

\* The cells one by one: the array gathered goes through r[0] to r[n].
GatherRun(r, Val, n, s) ==
  /\ r \in [0 .. n -> Val] /\ r[0] = << >> /\ r[n] = FoldLeft(GatherInto, << >>, s)
  /\ \A k \in 1 .. n : r[k] = GatherInto(r[k - 1], s[k])

\* There is such a run, if no cell leaves the values Val.
LEMMA GatherSteps ==
  ASSUME NEW Val, << >> \in Val, NEW s, NEW n \in Nat, DOMAIN s = 1 .. n,
         \A t \in Val : \A k \in 1 .. n : GatherInto(t, s[k]) \in Val
  PROVE  \E r : GatherRun(r, Val, n, s)
<1> DEFINE F == [k \in 1 .. n |-> [t \in Val |-> GatherInto(t, s[k])]]
           Is(G) == G = [T \in SUBSET DOMAIN s |->
                           IF T = {} THEN << >>
                           ELSE GatherInto(G[T \ {Max(T)}], s[Max(T)])]
           C == CHOOSE G : Is(G)
<1>1. DOMAIN s = 1 .. n
  OBVIOUS
<1>2. F \in [1 .. n -> [Val -> Val]]
  OBVIOUS
<1>3. \A k \in 1 .. n : \A t \in Val : F[k][t] = GatherInto(t, s[k])
  OBVIOUS
<1> HIDE DEF F
<1>4. PICK G : FoldFunctionOf(G, Val, n, << >>, F)
  BY <1>2, FoldExists
<1>5. Is(G)
  <2>1. ASSUME NEW T \in SUBSET (1 .. n), T # {}
        PROVE  G[T] = GatherInto(G[T \ {Max(T)}], s[Max(T)])
    <3>1. Max(T) \in 1 .. n
      BY <2>1, GreatestNumber
    <3>2. G[T \ {Max(T)}] \in Val /\ G[T] = F[Max(T)][G[T \ {Max(T)}]]
      BY <1>4, <2>1 DEF FoldFunctionOf
    <3> QED
      BY <3>1, <3>2, <1>3
  <2>2. G[{}] = << >> /\ G \in [SUBSET (1 .. n) -> Val]
    BY <1>4 DEF FoldFunctionOf
  <2> QED
    BY <1>1, <2>1, <2>2
<1> HIDE DEF Is
<1>6. Is(C)
  BY <1>5
<1> HIDE DEF C
<1>7. FoldLeft(GatherInto, << >>, s) = C[1 .. n]
  <2>1. FoldLeft(GatherInto, << >>, s) = C[DOMAIN s]
    BY DEF FoldLeft, MapThenFoldSet, C, Is
  <2> QED
    BY <2>1, <1>1
<1>8. FoldsPrefixes(C, Val, n, << >>, F)
  <2>1. C[{}] = << >>
    BY <1>6 DEF Is
  <2>2. ASSUME NEW k \in 1 .. n, C[1 .. k - 1] \in Val PROVE C[1 .. k] = F[k][C[1 .. k - 1]]
    <3>1. /\ 1 .. k \in SUBSET (1 .. n) /\ 1 .. k # {}
          /\ Max(1 .. k) = k /\ (1 .. k) \ {k} = 1 .. k - 1
      BY Prefix
    <3>2. C[1 .. k] = GatherInto(C[1 .. k - 1], s[k])
      BY <3>1, <1>1, <1>6 DEF Is
    <3> QED
      BY <3>2, <1>3, <2>2
  <2> QED
    BY <2>1, <2>2 DEF FoldsPrefixes
<1>9. PICK r : RunOf(r, Val, n, << >>, F) /\ r[n] = C[1 .. n]
  <2>1. << >> \in Val /\ n \in Nat
    BY Zenon
  <2>2. HasRun(Val, n, << >>, F, C[1 .. n])
    BY <2>1, <1>2, <1>8, FoldSteps
  <2> QED
    BY <2>2 DEF HasRun
<1>10. r \in [0 .. n -> Val] /\ r[0] = << >> /\ \A k \in 1 .. n : r[k] = F[k][r[k - 1]]
  BY <1>9 DEF RunOf
<1>11. ASSUME NEW k \in 1 .. n PROVE r[k] = GatherInto(r[k - 1], s[k])
  <2>1. r[k - 1] \in Val
    BY <1>10
  <2> QED
    BY <2>1, <1>3, <1>10
<1> QED
  BY <1>7, <1>9, <1>10, <1>11 DEF GatherRun

-----------------------------------------------------------------------------
(* Boxes.                                                                  *)

\* Two candidates differ in their probability at most.
SameBox(a, b) == a.x = b.x /\ a.y = b.y /\ a.w = b.w /\ a.h = b.h

\* The kinds of boxes.
Boxes == {"retina", "aiface", "rfb", "yolo", "plate"}

\* How far two lines overlap does not depend on which comes first.
LEMMA OverlapSymmetric ==
  ASSUME NEW box \in Boxes, NEW x1 \in Int, NEW w1 \in Int, NEW x2 \in Int, NEW w2 \in Int
  PROVE  /\ Overlap(box, x1, w1, x2, w2) = Overlap(box, x2, w2, x1, w1)
         /\ Overlap(box, x1, w1, x2, w2) \in Int
<1>1. ASSUME NEW a \in Int, NEW b \in Int, NEW c \in Int, NEW d \in Int
      PROVE  /\ Min({a, b}) - Max({c, d}) = Min({b, a}) - Max({d, c})
             /\ Min({a, b}) - Max({c, d}) \in Int
  <2>1. {a, b} = {b, a} /\ {c, d} = {d, c}
    OBVIOUS
  <2>2. Min({a, b}) \in Int /\ Max({c, d}) \in Int
    BY MinOfTwo, MaxOfTwo
  <2> QED
    BY <2>1, <2>2
<1>2. CornerOverlap(x1, w1, x2, w2) = CornerOverlap(x2, w2, x1, w1)
  BY <1>1 DEF CornerOverlap
<1>3. CornerOverlap(x1, w1, x2, w2) \in Int
  BY <1>1 DEF CornerOverlap
<1>4. CentreOverlap(x1, w1, x2, w2) = CentreOverlap(x2, w2, x1, w1)
  BY <1>1 DEF CentreOverlap
<1>5. CentreOverlap(x1, w1, x2, w2) \in Int
  BY <1>1 DEF CentreOverlap
<1> QED
  BY <1>2, <1>3, <1>4, <1>5 DEF Overlap, Boxes, AifaceOverlap, RfbOverlap, PlateOverlap

\* Two candidates are near each other or not, whichever comes first.
LEMMA NearSymmetric ==
  ASSUME NEW box \in Boxes, NEW percent, NEW a \in Detection, NEW b \in Detection
  PROVE  Near(box, a, b, percent) <=> Near(box, b, a, percent)
<1>1. /\ a.x \in Int /\ a.y \in Int /\ a.w \in Int /\ a.h \in Int
      /\ b.x \in Int /\ b.y \in Int /\ b.w \in Int /\ b.h \in Int
  BY DEF Detection
<1>2. /\ Overlap(box, a.x, a.w, b.x, b.w) = Overlap(box, b.x, b.w, a.x, a.w)
      /\ Overlap(box, a.y, a.h, b.y, b.h) = Overlap(box, b.y, b.h, a.y, a.h)
      /\ Overlap(box, a.x, a.w, b.x, b.w) \in Int /\ Overlap(box, a.y, a.h, b.y, b.h) \in Int
  BY <1>1, OverlapSymmetric
<1>3. Intersection(box, a, b) = Intersection(box, b, a)
  BY <1>2, Zenon DEF Intersection
<1>4. Intersection(box, a, b) \in Int
  BY <1>2 DEF Intersection
<1>5. 4 * a.w * a.h \in Int /\ 4 * b.w * b.h \in Int
  BY <1>1
<1>6. UnionArea(box, a, b) = UnionArea(box, b, a)
  <2>1. ASSUME NEW i \in Int, NEW j \in Int, NEW k \in Int PROVE i + j - k = j + i - k
    OBVIOUS
  <2> QED
    BY <2>1, <1>3, <1>4, <1>5, Zenon DEF UnionArea
<1> QED
  BY <1>3, <1>6, Zenon DEF Near

\* It depends on the boxes only.
LEMMA NearSameBox ==
  ASSUME NEW box, NEW percent, NEW a, NEW b, NEW c, NEW d, SameBox(a, c), SameBox(b, d)
  PROVE  Near(box, a, b, percent) <=> Near(box, c, d, percent)
<1>1. Intersection(box, a, b) = Intersection(box, c, d)
  BY Zenon DEF SameBox, Intersection
<1>2. UnionArea(box, a, b) = UnionArea(box, c, d)
  BY <1>1, Zenon DEF SameBox, UnionArea
<1> QED
  BY <1>1, <1>2, Zenon DEF Near

-----------------------------------------------------------------------------
(* The orders of qsort.                                                    *)

\* The order o goes through the n places of s, each once, best first.
BestFirst(n, s, o) ==
  /\ o \in [1 .. n -> 1 .. n] /\ Len(o) = n
  /\ \A x, y \in 1 .. n : o[x] = o[y] => x = y
  /\ \A i \in 1 .. n : \E x \in 1 .. n : o[x] = i
  /\ \A x, y \in 1 .. n : x < y => s[o[x]].p >= s[o[y]].p

\* So does every outcome of qsort.
LEMMA OrderIs ==
  ASSUME NEW n \in Nat, NEW s \in [1 .. n -> Detection], NEW o \in Orders(s)
  PROVE  BestFirst(n, s, o)
<1>1. Cardinality(1 .. n) = n /\ IsFiniteSet(1 .. n)
  BY FS_Interval
<1>2. DOMAIN s = 1 .. n
  OBVIOUS
<1>3. o \in [1 .. n -> 1 .. n] /\ \A x, y \in 1 .. n : x # y => o[x] # o[y]
  BY <1>1, <1>2 DEF Orders, SetToSeqs
<1>4. Len(o) = n
  BY <1>3
<1>5. o \in Injection(1 .. n, 1 .. n)
  BY <1>3 DEF Injection, IsInjective
<1>6. o \in Surjection(1 .. n, 1 .. n)
  BY <1>1, <1>5, FS_Injection
<1>7. \A i \in 1 .. n : \E x \in 1 .. n : o[x] = i
  BY <1>6 DEF Surjection
<1>8. ASSUME NEW x \in 1 .. n, NEW y \in 1 .. n, x < y PROVE s[o[x]].p >= s[o[y]].p
  <2> DEFINE T == {k \in 0 .. n : k =< x \/ s[o[x]].p >= s[o[k]].p}
  <2>1. \A i \in 1 .. n : s[o[i]].p \in Nat
    BY <1>3 DEF Detection
  <2>2. 0 \in T
    OBVIOUS
  <2>3. ASSUME NEW k \in 1 .. n, k - 1 \in T PROVE k \in T
    <3>1. CASE k =< x
      BY <3>1
    <3>2. CASE k > x
      <4>1. k - 1 \in 1 .. Len(o) - 1 /\ k - 1 \in 1 .. n
        BY <3>2, <1>4
      <4>2. s[o[k - 1]].p >= s[o[k]].p
        BY <4>1 DEF Orders
      <4>3. s[o[x]].p >= s[o[k - 1]].p
        BY <2>1, <2>3, <3>2, <4>1
      <4> QED
        BY <2>1, <4>1, <4>2, <4>3
    <3> QED
      BY <3>1, <3>2
  <2> HIDE DEF T
  <2>4. \A k \in 0 .. n : k \in T
    BY <2>2, <2>3, UpTo
  <2> QED
    BY <1>8, <2>4 DEF T
<1> QED
  BY <1>3, <1>4, <1>7, <1>8 DEF BestFirst

-----------------------------------------------------------------------------
(* Suppression within a scale, where candidates are only cleared.          *)

\* What becomes of s when candidates are cleared.
Marked(s) ==
  {t \in [DOMAIN s -> Detection] :
     \A i \in DOMAIN s : SameBox(t[i], s[i]) /\ t[i].p \in {0, s[i].p}}

\* After candidate o[i] has been compared with those in the places i + 1 .. k:
\* the others are as they were, those are cleared if near, and only then.
Row(box, percent, s, o, i, k, t, u) ==
  /\ u \in Marked(s)
  /\ \A y \in DOMAIN s : y =< i \/ y > k => u[o[y]] = t[o[y]]
  /\ \A y \in DOMAIN s : i < y /\ y =< k =>
       /\ \/ u[o[y]].p = t[o[y]].p
          \/ u[o[y]].p = 0 /\ t[o[i]].p > 0 /\ Near(box, s[o[i]], s[o[y]], percent)
       /\ u[o[i]].p > 0 /\ Near(box, s[o[i]], s[o[y]], percent) => u[o[y]].p = 0

\* u is t, or t with b cleared, which it is just if a is left and near.
Clears(box, percent, s, t, a, b, u) ==
  /\ u \in Marked(s)
  /\ \A i \in DOMAIN s : i # b => u[i] = t[i]
  /\ u[b].p \in {0, t[b].p}
  /\ u[b].p = 0 \/ t[a].p = 0 \/ ~Near(box, s[a], s[b], percent)
  /\ u[b].p # t[b].p => t[a].p > 0 /\ Near(box, s[a], s[b], percent)

\* So does suppression.
LEMMA SuppressMarks ==
  ASSUME NEW box, NEW percent, NEW n \in Nat, NEW s \in [1 .. n -> Detection],
         NEW t \in Marked(s), NEW a \in 1 .. n, NEW b \in 1 .. n
  PROVE  Clears(box, percent, s, t, a, b, Suppress(box, percent, t, a, b))
<1> DEFINE u == Suppress(box, percent, t, a, b)
           c == [t[b] EXCEPT !.p = 0]
<1>1. DOMAIN s = 1 .. n /\ t \in [1 .. n -> Detection]
  BY DEF Marked
<1>2. SameBox(t[a], s[a]) /\ SameBox(t[b], s[b]) /\ t[a].p \in Nat /\ t[b].p \in Nat
  BY <1>1 DEF Marked, Detection
<1>3. Near(box, t[a], t[b], percent) <=> Near(box, s[a], s[b], percent)
  BY <1>2, NearSameBox
<1>4. c \in Detection /\ c.p = 0 /\ SameBox(c, s[b])
  BY <1>1, <1>2 DEF Detection, SameBox
<1>5. u = t \/ (u = [t EXCEPT ![b] = c] /\ t[a].p > 0 /\ Near(box, s[a], s[b], percent))
  BY <1>3 DEF Suppress
<1>6. u = t => t[a].p = 0 \/ t[b].p = 0 \/ ~Near(box, s[a], s[b], percent)
  <2>1. CASE t[a].p > 0 /\ t[b].p > 0 /\ Near(box, t[a], t[b], percent)
    <3>1. u = [t EXCEPT ![b] = c]
      BY <2>1 DEF Suppress
    <3>2. u[b] = c
      BY <3>1, <1>1
    <3> QED
      BY <3>2, <1>4, <2>1
  <2>2. CASE ~(t[a].p > 0 /\ t[b].p > 0 /\ Near(box, t[a], t[b], percent))
    BY <2>2, <1>2, <1>3
  <2> QED
    BY <2>1, <2>2
<1> HIDE DEF u, c
<1>7. CASE u = t
  BY <1>1, <1>6, <1>7 DEF u, Clears
<1>8. CASE u = [t EXCEPT ![b] = c] /\ t[a].p > 0 /\ Near(box, s[a], s[b], percent)
  <2>1. u \in [1 .. n -> Detection] /\ u[b] = c /\ \A i \in 1 .. n : i # b => u[i] = t[i]
    BY <1>1, <1>4, <1>8
  <2>2. u \in Marked(s)
    BY <2>1, <1>1, <1>4 DEF Marked
  <2> QED
    BY <1>1, <2>1, <2>2, <1>4, <1>8 DEF u, Clears
<1> QED
  BY <1>5, <1>7, <1>8

\* One more candidate in the row.
LEMMA RowStep ==
  ASSUME NEW box \in Boxes \ {"aiface"}, NEW percent, NEW n \in Nat,
         NEW s \in [1 .. n -> Detection], NEW o \in Orders(s), NEW i \in 1 .. n,
         NEW k \in i + 1 .. n, NEW t \in Marked(s), NEW u,
         Row(box, percent, s, o, i, k - 1, t, u)
  PROVE  Row(box, percent, s, o, i, k, t, Compare(box, percent, u, o[i], o[k]))
<1> DEFINE v == Compare(box, percent, u, o[i], o[k])
<1>1. /\ o \in [1 .. n -> 1 .. n]
      /\ \A x, y \in 1 .. n : o[x] = o[y] => x = y
  <2>1. BestFirst(n, s, o)
    BY OrderIs
  <2> QED
    BY <2>1 DEF BestFirst
<1>2. DOMAIN s = 1 .. n /\ i \in 1 .. n /\ k \in 1 .. n /\ i < k
  OBVIOUS
<1>3. v = Suppress(box, percent, u, o[i], o[k])
  BY DEF Compare, Boxes
<1>4. u \in Marked(s)
  BY DEF Row
<1>5. o[i] \in 1 .. n /\ o[k] \in 1 .. n
  BY <1>1, <1>2
<1>a. Clears(box, percent, s, u, o[i], o[k], v)
  BY <1>3, <1>4, <1>5, SuppressMarks
<1>6. /\ v \in Marked(s)
      /\ \A y \in 1 .. n : y # o[k] => v[y] = u[y]
      /\ v[o[k]].p \in {0, u[o[k]].p}
      /\ v[o[k]].p = 0 \/ u[o[i]].p = 0 \/ ~Near(box, s[o[i]], s[o[k]], percent)
      /\ v[o[k]].p # u[o[k]].p => u[o[i]].p > 0 /\ Near(box, s[o[i]], s[o[k]], percent)
  BY <1>2, <1>a DEF Clears
<1> HIDE DEF v
<1>7. \A y \in 1 .. n : y # k => v[o[y]] = u[o[y]]
  BY <1>1, <1>2, <1>6
<1>8. u[o[i]] = t[o[i]] /\ u[o[k]] = t[o[k]] /\ v[o[i]] = u[o[i]]
  BY <1>2, <1>7 DEF Row
<1>9. \A y \in DOMAIN s : y =< i \/ y > k => v[o[y]] = t[o[y]]
  BY <1>2, <1>7 DEF Row
<1>10. ASSUME NEW y \in DOMAIN s, i < y, y =< k
       PROVE  /\ \/ v[o[y]].p = t[o[y]].p
                 \/ v[o[y]].p = 0 /\ t[o[i]].p > 0 /\ Near(box, s[o[i]], s[o[y]], percent)
              /\ v[o[i]].p > 0 /\ Near(box, s[o[i]], s[o[y]], percent) => v[o[y]].p = 0
  <2>1. CASE y = k
    BY <1>6, <1>8, <2>1
  <2>2. CASE y # k
    <3>1. y =< k - 1 /\ v[o[y]] = u[o[y]]
      BY <1>2, <1>7, <1>10, <2>2
    <3> QED
      BY <3>1, <1>8, <1>10 DEF Row
  <2> QED
    BY <2>1, <2>2
<1> QED
  BY <1>6, <1>9, <1>10 DEF Row, v

\* The whole row.
LEMMA RowIs ==
  ASSUME NEW box \in Boxes \ {"aiface"}, NEW percent, NEW n \in Nat,
         NEW s \in [1 .. n -> Detection], NEW o \in Orders(s), NEW i \in 1 .. n,
         NEW t \in Marked(s)
  PROVE  Row(box, percent, s, o, i, n, t, SuppressAfter(box, percent, t, o, i))
<1> DEFINE m == n - i
<1>1. /\ o \in [1 .. n -> 1 .. n] /\ Len(o) = n /\ m \in Nat
      /\ DOMAIN s = 1 .. n
  <2>1. BestFirst(n, s, o)
    BY OrderIs
  <2> QED
    BY <2>1 DEF BestFirst
<1>2. \A u \in Marked(s) : \A j \in i + 1 .. n :
        Compare(box, percent, u, o[i], o[j]) \in Marked(s)
  <2> SUFFICES ASSUME NEW u \in Marked(s), NEW j \in i + 1 .. n
               PROVE  Compare(box, percent, u, o[i], o[j]) \in Marked(s)
    OBVIOUS
  <2>1. o[i] \in 1 .. n /\ o[j] \in 1 .. n
    BY <1>1
  <2>2. Compare(box, percent, u, o[i], o[j]) = Suppress(box, percent, u, o[i], o[j])
    BY DEF Compare, Boxes
  <2>3. Clears(box, percent, s, u, o[i], o[j], Suppress(box, percent, u, o[i], o[j]))
    BY <2>1, SuppressMarks
  <2> QED
    BY <2>2, <2>3 DEF Clears
<1>a. PICK r : SuppressAfterRun(r, Marked(s), n, t, box, percent, o, i)
  BY <1>1, <1>2, SuppressAfterSteps
<1>3. /\ r[0] = t
      /\ r[m] = SuppressAfter(box, percent, t, o, i)
      /\ \A k \in 1 .. m : r[k] = Compare(box, percent, r[k - 1], o[i], o[i + k])
      /\ \A k \in 0 .. m : r[k] \in Marked(s)
  BY <1>a DEF SuppressAfterRun
<1> DEFINE T == {k \in 0 .. m : Row(box, percent, s, o, i, i + k, t, r[k])}
<1>4. 0 \in T
  <2>1. Row(box, percent, s, o, i, i, t, t)
    BY <1>1 DEF Row
  <2> QED
    BY <2>1, <1>1, <1>3
<1>5. ASSUME NEW k \in 1 .. m, k - 1 \in T PROVE k \in T
  <2>1. Row(box, percent, s, o, i, (i + k) - 1, t, r[k - 1])
    <3>1. i + (k - 1) = (i + k) - 1
      OBVIOUS
    <3> QED
      BY <3>1, <1>5
  <2>2. i + k \in i + 1 .. n
    OBVIOUS
  <2>3. Row(box, percent, s, o, i, i + k, t, Compare(box, percent, r[k - 1], o[i], o[i + k]))
    BY <2>1, <2>2, RowStep
  <2> QED
    BY <2>3, <1>3
<1> HIDE DEF T
<1>6. \A k \in 0 .. m : k \in T
  BY <1>1, <1>4, <1>5, UpTo
<1>7. m \in T
  BY <1>1, <1>6
<1>8. i + m = n
  OBVIOUS
<1> HIDE DEF m
<1> QED
  BY <1>3, <1>7, <1>8 DEF T

\* After i candidates had their turn: none of them that is left has a near one
\* left after it, and who went is near one of them that is left.
Turns(box, percent, s, o, i, t) ==
  /\ t \in Marked(s)
  /\ \A x, y \in DOMAIN s :
       x =< i /\ x < y /\ t[o[x]].p > 0 /\ Near(box, s[o[x]], s[o[y]], percent)
         => t[o[y]].p = 0
  /\ \A y \in DOMAIN s :
       t[o[y]].p # s[o[y]].p =>
         /\ t[o[y]].p = 0
         /\ \E x \in DOMAIN s : /\ x =< i /\ x < y /\ t[o[x]].p > 0
                                /\ Near(box, s[o[x]], s[o[y]], percent)

\* One more turn.
LEMMA TurnsStep ==
  ASSUME NEW box \in Boxes \ {"aiface"}, NEW percent, NEW n \in Nat,
         NEW s \in [1 .. n -> Detection], NEW o \in Orders(s), NEW i \in 1 .. n,
         NEW t, Turns(box, percent, s, o, i - 1, t)
  PROVE  Turns(box, percent, s, o, i, SuppressAfter(box, percent, t, o, i))
<1> DEFINE u == SuppressAfter(box, percent, t, o, i)
<1>1. t \in Marked(s) /\ DOMAIN s = 1 .. n
  BY DEF Turns
<1>2. Row(box, percent, s, o, i, n, t, u)
  BY <1>1, RowIs
<1> HIDE DEF u
<1>3. /\ u \in Marked(s)
      /\ \A y \in 1 .. n : y =< i => u[o[y]] = t[o[y]]
      /\ \A y \in 1 .. n : i < y =>
           /\ \/ u[o[y]].p = t[o[y]].p
              \/ u[o[y]].p = 0 /\ t[o[i]].p > 0 /\ Near(box, s[o[i]], s[o[y]], percent)
           /\ u[o[i]].p > 0 /\ Near(box, s[o[i]], s[o[y]], percent) => u[o[y]].p = 0
  BY <1>1, <1>2 DEF Row
<1>4. ASSUME NEW x \in 1 .. n, NEW y \in 1 .. n, x =< i, x < y, u[o[x]].p > 0,
             Near(box, s[o[x]], s[o[y]], percent)
      PROVE  u[o[y]].p = 0
  <2>1. CASE x = i
    BY <1>3, <1>4, <2>1
  <2>2. CASE x # i
    <3>1. x =< i - 1 /\ t[o[x]].p > 0
      BY <1>3, <1>4, <2>2
    <3>2. t[o[y]].p = 0
      BY <3>1, <1>1, <1>4 DEF Turns
    <3>3. y =< i \/ i < y
      OBVIOUS
    <3> QED
      BY <3>2, <3>3, <1>3
  <2> QED
    BY <2>1, <2>2
<1>5. ASSUME NEW y \in 1 .. n, u[o[y]].p # s[o[y]].p
      PROVE  /\ u[o[y]].p = 0
             /\ \E x \in 1 .. n : /\ x =< i /\ x < y /\ u[o[x]].p > 0
                                  /\ Near(box, s[o[x]], s[o[y]], percent)
  <2>1. CASE u[o[y]].p = t[o[y]].p
    <3>1. PICK x \in 1 .. n : /\ x =< i - 1 /\ x < y /\ t[o[x]].p > 0
                              /\ Near(box, s[o[x]], s[o[y]], percent)
      BY <1>1, <1>5, <2>1 DEF Turns
    <3>2. u[o[y]].p = 0
      BY <1>1, <1>5, <2>1 DEF Turns
    <3>3. x =< i /\ u[o[x]].p > 0
      BY <3>1, <1>3
    <3> QED
      BY <3>1, <3>2, <3>3
  <2>2. CASE u[o[y]].p # t[o[y]].p
    <3>1. i < y
      BY <1>3, <2>2
    <3>2. u[o[y]].p = 0 /\ t[o[i]].p > 0 /\ Near(box, s[o[i]], s[o[y]], percent)
      BY <3>1, <1>3, <2>2
    <3>3. u[o[i]].p > 0
      BY <3>2, <1>3
    <3> QED
      BY <3>1, <3>2, <3>3
  <2> QED
    BY <2>1, <2>2
<1> QED
  BY <1>1, <1>3, <1>4, <1>5 DEF Turns, u

\* All the turns.
LEMMA TurnsAll ==
  ASSUME NEW box \in Boxes \ {"aiface"}, NEW percent, NEW n \in Nat,
         NEW s \in [1 .. n -> Detection], NEW o \in Orders(s)
  PROVE  Turns(box, percent, s, o, n, InOrder(box, percent, s, o))
<1>1. Len(o) = n /\ DOMAIN s = 1 .. n
  <2>1. BestFirst(n, s, o)
    BY OrderIs
  <2> QED
    BY <2>1 DEF BestFirst
<1>2. s \in Marked(s)
  BY <1>1 DEF Marked, SameBox
<1>3. \A t \in Marked(s) : \A i \in 1 .. n : SuppressAfter(box, percent, t, o, i) \in Marked(s)
  BY RowIs DEF Row
<1>a. PICK r : InOrderRun(r, Marked(s), n, s, box, percent, o)
  BY <1>1, <1>2, <1>3, InOrderSteps
<1>4. /\ r[0] = s
      /\ r[n] = InOrder(box, percent, s, o)
      /\ \A i \in 1 .. n : r[i] = SuppressAfter(box, percent, r[i - 1], o, i)
  BY <1>a DEF InOrderRun
<1> DEFINE T == {i \in 0 .. n : Turns(box, percent, s, o, i, r[i])}
<1>5. 0 \in T
  <2>1. Turns(box, percent, s, o, 0, s)
    BY <1>1, <1>2 DEF Turns
  <2> QED
    BY <2>1, <1>4
<1>6. ASSUME NEW i \in 1 .. n, i - 1 \in T PROVE i \in T
  <2>1. Turns(box, percent, s, o, i - 1, r[i - 1])
    BY <1>6
  <2>2. Turns(box, percent, s, o, i, SuppressAfter(box, percent, r[i - 1], o, i))
    BY <2>1, TurnsStep
  <2> QED
    BY <2>2, <1>4
<1> HIDE DEF T
<1>7. \A i \in 0 .. n : i \in T
  BY <1>5, <1>6, UpTo
<1> QED
  BY <1>4, <1>7 DEF T

\* What suppression within a scale leaves is a kernel, whatever the order that
\* qsort gave to equal candidates and whatever the boxes.
THEOREM SuppressionLeavesKernel ==
  ASSUME NEW box \in Boxes \ {"aiface"}, NEW percent, NEW s \in Scale, NEW o \in Orders(s)
  PROVE  /\ InOrder(box, percent, s, o) \in Marked(s)
         /\ Kernel(box, percent, s, InOrder(box, percent, s, o))
<1> DEFINE n == Len(s)
           t == InOrder(box, percent, s, o)
<1>1. n \in Nat /\ s \in [1 .. n -> Detection] /\ DOMAIN s = 1 .. n
  BY DEF Scale
<1> HIDE DEF n
<1>2. Turns(box, percent, s, o, n, t)
  BY <1>1, TurnsAll
<1>3. /\ o \in [1 .. n -> 1 .. n]
      /\ \A i \in 1 .. n : \E x \in 1 .. n : o[x] = i
      /\ \A x, y \in 1 .. n : x < y => s[o[x]].p >= s[o[y]].p
  <2>1. BestFirst(n, s, o)
    BY <1>1, OrderIs
  <2> QED
    BY <2>1 DEF BestFirst
<1> HIDE DEF t
<1>4. /\ t \in [1 .. n -> Detection]
      /\ \A i \in 1 .. n : SameBox(t[i], s[i]) /\ t[i].p \in {0, s[i].p} /\ s[i] \in Detection
  BY <1>1, <1>2 DEF Turns, Marked
<1>5. \A i \in 1 .. n : t[i].p \in Nat /\ s[i].p \in Nat
  BY <1>4 DEF Detection
<1>6. \A i, j \in 1 .. n : /\ Near(box, t[i], t[j], percent) <=> Near(box, s[i], s[j], percent)
                           /\ Near(box, s[i], s[j], percent) <=> Near(box, s[j], s[i], percent)
  BY <1>4, NearSameBox, NearSymmetric
<1>7. ASSUME NEW i \in 1 .. n, NEW j \in (1 .. n) \ {i}, t[i].p > 0
      PROVE  t[j].p = 0 \/ ~Near(box, t[i], t[j], percent)
  <2>1. PICK x \in 1 .. n : o[x] = i
    BY <1>3
  <2>2. PICK y \in 1 .. n : o[y] = j
    BY <1>3
  <2>3. x < y \/ y < x
    BY <2>1, <2>2
  <2>4. CASE x < y
    BY <1>1, <1>2, <1>6, <1>7, <2>1, <2>2, <2>4 DEF Turns
  <2>5. CASE y < x
    <3>1. t[j].p > 0 => ~Near(box, s[j], s[i], percent)
      BY <1>1, <1>2, <1>7, <2>1, <2>2, <2>5 DEF Turns
    <3> QED
      BY <3>1, <1>5, <1>6
  <2> QED
    BY <2>3, <2>4, <2>5
<1>8. ASSUME NEW i \in 1 .. n, t[i].p = 0, s[i].p > 0
      PROVE  \E j \in (1 .. n) \ {i} : t[j].p >= s[i].p /\ Near(box, t[i], t[j], percent)
  <2>1. PICK y \in 1 .. n : o[y] = i
    BY <1>3
  <2>2. PICK x \in 1 .. n : x < y /\ t[o[x]].p > 0 /\ Near(box, s[o[x]], s[o[y]], percent)
    BY <1>1, <1>2, <1>8, <2>1 DEF Turns
  <2>3. o[x] \in 1 .. n /\ o[x] # i
    <3>1. o[x] \in 1 .. n
      BY <1>3
    <3>2. t[o[x]].p # t[i].p
      BY <1>8, <2>2
    <3> QED
      BY <3>1, <3>2
  <2>4. t[o[x]].p = s[o[x]].p
    BY <1>4, <2>2, <2>3
  <2>5. Near(box, t[i], t[o[x]], percent)
    BY <1>6, <2>1, <2>2, <2>3
  <2>6. t[o[x]].p >= s[i].p
    BY <1>3, <2>1, <2>2, <2>4
  <2> QED
    BY <2>3, <2>5, <2>6
<1>9. DOMAIN t = 1 .. n
  BY <1>4
<1>10. Kernel(box, percent, s, t)
  BY <1>4, <1>7, <1>8, <1>9 DEF Kernel
<1> QED
  BY <1>2, <1>10 DEF Turns, t

-----------------------------------------------------------------------------
(* aiface, whose equal candidates are merged.                              *)

\* What two candidates share is a box again, with the probability of the first.
LEMMA CommonIs ==
  ASSUME NEW a \in Detection, NEW b \in Detection
  PROVE  Common(a, b) \in Detection
<1> DEFINE x == Max({a.x, b.x})
           y == Max({a.y, b.y})
           w == Min({a.x + a.w, b.x + b.w}) - x
           h == Min({a.y + a.h, b.y + b.h}) - y
<1>1. /\ a.x \in Int /\ a.y \in Int /\ a.w \in Int /\ a.h \in Int
      /\ b.x \in Int /\ b.y \in Int /\ b.w \in Int /\ b.h \in Int
  BY DEF Detection
<1>2. x \in Int /\ y \in Int
  BY <1>1, MaxOfTwo
<1>3. ASSUME NEW i \in Int, NEW j \in Int, NEW k \in Int PROVE Min({i, j}) - k \in Int
  <2>1. Min({i, j}) \in {i, j}
    BY MinOfTwo
  <2> QED
    BY <2>1
<1>4. w \in Int /\ h \in Int
  <2>1. a.x + a.w \in Int /\ b.x + b.w \in Int /\ a.y + a.h \in Int /\ b.y + b.h \in Int
    BY <1>1
  <2> HIDE DEF x, y
  <2> QED
    BY <2>1, <1>2, <1>3
<1>5. Common(a, b) = [a EXCEPT !.x = x, !.y = y, !.w = w, !.h = h]
  BY Zenon DEF Common
<1> HIDE DEF x, y, w, h
<1> QED
  BY <1>2, <1>4, <1>5 DEF Detection

\* Comparing two, whether it merges them or not, leaves candidates.
LEMMA AifaceCompare ==
  ASSUME NEW percent, NEW n \in Nat, NEW t \in [1 .. n -> Detection],
         NEW a \in 1 .. n, NEW b \in 1 .. n
  PROVE  Compare("aiface", percent, t, a, b) \in [1 .. n -> Detection]
<1>1. t[a] \in Detection /\ t[b] \in Detection
  OBVIOUS
<1>2. Common(t[a], t[b]) \in Detection
  BY <1>1, CommonIs
<1>3. [t EXCEPT ![b].p = 0] \in [1 .. n -> Detection]
  BY <1>1 DEF Detection
<1>4. [t EXCEPT ![a] = Common(t[a], t[b])] \in [1 .. n -> Detection]
  BY <1>2
<1>5. [t EXCEPT ![a] = Common(t[a], t[b]), ![b].p = 0] \in [1 .. n -> Detection]
  <2> DEFINE v == [t EXCEPT ![a] = Common(t[a], t[b])]
  <2>1. v[b] \in Detection
    BY <1>4
  <2>2. [v[b] EXCEPT !.p = 0] \in Detection
    BY <2>1 DEF Detection
  <2>3. [v EXCEPT ![b].p = 0] \in [1 .. n -> Detection]
    BY <1>4, <2>2
  <2> QED
    BY <2>3
<1>6. Suppress("aiface", percent, t, a, b) \in [1 .. n -> Detection]
  BY <1>3, Zenon DEF Suppress
<1> QED
  BY <1>5, <1>6, Zenon DEF Compare, SuppressMerging

\* Suppression leaves as many candidates as there were.
LEMMA AifaceTyped ==
  ASSUME NEW percent, NEW n \in Nat, NEW s \in [1 .. n -> Detection], NEW o \in Orders(s)
  PROVE  InOrder("aiface", percent, s, o) \in [1 .. n -> Detection]
<1> DEFINE Val == [1 .. n -> Detection]
<1>1. BestFirst(n, s, o)
  BY OrderIs
<1>2. o \in [1 .. n -> 1 .. n] /\ Len(o) = n
  BY <1>1 DEF BestFirst
<1>3. ASSUME NEW t \in Val, NEW i \in 1 .. n
      PROVE  SuppressAfter("aiface", percent, t, o, i) \in Val
  <2>1. ASSUME NEW u \in Val, NEW j \in i + 1 .. n
        PROVE  Compare("aiface", percent, u, o[i], o[j]) \in Val
    <3>1. o[i] \in 1 .. n /\ o[j] \in 1 .. n
      BY <1>2
    <3> QED
      BY <3>1, AifaceCompare
  <2> HIDE DEF Val
  <2>2. PICK r : SuppressAfterRun(r, Val, n, t, "aiface", percent, o, i)
    BY <1>2, <2>1, SuppressAfterSteps
  <2> QED
    BY <2>2 DEF SuppressAfterRun
<1>4. s \in Val
  OBVIOUS
<1> HIDE DEF Val
<1>5. PICK r : InOrderRun(r, Val, n, s, "aiface", percent, o)
  BY <1>2, <1>3, <1>4, InOrderSteps
<1>6. InOrder("aiface", percent, s, o) \in Val
  BY <1>5 DEF InOrderRun
<1> QED
  BY <1>6 DEF Val

-----------------------------------------------------------------------------
(* The suppression of each network within a scale.                         *)

Networks == {FaceDetect, FaceLandmark5, Aiface, Rfb, Person, Plate}

\* What the networks are, as far as it matters here.
LEMMA NetworksAre ==
  ASSUME NEW nw \in Networks
  PROVE  /\ nw.kind \in {"retina", "aiface", "rfb", "person", "plate"} /\ nw # NoNet
         /\ nw.valid \in Nat /\ nw.global \in Nat /\ nw.report \in Nat
         /\ nw.report >= nw.global \/ (nw.kind # "aiface" /\ nw.valid > nw.global)
         /\ nw.missed \in Nat /\ Len(nw.finest) \in Nat \ {0}
<1>1. CASE nw = FaceDetect
  BY <1>1 DEF FaceDetect, NoNet
<1>2. CASE nw = FaceLandmark5
  BY <1>2 DEF FaceLandmark5, NoNet
<1>3. CASE nw = Aiface
  BY <1>3 DEF Aiface, NoNet
<1>4. CASE nw = Rfb
  BY <1>4 DEF Rfb, NoNet
<1>5. CASE nw = Person
  BY <1>5 DEF Person, NoNet
<1>6. CASE nw = Plate
  BY <1>6 DEF Plate, NoNet
<1> QED
  BY <1>1, <1>2, <1>3, <1>4, <1>5, <1>6, Zenon DEF Networks

\* The outcomes of a network's suppression within the scale s.
NmsOutcome(nw, s, percent, t) ==
  /\ t \in [DOMAIN s -> Detection]
  /\ nw.kind # "aiface" => t \in Marked(s) /\ Kernel(BoxWithin(nw), percent, s, t)

\* Every outcome of Nms is one: the networks differ in the kind of their boxes
\* only.
LEMMA NmsIs ==
  ASSUME NEW nw \in Networks, NEW s \in Scale, NEW percent, NEW t \in Nms(nw, s, percent)
  PROVE  NmsOutcome(nw, s, percent, t)
<1>1. s \in [1 .. Len(s) -> Detection] /\ Len(s) \in Nat /\ DOMAIN s = 1 .. Len(s)
  BY DEF Scale
<1>2. nw.kind \in {"retina", "aiface", "rfb", "person", "plate"}
  BY NetworksAre
<1>3. CASE nw.kind = "aiface"
  <2>1. PICK o \in Orders(s) : t = InOrder("aiface", percent, s, o)
    BY <1>3 DEF Nms, AifaceNms
  <2> QED
    BY <1>1, <1>3, <2>1, AifaceTyped DEF NmsOutcome
<1>4. CASE nw.kind # "aiface"
  <2>1. PICK o \in Orders(s) : t = InOrder(BoxWithin(nw), percent, s, o)
    BY <1>2, <1>4 DEF Nms, RetinaNms, RfbNms, PersonNms, PlateNms, BoxWithin
  <2>2. BoxWithin(nw) \in Boxes \ {"aiface"}
    BY DEF Boxes, BoxWithin
  <2>3. t \in Marked(s) /\ Kernel(BoxWithin(nw), percent, s, t)
    BY <2>1, <2>2, SuppressionLeavesKernel
  <2> QED
    BY <2>3 DEF NmsOutcome, Marked
<1> QED
  BY <1>3, <1>4

-----------------------------------------------------------------------------
(* Suppression between two scales.                                         *)

\* Two scales of which candidates were cleared.
Pairs(s, u) == Marked(s) \X Marked(u)

\* Candidates x and y of the two scales are not both left and near.
Apart(box, thresh, st, x, y) ==
  ~(/\ st[1][x].p > thresh /\ st[2][y].p > thresh
    /\ Near(box, st[1][x], st[2][y], 10))

\* To clear candidates again is to clear them.
LEMMA MarkedTwice ==
  ASSUME NEW s, NEW t \in Marked(s), NEW v \in Marked(t)
  PROVE  v \in Marked(s)
  BY DEF Marked, SameBox

\* They are a scale still.
LEMMA MarkedScale ==
  ASSUME NEW s \in Scale, NEW t \in Marked(s)
  PROVE  t \in Scale /\ DOMAIN t = DOMAIN s /\ Len(t) = Len(s)
<1>1. Len(s) \in Nat /\ DOMAIN s = 1 .. Len(s)
  BY DEF Scale
<1>2. t \in [1 .. Len(s) -> Detection]
  BY <1>1 DEF Marked
<1> QED
  BY <1>1, <1>2 DEF Scale

\* What clearing candidate b of t leaves.
LEMMA ClearOne ==
  ASSUME NEW s, NEW t \in Marked(s), NEW b \in DOMAIN s
  PROVE  /\ [t EXCEPT ![b].p = 0] \in Marked(s)
         /\ [t EXCEPT ![b].p = 0][b].p = 0
         /\ \A i \in DOMAIN s : i # b => [t EXCEPT ![b].p = 0][i] = t[i]
<1> DEFINE c == [t[b] EXCEPT !.p = 0]
<1>1. t \in [DOMAIN s -> Detection] /\ t[b] \in Detection /\ SameBox(t[b], s[b])
  BY DEF Marked
<1>2. c \in Detection /\ c.p = 0 /\ SameBox(c, s[b])
  BY <1>1 DEF Detection, SameBox
<1>3. [t EXCEPT ![b].p = 0] = [t EXCEPT ![b] = c]
  BY <1>1
<1> HIDE DEF c
<1> QED
  BY <1>1, <1>2, <1>3 DEF Marked

\* After st, the scales su are apart where st was, and candidates i and j are.
StillApart(box, thresh, s, u, st, su) ==
  /\ su \in Pairs(s, u)
  /\ \A x \in DOMAIN s, y \in DOMAIN u : Apart(box, thresh, st, x, y) => Apart(box, thresh, su, x, y)

\* Comparing i and j sets them apart and no other two together.
LEMMA WorseOfPairIs ==
  ASSUME NEW box, NEW thresh \in Nat, NEW s, NEW u, NEW st \in Pairs(s, u),
         NEW i \in DOMAIN s, NEW j \in DOMAIN u
  PROVE  /\ StillApart(box, thresh, s, u, st, WorseOfPair(box, thresh, st, i, j))
         /\ Apart(box, thresh, WorseOfPair(box, thresh, st, i, j), i, j)
<1> DEFINE a == [st[1] EXCEPT ![i].p = 0]
           b == [st[2] EXCEPT ![j].p = 0]
<1>1. st = <<st[1], st[2]>> /\ st[1] \in Marked(s) /\ st[2] \in Marked(u)
  BY DEF Pairs
<1>2. a \in Marked(s) /\ a[i].p = 0 /\ \A x \in DOMAIN s : x # i => a[x] = st[1][x]
  BY <1>1, ClearOne
<1>3. b \in Marked(u) /\ b[j].p = 0 /\ \A y \in DOMAIN u : y # j => b[y] = st[2][y]
  BY <1>1, ClearOne
<1>4. \/ WorseOfPair(box, thresh, st, i, j) = st /\ Apart(box, thresh, st, i, j)
      \/ WorseOfPair(box, thresh, st, i, j) = <<a, st[2]>>
      \/ WorseOfPair(box, thresh, st, i, j) = <<st[1], b>>
  BY DEF WorseOfPair, Apart
<1> HIDE DEF a, b
<1>5. CASE WorseOfPair(box, thresh, st, i, j) = st /\ Apart(box, thresh, st, i, j)
  BY <1>5 DEF StillApart
<1>6. CASE WorseOfPair(box, thresh, st, i, j) = <<a, st[2]>>
  <2>1. <<a, st[2]>> \in Pairs(s, u)
    BY <1>1, <1>2 DEF Pairs
  <2>2. ~(0 > thresh)
    OBVIOUS
  <2> QED
    BY <1>2, <1>6, <2>1, <2>2 DEF StillApart, Apart
<1>7. CASE WorseOfPair(box, thresh, st, i, j) = <<st[1], b>>
  <2>1. <<st[1], b>> \in Pairs(s, u)
    BY <1>1, <1>3 DEF Pairs
  <2>2. ~(0 > thresh)
    OBVIOUS
  <2> QED
    BY <1>3, <1>7, <2>1, <2>2 DEF StillApart, Apart
<1> QED
  BY <1>4, <1>5, <1>6, <1>7

\* One candidate against a whole scale.
LEMMA AgainstAllIs ==
  ASSUME NEW box, NEW thresh \in Nat, NEW s, NEW u, NEW m \in Nat, DOMAIN u = 1 .. m,
         NEW st \in Pairs(s, u), NEW i \in DOMAIN s
  PROVE  /\ StillApart(box, thresh, s, u, st, AgainstAll(box, thresh, st, i))
         /\ \A y \in DOMAIN u : Apart(box, thresh, AgainstAll(box, thresh, st, i), i, y)
<1>1. Len(st[2]) = m
  BY DEF Pairs, Marked
<1>2. \A t \in Pairs(s, u) : \A k \in 1 .. m : WorseOfPair(box, thresh, t, i, k) \in Pairs(s, u)
  BY WorseOfPairIs DEF StillApart
<1>3. PICK r : AgainstAllRun(r, Pairs(s, u), m, st, box, thresh, i)
  BY <1>1, <1>2, AgainstAllSteps
<1>4. /\ r[0] = st /\ r[m] = AgainstAll(box, thresh, st, i)
      /\ \A k \in 1 .. m : r[k] = WorseOfPair(box, thresh, r[k - 1], i, k)
      /\ \A k \in 0 .. m : r[k] \in Pairs(s, u)
  BY <1>3 DEF AgainstAllRun
<1> DEFINE T == {k \in 0 .. m : /\ StillApart(box, thresh, s, u, st, r[k])
                                /\ \A y \in 1 .. k : Apart(box, thresh, r[k], i, y)}
<1>5. 0 \in T
  BY <1>4 DEF StillApart
<1>6. ASSUME NEW k \in 1 .. m, k - 1 \in T PROVE k \in T
  <2>1. r[k - 1] \in Pairs(s, u) /\ k \in DOMAIN u /\ r[k] = WorseOfPair(box, thresh, r[k - 1], i, k)
    BY <1>4
  <2>2. StillApart(box, thresh, s, u, r[k - 1], r[k]) /\ Apart(box, thresh, r[k], i, k)
    BY <2>1, WorseOfPairIs
  <2>3. StillApart(box, thresh, s, u, st, r[k])
    BY <2>2, <1>6 DEF StillApart
  <2>4. ASSUME NEW y \in 1 .. k PROVE Apart(box, thresh, r[k], i, y)
    <3>1. CASE y = k
      BY <2>2, <3>1
    <3>2. CASE y # k
      <4>1. y \in 1 .. k - 1 /\ y \in DOMAIN u
        BY <3>2
      <4>2. Apart(box, thresh, r[k - 1], i, y)
        BY <4>1, <1>6
      <4> QED
        BY <4>1, <4>2, <2>2 DEF StillApart
    <3> QED
      BY <3>1, <3>2
  <2> QED
    BY <2>3, <2>4
<1> HIDE DEF T
<1>7. \A k \in 0 .. m : k \in T
  BY <1>5, <1>6, UpTo
<1>8. m \in T
  BY <1>7
<1> QED
  BY <1>4, <1>8 DEF T

\* Two scales between which suppression has worked are apart, and only
\* candidates were cleared.
LEMMA BetweenIs ==
  ASSUME NEW box, NEW thresh \in Nat, NEW s \in Scale, NEW u \in Scale
  PROVE  /\ Between(box, thresh, s, u) \in Pairs(s, u)
         /\ \A x \in DOMAIN s, y \in DOMAIN u : Apart(box, thresh, Between(box, thresh, s, u), x, y)
<1> DEFINE n == Len(s)
           m == Len(u)
<1>1. n \in Nat /\ m \in Nat /\ DOMAIN s = 1 .. n /\ DOMAIN u = 1 .. m
  BY DEF Scale
<1>2. <<s, u>> \in Pairs(s, u)
  BY DEF Pairs, Marked, Scale, SameBox
<1>3. \A st \in Pairs(s, u) : \A i \in 1 .. n :
        /\ StillApart(box, thresh, s, u, st, AgainstAll(box, thresh, st, i))
        /\ \A y \in DOMAIN u : Apart(box, thresh, AgainstAll(box, thresh, st, i), i, y)
  BY <1>1, AgainstAllIs
<1>4. \A st \in Pairs(s, u) : \A i \in 1 .. n : AgainstAll(box, thresh, st, i) \in Pairs(s, u)
  BY <1>3 DEF StillApart
<1> HIDE DEF m
<1>5. PICK r : BetweenRun(r, Pairs(s, u), n, s, u, box, thresh)
  BY <1>1, <1>2, <1>4, BetweenSteps
<1> HIDE DEF n
<1>6. /\ r[0] = <<s, u>> /\ r[n] = Between(box, thresh, s, u)
      /\ \A k \in 1 .. n : r[k] = AgainstAll(box, thresh, r[k - 1], k)
      /\ \A k \in 0 .. n : r[k] \in Pairs(s, u)
  BY <1>5 DEF BetweenRun
<1> DEFINE T == {k \in 0 .. n : \A x \in 1 .. k : \A y \in DOMAIN u : Apart(box, thresh, r[k], x, y)}
<1>7. 0 \in T
  BY <1>1
<1>8. ASSUME NEW k \in 1 .. n, k - 1 \in T PROVE k \in T
  <2>1. r[k - 1] \in Pairs(s, u) /\ r[k] = AgainstAll(box, thresh, r[k - 1], k)
    BY <1>1, <1>6
  <2>2. /\ StillApart(box, thresh, s, u, r[k - 1], r[k])
        /\ \A y \in DOMAIN u : Apart(box, thresh, r[k], k, y)
    BY <2>1, <1>3
  <2>3. ASSUME NEW x \in 1 .. k, NEW y \in DOMAIN u PROVE Apart(box, thresh, r[k], x, y)
    <3>1. CASE x = k
      BY <2>2, <3>1
    <3>2. CASE x # k
      <4>1. x \in 1 .. k - 1 /\ x \in DOMAIN s
        BY <1>1, <3>2
      <4>2. Apart(box, thresh, r[k - 1], x, y)
        BY <4>1, <1>8
      <4> QED
        BY <4>1, <4>2, <2>2 DEF StillApart
    <3> QED
      BY <3>1, <3>2
  <2> QED
    BY <2>3
<1> HIDE DEF T
<1>9. \A k \in 0 .. n : k \in T
  BY <1>1, <1>7, <1>8, UpTo
<1>10. n \in T
  BY <1>1, <1>9
<1> QED
  BY <1>1, <1>6, <1>10 DEF T

\* overlap_aiface computes what retina_overlap does.
LEMMA AifaceIsRetina ==
  ASSUME NEW a, NEW b, NEW percent
  PROVE  Near("aiface", a, b, percent) <=> Near("retina", a, b, percent)
<1>1. ASSUME NEW x1, NEW w1, NEW x2, NEW w2
      PROVE  Overlap("aiface", x1, w1, x2, w2) = Overlap("retina", x1, w1, x2, w2)
  BY DEF Overlap, AifaceOverlap
<1>2. Intersection("aiface", a, b) = Intersection("retina", a, b)
  BY <1>1, Zenon DEF Intersection
<1> QED
  BY <1>2, Zenon DEF Near, UnionArea

\* What each network's suppression between the scales s and u leaves.
LEMMA GlobalIs ==
  ASSUME NEW nw \in Networks, NEW s \in Scale, NEW u \in Scale
  PROVE  /\ Global(nw, s, u) \in Pairs(s, u)
         /\ \A x \in DOMAIN s, y \in DOMAIN u :
              Apart(BoxAcross(nw), nw.global, Global(nw, s, u), x, y)
<1>1. nw.kind \in {"retina", "aiface", "rfb", "person", "plate"} /\ nw.global \in Nat
  BY NetworksAre
<1> DEFINE box == IF nw.kind = "aiface" THEN "aiface" ELSE BoxAcross(nw)
<1>2. Global(nw, s, u) = Between(box, nw.global, s, u)
  BY <1>1 DEF Global, PlateBetween, AifaceBetween, RetinaBetween, BoxAcross
<1>3. box = BoxAcross(nw) \/ (box = "aiface" /\ BoxAcross(nw) = "retina")
  BY DEF BoxAcross
<1> HIDE DEF box
<1>4. /\ Between(box, nw.global, s, u) \in Pairs(s, u)
      /\ \A x \in DOMAIN s, y \in DOMAIN u :
           Apart(box, nw.global, Between(box, nw.global, s, u), x, y)
  BY <1>1, BetweenIs
<1>5. ASSUME NEW st, NEW x, NEW y, Apart("aiface", nw.global, st, x, y)
      PROVE  Apart("retina", nw.global, st, x, y)
  BY <1>5, AifaceIsRetina DEF Apart
<1> QED
  BY <1>2, <1>3, <1>4, <1>5

-----------------------------------------------------------------------------
(* Suppression across the scales.                                          *)

\* The scales S after candidates were cleared.
AllMarked(S) ==
  {R \in [DOMAIN S -> Scale] : \A k \in DOMAIN S : R[k] \in Marked(S[k])}

\* Scale k and the next are apart.
NextApart(nw, R, k) ==
  \A x \in DOMAIN R[k], y \in DOMAIN R[k + 1] :
    Apart(BoxAcross(nw), nw.global, <<R[k], R[k + 1]>>, x, y)

\* Scales that are apart stay so when candidates of them are cleared.
LEMMA StayApart ==
  ASSUME NEW nw \in Networks, NEW R, NEW k, NEW Q, NextApart(nw, R, k),
         Q[k] \in Marked(R[k]), Q[k + 1] \in Marked(R[k + 1])
  PROVE  NextApart(nw, Q, k)
<1>1. nw.global \in Nat
  BY NetworksAre
<1>2. DOMAIN Q[k] = DOMAIN R[k] /\ DOMAIN Q[k + 1] = DOMAIN R[k + 1]
  BY DEF Marked
<1>3. ASSUME NEW x \in DOMAIN R[k], NEW y \in DOMAIN R[k + 1],
             Q[k][x].p > nw.global, Q[k + 1][y].p > nw.global,
             Near(BoxAcross(nw), Q[k][x], Q[k + 1][y], 10)
      PROVE  FALSE
  <2>1. /\ SameBox(Q[k][x], R[k][x]) /\ Q[k][x].p \in {0, R[k][x].p}
        /\ SameBox(Q[k + 1][y], R[k + 1][y]) /\ Q[k + 1][y].p \in {0, R[k + 1][y].p}
    BY DEF Marked
  <2>2. R[k][x].p > nw.global /\ R[k + 1][y].p > nw.global
    BY <1>1, <1>3, <2>1
  <2>3. Near(BoxAcross(nw), R[k][x], R[k + 1][y], 10)
    BY <1>3, <2>1, NearSameBox
  <2> QED
    BY <2>2, <2>3 DEF NextApart, Apart
<1> QED
  BY <1>2, <1>3 DEF NextApart, Apart

\* Candidates that are as they were have been cleared, in the sense of Marked.
LEMMA MarkedSelf ==
  ASSUME NEW s \in Scale
  PROVE  s \in Marked(s)
  BY DEF Scale, Marked, SameBox

\* After k steps the scales up to k are apart from their next ones.
AcrossSoFar(nw, S, us, k, R) ==
  /\ R \in AllMarked(S)
  /\ \A j \in 1 .. k : {j, j + 1} \subseteq us => NextApart(nw, R, j)

\* A step of it clears candidates, and leaves scale k and the next apart.
LEMMA AcrossStepClears ==
  ASSUME NEW nw \in Networks, NEW S \in Seq(Scale), NEW us,
         NEW k \in 1 .. Len(S) - 1, NEW R \in AllMarked(S)
  PROVE  /\ AcrossStep(nw, R, us, k) \in AllMarked(S)
         /\ \A j \in DOMAIN S : AcrossStep(nw, R, us, k)[j] \in Marked(R[j])
         /\ {k, k + 1} \subseteq us => NextApart(nw, AcrossStep(nw, R, us, k), k)
<1>1. DOMAIN S = 1 .. Len(S) /\ Len(S) \in Nat /\ k \in DOMAIN S /\ k + 1 \in DOMAIN S
  OBVIOUS
<1>2. R \in [DOMAIN S -> Scale] /\ \A j \in DOMAIN S : R[j] \in Marked(S[j])
  BY DEF AllMarked
<1>3. CASE ~({k, k + 1} \subseteq us)
  <2>1. AcrossStep(nw, R, us, k) = R
    BY <1>3 DEF AcrossStep
  <2> QED
    BY <1>2, <1>3, <2>1, MarkedSelf
<1>4. CASE {k, k + 1} \subseteq us
  <2> DEFINE st == Global(nw, R[k], R[k + 1])
             Q == [R EXCEPT ![k] = st[1], ![k + 1] = st[2]]
  <2>1. AcrossStep(nw, R, us, k) = Q
    BY <1>4, Zenon DEF AcrossStep
  <2>2. R[k] \in Scale /\ R[k + 1] \in Scale
    BY <1>1, <1>2
  <2>3. /\ st \in Pairs(R[k], R[k + 1])
        /\ \A x \in DOMAIN R[k], y \in DOMAIN R[k + 1] : Apart(BoxAcross(nw), nw.global, st, x, y)
    BY <2>2, GlobalIs
  <2> HIDE DEF st
  <2>4. st[1] \in Marked(R[k]) /\ st[2] \in Marked(R[k + 1])
    BY <2>3 DEF Pairs
  <2>5. st[1] \in Scale /\ st[2] \in Scale
    BY <2>2, <2>4, MarkedScale
  <2>6. /\ Q \in [DOMAIN S -> Scale] /\ Q[k] = st[1] /\ Q[k + 1] = st[2]
        /\ \A j \in DOMAIN S : j # k /\ j # k + 1 => Q[j] = R[j]
    BY <1>1, <1>2, <2>5
  <2> HIDE DEF Q
  <2>7. \A j \in DOMAIN S : Q[j] \in Marked(R[j])
    BY <1>2, <2>4, <2>6, MarkedSelf
  <2>8. Q \in AllMarked(S)
    BY <1>2, <2>6, <2>7, MarkedTwice DEF AllMarked
  <2>9. NextApart(nw, Q, k)
    <3>1. DOMAIN st[1] = DOMAIN R[k] /\ DOMAIN st[2] = DOMAIN R[k + 1]
      BY <2>4 DEF Marked
    <3> QED
      BY <2>3, <2>6, <3>1 DEF NextApart, Apart
  <2> QED
    BY <2>1, <2>7, <2>8, <2>9
<1> QED
  BY <1>3, <1>4

\* The step from scale k to the next adds k to what was done.
LEMMA AcrossStepIs ==
  ASSUME NEW nw \in Networks, NEW S \in Seq(Scale), NEW us,
         NEW k \in 1 .. Len(S) - 1, NEW R, AcrossSoFar(nw, S, us, k - 1, R)
  PROVE  AcrossSoFar(nw, S, us, k, AcrossStep(nw, R, us, k))
<1> DEFINE Q == AcrossStep(nw, R, us, k)
<1>1. R \in AllMarked(S)
  BY DEF AcrossSoFar
<1>2. /\ Q \in AllMarked(S) /\ \A j \in DOMAIN S : Q[j] \in Marked(R[j])
      /\ {k, k + 1} \subseteq us => NextApart(nw, Q, k)
  BY <1>1, AcrossStepClears
<1> HIDE DEF Q
<1>3. ASSUME NEW j \in 1 .. k, {j, j + 1} \subseteq us PROVE NextApart(nw, Q, j)
  <2>1. CASE j = k
    BY <1>2, <1>3, <2>1
  <2>2. CASE j # k
    <3>1. j \in 1 .. k - 1 /\ j \in DOMAIN S /\ j + 1 \in DOMAIN S
      BY <2>2
    <3>2. NextApart(nw, R, j)
      BY <3>1, <1>3 DEF AcrossSoFar
    <3> QED
      BY <3>1, <3>2, <1>2, StayApart
  <2> QED
    BY <2>1, <2>2
<1> QED
  BY <1>2, <1>3 DEF AcrossSoFar, Q

\* After suppression between the scales every used scale is apart from the
\* next, if that is used, whatever the boxes and whatever is in the scales.
THEOREM NeighboursAreApart ==
  ASSUME NEW nw \in Networks, NEW S \in Seq(Scale), S # << >>, NEW us
  PROVE  /\ Across(nw, S, us) \in AllMarked(S)
         /\ \A k \in 1 .. Len(S) - 1 :
              {k, k + 1} \subseteq us => NextApart(nw, Across(nw, S, us), k)
<1> DEFINE n == Len(S) - 1
           Val == AllMarked(S)
<1>1. n \in Nat /\ Len(S) - 1 = n
  OBVIOUS
<1>2. S \in Val
  BY MarkedSelf DEF AllMarked
<1>3. \A R \in Val : \A k \in 1 .. n : AcrossStep(nw, R, us, k) \in Val
  BY AcrossStepClears
<1> HIDE DEF Val, n
<1>4. PICK r : AcrossRun(r, Val, n, S, nw, us)
  BY <1>1, <1>2, <1>3, AcrossSteps
<1>5. /\ r[0] = S /\ r[n] = Across(nw, S, us)
      /\ \A k \in 1 .. n : r[k] = AcrossStep(nw, r[k - 1], us, k)
  BY <1>4 DEF AcrossRun
<1> DEFINE T == {k \in 0 .. n : AcrossSoFar(nw, S, us, k, r[k])}
<1>6. 0 \in T
  BY <1>1, <1>2, <1>5 DEF AcrossSoFar, Val
<1>7. ASSUME NEW k \in 1 .. n, k - 1 \in T PROVE k \in T
  <2>1. AcrossSoFar(nw, S, us, k - 1, r[k - 1]) /\ k \in 1 .. Len(S) - 1
    BY <1>1, <1>7
  <2>2. AcrossSoFar(nw, S, us, k, AcrossStep(nw, r[k - 1], us, k))
    BY <2>1, AcrossStepIs
  <2> QED
    BY <2>2, <1>5
<1> HIDE DEF T
<1>8. \A k \in 0 .. n : k \in T
  BY <1>1, <1>6, <1>7, UpTo
<1>9. n \in T
  BY <1>1, <1>8
<1> QED
  BY <1>1, <1>5, <1>9 DEF T, AcrossSoFar

-----------------------------------------------------------------------------
(* Counting and gathering the cells of yolo.                               *)

\* The places of s at which a cell has an objectness left.
Present(s) == {j \in DOMAIN s : s[j].obj > 0}

\* They can be counted.
LEMMA PresentFinite ==
  ASSUME NEW s \in Seq(YoloCell)
  PROVE  IsFiniteSet(Present(s)) /\ Cardinality(Present(s)) \in Nat
<1>1. Present(s) \subseteq 1 .. Len(s) /\ Len(s) \in Nat
  BY DEF Present
<1>2. IsFiniteSet(1 .. Len(s))
  BY <1>1, FS_Interval
<1>3. IsFiniteSet(Present(s))
  BY <1>1, <1>2, FS_Subset
<1> QED
  BY <1>3, FS_CardinalityType

\* A cell put at the end counts if it has an objectness left.
LEMMA PresentAppend ==
  ASSUME NEW s \in Seq(YoloCell), NEW c \in YoloCell
  PROVE  Cardinality(Present(Append(s, c))) =
           Cardinality(Present(s)) + (IF c.obj > 0 THEN 1 ELSE 0)
<1> DEFINE n == Len(s)
           u == Append(s, c)
<1>1. n \in Nat /\ DOMAIN s = 1 .. n
  OBVIOUS
<1>2. DOMAIN u = 1 .. n + 1 /\ u[n + 1] = c /\ \A j \in 1 .. n : u[j] = s[j]
  OBVIOUS
<1>3. n + 1 \notin Present(s) /\ IsFiniteSet(Present(s)) /\ Cardinality(Present(s)) \in Nat
  <2>1. n + 1 \notin Present(s)
    BY <1>1 DEF Present
  <2> QED
    BY <2>1, PresentFinite
<1> HIDE DEF n, u
<1>4. DOMAIN u = DOMAIN s \cup {n + 1}
  BY <1>1, <1>2
<1>5. Present(u) = IF c.obj > 0 THEN Present(s) \cup {n + 1} ELSE Present(s)
  BY <1>1, <1>2, <1>4 DEF Present
<1>6. Cardinality(Present(s) \cup {n + 1}) = Cardinality(Present(s)) + 1
  BY <1>3, FS_AddElement
<1> QED
  BY <1>3, <1>5, <1>6 DEF u

\* The cells of two parts of the array are those of the one and of the other.
LEMMA PresentConcat ==
  ASSUME NEW a \in Seq(YoloCell), NEW b \in Seq(YoloCell)
  PROVE  Cardinality(Present(a \o b)) = Cardinality(Present(a)) + Cardinality(Present(b))
<1> DEFINE n == Len(a)
           m == Len(b)
           u == a \o b
           B == {n + j : j \in Present(b)}
           f == [j \in Present(b) |-> n + j]
<1>1. n \in Nat /\ m \in Nat /\ DOMAIN a = 1 .. n /\ DOMAIN b = 1 .. m
  OBVIOUS
<1>2. /\ DOMAIN u = 1 .. n + m /\ \A j \in 1 .. n : u[j] = a[j]
      /\ \A j \in 1 .. m : u[n + j] = b[j]
  OBVIOUS
<1> HIDE DEF n, m, u
<1>3. Present(a) \subseteq 1 .. n /\ Present(b) \subseteq 1 .. m
  BY <1>1 DEF Present
<1>4. f \in Bijection(Present(b), B)
  BY <1>1, <1>3 DEF Bijection, Injection, Surjection, IsInjective
<1>5. IsFiniteSet(B) /\ Cardinality(B) = Cardinality(Present(b))
  <2>1. ExistsBijection(Present(b), B)
    BY <1>4 DEF ExistsBijection
  <2>2. IsFiniteSet(Present(b))
    BY PresentFinite
  <2> QED
    BY <2>1, <2>2, FS_Bijection
<1>6. Present(u) = Present(a) \cup B
  <2>1. ASSUME NEW j \in Present(u) PROVE j \in Present(a) \cup B
    <3>1. j \in 1 .. n + m /\ u[j].obj > 0
      BY <1>2 DEF Present
    <3>2. CASE j =< n
      <4>1. j \in 1 .. n
        BY <1>1, <3>1, <3>2
      <4> QED
        BY <4>1, <1>1, <1>2, <3>1 DEF Present
    <3>3. CASE j > n
      <4>1. j - n \in 1 .. m /\ n + (j - n) = j
        BY <1>1, <3>1, <3>3
      <4>2. j - n \in Present(b)
        BY <4>1, <1>1, <1>2, <3>1 DEF Present
      <4> QED
        BY <4>1, <4>2
    <3> QED
      BY <1>1, <3>1, <3>2, <3>3
  <2>2. ASSUME NEW j \in Present(a) PROVE j \in Present(u)
    BY <1>1, <1>2, <1>3 DEF Present
  <2>3. ASSUME NEW j \in Present(b) PROVE n + j \in Present(u)
    BY <1>1, <1>2, <1>3 DEF Present
  <2> QED
    BY <2>1, <2>2, <2>3
<1>7. Present(a) \cap B = {}
  BY <1>1, <1>3
<1> HIDE DEF B
<1>8. Cardinality(Present(a) \cup B) = Cardinality(Present(a)) + Cardinality(B)
  <2>1. IsFiniteSet(Present(a)) /\ Cardinality(Present(a)) \in Nat /\ Cardinality(Present(b)) \in Nat
    BY PresentFinite
  <2>2. Cardinality(Present(a) \cup B) =
          Cardinality(Present(a)) + Cardinality(B) - Cardinality(Present(a) \cap B)
    BY <2>1, <1>5, FS_Union
  <2>3. Cardinality(Present(a) \cap B) = 0
    BY <1>7, FS_EmptySet
  <2> QED
    BY <2>1, <2>2, <2>3, <1>5
<1> QED
  BY <1>5, <1>6, <1>8 DEF u

\* What is gathered from s is as long as s has cells with an objectness.
LEMMA GatheredIs ==
  ASSUME NEW s \in Seq(YoloCell)
  PROVE  /\ FoldLeft(GatherInto, << >>, s) \in Seq(YoloCell)
         /\ Len(FoldLeft(GatherInto, << >>, s)) = Cardinality(Present(s))
<1> DEFINE n == Len(s)
           Val == Seq(YoloCell)
           Upper(k) == {j \in 1 .. k : s[j].obj > 0}
<1>1. n \in Nat /\ DOMAIN s = 1 .. n /\ \A k \in 1 .. n : s[k] \in YoloCell
  OBVIOUS
<1>2. << >> \in Val
  OBVIOUS
<1>3. \A t \in Val : \A k \in 1 .. n : GatherInto(t, s[k]) \in Val
  BY <1>1 DEF GatherInto
<1> HIDE DEF n, Val
<1>4. PICK r : GatherRun(r, Val, n, s)
  BY <1>1, <1>2, <1>3, GatherSteps
<1>5. /\ r[0] = << >> /\ r[n] = FoldLeft(GatherInto, << >>, s)
      /\ \A k \in 1 .. n : r[k] = GatherInto(r[k - 1], s[k])
      /\ \A k \in 0 .. n : r[k] \in Seq(YoloCell)
  BY <1>4 DEF GatherRun, Val
<1> DEFINE T == {k \in 0 .. n : Len(r[k]) = Cardinality(Upper(k))}
<1>6. 0 \in T
  <2>1. Upper(0) = {}
    OBVIOUS
  <2> QED
    BY <2>1, <1>1, <1>5, FS_EmptySet
<1>7. ASSUME NEW k \in 1 .. n, k - 1 \in T PROVE k \in T
  <2>1. /\ r[k - 1] \in Seq(YoloCell) /\ r[k] = GatherInto(r[k - 1], s[k])
        /\ Len(r[k - 1]) = Cardinality(Upper(k - 1))
    BY <1>1, <1>5, <1>7
  <2>2. IsFiniteSet(Upper(k - 1)) /\ k \notin Upper(k - 1)
    <3>1. IsFiniteSet(1 .. k - 1)
      BY FS_Interval
    <3> QED
      BY <3>1, FS_Subset
  <2>3. Upper(k) = IF s[k].obj > 0 THEN Upper(k - 1) \cup {k} ELSE Upper(k - 1)
    <3>1. 1 .. k = (1 .. k - 1) \cup {k}
      BY <1>1
    <3> QED
      BY <3>1
  <2> HIDE DEF Upper
  <2>4. Cardinality(Upper(k - 1) \cup {k}) = Cardinality(Upper(k - 1)) + 1
    BY <2>2, FS_AddElement
  <2>5. Len(r[k]) = IF s[k].obj > 0 THEN Len(r[k - 1]) + 1 ELSE Len(r[k - 1])
    BY <1>1, <2>1 DEF GatherInto
  <2>6. Len(r[k]) = Cardinality(Upper(k))
    BY <2>1, <2>3, <2>4, <2>5
  <2> QED
    BY <2>6
<1> HIDE DEF T
<1>8. \A k \in 0 .. n : k \in T
  BY <1>1, <1>6, <1>7, UpTo
<1>9. n \in T
  BY <1>1, <1>8
<1>10. Upper(n) = Present(s)
  BY <1>1 DEF Present
<1> QED
  BY <1>1, <1>5, <1>9, <1>10 DEF T

-----------------------------------------------------------------------------
(* The inductive invariant.                                                *)

\* q comes before p in the order in which candidates are reported.
Before(q, p) == q[1] < p[1] \/ (q[1] = p[1] /\ q[2] < p[2])

\* Every candidate was cleared or is valid.
ValidOnly(nw, s) == \A i \in DOMAIN s : s[i].p = 0 \/ s[i].p >= nw.valid

\* The values that tell the calls and the numbers apart.
Values ==
  /\ pc \in {"idle", "threads", "nms", "within", "across", "report", "returned"}
  /\ net \in Networks \cup {NoNet}
  /\ g_detect_number \in seen /\ seen \subseteq Numbers

\* A call that has not come to the report has found nothing.
Fresh ==
  pc \in {"threads", "nms", "within", "across"} => found = << >> /\ pos = <<1, 1>>

\* The counter of a thread says how many of its boxes have an objectness left.
Counting ==
  pc = "threads" =>
    /\ net = NoNet /\ used = {1}
    /\ input \in [Threads -> Seq(YoloCell)] /\ scales \in [Threads -> Seq(YoloCell)]
    /\ at \in [Threads -> Nat \ {0}] /\ filtered \in [Threads -> Nat]
    /\ \A i \in Threads : filtered[i] = Cardinality(Present(scales[i]))

\* The boxes gathered are as many as were counted.
YoloBoxes ==
  /\ pc = "nms" =>
       /\ net = NoNet /\ used = {1} /\ Len(scales) = 1 /\ scales[1] \in Seq(YoloCell)
       /\ Len(scales[1]) = filtered[0] + filtered[1] + filtered[2]
  /\ pc \in {"report", "returned"} /\ net = NoNet =>
       used = {1} /\ Len(scales) = 1 /\ Len(scales[1]) \in Nat

\* The scales of a network, as far as they have been processed.
FaceScales ==
  /\ pc \in {"within", "across"} => net # NoNet /\ Len(input) = Len(scales) /\ scales # << >>
  /\ pc \in {"within", "across", "report", "returned"} /\ net # NoNet =>
       /\ scales \in Seq(Scale) /\ used \subseteq DOMAIN scales
       /\ net.kind # "aiface" => \A k \in DOMAIN scales : ValidOnly(net, scales[k])
  /\ pc = "within" => input = scales
  /\ pc = "across" /\ net.kind # "aiface" =>
       \A k \in used : Kernel(BoxWithin(net), Percent(net, input, used, k), input[k], scales[k])
  /\ pc \in {"report", "returned"} /\ net # NoNet =>
       \A k \in 1 .. Len(scales) - 1 : {k, k + 1} \subseteq used => NextApart(net, scales, k)

\* What was reported was to be, and of what was to be, all that comes before
\* pos was, unless the result has as many entries as the number once was.
Reporting ==
  pc \in {"report", "returned"} =>
    /\ pos \in (Nat \ {0}) \X (Nat \ {0})
    /\ found \in Seq(Nat \X Nat) /\ Reported \subseteq Reportable
    /\ net.kind # "aiface" =>
         /\ \E m \in seen : Len(found) =< m
         /\ \/ \E m \in seen : Len(found) >= m
            \/ \A q \in Reportable : Before(q, pos) => q \in Reported
    /\ pc = "returned" => pos[1] > Len(scales)

\* All of it.
IInv == Values /\ Fresh /\ Counting /\ YoloBoxes /\ FaceScales /\ Reporting

\* Before the first call there is nothing to keep.
LEMMA InitIInv == Init => IInv
<1> SUFFICES ASSUME Init PROVE IInv
  OBVIOUS
<1>1. pc = "idle" /\ net = NoNet /\ g_detect_number \in Numbers /\ seen = {g_detect_number}
  BY DEF Init
<1> QED
  BY <1>1 DEF IInv, Values, Fresh, Counting, YoloBoxes, FaceScales, Reporting

-----------------------------------------------------------------------------
(* The steps of yolo.                                                      *)

\* The counters start at 0, with no box in any part.
LEMMA StepYBegin == ASSUME IInv, YBegin PROVE IInv'
<1>1. /\ pc' = "threads" /\ net' = NoNet /\ used' = {1} /\ found' = << >> /\ pos' = <<1, 1>>
      /\ seen' = {g_detect_number} /\ g_detect_number' = g_detect_number
      /\ g_detect_number \in Numbers
  BY DEF YBegin, IInv, Values
<1>2. at' = [i \in Threads |-> 1] /\ filtered' = [i \in Threads |-> 0]
  BY DEF YBegin
<1>3. input' \in [Threads -> Seq(YoloCell)] /\ scales' = [i \in Threads |-> << >>]
  BY InputsAssumption DEF YBegin
<1>4. Cardinality(Present(<< >>)) = 0
  <2>1. Present(<< >>) = {}
    BY DEF Present
  <2> QED
    BY <2>1, FS_EmptySet
<1>5. Counting'
  <2>1. \A i \in Threads : scales'[i] = << >> /\ filtered'[i] = 0
    BY <1>2, <1>3
  <2>2. scales' \in [Threads -> Seq(YoloCell)]
    BY <1>3
  <2>3. \A i \in Threads : filtered'[i] = Cardinality(Present(scales'[i]))
    BY <2>1, <1>4
  <2> QED
    BY <1>1, <1>2, <1>3, <2>2, <2>3 DEF Counting
<1> QED
  BY <1>1, <1>5 DEF IInv, Values, Fresh, YoloBoxes, FaceScales, Reporting

\* A thread counts a box just if it leaves it an objectness: the counters are
\* by thread, so the order of the threads does not matter.
LEMMA StepYCell == ASSUME IInv, NEW i \in Threads, YCell(i) PROVE IInv'
<1>1. /\ pc = "threads" /\ at[i] =< Len(input[i])
      /\ at' = [at EXCEPT ![i] = @ + 1]
      /\ UNCHANGED <<pc, net, input, used, pos, found, g_detect_number, seen>>
  BY DEF YCell
<1>2. Counting
  BY DEF IInv
<1> DEFINE c == input[i][at[i]]
           d == IF c.obj > Threshold THEN c ELSE [c EXCEPT !.obj = 0]
           one == IF c.obj > Threshold THEN 1 ELSE 0
<1>3. c \in YoloCell
  BY <1>1, <1>2 DEF Counting
<1>4. d \in YoloCell /\ (d.obj > 0 <=> c.obj > Threshold)
  <2>1. c.obj \in Nat /\ (c.obj > Threshold => c.obj > 0)
    BY <1>3 DEF YoloCell, Threshold
  <2>2. [c EXCEPT !.obj = 0] \in YoloCell /\ [c EXCEPT !.obj = 0].obj = 0
    BY <1>3 DEF YoloCell
  <2> HIDE DEF c
  <2> QED
    BY <2>1, <2>2, <1>3
<1>5. scales' = [scales EXCEPT ![i] = Append(@, d)]
  BY DEF YCell
<1>6. filtered' = [filtered EXCEPT ![i] = @ + one]
  BY <1>1, <1>2 DEF YCell, Counting
<1>7. one = (IF d.obj > 0 THEN 1 ELSE 0) /\ one \in Nat
  BY <1>4
<1> HIDE DEF c, d, one
<1>8. scales[i] \in Seq(YoloCell) /\ filtered[i] = Cardinality(Present(scales[i])) /\ filtered[i] \in Nat
  BY <1>1, <1>2 DEF Counting
<1>9. Cardinality(Present(Append(scales[i], d))) = filtered[i] + one
  BY <1>4, <1>7, <1>8, PresentAppend
<1>10. Counting'
  <2>1. scales' \in [Threads -> Seq(YoloCell)] /\ filtered' \in [Threads -> Nat]
    BY <1>1, <1>2, <1>4, <1>5, <1>6, <1>7 DEF Counting
  <2>2. at' \in [Threads -> Nat \ {0}]
    BY <1>1, <1>2 DEF Counting
  <2>3. ASSUME NEW j \in Threads PROVE filtered'[j] = Cardinality(Present(scales'[j]))
    <3>1. CASE j = i
      <4>1. scales'[j] = Append(scales[i], d) /\ filtered'[j] = filtered[i] + one
        BY <1>1, <1>2, <1>5, <1>6, <3>1 DEF Counting
      <4> QED
        BY <4>1, <1>9
    <3>2. CASE j # i
      <4>1. scales'[j] = scales[j] /\ filtered'[j] = filtered[j]
        BY <1>1, <1>2, <1>5, <1>6, <3>2 DEF Counting
      <4> QED
        BY <4>1, <1>1, <1>2 DEF Counting
    <3> QED
      BY <3>1, <3>2
  <2> QED
    BY <1>1, <1>2, <2>1, <2>2, <2>3 DEF Counting
<1> QED
  BY <1>1, <1>10 DEF IInv, Values, Fresh, YoloBoxes, FaceScales, Reporting

\* Of the parts just the boxes counted are gathered.
LEMMA StepYJoin == ASSUME IInv, YJoin PROVE IInv'
<1>1. /\ pc = "threads" /\ pc' = "nms" /\ scales' = <<Gathered>>
      /\ UNCHANGED <<net, input, used, at, filtered, pos, found, g_detect_number, seen>>
  BY DEF YJoin
<1>2. Counting
  BY DEF IInv
<1>3. /\ scales[0] \in Seq(YoloCell) /\ scales[1] \in Seq(YoloCell) /\ scales[2] \in Seq(YoloCell)
      /\ filtered[0] = Cardinality(Present(scales[0])) /\ filtered[0] \in Nat
      /\ filtered[1] = Cardinality(Present(scales[1])) /\ filtered[1] \in Nat
      /\ filtered[2] = Cardinality(Present(scales[2])) /\ filtered[2] \in Nat
      /\ net = NoNet /\ used = {1}
  BY <1>1, <1>2 DEF Counting, Threads
<1> DEFINE u == scales[2] \o scales[1]
           v == u \o scales[0]
<1>4. u \in Seq(YoloCell) /\ v \in Seq(YoloCell)
  BY <1>3
<1>5. Cardinality(Present(u)) = filtered[2] + filtered[1]
  BY <1>3, PresentConcat
<1>6. Cardinality(Present(v)) = Cardinality(Present(u)) + filtered[0]
  <2> HIDE DEF u
  <2> QED
    BY <1>3, <1>4, PresentConcat
<1>7. Gathered = FoldLeft(GatherInto, << >>, v)
  BY DEF Gathered
<1> HIDE DEF u, v
<1>8. Gathered \in Seq(YoloCell) /\ Len(Gathered) = Cardinality(Present(v))
  BY <1>4, <1>7, GatheredIs
<1>9. Len(Gathered) = filtered[0] + filtered[1] + filtered[2]
  BY <1>3, <1>5, <1>6, <1>8
<1>10. YoloBoxes'
  <2>1. scales'[1] = Gathered /\ Len(scales') = 1
    BY <1>1
  <2>2. Gathered \in Seq(YoloCell)
    BY <1>8
  <2> QED
    BY <2>1, <2>2, <1>1, <1>3, <1>9, Zenon DEF YoloBoxes
<1> QED
  BY <1>1, <1>3, <1>10 DEF IInv, Values, Fresh, Counting, FaceScales, Reporting

-----------------------------------------------------------------------------
(* The report.                                                             *)

\* At its begin nothing has been reported, and nothing should have been.
LEMMA ReportBegins ==
  ASSUME used' \subseteq Nat \ {0}, found' = << >>, pos' = <<1, 1>>, seen' # {},
         seen' \subseteq Nat, pc' = "report"
  PROVE  Reporting'
<1>1. Reported' = {} /\ found' \in Seq(Nat \X Nat) /\ Len(found') = 0
  BY DEF Reported
<1>2. pos' \in (Nat \ {0}) \X (Nat \ {0})
  OBVIOUS
<1>3. ASSUME NEW q \in Reportable' PROVE ~Before(q, pos')
  <2>1. PICK k \in used' : q \in {k} \X (1 .. InScale(k)')
    BY DEF Reportable
  <2>2. q[1] = k /\ q[2] \in 1 .. InScale(k)' /\ k >= 1
    BY <2>1
  <2> QED
    BY <2>2 DEF Before
<1>4. \E m \in seen' : Len(found') =< m
  <2>1. PICK m \in seen' : m \in Nat
    OBVIOUS
  <2>2. Len(found') =< m
    BY <1>1, <2>1
  <2> QED
    BY <2>2
<1>5. (Reported \subseteq Reportable)'
  BY <1>1
<1>6. (pc = "returned" => pos[1] > Len(scales))'
  OBVIOUS
<1> QED
  BY <1>1, <1>2, <1>3, <1>4, <1>5, <1>6, Zenon DEF Reporting

\* seen holds numbers.
LEMMA SeenAre ==
  ASSUME Values
  PROVE  seen # {} /\ seen \subseteq 1 .. MAX_DETECT_NUM /\ seen \subseteq Nat
                   /\ MAX_DETECT_NUM \in Nat
  BY NumbersAssumption DEF Values

\* Suppression keeps the number of boxes.
LEMMA StepYNms == ASSUME IInv, YNms PROVE IInv'
<1>1. /\ pc = "nms" /\ pc' = "report" /\ \E outcome : scales' = <<Best(scales[1], outcome)>>
      /\ UNCHANGED <<net, input, used, at, filtered, pos, found, g_detect_number, seen>>
  BY DEF YNms
<1>2. /\ net = NoNet /\ used = {1} /\ scales[1] \in Seq(YoloCell)
      /\ found = << >> /\ pos = <<1, 1>>
  BY <1>1 DEF IInv, YoloBoxes, Fresh
<1>3. Len(scales') = 1 /\ Len(scales'[1]) \in Nat
  <2>1. PICK outcome : scales' = <<Best(scales[1], outcome)>>
    BY <1>1
  <2>2. DOMAIN Best(scales[1], outcome) = 1 .. Len(scales[1]) /\ Len(scales[1]) \in Nat
    BY <1>2 DEF Best
  <2>3. Len(Best(scales[1], outcome)) = Len(scales[1])
    BY <2>2
  <2> QED
    BY <2>1, <2>2, <2>3
<1>4. YoloBoxes'
  BY <1>1, <1>2, <1>3 DEF YoloBoxes
<1>5. Values'
  BY <1>1 DEF IInv, Values
<1>6. Reporting'
  <2>1. seen' # {} /\ seen' \subseteq Nat
    BY <1>1, SeenAre DEF IInv
  <2>2. /\ used' \subseteq Nat \ {0} /\ found' = << >> /\ pos' = <<1, 1>> /\ pc' = "report"
    BY <1>1, <1>2
  <2> QED
    BY <2>1, <2>2, ReportBegins
<1> QED
  BY <1>1, <1>2, <1>4, <1>5, <1>6 DEF IInv, Fresh, Counting, FaceScales

\* Where the report is, the scales and what is looked at of each are numbers.
LEMMA ReportTypes ==
  ASSUME IInv, pc \in {"report", "returned"}
  PROVE  /\ Len(scales) \in Nat /\ used \subseteq 1 .. Len(scales)
         /\ \A k : InScale(k) \in Int
         /\ \A k : k \notin used => InScale(k) = 0
<1>1. CASE net = NoNet
  BY <1>1 DEF IInv, YoloBoxes, InScale
<1>2. CASE net # NoNet
  <2>1. net \in Networks /\ scales \in Seq(Scale) /\ used \subseteq DOMAIN scales
    BY <1>2 DEF IInv, Values, FaceScales
  <2>2. net.missed \in Nat
    BY <2>1, NetworksAre
  <2>3. \A k \in used : Len(scales[k]) \in Nat
    BY <2>1 DEF Scale
  <2>4. \A k \in used : InScale(k) \in Int
    BY <1>2, <2>2, <2>3 DEF InScale, Looked
  <2>5. \A k : k \notin used => InScale(k) = 0
    BY DEF InScale
  <2> QED
    BY <2>1, <2>4, <2>5
<1> QED
  BY <1>1, <1>2

\* A candidate to be reported is looked at in a used scale.
LEMMA ReportableIs ==
  ASSUME NEW k, NEW i, \A j : InScale(j) \in Int
  PROVE  <<k, i>> \in Reportable <=>
           k \in used /\ i \in 1 .. InScale(k) /\ scales[k][i].p > Above
<1>1. <<k, i>> \in UNION {{j} \X (1 .. InScale(j)) : j \in used} <=>
        k \in used /\ i \in 1 .. InScale(k)
  OBVIOUS
<1>2. Candidate(<<k, i>>) = scales[k][i]
  BY DEF Candidate
<1> QED
  BY <1>1, <1>2, Zenon DEF Reportable

\* A candidate is added, passed over, or the rest of its scale left out.
LEMMA StepReport == ASSUME IInv, Report PROVE IInv'
<1>1. /\ pc = "report" /\ pos[1] =< Len(scales)
      /\ UNCHANGED <<pc, net, input, scales, used, at, filtered, g_detect_number, seen>>
  BY DEF Report
<1>2. Reporting /\ Values
  BY DEF IInv
<1>3. /\ Len(scales) \in Nat /\ used \subseteq 1 .. Len(scales)
      /\ \A k : InScale(k) \in Int
      /\ \A k : k \notin used => InScale(k) = 0
  BY <1>1, ReportTypes
<1> DEFINE a == pos[1]
           b == pos[2]
<1>4. a \in Nat \ {0} /\ b \in Nat \ {0} /\ pos = <<a, b>>
  BY <1>1, <1>2 DEF Reporting
<1>5. /\ found \in Seq(Nat \X Nat) /\ Reported \subseteq Reportable
      /\ net.kind # "aiface" =>
           /\ \E m \in seen : Len(found) =< m
           /\ \/ \E m \in seen : Len(found) >= m
              \/ \A q \in Reportable : Before(q, pos) => q \in Reported
  BY <1>1, <1>2 DEF Reporting
<1>6. Reportable' = Reportable
  BY <1>1 DEF Reportable, InScale, Candidate, Above
<1>7. \A q \in Reportable : /\ q = <<q[1], q[2]>> /\ q[1] \in used /\ q[1] \in Nat
                            /\ q[2] \in 1 .. InScale(q[1])
  <2> SUFFICES ASSUME NEW q \in Reportable
               PROVE  /\ q = <<q[1], q[2]>> /\ q[1] \in used /\ q[1] \in Nat
                      /\ q[2] \in 1 .. InScale(q[1])
    OBVIOUS
  <2>1. PICK k \in used : q \in {k} \X (1 .. InScale(k))
    BY DEF Reportable
  <2> QED
    BY <2>1, <1>3
<1>8. Len(found) \in Nat /\ seen \subseteq 1 .. MAX_DETECT_NUM /\ MAX_DETECT_NUM \in Nat
        /\ g_detect_number \in seen
  BY <1>2, <1>5, SeenAre DEF Values
<1> HIDE DEF a, b
<1>9. Reporting'
  <2>1. ASSUME NextScale, \/ b > InScale(a)
                          \/ net.kind # "aiface" => \E m \in seen : Len(found) >= m
        PROVE  Reporting'
    <3>1. pos' = <<a + 1, 1>> /\ found' = found
      BY <2>1 DEF NextScale, a
    <3>2. Reported' = Reported
      BY <3>1 DEF Reported
    <3>3. ASSUME b > InScale(a), NEW q \in Reportable, Before(q, <<a + 1, 1>>)
          PROVE  Before(q, pos)
      <4>1. q[1] \in Nat /\ q[2] \in 1 .. InScale(q[1])
        BY <1>7
      <4>2. q[1] =< a
        BY <3>3, <4>1, <1>4 DEF Before
      <4>3. q[1] = a => q[2] < b
        BY <3>3, <4>1, <1>3, <1>4
      <4> QED
        BY <4>1, <4>2, <4>3, <1>4 DEF Before
    <3>4. net.kind # "aiface" =>
            \/ \E m \in seen : Len(found) >= m
            \/ \A q \in Reportable : Before(q, <<a + 1, 1>>) => q \in Reported
      BY <2>1, <3>3, <1>5
    <3>5. <<a + 1, 1>> \in (Nat \ {0}) \X (Nat \ {0})
      BY <1>4
    <3>6. pc' # "returned" /\ net' = net /\ seen' = seen
      BY <1>1
    <3> QED
      BY <3>1, <3>2, <3>4, <3>5, <3>6, <1>5, <1>6, Zenon DEF Reporting
  <2>2. ASSUME b =< InScale(a), scales[a][b].p > Above, ~AtLimit,
               found' = Append(found, pos), pos' = [pos EXCEPT ![2] = @ + 1]
        PROVE  Reporting'
    <3>1. pos' = <<a, b + 1>>
      BY <2>2, <1>4
    <3>2. a \in used /\ b \in 1 .. InScale(a)
      BY <2>2, <1>3, <1>4
    <3>3. pos \in Reportable
      BY <2>2, <3>2, <1>3, <1>4, ReportableIs
    <3>4. Reported' = Reported \cup {pos}
      <4>1. /\ DOMAIN found' = DOMAIN found \cup {Len(found) + 1}
            /\ found'[Len(found) + 1] = pos
            /\ \A i \in DOMAIN found : found'[i] = found[i]
        BY <2>2, <1>5, <1>8
      <4> QED
        BY <4>1 DEF Reported
    <3>5. found' \in Seq(Nat \X Nat) /\ Len(found') = Len(found) + 1
      BY <2>2, <1>4, <1>5
    <3>6. ASSUME NEW q \in Reportable, Before(q, <<a, b + 1>>)
          PROVE  Before(q, pos) \/ q = pos
      <4>1. q = <<q[1], q[2]>> /\ q[1] \in Nat /\ q[2] \in 1 .. InScale(q[1])
        BY <1>7
      <4>2. q[1] < a \/ (q[1] = a /\ q[2] =< b)
        BY <3>6, <4>1, <1>3, <1>4 DEF Before
      <4> QED
        BY <4>1, <4>2, <1>4 DEF Before
    <3>7. ASSUME net.kind # "aiface"
          PROVE  /\ \E m \in seen : Len(found') =< m
                 /\ \/ \E m \in seen : Len(found') >= m
                    \/ \A q \in Reportable : Before(q, <<a, b + 1>>) => q \in Reported'
      <4>1. Len(found) < g_detect_number
        <5>1. ~(Len(found) >= g_detect_number)
          BY <2>2, <3>7, Zenon DEF AtLimit
        <5>2. g_detect_number \in Nat
          BY <1>8
        <5> QED
          BY <5>1, <5>2, <1>8
      <4>2. Len(found') =< g_detect_number
        BY <4>1, <3>5, <1>8
      <4>3. ASSUME NEW m \in seen, Len(found) >= m PROVE Len(found') >= m
        BY <4>3, <3>5, <1>8
      <4> QED
        BY <4>2, <4>3, <3>4, <3>6, <3>7, <1>5, <1>8
    <3>8. <<a, b + 1>> \in (Nat \ {0}) \X (Nat \ {0})
      BY <1>4
    <3>9. pc' # "returned" /\ net' = net /\ seen' = seen /\ Reported' \subseteq Reportable
      BY <1>1, <1>5, <3>3, <3>4
    <3> QED
      BY <3>1, <3>5, <3>7, <3>8, <3>9, <1>6, Zenon DEF Reporting
  <2>3. ASSUME b =< InScale(a), ~(Len(found) < MAX_DETECT_NUM /\ scales[a][b].p > Above),
               found' = found, pos' = [pos EXCEPT ![2] = @ + 1]
        PROVE  Reporting'
    <3>1. pos' = <<a, b + 1>>
      BY <2>3, <1>4
    <3>2. Reported' = Reported
      BY <2>3 DEF Reported
    <3>3. ASSUME NEW q \in Reportable, Before(q, <<a, b + 1>>), ~(scales[a][b].p > Above)
          PROVE  Before(q, pos)
      <4>1. q = <<q[1], q[2]>> /\ q[1] \in Nat /\ q[2] \in 1 .. InScale(q[1])
        BY <1>7
      <4>2. q[1] < a \/ (q[1] = a /\ q[2] =< b)
        BY <3>3, <4>1, <1>3, <1>4 DEF Before
      <4>3. <<a, b>> \notin Reportable
        BY <3>3, <1>3, ReportableIs
      <4>4. ~(q[1] = a /\ q[2] = b)
        BY <4>1, <4>3
      <4> QED
        BY <4>1, <4>2, <4>4, <1>3, <1>4 DEF Before
    <3>4. ASSUME ~(Len(found) < MAX_DETECT_NUM) PROVE \E m \in seen : Len(found) >= m
      BY <3>4, <1>8
    <3>5. net.kind # "aiface" =>
            \/ \E m \in seen : Len(found) >= m
            \/ \A q \in Reportable : Before(q, <<a, b + 1>>) => q \in Reported
      BY <2>3, <3>3, <3>4, <1>5
    <3>6. <<a, b + 1>> \in (Nat \ {0}) \X (Nat \ {0})
      BY <1>4
    <3>7. pc' # "returned" /\ net' = net /\ seen' = seen
      BY <1>1
    <3> QED
      BY <2>3, <3>1, <3>2, <3>5, <3>6, <3>7, <1>5, <1>6, Zenon DEF Reporting
  <2>4. ASSUME AtLimit PROVE net.kind # "aiface" => \E m \in seen : Len(found) >= m
    BY <2>4, <1>8 DEF AtLimit
  <2>5. b > InScale(a) \/ b =< InScale(a)
    BY <1>3, <1>4
  <2> QED
    BY <2>1, <2>2, <2>3, <2>4, <2>5, Zenon DEF Report, a, b
<1>10. (Values /\ Fresh /\ Counting /\ YoloBoxes /\ FaceScales)'
  <2>1. Values /\ Fresh /\ Counting /\ YoloBoxes /\ FaceScales
    BY DEF IInv
  <2> QED
    BY <1>1, <2>1 DEF Values, Fresh, Counting, YoloBoxes, FaceScales, NextApart
<1> QED
  BY <1>9, <1>10 DEF IInv

-----------------------------------------------------------------------------
(* The steps of the networks of Suppress.                                  *)

\* Clearing the candidates that are not valid leaves a scale of valid ones.
LEMMA ClearedIs ==
  ASSUME NEW nw \in Networks, NEW s \in Scale
  PROVE  Cleared(nw, s) \in Scale /\ ValidOnly(nw, Cleared(nw, s))
<1>1. nw.valid \in Nat
  BY NetworksAre
<1>2. Len(s) \in Nat /\ DOMAIN s = 1 .. Len(s) /\ s \in [1 .. Len(s) -> Detection]
  BY DEF Scale
<1>3. ASSUME NEW i \in 1 .. Len(s)
      PROVE  /\ Cleared(nw, s)[i] \in Detection
             /\ Cleared(nw, s)[i].p = 0 \/ Cleared(nw, s)[i].p >= nw.valid
  <2>1. s[i] \in Detection /\ s[i].p \in Nat
    BY <1>2 DEF Detection
  <2>2. [s[i] EXCEPT !.p = 0] \in Detection /\ [s[i] EXCEPT !.p = 0].p = 0
    BY <2>1 DEF Detection
  <2>3. Cleared(nw, s)[i] = IF s[i].p < nw.valid THEN [s[i] EXCEPT !.p = 0] ELSE s[i]
    BY <1>2 DEF Cleared
  <2> QED
    BY <1>1, <2>1, <2>2, <2>3
<1>4. DOMAIN Cleared(nw, s) = 1 .. Len(s)
  BY <1>2 DEF Cleared
<1>5. Cleared(nw, s) = [i \in 1 .. Len(s) |-> Cleared(nw, s)[i]]
  BY <1>2 DEF Cleared
<1>6. Cleared(nw, s) \in Seq(Detection)
  BY <1>2, <1>3, <1>5
<1> QED
  BY <1>3, <1>4, <1>6 DEF Scale, ValidOnly

\* Every candidate that is not valid has been cleared.
LEMMA StepFBegin == ASSUME IInv, FBegin PROVE IInv'
<1>1. PICK n \in Nets : \E s \in FaceInputs(n) :
        LET cleared == [k \in DOMAIN s |-> Cleared(n, s[k])] IN
        /\ net' = n /\ input' = cleared /\ scales' = cleared
        /\ used' = Used(n, cleared)
  BY DEF FBegin
<1>2. PICK s \in FaceInputs(n) :
        LET cleared == [k \in DOMAIN s |-> Cleared(n, s[k])] IN
        /\ net' = n /\ input' = cleared /\ scales' = cleared
        /\ used' = Used(n, cleared)
  BY <1>1
<1> DEFINE c == [k \in DOMAIN s |-> Cleared(n, s[k])]
<1>3. /\ pc' = "within" /\ found' = << >> /\ pos' = <<1, 1>>
      /\ seen' = {g_detect_number} /\ g_detect_number' = g_detect_number
      /\ net' = n /\ input' = c /\ scales' = c /\ used' = Used(n, c)
  BY <1>2 DEF FBegin
<1>4. n \in Networks /\ s \in Seq(Scale) /\ Len(s) = Len(n.finest)
  BY InputsAssumption DEF Networks
<1>5. n # NoNet /\ Len(s) \in Nat \ {0} /\ DOMAIN s = 1 .. Len(s)
  BY <1>4, NetworksAre
<1>6. \A k \in DOMAIN s : c[k] \in Scale /\ ValidOnly(n, c[k])
  BY <1>4, <1>5, ClearedIs
<1>7. c \in Seq(Scale) /\ DOMAIN c = DOMAIN s /\ Len(c) = Len(s)
  BY <1>5, <1>6
<1> HIDE DEF c
<1>8. Used(n, c) \subseteq DOMAIN c
  BY DEF Used
<1>9. FaceScales'
  <2>1. scales' # << >>
    BY <1>3, <1>5, <1>7
  <2>2. \A k \in DOMAIN scales' : ValidOnly(net', scales'[k])
    BY <1>3, <1>6, <1>7
  <2> QED
    BY <1>3, <1>5, <1>7, <1>8, <2>1, <2>2, Zenon DEF FaceScales
<1>10. Values'
  BY <1>3, <1>4 DEF IInv, Values
<1> QED
  BY <1>3, <1>5, <1>9, <1>10 DEF IInv, Fresh, Counting, YoloBoxes, Reporting

\* Clearing candidates leaves valid ones.
LEMMA MarkedValid ==
  ASSUME NEW nw, NEW s, ValidOnly(nw, s), NEW t \in Marked(s)
  PROVE  ValidOnly(nw, t)
<1>1. ASSUME NEW i \in DOMAIN s PROVE t[i].p = 0 \/ t[i].p >= nw.valid
  <2>1. t[i].p = 0 \/ t[i].p = s[i].p
    BY DEF Marked
  <2> QED
    BY <2>1 DEF ValidOnly
<1> QED
  BY <1>1 DEF ValidOnly, Marked

\* Each used scale becomes a kernel of itself.
LEMMA StepFWithin == ASSUME IInv, FWithin PROVE IInv'
<1>1. /\ pc = "within" /\ pc' = "across" /\ scales' \in Within(net, scales, used)
      /\ UNCHANGED <<net, input, used, at, filtered, pos, found, g_detect_number, seen>>
  BY DEF FWithin
<1>2. /\ net # NoNet /\ net \in Networks /\ input = scales /\ scales # << >>
      /\ scales \in Seq(Scale) /\ used \subseteq DOMAIN scales
      /\ net.kind # "aiface" => \A k \in DOMAIN scales : ValidOnly(net, scales[k])
  BY <1>1 DEF IInv, Values, FaceScales
<1> DEFINE pct(k) == Percent(net, scales, used, k)
<1>3. /\ DOMAIN scales' = DOMAIN scales
      /\ \A k \in DOMAIN scales : scales'[k] \in IF k \in used THEN Nms(net, scales[k], pct(k))
                                                 ELSE {scales[k]}
  BY <1>1 DEF Within
<1>4. DOMAIN scales = 1 .. Len(scales) /\ Len(scales) \in Nat
      /\ \A k \in DOMAIN scales : scales[k] \in Scale
  BY <1>2
<1>5. ASSUME NEW k \in used PROVE NmsOutcome(net, scales[k], pct(k), scales'[k])
  <2>1. scales[k] \in Scale /\ scales'[k] \in Nms(net, scales[k], pct(k))
    BY <1>2, <1>3, <1>4
  <2> HIDE DEF pct
  <2> QED
    BY <2>1, <1>2, NmsIs
<1> HIDE DEF pct
<1>6. ASSUME NEW k \in DOMAIN scales
      PROVE  scales'[k] \in Scale /\ (net.kind # "aiface" => scales'[k] \in Marked(scales[k]))
  <2>1. CASE k \in used
    <3>1. scales'[k] \in [DOMAIN scales[k] -> Detection]
      BY <1>5, <2>1 DEF NmsOutcome
    <3>2. DOMAIN scales[k] = 1 .. Len(scales[k]) /\ Len(scales[k]) \in Nat
      BY <1>4 DEF Scale
    <3>3. scales'[k] \in Scale
      BY <3>1, <3>2 DEF Scale
    <3> QED
      BY <3>3, <1>5, <2>1 DEF NmsOutcome
  <2>2. CASE k \notin used
    <3>1. scales'[k] = scales[k]
      BY <1>3, <2>2
    <3> QED
      BY <3>1, <1>4, MarkedSelf
  <2> QED
    BY <2>1, <2>2
<1>7. scales' \in Seq(Scale) /\ Len(scales') = Len(scales) /\ scales' # << >>
  <2>1. scales' = [k \in 1 .. Len(scales) |-> scales'[k]]
    BY <1>1, <1>3, <1>4 DEF Within
  <2>2. scales' \in [1 .. Len(scales) -> Scale]
    BY <1>4, <1>6, <2>1
  <2>3. Len(scales) # 0
    BY <1>2
  <2> QED
    BY <1>4, <2>2, <2>3
<1>8. FaceScales'
  <2>1. net.kind # "aiface" => \A k \in DOMAIN scales' : ValidOnly(net, scales'[k])
    BY <1>2, <1>3, <1>6, MarkedValid
  <2>2. net.kind # "aiface" =>
          \A k \in used : Kernel(BoxWithin(net), Percent(net, input, used, k), input[k], scales'[k])
    BY <1>2, <1>5 DEF NmsOutcome, pct
  <2> QED
    BY <1>1, <1>2, <1>3, <1>7, <2>1, <2>2, Zenon DEF FaceScales
<1>9. Values' /\ Fresh'
  BY <1>1 DEF IInv, Values, Fresh
<1> QED
  BY <1>1, <1>2, <1>8, <1>9 DEF IInv, Counting, YoloBoxes, Reporting

\* Neighbouring scales come apart.
LEMMA StepFAcross == ASSUME IInv, FAcross PROVE IInv'
<1>1. /\ pc = "across" /\ pc' = "report" /\ scales' = Across(net, scales, used)
      /\ UNCHANGED <<net, input, used, at, filtered, pos, found, g_detect_number, seen>>
  BY DEF FAcross
<1>2. /\ net # NoNet /\ net \in Networks /\ scales # << >>
      /\ scales \in Seq(Scale) /\ used \subseteq DOMAIN scales
      /\ net.kind # "aiface" => \A k \in DOMAIN scales : ValidOnly(net, scales[k])
  BY <1>1 DEF IInv, Values, FaceScales
<1>3. /\ scales' \in AllMarked(scales)
      /\ \A k \in 1 .. Len(scales) - 1 : {k, k + 1} \subseteq used => NextApart(net, scales', k)
  BY <1>1, <1>2, NeighboursAreApart
<1>4. scales' \in [DOMAIN scales -> Scale] /\ \A k \in DOMAIN scales : scales'[k] \in Marked(scales[k])
  BY <1>3 DEF AllMarked
<1>5. DOMAIN scales = 1 .. Len(scales) /\ Len(scales) \in Nat
  BY <1>2
<1>6. scales' \in Seq(Scale) /\ Len(scales') = Len(scales) /\ DOMAIN scales' = DOMAIN scales
  BY <1>4, <1>5
<1>7. FaceScales'
  <2>1. net.kind # "aiface" => \A k \in DOMAIN scales' : ValidOnly(net, scales'[k])
    BY <1>2, <1>4, <1>6, MarkedValid
  <2> QED
    BY <1>1, <1>2, <1>3, <1>6, <2>1, Zenon DEF FaceScales
<1>8. Values'
  BY <1>1 DEF IInv, Values
<1>9. Reporting'
  <2>1. seen' # {} /\ seen' \subseteq Nat
    BY <1>1, SeenAre DEF IInv
  <2>2. found' = << >> /\ pos' = <<1, 1>> /\ used' \subseteq Nat \ {0} /\ pc' = "report"
    BY <1>1, <1>2, <1>5 DEF IInv, Fresh
  <2> QED
    BY <2>1, <2>2, ReportBegins
<1> QED
  BY <1>1, <1>2, <1>7, <1>8, <1>9 DEF IInv, Fresh, Counting, YoloBoxes

-----------------------------------------------------------------------------
(* The other steps.                                                        *)

\* After the last scale nothing is left to be reported.
LEMMA StepReturn == ASSUME IInv, Return PROVE IInv'
<1>1. /\ pc = "report" /\ pc' = "returned" /\ pos[1] > Len(scales)
      /\ UNCHANGED <<net, input, scales, used, at, filtered, pos, found, g_detect_number, seen>>
  BY DEF Return
<1>2. Reported' = Reported /\ Reportable' = Reportable
  BY <1>1 DEF Reported, Reportable, InScale, Candidate, Above
<1>3. Reporting'
  BY <1>1, <1>2 DEF IInv, Reporting
<1> QED
  BY <1>1, <1>3 DEF IInv, Values, Fresh, Counting, YoloBoxes, FaceScales, NextApart

\* The result is taken and the next call begins with nothing.
LEMMA StepTaken == ASSUME IInv, Taken PROVE IInv'
<1>1. pc' = "idle" /\ net' = NoNet /\ seen' = {g_detect_number} /\ g_detect_number' = g_detect_number
      /\ g_detect_number \in Numbers
  BY DEF Taken, IInv, Values
<1> QED
  BY <1>1 DEF IInv, Values, Fresh, Counting, YoloBoxes, FaceScales, Reporting

\* A new number is one more that the call has seen.
LEMMA StepSetNumber == ASSUME IInv, SetNumber PROVE IInv'
<1>1. /\ \E n \in Numbers : g_detect_number' = n /\ seen' = seen \cup {n}
      /\ UNCHANGED <<pc, net, input, scales, used, at, filtered, pos, found>>
  BY DEF SetNumber
<1>2. Values'
  BY <1>1 DEF IInv, Values
<1>3. Reported' = Reported /\ Reportable' = Reportable
  BY <1>1 DEF Reported, Reportable, InScale, Candidate, Above
<1>4. seen \subseteq seen'
  BY <1>1
<1>5. Reporting'
  BY <1>1, <1>3, <1>4 DEF IInv, Reporting
<1>6. (Fresh /\ Counting /\ YoloBoxes /\ FaceScales)'
  BY <1>1 DEF IInv, Fresh, Counting, YoloBoxes, FaceScales, NextApart
<1> QED
  BY <1>2, <1>5, <1>6 DEF IInv

\* Where nothing changes, nothing is lost.
LEMMA Stutter == ASSUME IInv, UNCHANGED vars PROVE IInv'
<1>1. Reported' = Reported /\ Reportable' = Reportable
  BY DEF vars, Reported, Reportable, InScale, Candidate, Above
<1>2. Reporting'
  BY <1>1 DEF vars, IInv, Reporting
<1> QED
  BY <1>2 DEF vars, IInv, Values, Fresh, Counting, YoloBoxes, FaceScales, NextApart

\* The invariant holds always.
THEOREM Invariant == Spec => []IInv
<1>1. IInv /\ [Next]_vars => IInv'
  BY StepYBegin, StepYCell, StepYJoin, StepYNms, StepFBegin, StepFWithin, StepFAcross,
     StepReport, StepReturn, StepTaken, StepSetNumber, Stutter, Zenon DEF Next
<1> QED
  BY <1>1, InitIInv, PTL DEF Spec

-----------------------------------------------------------------------------
(* What it implies.                                                        *)

\* The arrays allocated by the threads' counters have room for just the boxes
\* that are gathered (model_yolo_postprocess.c), for every output of the
\* network and every order of the threads.
THEOREM RoomSuffices == Spec => []RoomForEveryBox
<1>1. IInv => RoomForEveryBox
  BY DEF IInv, YoloBoxes, RoomForEveryBox
<1> QED
  BY <1>1, Invariant, PTL

\* Suppression within a scale leaves a kernel, for every scale, of any length,
\* every order that qsort may give it, and every class of yolo.
THEOREM KernelIsLeft == Spec => []LeavesKernel
<1>1. ASSUME IInv PROVE LeavesKernel
  <2>1. ASSUME pc = "across", net.kind # "aiface", NEW k \in used
        PROVE  Kernel(BoxWithin(net), Percent(net, input, used, k), input[k], scales[k])
    BY <1>1, <2>1 DEF IInv, FaceScales
  <2>2. ASSUME pc = "nms", NEW k \in Classes(scales[1]), NEW s \in YoloNms(ClassOf(scales[1], k), 40)
        PROVE  Kernel("yolo", 40, ClassOf(scales[1], k), s)
    <3>1. scales[1] \in Seq(YoloCell)
      BY <1>1, <2>2 DEF IInv, YoloBoxes
    <3>2. ASSUME NEW i \in DOMAIN scales[1] PROVE scales[1][i] \in YoloCell
      BY <3>1
    <3>2a. k \in 1 .. num_class
      <4>1. PICK i \in DOMAIN scales[1] : k \in DOMAIN scales[1][i].prob
        BY <2>2 DEF Classes
      <4>2. scales[1][i].prob \in [1 .. num_class -> Nat]
        BY <3>2 DEF YoloCell
      <4> QED
        BY <4>1, <4>2
    <3>3. ClassOf(scales[1], k) \in Scale
      <4> DEFINE n == Len(scales[1])
                 d(i) == [x |-> scales[1][i].x, y |-> scales[1][i].y, w |-> scales[1][i].w,
                          h |-> scales[1][i].h, p |-> scales[1][i].prob[k]]
      <4>1. n \in Nat /\ DOMAIN scales[1] = 1 .. n
        BY <3>1
      <4>2. ASSUME NEW i \in 1 .. n PROVE d(i) \in Detection
        <5>1. scales[1][i] \in YoloCell
          BY <3>2, <4>1
        <5>2. /\ scales[1][i].x \in Int /\ scales[1][i].y \in Int
              /\ scales[1][i].w \in Int /\ scales[1][i].h \in Int
              /\ scales[1][i].prob \in [1 .. num_class -> Nat]
          BY <5>1 DEF YoloCell
        <5>3. scales[1][i].prob[k] \in Nat
          BY <3>2a, <5>2
        <5> QED
          BY <5>2, <5>3 DEF Detection
      <4>3. ClassOf(scales[1], k) = [i \in 1 .. n |-> d(i)]
        BY <4>1 DEF ClassOf
      <4> HIDE DEF n, d
      <4> QED
        BY <4>1, <4>2, <4>3 DEF Scale
    <3>4. PICK o \in Orders(ClassOf(scales[1], k)) : s = InOrder("yolo", 40, ClassOf(scales[1], k), o)
      BY <2>2 DEF YoloNms
    <3>5. "yolo" \in Boxes \ {"aiface"}
      BY DEF Boxes
    <3> QED
      BY <3>3, <3>4, <3>5, SuppressionLeavesKernel
  <2> QED
    BY <2>1, <2>2, Zenon DEF LeavesKernel
<1> QED
  BY <1>1, Invariant, PTL

\* No face is reported by two neighbouring scales (do_global_sort), whatever
\* the boxes and probabilities.  It needs that each network's suppression
\* between scales looks at all that the network reports: it reports above no
\* less than that threshold, or has cleared what is not above it
\* (NetworksAre), and a lone scale, reported above less, has no neighbour.
THEOREM NothingReportedTwice == Spec => []ReportedOnce
<1>1. ASSUME IInv, pc = "returned", net # NoNet,
             NEW q \in Reported, NEW r \in Reported, r[1] = q[1] + 1
      PROVE  ~NearAcross(net, Candidate(q), Candidate(r))
  <2>1. /\ net \in Networks /\ scales \in Seq(Scale) /\ used \subseteq DOMAIN scales
        /\ net.kind # "aiface" => \A k \in DOMAIN scales : ValidOnly(net, scales[k])
        /\ \A k \in 1 .. Len(scales) - 1 : {k, k + 1} \subseteq used => NextApart(net, scales, k)
        /\ Reported \subseteq Reportable
    BY <1>1, Zenon DEF IInv, Values, FaceScales, Reporting
  <2>2. net.missed \in Nat /\ net.global \in Nat /\ net.report \in Nat /\ net.valid \in Nat
        /\ (net.report >= net.global \/ (net.kind # "aiface" /\ net.valid > net.global))
    BY <2>1, NetworksAre
  <2>3. ASSUME NEW c \in Reported
        PROVE  /\ c[1] \in used /\ c[1] \in DOMAIN scales /\ c[2] \in DOMAIN scales[c[1]]
               /\ scales[c[1]][c[2]].p > Above /\ scales[c[1]][c[2]].p \in Nat
    <3>1. PICK k \in used : c \in {k} \X (1 .. InScale(k))
      BY <2>1 DEF Reportable
    <3>2. c[1] = k /\ c[2] \in 1 .. InScale(k) /\ k \in DOMAIN scales
      BY <3>1, <2>1
    <3>3. scales[k] \in Scale /\ Len(scales[k]) \in Nat /\ DOMAIN scales[k] = 1 .. Len(scales[k])
      BY <2>1, <3>2 DEF Scale
    <3>4. InScale(k) \in Int /\ InScale(k) =< Len(scales[k])
      BY <1>1, <2>2, <3>3 DEF InScale, Looked
    <3>5. c[2] \in DOMAIN scales[k]
      BY <3>2, <3>3, <3>4
    <3>6. scales[k][c[2]] \in Detection
      BY <3>3, <3>5 DEF Scale
    <3>7. scales[k][c[2]].p > Above
      BY <2>1, <3>2 DEF Reportable, Candidate
    <3> QED
      BY <3>2, <3>5, <3>6, <3>7 DEF Detection
  <2>4. {q[1], q[1] + 1} \subseteq used /\ q[1] \in 1 .. Len(scales) - 1
    BY <1>1, <2>1, <2>3
  <2>5. Above = net.report
    <3>1. ASSUME NEW k, used = {k} PROVE FALSE
      BY <2>1, <2>4, <3>1
    <3> QED
      BY <1>1, <3>1 DEF Above, ReportAbove
  <2>6. ASSUME NEW c \in Reported PROVE scales[c[1]][c[2]].p > net.global
    <3>1. /\ scales[c[1]][c[2]].p > net.report /\ scales[c[1]][c[2]].p \in Nat
          /\ c[1] \in DOMAIN scales /\ c[2] \in DOMAIN scales[c[1]]
      BY <2>3, <2>5
    <3>2. CASE net.report >= net.global
      BY <2>2, <3>1, <3>2
    <3>3. CASE net.kind # "aiface" /\ net.valid > net.global
      <4>1. scales[c[1]][c[2]].p >= net.valid
        <5>1. scales[c[1]][c[2]].p = 0 \/ scales[c[1]][c[2]].p >= net.valid
          BY <2>1, <3>1, <3>3 DEF ValidOnly
        <5> QED
          BY <5>1, <2>2, <3>1
      <4> QED
        BY <4>1, <2>2, <3>1, <3>3
    <3> QED
      BY <2>2, <3>2, <3>3
  <2>7. NextApart(net, scales, q[1])
    BY <2>1, <2>4
  <2>8. Apart(BoxAcross(net), net.global, <<scales[q[1]], scales[q[1] + 1]>>, q[2], r[2])
    BY <2>3, <2>7, <1>1 DEF NextApart
  <2>9. scales[q[1]][q[2]].p > net.global /\ scales[q[1] + 1][r[2]].p > net.global
    BY <2>6, <1>1
  <2> QED
    BY <2>8, <2>9, <1>1 DEF Apart, NearAcross, Candidate
<1>2. IInv => ReportedOnce
  BY <1>1, Zenon DEF ReportedOnce
<1> QED
  BY <1>2, Invariant, PTL

\* The result is cut at the number that det_set_param has set, or was setting,
\* during the call, and only there, however the two race.
THEOREM ResultIsCut == Spec => []CutAtTheNumber
<1>1. ASSUME IInv, pc = "returned", net.kind # "aiface"
      PROVE  Len(found) =< Max(seen) /\ (Reported # Reportable => Len(found) >= Min(seen))
  <2>1. /\ found \in Seq(Nat \X Nat) /\ Reported \subseteq Reportable /\ pos[1] > Len(scales)
        /\ pos \in (Nat \ {0}) \X (Nat \ {0})
        /\ \E m \in seen : Len(found) =< m
        /\ \/ \E m \in seen : Len(found) >= m
           \/ \A q \in Reportable : Before(q, pos) => q \in Reported
    BY <1>1, Zenon DEF IInv, Reporting
  <2>2. seen # {} /\ seen \subseteq 1 .. MAX_DETECT_NUM /\ seen \subseteq Nat /\ MAX_DETECT_NUM \in Nat
    BY <1>1, SeenAre DEF IInv
  <2>3. Max(seen) \in seen /\ \A k \in seen : Max(seen) >= k
    BY <2>2, GreatestNumber
  <2>4. Min(seen) \in seen /\ \A k \in seen : Min(seen) =< k
    BY <2>2, LeastNumber
  <2>5. Len(found) \in Nat
    BY <2>1
  <2>6. Len(found) =< Max(seen)
    <3>1. PICK m \in seen : Len(found) =< m
      BY <2>1
    <3>2. m \in Nat /\ Max(seen) \in Nat /\ Max(seen) >= m
      BY <2>2, <2>3
    <3> QED
      BY <2>5, <3>1, <3>2
  <2>7. ASSUME \E m \in seen : Len(found) >= m PROVE Len(found) >= Min(seen)
    <3>1. PICK m \in seen : Len(found) >= m
      BY <2>7
    <3>2. m \in Nat /\ Min(seen) \in Nat /\ Min(seen) =< m
      BY <2>2, <2>4
    <3> QED
      BY <2>5, <3>1, <3>2
  <2>8. ASSUME NEW q \in Reportable PROVE Before(q, pos)
    <3>1. PICK k \in used : q \in {k} \X (1 .. InScale(k))
      BY DEF Reportable
    <3>2. Len(scales) \in Nat /\ k \in 1 .. Len(scales)
      BY <1>1, ReportTypes
    <3>3. q[1] < pos[1]
      BY <2>1, <3>1, <3>2
    <3> QED
      BY <3>3 DEF Before
  <2> QED
    BY <2>1, <2>6, <2>7, <2>8
<1>2. IInv => CutAtTheNumber
  BY <1>1, Zenon DEF CutAtTheNumber
<1> QED
  BY <1>2, Invariant, PTL

=============================================================================

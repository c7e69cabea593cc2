------------------------ MODULE MatrixSwapper_proofs ------------------------
(***************************************************************************)
(* The matrix planner, for every configuration: any number of models, sets *)
(* and costs, any expressions without a circle.                            *)
(*                                                                         *)
(* The pruned evaluation of an expression covers what the expression       *)
(* means (EvaluateCovers): each combination it keeps is part of an allowed *)
(* set, and each allowed set has a combination that keeps at least as many *)
(* of the relevant models running.  So the cheapest combination is         *)
(* cheapest of all allowed sets (SolveIsBest), and CanContainAll is exact. *)
(*                                                                         *)
(* What recursive functions and folds compute is found by induction over   *)
(* the rank of a node, or the turns of a loop.                             *)
(***************************************************************************)
EXTENDS MatrixSwapper, FiniteSetTheorems, SequenceTheorems, WellFoundedInduction, TLAPS

-----------------------------------------------------------------------------
(* Induction and recursion, for sets and functions.                        *)

\* Induction over a rank.
LEMMA RankInduct ==
  ASSUME NEW N, NEW rank \in [N -> Nat], NEW T,
         \A n \in N : (\A m \in N : rank[m] < rank[n] => m \in T) => n \in T
  PROVE  N \subseteq T
<1> DEFINE Less == {p \in Nat \X Nat : p[1] < p[2]}
           U == {rank[n] : n \in N \ T}
<1> SUFFICES ASSUME N \ T # {} PROVE FALSE
  OBVIOUS
<1>1. IsWellFoundedOn(Less, Nat)
  BY NatLessThanWellFounded, Zenon DEF OpToRel
<1>2. U \subseteq Nat /\ U # {}
  OBVIOUS
<1> HIDE DEF Less
<1>3. PICK x \in U : \A y \in U : ~(<<y, x>> \in Less)
  BY <1>1, <1>2, WFMin
<1>4. PICK n \in N \ T : rank[n] = x
  OBVIOUS
<1>5. ASSUME NEW m \in N, rank[m] < rank[n] PROVE m \in T
  <2>1. rank[m] \in Nat /\ x \in Nat /\ rank[m] < x
    BY <1>4, <1>5
  <2>2. <<rank[m], x>> \in Less
    BY <2>1 DEF Less
  <2>3. rank[m] \notin U
    BY <1>3, <2>2
  <2> QED
    BY <2>3
<1> HIDE DEF U
<1> QED
  BY <1>4, <1>5

\* Induction over the numbers up to n.
LEMMA Induct ==
  ASSUME NEW n \in Nat, NEW T, 0 \in T, \A i \in 0..n - 1 : i \in T => i + 1 \in T
  PROVE  0..n \subseteq T
<1> DEFINE rank == [i \in 0..n |-> i]
<1>1. ASSUME NEW i \in 0..n, \A j \in 0..n : rank[j] < rank[i] => j \in T PROVE i \in T
  <2>1. CASE i = 0
    BY <2>1
  <2>2. CASE i # 0
    <3>1. i - 1 \in 0..n - 1 /\ i - 1 \in 0..n /\ (i - 1) + 1 = i
      BY <2>2
    <3>2. i - 1 \in T
      BY <1>1, <3>1
    <3> QED
      BY <3>1, <3>2
  <2> QED
    BY <2>1, <2>2
<1>2. rank \in [0..n -> Nat]
  OBVIOUS
<1> DEFINE N == 0..n
<1>3. \A i \in N : (\A j \in N : rank[j] < rank[i] => j \in T) => i \in T
  BY <1>1
<1>4. rank \in [N -> Nat]
  BY <1>2
<1> HIDE DEF rank, N
<1>5. N \subseteq T
  BY <1>3, <1>4, RankInduct
<1> QED
  BY <1>5 DEF N

\* A set of numbers has a least one.
LEMMA Least ==
  ASSUME NEW T \in SUBSET Nat, T # {}
  PROVE  \E x \in T : \A y \in T : x <= y
<1> DEFINE rank == [i \in Nat |-> i]
           U == {i \in Nat : i \notin T}
<1> SUFFICES ASSUME \A x \in T : \E y \in T : ~(x <= y) PROVE FALSE
  OBVIOUS
<1>1. ASSUME NEW i \in Nat, \A j \in Nat : rank[j] < rank[i] => j \in U PROVE i \in U
  <2> SUFFICES ASSUME i \in T PROVE FALSE
    OBVIOUS
  <2>1. PICK j \in T : ~(i <= j)
    OBVIOUS
  <2>2. j \in Nat /\ j < i
    BY <2>1
  <2> QED
    BY <1>1, <2>2
<1>2. rank \in [Nat -> Nat]
  OBVIOUS
<1> HIDE DEF rank, U
<1>3. Nat \subseteq U
  BY <1>1, <1>2, RankInduct
<1> QED
  BY <1>3 DEF U

\* g says what a function f is at n from f at lower ranks.
Recursive(g, N, D, rank) ==
  /\ g \in [N \X [N -> D] -> D]
  /\ \A n \in N : \A f1, f2 \in [N -> D] :
       (\A m \in N : rank[m] < rank[n] => f1[m] = f2[m]) => g[<<n, f1>>] = g[<<n, f2>>]

Solves(f, g, N, D) == f \in [N -> D] /\ \A n \in N : f[n] = g[<<n, f>>]

\* There is such a function.
LEMMA Recursion ==
  ASSUME NEW N, NEW D, NEW b \in Nat, NEW rank \in [N -> 0..b], NEW d \in D,
         NEW g, Recursive(g, N, D, rank)
  PROVE  \E f : Solves(f, g, N, D)
<1> USE DEF Recursive, Solves
<1> DEFINE Below(k, f) == \A n \in N : rank[n] < k => f[n] = g[<<n, f>>]
           T == {k \in Nat : \E f \in [N -> D] : Below(k, f)}
<1>1. 0 \in T
  <2>1. [n \in N |-> d] \in [N -> D] /\ Below(0, [n \in N |-> d])
    OBVIOUS
  <2> QED
    BY <2>1
<1>2. ASSUME NEW k \in 0..(b + 1) - 1, k \in T PROVE k + 1 \in T
  <2>1. PICK f \in [N -> D] : Below(k, f)
    BY <1>2
  <2> DEFINE h == [n \in N |-> IF rank[n] = k THEN g[<<n, f>>] ELSE f[n]]
  <2>2. h \in [N -> D]
    OBVIOUS
  <2>3. ASSUME NEW n \in N, rank[n] < k + 1 PROVE h[n] = g[<<n, h>>]
    <3>1. \A m \in N : rank[m] < rank[n] => h[m] = f[m]
      BY <2>3
    <3>2. g[<<n, h>>] = g[<<n, f>>]
      <4> HIDE DEF h
      <4> QED
        BY <2>2, <3>1
    <3>3. h[n] = g[<<n, f>>]
      BY <2>1, <2>3
    <3> QED
      BY <3>2, <3>3
  <2> HIDE DEF h
  <2>4. Below(k + 1, h)
    BY <2>3
  <2> QED
    BY <2>2, <2>4
<1> HIDE DEF T
<1>3. b + 1 \in T
  BY <1>1, <1>2, Induct
<1>4. PICK f \in [N -> D] : Below(b + 1, f)
  BY <1>3 DEF T
<1>5. \A n \in N : rank[n] < b + 1
  OBVIOUS
<1> QED
  BY <1>4, <1>5

-----------------------------------------------------------------------------
(* Folds.                                                                  *)

\* A fold over a set, with the elements in the order of a choice.
Folds(f, g, base, ch, E, D) ==
  /\ f \in [SUBSET E -> D]
  /\ \A s \in SUBSET E : f[s] = IF s = {} THEN base ELSE g[<<f[s \ {ch[s]}], ch[s]>>]

\* There is such a fold.
LEMMA FoldExists ==
  ASSUME NEW E, IsFiniteSet(E), NEW D, NEW base \in D, NEW g \in [D \X E -> D],
         NEW ch, \A s \in SUBSET E : s # {} => ch[s] \in s
  PROVE  \E f : Folds(f, g, base, ch, E, D)
<1> DEFINE N == SUBSET E
           size == Cardinality(E)
           rank == [s \in N |-> Cardinality(s)]
           G(s, f) == IF s = {} THEN base ELSE g[<<f[s \ {ch[s]}], ch[s]>>]
           gg == [x \in N \X [N -> D] |-> G(x[1], x[2])]
<1>1. size \in Nat /\ rank \in [N -> 0..size]
  <2>1. size \in Nat
    BY FS_CardinalityType
  <2>2. ASSUME NEW s \in N PROVE Cardinality(s) \in 0..size
    <3>1. Cardinality(s) \in Nat /\ Cardinality(s) <= size
      BY FS_Subset, FS_CardinalityType
    <3> QED
      BY <2>1, <3>1
  <2> HIDE DEF size
  <2> QED
    BY <2>1, <2>2
<1>2. ASSUME NEW s \in N, NEW f \in [N -> D] PROVE G(s, f) \in D
  <2>1. CASE s # {}
    <3>1. ch[s] \in E /\ s \ {ch[s]} \in N
      BY <2>1
    <3> QED
      BY <3>1
  <2> QED
    BY <2>1
<1>3. ASSUME NEW s \in N, s # {} PROVE rank[s \ {ch[s]}] < rank[s]
  <2>1. ch[s] \in s /\ IsFiniteSet(s)
    BY <1>3, FS_Subset
  <2>2. Cardinality(s \ {ch[s]}) = Cardinality(s) - 1 /\ Cardinality(s) \in Nat
    BY <2>1, FS_RemoveElement, FS_CardinalityType
  <2> QED
    BY <2>2
<1>4. ASSUME NEW s \in N, NEW f1 \in [N -> D], NEW f2 \in [N -> D],
             \A t \in N : rank[t] < rank[s] => f1[t] = f2[t]
      PROVE  G(s, f1) = G(s, f2)
  <2>1. CASE s # {}
    <3>1. f1[s \ {ch[s]}] = f2[s \ {ch[s]}]
      BY <1>3, <1>4, <2>1
    <3> QED
      BY <3>1
  <2> QED
    BY <2>1
<1> HIDE DEF size, rank, G
<1>5. gg \in [N \X [N -> D] -> D]
  BY <1>2
<1>6. \A s \in N, f \in [N -> D] : gg[<<s, f>>] = G(s, f)
  OBVIOUS
<1> HIDE DEF gg, N
<1>7. PICK f \in [N -> D] : \A s \in N : f[s] = gg[<<s, f>>]
  <2>1. Recursive(gg, N, D, rank)
    BY <1>4, <1>5, <1>6 DEF Recursive
  <2>2. \E f : Solves(f, gg, N, D)
    BY <1>1, <2>1, Recursion
  <2> QED
    BY <2>2 DEF Solves
<1>8. f \in [SUBSET E -> D]
  BY DEF N
<1>9. \A s \in SUBSET E : f[s] = G(s, f)
  BY <1>6, <1>7 DEF N
<1> QED
  BY <1>8, <1>9 DEF G, Folds

\* The greatest of some numbers from 1 to n is one of them, and none is greater.
LEMMA MaxIs ==
  ASSUME NEW n \in Nat, NEW s \in SUBSET (1..n), s # {}
  PROVE  Max(s) \in s /\ \A i \in s : i <= Max(s)
<1> DEFINE T == {n - i : i \in s}
<1>1. T \in SUBSET Nat /\ T # {}
  <2>1. \A i \in s : n - i \in Nat
    OBVIOUS
  <2> QED
    BY <2>1
<1>2. PICK x \in T : \A y \in T : x <= y
  <2> HIDE DEF T
  <2> QED
    BY <1>1, Least
<1>3. PICK i \in s : x = n - i
  OBVIOUS
<1>4. ASSUME NEW j \in s PROVE i >= j
  <2>1. n - j \in T
    OBVIOUS
  <2>2. x <= n - j
    BY <1>2, <2>1
  <2>3. i \in 1..n /\ j \in 1..n
    OBVIOUS
  <2> QED
    BY <1>3, <2>2, <2>3
<1> QED
  BY <1>4 DEF Max

\* The greatest of the numbers from 1 to m is m, and those below it are the ones up to m - 1.
LEMMA MaxOfInterval ==
  ASSUME NEW n \in Nat, NEW m \in 1..n
  PROVE  Max(1..m) = m /\ (1..m) \ {m} = 1..m - 1
<1>1. (1..m) \in SUBSET (1..n) /\ m \in 1..m
  OBVIOUS
<1>2. Max(1..m) \in 1..m /\ m <= Max(1..m)
  BY <1>1, MaxIs
<1> QED
  BY <1>2

\* There is a fold over a sequence as FoldLeft defines it ...
FoldsLeft(f, g, base, n, D) ==
  /\ f \in [SUBSET (1..n) -> D]
  /\ \A s \in SUBSET (1..n) : f[s] = IF s = {} THEN base ELSE g[<<f[s \ {Max(s)}], Max(s)>>]

\* FoldLeft folds over the indexes, the last one last ...
LEMMA TurnsExist ==
  ASSUME NEW D, NEW n \in Nat, NEW base \in D, NEW g \in [D \X (1..n) -> D]
  PROVE  \E f : FoldsLeft(f, g, base, n, D)
<1> DEFINE E == 1..n
           ch == [s \in SUBSET E |-> Max(s)]
<1>1. IsFiniteSet(E)
  BY FS_Interval
<1>2. \A s \in SUBSET E : s # {} => ch[s] \in s
  BY MaxIs
<1>3. g \in [D \X E -> D]
  OBVIOUS
<1>4. \A s \in SUBSET E : ch[s] = Max(s)
  OBVIOUS
<1> HIDE DEF E, ch
<1>5. PICK k : Folds(k, g, base, ch, E, D)
  BY <1>1, <1>2, <1>3, FoldExists
<1>6. \E f \in [SUBSET E -> D] :
        \A s \in SUBSET E : f[s] = IF s = {} THEN base ELSE g[<<f[s \ {Max(s)}], Max(s)>>]
  BY <1>4, <1>5 DEF Folds
<1> QED
  BY <1>6 DEF E, FoldsLeft

\* ... and its values on the initial segments are the turns of a loop.
Turns(h, g, base, n, D) ==
  /\ h \in [0..n -> D] /\ h[0] = base
  /\ \A m \in 1..n : h[m - 1] \in D /\ h[m] = g[<<h[m - 1], m>>]

TurnsTo(r, g, base, n, D) == \E h : Turns(h, g, base, n, D) /\ r = h[n]

FoldsTyped(k, g, base, n, D) ==
  /\ k[{}] = base
  /\ \A s \in SUBSET (1..n) :
       s # {} /\ k[s \ {Max(s)}] \in D => k[s] = g[<<k[s \ {Max(s)}], Max(s)>>]

LEMMA TurnsAre ==
  ASSUME NEW D, NEW n \in Nat, NEW base \in D, NEW g \in [D \X (1..n) -> D],
         NEW k, FoldsTyped(k, g, base, n, D)
  PROVE  TurnsTo(k[1..n], g, base, n, D)
<1> USE DEF FoldsTyped, Turns, TurnsTo
<1> DEFINE h == [m \in 0..n |-> k[1..m]]
           T == {m \in 0..n : k[1..m] \in D}
<1>0. ASSUME NEW m \in 1..n, k[1..m - 1] \in D PROVE k[1..m] = g[<<k[1..m - 1], m>>]
  <2>1. m \in 1..m /\ \A i \in 1..m : i \in 1..n
    OBVIOUS
  <2>2. Max(1..m) = m /\ (1..m) \ {m} = 1..m - 1
    BY MaxOfInterval
  <2>3. (1..m) \in SUBSET (1..n) /\ (1..m) # {}
    BY <2>1
  <2> QED
    BY <1>0, <2>2, <2>3
<1>1. 1..0 = {}
  OBVIOUS
<1>2. 0 \in T
  BY <1>1
<1>3. ASSUME NEW i \in 0..n - 1, i \in T PROVE i + 1 \in T
  <2>1. i + 1 \in 1..n /\ (i + 1) - 1 = i
    OBVIOUS
  <2>2. k[1..i] \in D
    BY <1>3
  <2>3. k[1..i + 1] = g[<<k[1..i], i + 1>>]
    BY <1>0, <2>1, <2>2
  <2>4. k[1..i + 1] \in D
    BY <2>1, <2>2, <2>3
  <2> QED
    BY <2>1, <2>4
<1> HIDE DEF T
<1>4. 0..n \subseteq T
  BY <1>2, <1>3, Induct
<1>5. h \in [0..n -> D]
  BY <1>4 DEF T
<1>6. h[0] = base /\ h[n] = k[1..n]
  BY <1>1
<1>7. ASSUME NEW m \in 1..n PROVE h[m] = g[<<h[m - 1], m>>]
  <2>1. m - 1 \in 0..n /\ m \in 0..n
    OBVIOUS
  <2>2. k[1..m - 1] \in D
    BY <1>4, <2>1 DEF T
  <2> QED
    BY <1>0, <2>1, <2>2
<1> HIDE DEF h
<1> QED
  BY <1>5, <1>6, <1>7

-----------------------------------------------------------------------------
(* The loops of the evaluation, turn by turn.                              *)

\* Append adds one element and stays in the type.
LEMMA AppendSet ==
  \A S : \A q \in Seq(S) : \A x \in S : ToSet(Append(q, x)) = ToSet(q) \cup {x}
<1> SUFFICES ASSUME NEW S, NEW q \in Seq(S), NEW x \in S
             PROVE  ToSet(Append(q, x)) = ToSet(q) \cup {x}
  OBVIOUS
<1>1. /\ DOMAIN q = 1..Len(q) /\ Len(q) \in Nat
      /\ DOMAIN Append(q, x) = 1..Len(q) + 1
      /\ Append(q, x)[Len(q) + 1] = x
      /\ \A i \in 1..Len(q) : Append(q, x)[i] = q[i]
  BY AppendProperties
<1> QED
  BY <1>1 DEF ToSet

LEMMA AppendTyped ==
  \A S : \A q \in Seq(S) : \A x \in S : Append(q, x) \in Seq(S)
OBVIOUS

KeptLoop(h, q, gone, S) ==
  /\ h \in [0..Len(q) -> Seq(S)] /\ h[0] = <<>> /\ h[Len(q)] = Kept(q, gone)
  /\ \A m \in 1..Len(q) : h[m] = IF q[m] \in gone THEN h[m - 1] ELSE Append(h[m - 1], q[m])

LEMMA KeptTurns ==
  ASSUME NEW S, NEW q \in Seq(S), NEW gone
  PROVE  \E h : KeptLoop(h, q, gone, S)
<1> DEFINE n == Len(q)
           D == Seq(S)
           Turn(x, i) == IF q[i] \in gone THEN x ELSE Append(x, q[i])
           g == [x \in D \X (1..n) |-> Turn(x[1], x[2])]
           k == CHOOSE iter : iter = [s \in SUBSET (1..n) |->
                  IF s = {} THEN <<>> ELSE Turn(iter[s \ {Max(s)}], Max(s))]
<1>1. n \in Nat /\ DOMAIN q = 1..n /\ <<>> \in D
  OBVIOUS
<1>2. Kept(q, gone) = k[1..n]
  BY <1>1 DEF Kept, FoldLeft, MapThenFoldSet
<1>3. g \in [D \X (1..n) -> D] /\ \A x \in D : \A i \in 1..n : g[<<x, i>>] = Turn(x, i)
  <2>1. ASSUME NEW x \in D, NEW i \in 1..n PROVE Turn(x, i) \in D
    BY AppendTyped
  <2> HIDE DEF n, D, Turn
  <2> QED
    BY <2>1
<1> HIDE DEF n, D, g, Turn
<1>4. PICK f : FoldsLeft(f, g, <<>>, n, D)
  BY <1>1, <1>3, TurnsExist
<1>5. f = [s \in SUBSET (1..n) |-> IF s = {} THEN <<>> ELSE Turn(f[s \ {Max(s)}], Max(s))]
  <2>1. ASSUME NEW s \in SUBSET (1..n), s # {} PROVE f[s] = Turn(f[s \ {Max(s)}], Max(s))
    BY <1>1, <1>3, <1>4, <2>1, MaxIs DEF FoldsLeft
  <2> QED
    BY <1>4, <2>1 DEF FoldsLeft
<1>6. k = [s \in SUBSET (1..n) |-> IF s = {} THEN <<>> ELSE Turn(k[s \ {Max(s)}], Max(s))]
  BY <1>5
<1> HIDE DEF k
<1>7. FoldsTyped(k, g, <<>>, n, D)
  <2>1. ASSUME NEW s \in SUBSET (1..n), s # {}
        PROVE  k[s] = Turn(k[s \ {Max(s)}], Max(s)) /\ Max(s) \in 1..n
    BY <1>1, <1>6, <2>1, MaxIs
  <2> QED
    BY <1>3, <1>6, <2>1 DEF FoldsTyped
<1>8. TurnsTo(k[1..n], g, <<>>, n, D)
  BY <1>1, <1>3, <1>7, TurnsAre
<1>9. PICK h : Turns(h, g, <<>>, n, D) /\ k[1..n] = h[n]
  BY <1>8 DEF TurnsTo
<1>10. \A m \in 1..n : h[m] = Turn(h[m - 1], m)
  BY <1>3, <1>9 DEF Turns
<1> QED
  BY <1>2, <1>9, <1>10 DEF KeptLoop, n, D, Turn, Turns

\* what Kept keeps
LEMMA KeptIs ==
  ASSUME NEW S, NEW q \in Seq(S), NEW gone
  PROVE  Kept(q, gone) \in Seq(S) /\ ToSet(Kept(q, gone)) = ToSet(q) \ gone
<1>1. PICK h : KeptLoop(h, q, gone, S)
  BY KeptTurns
<1> USE DEF KeptLoop
<1> DEFINE n == Len(q)
           T == {m \in 0..n : ToSet(h[m]) = {q[i] : i \in 1..m} \ gone}
<1>2. n \in Nat /\ DOMAIN q = 1..n
  OBVIOUS
<1>3. 0 \in T
  BY <1>1, <1>2 DEF ToSet
<1>4. ASSUME NEW m \in 0..n - 1, m \in T PROVE m + 1 \in T
  <2>1. m + 1 \in 1..n /\ m \in 0..n /\ (m + 1) - 1 = m
    BY <1>2
  <2>2. h[m] \in Seq(S) /\ q[m + 1] \in S /\ ToSet(h[m]) = {q[i] : i \in 1..m} \ gone
    BY <1>1, <1>4, <2>1
  <2>3. h[m + 1] = IF q[m + 1] \in gone THEN h[m] ELSE Append(h[m], q[m + 1])
    BY <1>1, <2>1
  <2>4. {q[i] : i \in 1..m + 1} = {q[i] : i \in 1..m} \cup {q[m + 1]}
    BY <2>1
  <2>5. ToSet(h[m + 1]) = {q[i] : i \in 1..m + 1} \ gone
    BY <2>2, <2>3, <2>4, AppendSet
  <2> QED
    BY <2>1, <2>5
<1> HIDE DEF T
<1>5. 0..n \subseteq T
  BY <1>2, <1>3, <1>4, Induct
<1>6. n \in T
  BY <1>2, <1>5
<1> QED
  BY <1>1, <1>2, <1>6 DEF T, ToSet

-----------------------------------------------------------------------------
(* Pruning: a frontier holds, of a set of combinations, enough to replace  *)
(* each by one whose mask is as large.                                     *)

States == [mask : SUBSET Models, models : SUBSET Models]

Prunes(r, X) ==
  /\ r \in Seq(States) /\ ToSet(r) \subseteq X
  /\ \A s \in X : \E t \in ToSet(r) : s.mask \subseteq t.mask

\* addToFrontier: what is dropped is dropped for one that keeps more.
LEMMA AddToFrontierPrunes ==
  ASSUME NEW F, NEW X, Prunes(F, X), NEW c \in States
  PROVE  Prunes(AddToFrontier(F, c), X \cup {c})
<1> USE DEF Prunes
<1>1. CASE \E s \in ToSet(F) : c.mask \subseteq s.mask
  BY <1>1 DEF AddToFrontier
<1>2. CASE ~(\E s \in ToSet(F) : c.mask \subseteq s.mask)
  <2> DEFINE gone == {s \in ToSet(F) : s.mask \subseteq c.mask}
             r == Append(Kept(F, gone), c)
  <2>1. AddToFrontier(F, c) = r
    BY <1>2 DEF AddToFrontier
  <2>2. Kept(F, gone) \in Seq(States) /\ ToSet(Kept(F, gone)) = ToSet(F) \ gone
    <3> HIDE DEF gone
    <3> QED
      BY KeptIs
  <2>3. r \in Seq(States) /\ ToSet(r) = (ToSet(F) \ gone) \cup {c}
    <3> HIDE DEF gone
    <3> QED
      BY <2>2, AppendTyped, AppendSet
  <2> HIDE DEF r
  <2>4. ASSUME NEW s \in X PROVE \E t \in ToSet(r) : s.mask \subseteq t.mask
    <3>1. PICK t \in ToSet(F) : s.mask \subseteq t.mask
      OBVIOUS
    <3>2. CASE t \in gone
      BY <2>3, <3>1, <3>2
    <3>3. CASE t \notin gone
      BY <2>3, <3>1, <3>3
    <3> QED
      BY <3>2, <3>3
  <2>5. \E t \in ToSet(r) : c.mask \subseteq t.mask
    BY <2>3
  <2> QED
    BY <2>1, <2>3, <2>4, <2>5
<1> QED
  BY <1>1, <1>2

LEMMA AddToFrontierTyped ==
  \A F \in Seq(States), c \in States : AddToFrontier(F, c) \in Seq(States)
<1> SUFFICES ASSUME NEW F \in Seq(States), NEW c \in States PROVE AddToFrontier(F, c) \in Seq(States)
  OBVIOUS
<1>1. Prunes(F, ToSet(F))
  BY DEF Prunes
<1> QED
  BY <1>1, AddToFrontierPrunes DEF Prunes

\* addToFrontier for each of some candidates
AddAllLoop(h, states, candidates) ==
  /\ h \in [0..Len(candidates) -> Seq(States)] /\ h[0] = states /\ h[Len(candidates)] = AddAll(states, candidates)
  /\ \A m \in 1..Len(candidates) : h[m] = AddToFrontier(h[m - 1], candidates[m])

LEMMA AddAllTurns ==
  ASSUME NEW states \in Seq(States), NEW candidates \in Seq(States)
  PROVE  \E h : AddAllLoop(h, states, candidates)
<1> DEFINE n == Len(candidates)
           D == Seq(States)
           Turn(x, i) == AddToFrontier(x, candidates[i])
           g == [x \in D \X (1..n) |-> Turn(x[1], x[2])]
           k == CHOOSE iter : iter = [s \in SUBSET (1..n) |->
                  IF s = {} THEN states ELSE Turn(iter[s \ {Max(s)}], Max(s))]
<1>1. n \in Nat /\ DOMAIN candidates = 1..n /\ states \in D
  OBVIOUS
<1>2. AddAll(states, candidates) = k[1..n]
  BY <1>1 DEF AddAll, FoldLeft, MapThenFoldSet
<1>3. g \in [D \X (1..n) -> D] /\ \A x \in D : \A i \in 1..n : g[<<x, i>>] = Turn(x, i)
  <2>1. ASSUME NEW x \in D, NEW i \in 1..n PROVE Turn(x, i) \in D
    BY AddToFrontierTyped
  <2> HIDE DEF n, D, Turn
  <2> QED
    BY <2>1
<1> HIDE DEF n, D, g, Turn
<1>4. PICK f : FoldsLeft(f, g, states, n, D)
  BY <1>1, <1>3, TurnsExist
<1>5. f = [s \in SUBSET (1..n) |-> IF s = {} THEN states ELSE Turn(f[s \ {Max(s)}], Max(s))]
  <2>1. ASSUME NEW s \in SUBSET (1..n), s # {} PROVE f[s] = Turn(f[s \ {Max(s)}], Max(s))
    BY <1>1, <1>3, <1>4, <2>1, MaxIs DEF FoldsLeft
  <2> QED
    BY <1>4, <2>1 DEF FoldsLeft
<1>6. k = [s \in SUBSET (1..n) |-> IF s = {} THEN states ELSE Turn(k[s \ {Max(s)}], Max(s))]
  BY <1>5
<1> HIDE DEF k
<1>7. FoldsTyped(k, g, states, n, D)
  <2>1. ASSUME NEW s \in SUBSET (1..n), s # {}
        PROVE  k[s] = Turn(k[s \ {Max(s)}], Max(s)) /\ Max(s) \in 1..n
    BY <1>1, <1>6, <2>1, MaxIs
  <2> QED
    BY <1>3, <1>6, <2>1 DEF FoldsTyped
<1>8. TurnsTo(k[1..n], g, states, n, D)
  BY <1>1, <1>3, <1>7, TurnsAre
<1>9. PICK h : Turns(h, g, states, n, D) /\ k[1..n] = h[n]
  BY <1>8 DEF TurnsTo
<1>10. \A m \in 1..n : h[m] = Turn(h[m - 1], m)
  BY <1>3, <1>9 DEF Turns
<1> QED
  BY <1>2, <1>9, <1>10 DEF AddAllLoop, n, D, Turn, Turns

\* So is what a series of them drops.
LEMMA AddAllPrunes ==
  ASSUME NEW F, NEW X, Prunes(F, X), NEW C \in Seq(States)
  PROVE  Prunes(AddAll(F, C), X \cup ToSet(C))
<1>0. F \in Seq(States)
  BY DEF Prunes
<1>1. PICK h : AddAllLoop(h, F, C)
  BY <1>0, AddAllTurns
<1> DEFINE n == Len(C)
           Y(m) == X \cup {C[i] : i \in 1..m}
           T == {m \in 0..n : Prunes(h[m], Y(m))}
<1>2. n \in Nat /\ DOMAIN C = 1..n
  OBVIOUS
<1>3. 0 \in T
  <2>1. Y(0) = X /\ h[0] = F
    BY <1>1 DEF AddAllLoop
  <2>2. Prunes(h[0], Y(0))
    BY <2>1
  <2> HIDE DEF Y
  <2> QED
    BY <1>2, <2>2
<1>4. ASSUME NEW m \in 0..n - 1, m \in T PROVE m + 1 \in T
  <2>1. m + 1 \in 1..n /\ m + 1 \in 0..n /\ (m + 1) - 1 = m
    BY <1>2
  <2>2. C[m + 1] \in States
    BY <2>1
  <2>3. h[m + 1] = AddToFrontier(h[m], C[m + 1])
    BY <1>1, <2>1 DEF AddAllLoop
  <2>4. Y(m + 1) = Y(m) \cup {C[m + 1]}
    BY <2>1
  <2>5. Prunes(h[m], Y(m))
    BY <1>4
  <2> HIDE DEF Y
  <2>6. Prunes(h[m + 1], Y(m + 1))
    BY <2>2, <2>3, <2>4, <2>5, AddToFrontierPrunes
  <2> QED
    BY <2>1, <2>6
<1> HIDE DEF T, n
<1>5. 0..n \subseteq T
  BY <1>2, <1>3, <1>4, Induct
<1>6. Y(n) = X \cup ToSet(C)
  BY <1>2 DEF ToSet
<1> QED
  BY <1>1, <1>2, <1>5, <1>6 DEF T, n, AddAllLoop

LEMMA AddAllTyped ==
  \A F, C \in Seq(States) : AddAll(F, C) \in Seq(States)
<1> SUFFICES ASSUME NEW F \in Seq(States), NEW C \in Seq(States) PROVE AddAll(F, C) \in Seq(States)
  OBVIOUS
<1>1. Prunes(F, ToSet(F))
  BY DEF Prunes
<1> QED
  BY <1>1, AddAllPrunes DEF Prunes

\* JoinEach joins one state with each of the others.
LEMMA JoinEachIs ==
  ASSUME NEW l \in States, NEW Rs \in Seq(States)
  PROVE  JoinEach(l, Rs) \in Seq(States) /\ ToSet(JoinEach(l, Rs)) = {Join(l, r) : r \in ToSet(Rs)}
<1>1. \A r \in States : Join(l, r) \in States
  BY DEF Join, States
<1>2. DOMAIN Rs = 1..Len(Rs) /\ Len(Rs) \in Nat /\ \A i \in 1..Len(Rs) : Rs[i] \in States
  OBVIOUS
<1>3. JoinEach(l, Rs) \in [1..Len(Rs) -> States]
  BY <1>1, <1>2 DEF JoinEach
<1>4. JoinEach(l, Rs) \in Seq(States)
  BY <1>2, <1>3
<1> QED
  BY <1>4 DEF JoinEach, ToSet

\* the loop over the states of the first operand
CombineLoop(h, lefts, rights) ==
  /\ h \in [0..Len(lefts) -> Seq(States)] /\ h[0] = <<>> /\ h[Len(lefts)] = Combine(lefts, rights)
  /\ \A m \in 1..Len(lefts) : h[m] = AddAll(h[m - 1], JoinEach(lefts[m], rights))

LEMMA CombineTurns ==
  ASSUME NEW lefts \in Seq(States), NEW rights \in Seq(States)
  PROVE  \E h : CombineLoop(h, lefts, rights)
<1> DEFINE n == Len(lefts)
           D == Seq(States)
           Turn(x, i) == AddAll(x, JoinEach(lefts[i], rights))
           g == [x \in D \X (1..n) |-> Turn(x[1], x[2])]
           k == CHOOSE iter : iter = [s \in SUBSET (1..n) |->
                  IF s = {} THEN <<>> ELSE Turn(iter[s \ {Max(s)}], Max(s))]
<1>1. n \in Nat /\ DOMAIN lefts = 1..n /\ <<>> \in D
  OBVIOUS
<1>2. Combine(lefts, rights) = k[1..n]
  BY <1>1 DEF Combine, FoldLeft, MapThenFoldSet
<1>3. g \in [D \X (1..n) -> D] /\ \A x \in D : \A i \in 1..n : g[<<x, i>>] = Turn(x, i)
  <2>1. ASSUME NEW x \in D, NEW i \in 1..n PROVE Turn(x, i) \in D
    BY JoinEachIs, AddAllTyped
  <2> HIDE DEF n, D, Turn
  <2> QED
    BY <2>1
<1> HIDE DEF n, D, g, Turn
<1>4. PICK f : FoldsLeft(f, g, <<>>, n, D)
  BY <1>1, <1>3, TurnsExist
<1>5. f = [s \in SUBSET (1..n) |-> IF s = {} THEN <<>> ELSE Turn(f[s \ {Max(s)}], Max(s))]
  <2>1. ASSUME NEW s \in SUBSET (1..n), s # {} PROVE f[s] = Turn(f[s \ {Max(s)}], Max(s))
    BY <1>1, <1>3, <1>4, <2>1, MaxIs DEF FoldsLeft
  <2> QED
    BY <1>4, <2>1 DEF FoldsLeft
<1>6. k = [s \in SUBSET (1..n) |-> IF s = {} THEN <<>> ELSE Turn(k[s \ {Max(s)}], Max(s))]
  BY <1>5
<1> HIDE DEF k
<1>7. FoldsTyped(k, g, <<>>, n, D)
  <2>1. ASSUME NEW s \in SUBSET (1..n), s # {}
        PROVE  k[s] = Turn(k[s \ {Max(s)}], Max(s)) /\ Max(s) \in 1..n
    BY <1>1, <1>6, <2>1, MaxIs
  <2> QED
    BY <1>3, <1>6, <2>1 DEF FoldsTyped
<1>8. TurnsTo(k[1..n], g, <<>>, n, D)
  BY <1>1, <1>3, <1>7, TurnsAre
<1>9. PICK h : Turns(h, g, <<>>, n, D) /\ k[1..n] = h[n]
  BY <1>8 DEF TurnsTo
<1>10. \A m \in 1..n : h[m] = Turn(h[m - 1], m)
  BY <1>3, <1>9 DEF Turns
<1> QED
  BY <1>2, <1>9, <1>10 DEF CombineLoop, n, D, Turn, Turns

\* Combine stands for every pair of a left and a right state.
LEMMA CombinePrunes ==
  ASSUME NEW Ls \in Seq(States), NEW Rs \in Seq(States)
  PROVE  Prunes(Combine(Ls, Rs), {Join(l, r) : l \in ToSet(Ls), r \in ToSet(Rs)})
<1>1. PICK h : CombineLoop(h, Ls, Rs)
  BY CombineTurns
<1> DEFINE n == Len(Ls)
           Y(m) == {Join(l, r) : l \in {Ls[i] : i \in 1..m}, r \in ToSet(Rs)}
           T == {m \in 0..n : Prunes(h[m], Y(m))}
<1>2. n \in Nat /\ DOMAIN Ls = 1..n
  OBVIOUS
<1>3. 0 \in T
  <2>1. Y(0) = {} /\ h[0] = <<>>
    BY <1>1 DEF CombineLoop
  <2>2. Prunes(h[0], Y(0))
    BY <2>1 DEF Prunes, ToSet
  <2> HIDE DEF Y
  <2> QED
    BY <1>2, <2>2
<1>4. ASSUME NEW m \in 0..n - 1, m \in T PROVE m + 1 \in T
  <2>1. m + 1 \in 1..n /\ m + 1 \in 0..n /\ (m + 1) - 1 = m
    BY <1>2
  <2>2. Ls[m + 1] \in States
    BY <2>1
  <2>3. h[m + 1] = AddAll(h[m], JoinEach(Ls[m + 1], Rs))
    BY <1>1, <2>1 DEF CombineLoop
  <2>4. /\ JoinEach(Ls[m + 1], Rs) \in Seq(States)
        /\ ToSet(JoinEach(Ls[m + 1], Rs)) = {Join(Ls[m + 1], r) : r \in ToSet(Rs)}
    BY <2>2, JoinEachIs
  <2>5. Y(m + 1) = Y(m) \cup {Join(Ls[m + 1], r) : r \in ToSet(Rs)}
    <3>1. {Ls[i] : i \in 1..m + 1} = {Ls[i] : i \in 1..m} \cup {Ls[m + 1]}
      BY <2>1
    <3> QED
      BY <3>1
  <2>6. Prunes(h[m], Y(m))
    BY <1>4
  <2> HIDE DEF Y
  <2>7. Prunes(h[m + 1], Y(m + 1))
    BY <2>3, <2>4, <2>5, <2>6, AddAllPrunes
  <2> QED
    BY <2>1, <2>7
<1> HIDE DEF T, n
<1>5. 0..n \subseteq T
  BY <1>2, <1>3, <1>4, Induct
<1>6. Y(n) = {Join(l, r) : l \in ToSet(Ls), r \in ToSet(Rs)}
  BY <1>2 DEF ToSet
<1> HIDE DEF Y
<1>7. Prunes(h[n], Y(n)) /\ h[n] = Combine(Ls, Rs)
  BY <1>1, <1>2, <1>5 DEF T, n, CombineLoop
<1> QED
  BY <1>6, <1>7

-----------------------------------------------------------------------------
(* Covering: a frontier stands for a set X of sets of models, as far as    *)
(* the models R are concerned.                                             *)

Covers(F, X, R) ==
  /\ F \in Seq(States)
  /\ \A s \in ToSet(F) : s.models \in X /\ s.mask = s.models \cap R
  /\ \A S \in X : \E s \in ToSet(F) : S \cap R \subseteq s.mask

LEMMA CoversNothing == \A R : Covers(<<>>, {}, R)
BY DEF Covers, ToSet

LEMMA CoversEmpty == \A R : Covers(<<[mask |-> {}, models |-> {}]>>, {{}}, R)
BY DEF Covers, ToSet, States

\* The states of two expressions together cover what either allows ...
LEMMA AddAllCovers ==
  ASSUME NEW R, NEW F, NEW X, Covers(F, X, R), NEW C, NEW Y, Covers(C, Y, R)
  PROVE  Covers(AddAll(F, C), X \cup Y, R)
<1> USE DEF Covers
<1> DEFINE r == AddAll(F, C)
<1>1. Prunes(F, ToSet(F))
  BY DEF Prunes
<1>2. Prunes(r, ToSet(F) \cup ToSet(C))
  BY <1>1, AddAllPrunes
<1> HIDE DEF r
<1>3. r \in Seq(States) /\ ToSet(r) \subseteq ToSet(F) \cup ToSet(C)
  BY <1>2 DEF Prunes
<1>4. ASSUME NEW S \in X \cup Y PROVE \E s \in ToSet(r) : S \cap R \subseteq s.mask
  <2>1. PICK s \in ToSet(F) \cup ToSet(C) : S \cap R \subseteq s.mask
    OBVIOUS
  <2>2. PICK t \in ToSet(r) : s.mask \subseteq t.mask
    BY <1>2 DEF Prunes
  <2> QED
    BY <2>1, <2>2
<1>5. \A s \in ToSet(r) : s.models \in X \cup Y /\ s.mask = s.models \cap R
  BY <1>3
<1>6. Covers(r, X \cup Y, R)
  BY <1>3, <1>4, <1>5
<1> QED
  BY <1>6 DEF r

\* one set of X and one of Y, united
Unions(X, Y) == {S \cup T : S \in X, T \in Y}

\* ... and combined, what both allow at once.
LEMMA CombineCovers ==
  ASSUME NEW R, NEW F, NEW X, Covers(F, X, R), NEW C, NEW Y, Covers(C, Y, R)
  PROVE  Covers(Combine(F, C), Unions(X, Y), R)
<1> USE DEF Covers
<1> DEFINE r == Combine(F, C)
           J == {Join(s, t) : s \in ToSet(F), t \in ToSet(C)}
<1>1. Prunes(r, J)
  BY CombinePrunes
<1>2. ASSUME NEW s \in ToSet(F), NEW t \in ToSet(C)
      PROVE  /\ Join(s, t).models \in Unions(X, Y)
             /\ Join(s, t).mask = Join(s, t).models \cap R
             /\ Join(s, t).mask = s.mask \cup t.mask
  BY DEF Join, Unions
<1>3. \A j \in J : j.models \in Unions(X, Y) /\ j.mask = j.models \cap R
  BY <1>2
<1>4. ASSUME NEW S \in X, NEW T \in Y PROVE \E j \in J : (S \cup T) \cap R \subseteq j.mask
  <2>1. PICK s \in ToSet(F) : S \cap R \subseteq s.mask
    OBVIOUS
  <2>2. PICK t \in ToSet(C) : T \cap R \subseteq t.mask
    OBVIOUS
  <2>3. Join(s, t) \in J /\ Join(s, t).mask = s.mask \cup t.mask
    BY <1>2
  <2> QED
    BY <2>1, <2>2, <2>3
<1> HIDE DEF r, J
<1>5. r \in Seq(States) /\ ToSet(r) \subseteq J
  BY <1>1 DEF Prunes
<1>6. ASSUME NEW U \in Unions(X, Y) PROVE \E s \in ToSet(r) : U \cap R \subseteq s.mask
  <2>1. PICK S \in X, T \in Y : U = S \cup T
    BY DEF Unions
  <2>2. PICK j \in J : U \cap R \subseteq j.mask
    BY <1>4, <2>1
  <2>3. PICK s \in ToSet(r) : j.mask \subseteq s.mask
    BY <1>1 DEF Prunes
  <2> QED
    BY <2>2, <2>3
<1>7. Covers(r, Unions(X, Y), R)
  BY <1>3, <1>5, <1>6
<1> QED
  BY <1>7 DEF r

LEMMA CombineTyped ==
  \A F, C \in Seq(States) : Combine(F, C) \in Seq(States)
BY CombinePrunes DEF Prunes

\* the loops over the operands of a node
EvaluateOrLoop(h, operands) ==
  /\ h \in [0..Len(operands) -> Seq(States)] /\ h[0] = <<>> /\ h[Len(operands)] = EvaluateOr(operands)
  /\ \A m \in 1..Len(operands) : h[m] = AddAll(h[m - 1], operands[m])

LEMMA EvaluateOrTurns ==
  ASSUME NEW operands \in Seq(Seq(States))
  PROVE  \E h : EvaluateOrLoop(h, operands)
<1> DEFINE n == Len(operands)
           D == Seq(States)
           Turn(x, i) == AddAll(x, operands[i])
           g == [x \in D \X (1..n) |-> Turn(x[1], x[2])]
           k == CHOOSE iter : iter = [s \in SUBSET (1..n) |->
                  IF s = {} THEN <<>> ELSE Turn(iter[s \ {Max(s)}], Max(s))]
<1>1. n \in Nat /\ DOMAIN operands = 1..n /\ <<>> \in D
  OBVIOUS
<1>2. EvaluateOr(operands) = k[1..n]
  BY <1>1 DEF EvaluateOr, FoldLeft, MapThenFoldSet
<1>3. g \in [D \X (1..n) -> D] /\ \A x \in D : \A i \in 1..n : g[<<x, i>>] = Turn(x, i)
  <2>1. ASSUME NEW x \in D, NEW i \in 1..n PROVE Turn(x, i) \in D
    BY AddAllTyped
  <2> HIDE DEF n, D, Turn
  <2> QED
    BY <2>1
<1> HIDE DEF n, D, g, Turn
<1>4. PICK f : FoldsLeft(f, g, <<>>, n, D)
  BY <1>1, <1>3, TurnsExist
<1>5. f = [s \in SUBSET (1..n) |-> IF s = {} THEN <<>> ELSE Turn(f[s \ {Max(s)}], Max(s))]
  <2>1. ASSUME NEW s \in SUBSET (1..n), s # {} PROVE f[s] = Turn(f[s \ {Max(s)}], Max(s))
    BY <1>1, <1>3, <1>4, <2>1, MaxIs DEF FoldsLeft
  <2> QED
    BY <1>4, <2>1 DEF FoldsLeft
<1>6. k = [s \in SUBSET (1..n) |-> IF s = {} THEN <<>> ELSE Turn(k[s \ {Max(s)}], Max(s))]
  BY <1>5
<1> HIDE DEF k
<1>7. FoldsTyped(k, g, <<>>, n, D)
  <2>1. ASSUME NEW s \in SUBSET (1..n), s # {}
        PROVE  k[s] = Turn(k[s \ {Max(s)}], Max(s)) /\ Max(s) \in 1..n
    BY <1>1, <1>6, <2>1, MaxIs
  <2> QED
    BY <1>3, <1>6, <2>1 DEF FoldsTyped
<1>8. TurnsTo(k[1..n], g, <<>>, n, D)
  BY <1>1, <1>3, <1>7, TurnsAre
<1>9. PICK h : Turns(h, g, <<>>, n, D) /\ k[1..n] = h[n]
  BY <1>8 DEF TurnsTo
<1>10. \A m \in 1..n : h[m] = Turn(h[m - 1], m)
  BY <1>3, <1>9 DEF Turns
<1> QED
  BY <1>2, <1>9, <1>10 DEF EvaluateOrLoop, n, D, Turn, Turns

EvaluateAndLoop(h, operands) ==
  /\ h \in [0..Len(operands) -> Seq(States)] /\ h[0] = <<[mask |-> {}, models |-> {}]>> /\ h[Len(operands)] = EvaluateAnd(operands)
  /\ \A m \in 1..Len(operands) : h[m] = Combine(h[m - 1], operands[m])

LEMMA EvaluateAndTurns ==
  ASSUME NEW operands \in Seq(Seq(States))
  PROVE  \E h : EvaluateAndLoop(h, operands)
<1> DEFINE n == Len(operands)
           D == Seq(States)
           Turn(x, i) == Combine(x, operands[i])
           g == [x \in D \X (1..n) |-> Turn(x[1], x[2])]
           k == CHOOSE iter : iter = [s \in SUBSET (1..n) |->
                  IF s = {} THEN <<[mask |-> {}, models |-> {}]>> ELSE Turn(iter[s \ {Max(s)}], Max(s))]
<1>1. n \in Nat /\ DOMAIN operands = 1..n /\ <<[mask |-> {}, models |-> {}]>> \in D
  BY DEF States
<1>2. EvaluateAnd(operands) = k[1..n]
  BY <1>1 DEF EvaluateAnd, FoldLeft, MapThenFoldSet
<1>3. g \in [D \X (1..n) -> D] /\ \A x \in D : \A i \in 1..n : g[<<x, i>>] = Turn(x, i)
  <2>1. ASSUME NEW x \in D, NEW i \in 1..n PROVE Turn(x, i) \in D
    BY CombineTyped
  <2> HIDE DEF n, D, Turn
  <2> QED
    BY <2>1
<1> HIDE DEF n, D, g, Turn
<1>4. PICK f : FoldsLeft(f, g, <<[mask |-> {}, models |-> {}]>>, n, D)
  BY <1>1, <1>3, TurnsExist
<1>5. f = [s \in SUBSET (1..n) |-> IF s = {} THEN <<[mask |-> {}, models |-> {}]>> ELSE Turn(f[s \ {Max(s)}], Max(s))]
  <2>1. ASSUME NEW s \in SUBSET (1..n), s # {} PROVE f[s] = Turn(f[s \ {Max(s)}], Max(s))
    BY <1>1, <1>3, <1>4, <2>1, MaxIs DEF FoldsLeft
  <2> QED
    BY <1>4, <2>1 DEF FoldsLeft
<1>6. k = [s \in SUBSET (1..n) |-> IF s = {} THEN <<[mask |-> {}, models |-> {}]>> ELSE Turn(k[s \ {Max(s)}], Max(s))]
  BY <1>5
<1> HIDE DEF k
<1>7. FoldsTyped(k, g, <<[mask |-> {}, models |-> {}]>>, n, D)
  <2>1. ASSUME NEW s \in SUBSET (1..n), s # {}
        PROVE  k[s] = Turn(k[s \ {Max(s)}], Max(s)) /\ Max(s) \in 1..n
    BY <1>1, <1>6, <2>1, MaxIs
  <2> QED
    BY <1>3, <1>6, <2>1 DEF FoldsTyped
<1>8. TurnsTo(k[1..n], g, <<[mask |-> {}, models |-> {}]>>, n, D)
  BY <1>1, <1>3, <1>7, TurnsAre
<1>9. PICK h : Turns(h, g, <<[mask |-> {}, models |-> {}]>>, n, D) /\ k[1..n] = h[n]
  BY <1>8 DEF TurnsTo
<1>10. \A m \in 1..n : h[m] = Turn(h[m - 1], m)
  BY <1>3, <1>9 DEF Turns
<1> QED
  BY <1>2, <1>9, <1>10 DEF EvaluateAndLoop, n, D, Turn, Turns

\* operand i covers xs[i]
CoverEach(operands, xs, R) ==
  /\ operands \in Seq(Seq(States)) /\ DOMAIN xs = 1..Len(operands)
  /\ \A i \in 1..Len(operands) : Covers(operands[i], xs[i], R)

\* The same for an "or" of any number of operands ...
LEMMA OrCovers ==
  ASSUME NEW R, NEW operands, NEW xs, CoverEach(operands, xs, R)
  PROVE  Covers(EvaluateOr(operands), UNION ToSet(xs), R)
<1> DEFINE n == Len(operands)
           Y(m) == UNION {xs[i] : i \in 1..m}
<1>0. /\ operands \in Seq(Seq(States)) /\ n \in Nat /\ DOMAIN xs = 1..n
      /\ \A i \in 1..n : Covers(operands[i], xs[i], R)
  BY DEF CoverEach
<1>1. PICK h : EvaluateOrLoop(h, operands)
  BY <1>0, EvaluateOrTurns
<1> DEFINE T == {m \in 0..n : Covers(h[m], Y(m), R)}
<1>3. 0 \in T
  <2>1. Y(0) = {} /\ h[0] = <<>>
    BY <1>1 DEF EvaluateOrLoop
  <2>2. Covers(h[0], Y(0), R)
    BY <2>1, CoversNothing
  <2> HIDE DEF Y
  <2> QED
    BY <1>0, <2>2
<1>4. ASSUME NEW m \in 0..n - 1, m \in T PROVE m + 1 \in T
  <2>1. m + 1 \in 1..n /\ m + 1 \in 0..n /\ (m + 1) - 1 = m
    BY <1>0
  <2>2. Covers(operands[m + 1], xs[m + 1], R)
    BY <1>0, <2>1
  <2>3. h[m + 1] = AddAll(h[m], operands[m + 1])
    BY <1>1, <2>1 DEF EvaluateOrLoop
  <2>4. Y(m + 1) = Y(m) \cup xs[m + 1]
    <3>1. {xs[i] : i \in 1..m + 1} = {xs[i] : i \in 1..m} \cup {xs[m + 1]}
      BY <2>1
    <3> QED
      BY <3>1
  <2>5. Covers(h[m], Y(m), R)
    BY <1>4
  <2> HIDE DEF Y
  <2>6. Covers(h[m + 1], Y(m + 1), R)
    BY <2>2, <2>3, <2>4, <2>5, AddAllCovers
  <2> QED
    BY <2>1, <2>6
<1> HIDE DEF T, n
<1>5. 0..n \subseteq T
  BY <1>0, <1>3, <1>4, Induct
<1>6. Y(n) = UNION ToSet(xs)
  BY <1>0 DEF ToSet
<1> HIDE DEF Y
<1>7. Covers(h[n], Y(n), R) /\ h[n] = EvaluateOr(operands)
  BY <1>0, <1>1, <1>5 DEF T, n, EvaluateOrLoop
<1> QED
  BY <1>6, <1>7

\* one set of each of the first m, united
FirstUnions(xs, m) ==
  {UNION {f[i] : i \in 1..m} :
     f \in {g \in [1..m -> UNION ToSet(xs)] : \A i \in 1..m : g[i] \in xs[i]}}

\* One operand more: one more choice.
LEMMA FirstUnionsNext ==
  ASSUME NEW xs, NEW n \in Nat, DOMAIN xs = 1..n, NEW m \in 0..n - 1
  PROVE  FirstUnions(xs, m + 1) = Unions(FirstUnions(xs, m), xs[m + 1])
<1> DEFINE A == UNION ToSet(xs)
           G(j) == {g \in [1..j -> A] : \A i \in 1..j : g[i] \in xs[i]}
           U(f, j) == UNION {f[i] : i \in 1..j}
<1>1. m + 1 \in 1..n /\ m \in Nat /\ xs[m + 1] \subseteq A
  BY DEF ToSet
<1> HIDE DEF A
<1>2. ASSUME NEW f \in G(m + 1)
      PROVE  U(f, m + 1) \in Unions(FirstUnions(xs, m), xs[m + 1])
  <2> DEFINE e == [i \in 1..m |-> f[i]]
  <2>1. e \in G(m) /\ f[m + 1] \in xs[m + 1]
    BY <1>1
  <2>2. U(f, m + 1) = U(e, m) \cup f[m + 1]
    <3>1. {f[i] : i \in 1..m + 1} = {e[i] : i \in 1..m} \cup {f[m + 1]}
      BY <1>1
    <3> QED
      BY <3>1
  <2> HIDE DEF e
  <2>3. U(e, m) \in FirstUnions(xs, m)
    BY <2>1 DEF FirstUnions, A
  <2> QED
    BY <2>1, <2>2, <2>3 DEF Unions
<1>3. ASSUME NEW e \in G(m), NEW S \in xs[m + 1]
      PROVE  U(e, m) \cup S \in FirstUnions(xs, m + 1)
  <2> DEFINE f == [i \in 1..m + 1 |-> IF i = m + 1 THEN S ELSE e[i]]
  <2>1. f \in G(m + 1)
    <3>1. f \in [1..m + 1 -> A]
      BY <1>1
    <3>2. \A i \in 1..m + 1 : f[i] \in xs[i]
      BY <1>1
    <3> QED
      BY <3>1, <3>2
  <2>2. U(f, m + 1) = U(e, m) \cup S
    <3>1. {f[i] : i \in 1..m + 1} = {e[i] : i \in 1..m} \cup {S}
      BY <1>1
    <3> QED
      BY <3>1
  <2> HIDE DEF f
  <2>3. U(f, m + 1) \in FirstUnions(xs, m + 1)
    BY <2>1 DEF FirstUnions, A
  <2> QED
    BY <2>2, <2>3
<1>4. FirstUnions(xs, m + 1) \subseteq Unions(FirstUnions(xs, m), xs[m + 1])
  BY <1>2 DEF FirstUnions, A
<1>5. Unions(FirstUnions(xs, m), xs[m + 1]) \subseteq FirstUnions(xs, m + 1)
  <2>1. ASSUME NEW V \in FirstUnions(xs, m), NEW S \in xs[m + 1]
        PROVE  V \cup S \in FirstUnions(xs, m + 1)
    <3>1. PICK e \in G(m) : V = U(e, m)
      BY DEF FirstUnions, A
    <3> QED
      BY <1>3, <3>1
  <2>2. ASSUME NEW W \in Unions(FirstUnions(xs, m), xs[m + 1]) PROVE W \in FirstUnions(xs, m + 1)
    <3>1. PICK V \in FirstUnions(xs, m), S \in xs[m + 1] : W = V \cup S
      BY DEF Unions
    <3> QED
      BY <2>1, <3>1
  <2> QED
    BY <2>2
<1> QED
  BY <1>4, <1>5

\* ... and for an "and".
LEMMA AndCovers ==
  ASSUME NEW R, NEW operands, NEW xs, CoverEach(operands, xs, R)
  PROVE  Covers(EvaluateAnd(operands), Products(xs), R)
<1> DEFINE n == Len(operands)
<1>0. /\ operands \in Seq(Seq(States)) /\ n \in Nat /\ DOMAIN xs = 1..n
      /\ \A i \in 1..n : Covers(operands[i], xs[i], R)
  BY DEF CoverEach
<1>1. PICK h : EvaluateAndLoop(h, operands)
  BY <1>0, EvaluateAndTurns
<1> DEFINE T == {m \in 0..n : Covers(h[m], FirstUnions(xs, m), R)}
<1>3. 0 \in T
  <2>1. FirstUnions(xs, 0) = {{}}
    <3> DEFINE G == {g \in [1..0 -> UNION ToSet(xs)] : \A i \in 1..0 : g[i] \in xs[i]}
    <3>1. \A f \in G : UNION {f[i] : i \in 1..0} = {}
      OBVIOUS
    <3>2. [i \in 1..0 |-> {}] \in G
      OBVIOUS
    <3>3. FirstUnions(xs, 0) = {UNION {f[i] : i \in 1..0} : f \in G}
      BY DEF FirstUnions
    <3> HIDE DEF G
    <3> QED
      BY <3>1, <3>2, <3>3
  <2>2. Covers(h[0], FirstUnions(xs, 0), R)
    BY <1>1, <2>1, CoversEmpty DEF EvaluateAndLoop
  <2> QED
    BY <1>0, <2>2
<1>4. ASSUME NEW m \in 0..n - 1, m \in T PROVE m + 1 \in T
  <2>1. m + 1 \in 1..n /\ m + 1 \in 0..n /\ (m + 1) - 1 = m
    BY <1>0
  <2>2. Covers(operands[m + 1], xs[m + 1], R)
    BY <1>0, <2>1
  <2>3. h[m + 1] = Combine(h[m], operands[m + 1])
    BY <1>1, <2>1 DEF EvaluateAndLoop
  <2>4. FirstUnions(xs, m + 1) = Unions(FirstUnions(xs, m), xs[m + 1])
    BY <1>0, FirstUnionsNext
  <2>5. Covers(h[m], FirstUnions(xs, m), R)
    BY <1>4
  <2>6. Covers(h[m + 1], FirstUnions(xs, m + 1), R)
    BY <2>2, <2>3, <2>4, <2>5, CombineCovers
  <2> QED
    BY <2>1, <2>6
<1> HIDE DEF T, n
<1>5. 0..n \subseteq T
  BY <1>0, <1>3, <1>4, Induct
<1>6. FirstUnions(xs, n) = Products(xs)
  BY <1>0 DEF FirstUnions, Products
<1>7. Covers(h[n], FirstUnions(xs, n), R) /\ h[n] = EvaluateAnd(operands)
  BY <1>0, <1>1, <1>5 DEF T, n, EvaluateAndLoop
<1> QED
  BY <1>6, <1>7

-----------------------------------------------------------------------------
(* Expressions.                                                            *)

\* Every node is one of the language, and higher than those it is made of: no
\* set refers to itself (the parser and topologicalOrder refuse such a program).
WellRanked(p, rank) ==
  /\ \E b \in Nat : rank \in [DOMAIN p.nodes -> 0..b]
  /\ p.root \in [DOMAIN p.root -> DOMAIN p.nodes]
  /\ \A n \in DOMAIN p.nodes :
       \/ p.nodes[n].kind = "leaf" /\ p.nodes[n].model \in Models
       \/ /\ p.nodes[n].kind = "ref" /\ p.nodes[n].set \in DOMAIN p.root
          /\ rank[p.root[p.nodes[n].set]] < rank[n]
       \/ /\ p.nodes[n].kind \in {"or", "and"} /\ p.nodes[n].kids \in Seq(DOMAIN p.nodes)
          /\ \A k \in ToSet(p.nodes[n].kids) : rank[k] < rank[n]

\* What a recursion has for the operands of a node is a sequence.
LEMMA KidsIn ==
  ASSUME NEW N, NEW kids \in Seq(N), NEW D, NEW f, \A k \in ToSet(kids) : f[k] \in D
  PROVE  [i \in DOMAIN kids |-> f[kids[i]]] \in Seq(D)
<1>1. DOMAIN kids = 1..Len(kids) /\ Len(kids) \in Nat
  OBVIOUS
<1>2. \A i \in 1..Len(kids) : f[kids[i]] \in D
  BY <1>1 DEF ToSet
<1> QED
  BY <1>1, <1>2

AllowsStep(p, A, n) ==
  LET node == p.nodes[n] IN
  CASE node.kind = "leaf" -> {{node.model}}
    [] node.kind = "ref"  -> A[p.root[node.set]]
    [] node.kind = "or"   -> UNION {A[k] : k \in ToSet(node.kids)}
    [] node.kind = "and"  -> Products([i \in DOMAIN node.kids |-> A[node.kids[i]]])

LEMMA ProductsTyped ==
  ASSUME NEW xs \in Seq(SUBSET SUBSET Models)
  PROVE  Products(xs) \in SUBSET SUBSET Models
<1> SUFFICES ASSUME NEW f \in [DOMAIN xs -> UNION ToSet(xs)], \A i \in DOMAIN xs : f[i] \in xs[i]
             PROVE  UNION {f[i] : i \in DOMAIN xs} \in SUBSET Models
  BY DEF Products
<1>1. \A i \in DOMAIN xs : xs[i] \in SUBSET SUBSET Models
  OBVIOUS
<1>2. ASSUME NEW i \in DOMAIN xs PROVE f[i] \subseteq Models
  <2>1. f[i] \in xs[i] /\ xs[i] \subseteq SUBSET Models
    BY <1>1
  <2> QED
    BY <2>1
<1>3. {f[i] : i \in DOMAIN xs} \subseteq SUBSET Models
  BY <1>2
<1> QED
  BY <1>3

\* AllowedBy has, at each node, the value its definition says: the recursion goes
\* down the ranks.
LEMMA AllowedByIs ==
  ASSUME NEW p, NEW rank, WellRanked(p, rank)
  PROVE  \A n \in DOMAIN p.nodes : AllowedBy(p)[n] = AllowsStep(p, AllowedBy(p), n)
<1> DEFINE N == DOMAIN p.nodes
           D == SUBSET SUBSET Models
           g == [x \in N \X [N -> D] |-> AllowsStep(p, x[2], x[1])]
<1>1. PICK b \in Nat : rank \in [N -> 0..b]
  BY DEF WellRanked
<1>2. ASSUME NEW n \in N
      PROVE  /\ \A f \in [N -> D] : AllowsStep(p, f, n) \in D
             /\ \A f1, f2 \in [N -> D] :
                  (\A m \in N : rank[m] < rank[n] => f1[m] = f2[m])
                    => AllowsStep(p, f1, n) = AllowsStep(p, f2, n)
  <2>1. CASE p.nodes[n].kind = "leaf" /\ p.nodes[n].model \in Models
    BY <2>1 DEF AllowsStep
  <2>2. CASE /\ p.nodes[n].kind = "ref" /\ p.nodes[n].set \in DOMAIN p.root
             /\ rank[p.root[p.nodes[n].set]] < rank[n]
    <3>1. p.root[p.nodes[n].set] \in N
      BY <2>2 DEF WellRanked
    <3> HIDE DEF N, D
    <3> QED
      BY <2>2, <3>1 DEF AllowsStep
  <2>3. CASE /\ p.nodes[n].kind \in {"or", "and"} /\ p.nodes[n].kids \in Seq(N)
             /\ \A k \in ToSet(p.nodes[n].kids) : rank[k] < rank[n]
    <3> DEFINE kids == p.nodes[n].kids
               ops(f) == [i \in DOMAIN kids |-> f[kids[i]]]
    <3>1. \A i \in DOMAIN kids : kids[i] \in N /\ rank[kids[i]] < rank[n]
      BY <2>3 DEF ToSet
    <3>2. ASSUME NEW f \in [N -> D] PROVE AllowsStep(p, f, n) \in D
      <4>1. ops(f) \in Seq(D)
        BY <2>3, KidsIn, <3>1
      <4>2. UNION {f[k] : k \in ToSet(kids)} \in D
        BY <3>1 DEF ToSet
      <4>3. Products(ops(f)) \in D
        BY <4>1, ProductsTyped
      <4> QED
        BY <2>3, <4>2, <4>3 DEF AllowsStep
    <3>3. ASSUME NEW f1 \in [N -> D], NEW f2 \in [N -> D],
                 \A m \in N : rank[m] < rank[n] => f1[m] = f2[m]
          PROVE  AllowsStep(p, f1, n) = AllowsStep(p, f2, n)
      <4>1. ops(f1) = ops(f2)
        BY <3>1, <3>3
      <4>2. \A k \in ToSet(kids) : f1[k] = f2[k]
        BY <3>1, <3>3 DEF ToSet
      <4>3. UNION {f1[k] : k \in ToSet(kids)} = UNION {f2[k] : k \in ToSet(kids)}
        BY <4>2
      <4> QED
        BY <2>3, <4>1, <4>3 DEF AllowsStep
    <3> QED
      BY <3>2, <3>3
  <2> QED
    BY <2>1, <2>2, <2>3 DEF WellRanked
<1> HIDE DEF D
<1>3. Recursive(g, N, D, rank) /\ \A n \in N, f \in [N -> D] : g[<<n, f>>] = AllowsStep(p, f, n)
  BY <1>2 DEF Recursive
<1>4. {} \in D
  BY DEF D
<1> HIDE DEF N, g
<1>5. PICK f : Solves(f, g, N, D)
  BY <1>1, <1>3, <1>4, Recursion
<1>6. f = [n \in DOMAIN p.nodes |-> AllowsStep(p, f, n)]
  BY <1>3, <1>5 DEF Solves, N
<1>7. AllowedBy(p) = [n \in DOMAIN p.nodes |-> AllowsStep(p, AllowedBy(p), n)]
  BY <1>6 DEF AllowedBy, AllowsStep
<1> QED
  BY <1>7

EvaluateStep(p, R, E, n) ==
  LET node == p.nodes[n] IN
  CASE node.kind = "leaf" -> <<[mask |-> {node.model} \cap R, models |-> {node.model}]>>
    [] node.kind = "ref"  -> E[p.root[node.set]]
    [] node.kind = "or"   -> EvaluateOr([i \in DOMAIN node.kids |-> E[node.kids[i]]])
    [] node.kind = "and"  -> EvaluateAnd([i \in DOMAIN node.kids |-> E[node.kids[i]]])

LEMMA EvaluateOrTyped == \A ops \in Seq(Seq(States)) : EvaluateOr(ops) \in Seq(States)
<1> SUFFICES ASSUME NEW ops \in Seq(Seq(States)) PROVE EvaluateOr(ops) \in Seq(States)
  OBVIOUS
<1>1. PICK h : EvaluateOrLoop(h, ops)
  BY EvaluateOrTurns
<1>2. Len(ops) \in 0..Len(ops)
  OBVIOUS
<1> QED
  BY <1>1, <1>2 DEF EvaluateOrLoop

LEMMA EvaluateAndTyped == \A ops \in Seq(Seq(States)) : EvaluateAnd(ops) \in Seq(States)
<1> SUFFICES ASSUME NEW ops \in Seq(Seq(States)) PROVE EvaluateAnd(ops) \in Seq(States)
  OBVIOUS
<1>1. PICK h : EvaluateAndLoop(h, ops)
  BY EvaluateAndTurns
<1>2. Len(ops) \in 0..Len(ops)
  OBVIOUS
<1> QED
  BY <1>1, <1>2 DEF EvaluateAndLoop

\* So has Evaluate ...
LEMMA EvaluateIs ==
  ASSUME NEW p, NEW rank, WellRanked(p, rank), NEW R
  PROVE  \A n \in DOMAIN p.nodes : Evaluate(p, R)[n] = EvaluateStep(p, R, Evaluate(p, R), n)
<1> DEFINE N == DOMAIN p.nodes
           D == Seq(States)
           g == [x \in N \X [N -> D] |-> EvaluateStep(p, R, x[2], x[1])]
<1>1. PICK b \in Nat : rank \in [N -> 0..b]
  BY DEF WellRanked
<1>2. ASSUME NEW n \in N
      PROVE  /\ \A f \in [N -> D] : EvaluateStep(p, R, f, n) \in D
             /\ \A f1, f2 \in [N -> D] :
                  (\A m \in N : rank[m] < rank[n] => f1[m] = f2[m])
                    => EvaluateStep(p, R, f1, n) = EvaluateStep(p, R, f2, n)
  <2>1. CASE p.nodes[n].kind = "leaf" /\ p.nodes[n].model \in Models
    <3>1. [mask |-> {p.nodes[n].model} \cap R, models |-> {p.nodes[n].model}] \in States
      BY <2>1 DEF States
    <3> QED
      BY <2>1, <3>1 DEF EvaluateStep
  <2>2. CASE /\ p.nodes[n].kind = "ref" /\ p.nodes[n].set \in DOMAIN p.root
             /\ rank[p.root[p.nodes[n].set]] < rank[n]
    <3>1. p.root[p.nodes[n].set] \in N
      BY <2>2 DEF WellRanked
    <3> HIDE DEF N, D
    <3> QED
      BY <2>2, <3>1 DEF EvaluateStep
  <2>3. CASE /\ p.nodes[n].kind \in {"or", "and"} /\ p.nodes[n].kids \in Seq(N)
             /\ \A k \in ToSet(p.nodes[n].kids) : rank[k] < rank[n]
    <3> DEFINE kids == p.nodes[n].kids
               ops(f) == [i \in DOMAIN kids |-> f[kids[i]]]
    <3>1. \A i \in DOMAIN kids : kids[i] \in N /\ rank[kids[i]] < rank[n]
      BY <2>3 DEF ToSet
    <3>2. ASSUME NEW f \in [N -> D] PROVE EvaluateStep(p, R, f, n) \in D
      <4>1. ops(f) \in Seq(D)
        <5>1. kids \in Seq(N) /\ \A k \in ToSet(kids) : f[k] \in D
          BY <2>3, <3>1 DEF ToSet
        <5> HIDE DEF D, N, kids
        <5> QED
          BY <5>1, KidsIn
      <4>2. EvaluateOr(ops(f)) \in D
        BY <4>1, EvaluateOrTyped
      <4>3. EvaluateAnd(ops(f)) \in D
        BY <4>1, EvaluateAndTyped
      <4> QED
        BY <2>3, <4>2, <4>3 DEF EvaluateStep
    <3>3. ASSUME NEW f1 \in [N -> D], NEW f2 \in [N -> D],
                 \A m \in N : rank[m] < rank[n] => f1[m] = f2[m]
          PROVE  EvaluateStep(p, R, f1, n) = EvaluateStep(p, R, f2, n)
      <4>1. ops(f1) = ops(f2)
        BY <3>1, <3>3
      <4> QED
        BY <2>3, <4>1 DEF EvaluateStep
    <3> QED
      BY <3>2, <3>3
  <2> QED
    BY <2>1, <2>2, <2>3 DEF WellRanked
<1> HIDE DEF D
<1>3. Recursive(g, N, D, rank) /\ \A n \in N, f \in [N -> D] : g[<<n, f>>] = EvaluateStep(p, R, f, n)
  BY <1>2 DEF Recursive
<1>4. <<>> \in D
  BY DEF D
<1> HIDE DEF N, g
<1>5. PICK f : Solves(f, g, N, D)
  BY <1>1, <1>3, <1>4, Recursion
<1>6. f = [n \in DOMAIN p.nodes |-> EvaluateStep(p, R, f, n)]
  BY <1>3, <1>5 DEF Solves, N
<1>7. Evaluate(p, R) = [n \in DOMAIN p.nodes |-> EvaluateStep(p, R, Evaluate(p, R), n)]
  BY <1>6 DEF Evaluate, EvaluateStep
<1> QED
  BY <1>7

CollectStep(p, S, n) ==
  CASE p.nodes[n].kind = "leaf" -> {p.nodes[n].model}
    [] p.nodes[n].kind = "ref"  -> S[p.root[p.nodes[n].set]]
    [] OTHER -> UNION {S[k] : k \in ToSet(p.nodes[n].kids)}

\* ... and Collect.
LEMMA CollectIs ==
  ASSUME NEW p, NEW rank, WellRanked(p, rank)
  PROVE  \A n \in DOMAIN p.nodes : Collect(p)[n] = CollectStep(p, Collect(p), n)
<1> DEFINE N == DOMAIN p.nodes
           D == SUBSET Models
           g == [x \in N \X [N -> D] |-> CollectStep(p, x[2], x[1])]
<1>1. PICK b \in Nat : rank \in [N -> 0..b]
  BY DEF WellRanked
<1>2. ASSUME NEW n \in N
      PROVE  /\ \A f \in [N -> D] : CollectStep(p, f, n) \in D
             /\ \A f1, f2 \in [N -> D] :
                  (\A m \in N : rank[m] < rank[n] => f1[m] = f2[m])
                    => CollectStep(p, f1, n) = CollectStep(p, f2, n)
  <2>1. CASE p.nodes[n].kind = "leaf" /\ p.nodes[n].model \in Models
    BY <2>1 DEF CollectStep
  <2>2. CASE /\ p.nodes[n].kind = "ref" /\ p.nodes[n].set \in DOMAIN p.root
             /\ rank[p.root[p.nodes[n].set]] < rank[n]
    <3>1. p.root[p.nodes[n].set] \in N
      BY <2>2 DEF WellRanked
    <3> HIDE DEF N, D
    <3> QED
      BY <2>2, <3>1 DEF CollectStep
  <2>3. CASE /\ p.nodes[n].kind \in {"or", "and"} /\ p.nodes[n].kids \in Seq(N)
             /\ \A k \in ToSet(p.nodes[n].kids) : rank[k] < rank[n]
    <3> DEFINE kids == p.nodes[n].kids
    <3>1. \A k \in ToSet(kids) : k \in N /\ rank[k] < rank[n]
      BY <2>3 DEF ToSet
    <3>2. ASSUME NEW f \in [N -> D] PROVE CollectStep(p, f, n) \in D
      BY <2>3, <3>1 DEF CollectStep
    <3>3. ASSUME NEW f1 \in [N -> D], NEW f2 \in [N -> D],
                 \A m \in N : rank[m] < rank[n] => f1[m] = f2[m]
          PROVE  CollectStep(p, f1, n) = CollectStep(p, f2, n)
      <4>1. \A k \in ToSet(kids) : f1[k] = f2[k]
        BY <3>1, <3>3
      <4>2. UNION {f1[k] : k \in ToSet(kids)} = UNION {f2[k] : k \in ToSet(kids)}
        BY <4>1
      <4> QED
        BY <2>3, <4>2 DEF CollectStep
    <3> QED
      BY <3>2, <3>3
  <2> QED
    BY <2>1, <2>2, <2>3 DEF WellRanked
<1> HIDE DEF D
<1>3. Recursive(g, N, D, rank) /\ \A n \in N, f \in [N -> D] : g[<<n, f>>] = CollectStep(p, f, n)
  BY <1>2 DEF Recursive
<1>4. {} \in D
  BY DEF D
<1> HIDE DEF N, g
<1>5. PICK f : Solves(f, g, N, D)
  BY <1>1, <1>3, <1>4, Recursion
<1>6. f = [n \in DOMAIN p.nodes |-> CollectStep(p, f, n)]
  BY <1>3, <1>5 DEF Solves, N
<1>7. Collect(p) = [n \in DOMAIN p.nodes |-> CollectStep(p, Collect(p), n)]
  <2> DEFINE k == CHOOSE h : h = [n \in DOMAIN p.nodes |-> CollectStep(p, h, n)]
  <2>1. Collect(p) = k
    BY DEF Collect, CollectStep
  <2>2. k = [n \in DOMAIN p.nodes |-> CollectStep(p, k, n)]
    BY <1>6
  <2> HIDE DEF k
  <2> QED
    BY <2>1, <2>2
<1> QED
  BY <1>7

LEMMA RankIsNat == \A p, rank : WellRanked(p, rank) => rank \in [DOMAIN p.nodes -> Nat]
<1> SUFFICES ASSUME NEW p, NEW rank, WellRanked(p, rank) PROVE rank \in [DOMAIN p.nodes -> Nat]
  OBVIOUS
<1>1. PICK b \in Nat : rank \in [DOMAIN p.nodes -> 0..b]
  BY DEF WellRanked
<1> QED
  BY <1>1

\* A leaf allows its model.
LEMMA CoversLeaf ==
  ASSUME NEW m \in Models, NEW R
  PROVE  Covers(<<[mask |-> {m} \cap R, models |-> {m}]>>, {{m}}, R)
<1> DEFINE s == [mask |-> {m} \cap R, models |-> {m}]
<1>1. s \in States /\ s.mask = {m} \cap R /\ s.models = {m}
  BY DEF States
<1> HIDE DEF s
<1>2. ToSet(<<s>>) = {s} /\ <<s>> \in Seq(States)
  BY <1>1 DEF ToSet
<1>3. Covers(<<s>>, {{m}}, R)
  BY <1>1, <1>2 DEF Covers
<1> QED
  BY <1>3 DEF s

\* What evaluate keeps of an expression stands for all that it allows.
THEOREM EvaluateCovers ==
  ASSUME NEW p, NEW rank, WellRanked(p, rank), NEW R
  PROVE  \A n \in DOMAIN p.nodes : Covers(Evaluate(p, R)[n], AllowedBy(p)[n], R)
<1> DEFINE N == DOMAIN p.nodes
           E == Evaluate(p, R)
           A == AllowedBy(p)
           T == {n \in N : Covers(E[n], A[n], R)}
<1>1. rank \in [N -> Nat]
  BY RankIsNat
<1>2. \A n \in N : E[n] = EvaluateStep(p, R, E, n) /\ A[n] = AllowsStep(p, A, n)
  BY EvaluateIs, AllowedByIs
<1> HIDE DEF E, A
<1>3. ASSUME NEW n \in N, \A m \in N : rank[m] < rank[n] => m \in T PROVE n \in T
  <2>1. CASE p.nodes[n].kind = "leaf" /\ p.nodes[n].model \in Models
    <3> DEFINE m == p.nodes[n].model
    <3>1. E[n] = <<[mask |-> {m} \cap R, models |-> {m}]>>
      BY <1>2, <2>1 DEF EvaluateStep
    <3>2. A[n] = {{m}}
      BY <1>2, <2>1 DEF AllowsStep
    <3> QED
      BY <2>1, <3>1, <3>2, CoversLeaf
  <2>2. CASE /\ p.nodes[n].kind = "ref" /\ p.nodes[n].set \in DOMAIN p.root
             /\ rank[p.root[p.nodes[n].set]] < rank[n]
    <3> DEFINE m == p.root[p.nodes[n].set]
    <3>1. m \in N /\ m \in T
      BY <1>3, <2>2 DEF WellRanked
    <3>2. E[n] = E[m] /\ A[n] = A[m]
      BY <1>2, <2>2 DEF EvaluateStep, AllowsStep
    <3> QED
      BY <3>1, <3>2
  <2>3. CASE /\ p.nodes[n].kind \in {"or", "and"} /\ p.nodes[n].kids \in Seq(N)
             /\ \A k \in ToSet(p.nodes[n].kids) : rank[k] < rank[n]
    <3> DEFINE kids == p.nodes[n].kids
               operands == [i \in DOMAIN kids |-> E[kids[i]]]
               xs == [i \in DOMAIN kids |-> A[kids[i]]]
    <3>1. kids \in Seq(N) /\ \A i \in DOMAIN kids : kids[i] \in T
      BY <1>3, <2>3 DEF ToSet
    <3>2. CoverEach(operands, xs, R)
      <4>1. DOMAIN kids = 1..Len(kids) /\ Len(kids) \in Nat
        BY <3>1
      <4>2. ASSUME NEW i \in 1..Len(kids) PROVE Covers(E[kids[i]], A[kids[i]], R)
        BY <3>1, <4>1
      <4>3. \A i \in 1..Len(kids) : E[kids[i]] \in Seq(States)
        BY <4>2 DEF Covers
      <4> HIDE DEF kids
      <4>4. operands \in Seq(Seq(States)) /\ Len(operands) = Len(kids)
        BY <4>1, <4>3
      <4> QED
        BY <4>1, <4>2, <4>4 DEF CoverEach
    <3>3. CASE p.nodes[n].kind = "or"
      <4>1. E[n] = EvaluateOr(operands)
        BY <1>2, <3>3 DEF EvaluateStep
      <4>2. A[n] = UNION {A[k] : k \in ToSet(kids)}
        BY <1>2, <3>3 DEF AllowsStep
      <4>3. A[n] = UNION ToSet(xs)
        <5>1. ToSet(kids) = {kids[i] : i \in DOMAIN kids}
          BY DEF ToSet
        <5>2. ToSet(xs) = {A[kids[i]] : i \in DOMAIN kids}
          BY DEF ToSet
        <5> HIDE DEF kids, xs
        <5>3. {A[k] : k \in {kids[i] : i \in DOMAIN kids}} = {A[kids[i]] : i \in DOMAIN kids}
          OBVIOUS
        <5> QED
          BY <4>2, <5>1, <5>2, <5>3
      <4> HIDE DEF operands, xs
      <4> QED
        BY <3>2, <4>1, <4>3, OrCovers
    <3>4. CASE p.nodes[n].kind = "and"
      <4>1. E[n] = EvaluateAnd(operands)
        BY <1>2, <3>4 DEF EvaluateStep
      <4>2. A[n] = Products(xs)
        BY <1>2, <3>4 DEF AllowsStep
      <4> HIDE DEF operands, xs
      <4> QED
        BY <3>2, <4>1, <4>2, AndCovers
    <3> QED
      BY <2>3, <3>3, <3>4
  <2> QED
    BY <2>1, <2>2, <2>3 DEF WellRanked
<1> HIDE DEF N, T
<1>4. N \subseteq T
  BY <1>1, <1>3, RankInduct
<1> QED
  BY <1>4 DEF N, T, E, A

\* What an expression allows is among the models that occur in it.
LEMMA AllowedAreCollected ==
  ASSUME NEW p, NEW rank, WellRanked(p, rank)
  PROVE  \A n \in DOMAIN p.nodes : \A S \in AllowedBy(p)[n] : S \subseteq Collect(p)[n]
<1> DEFINE N == DOMAIN p.nodes
           A == AllowedBy(p)
           C == Collect(p)
           T == {n \in N : \A S \in A[n] : S \subseteq C[n]}
<1>1. rank \in [N -> Nat]
  BY RankIsNat
<1>2. \A n \in N : A[n] = AllowsStep(p, A, n) /\ C[n] = CollectStep(p, C, n)
  BY AllowedByIs, CollectIs
<1> HIDE DEF A, C
<1>3. ASSUME NEW n \in N, \A m \in N : rank[m] < rank[n] => m \in T PROVE n \in T
  <2>1. CASE p.nodes[n].kind = "leaf" /\ p.nodes[n].model \in Models
    <3>1. A[n] = {{p.nodes[n].model}} /\ C[n] = {p.nodes[n].model}
      BY <1>2, <2>1 DEF AllowsStep, CollectStep
    <3> QED
      BY <3>1
  <2>2. CASE /\ p.nodes[n].kind = "ref" /\ p.nodes[n].set \in DOMAIN p.root
             /\ rank[p.root[p.nodes[n].set]] < rank[n]
    <3> DEFINE m == p.root[p.nodes[n].set]
    <3>1. m \in N /\ m \in T
      BY <1>3, <2>2 DEF WellRanked
    <3>2. A[n] = A[m] /\ C[n] = C[m]
      BY <1>2, <2>2 DEF AllowsStep, CollectStep
    <3> QED
      BY <3>1, <3>2
  <2>3. CASE /\ p.nodes[n].kind \in {"or", "and"} /\ p.nodes[n].kids \in Seq(N)
             /\ \A k \in ToSet(p.nodes[n].kids) : rank[k] < rank[n]
    <3> DEFINE kids == p.nodes[n].kids
               xs == [i \in DOMAIN kids |-> A[kids[i]]]
    <3>1. \A k \in ToSet(kids) : k \in T
      BY <1>3, <2>3 DEF ToSet
    <3>2. C[n] = UNION {C[k] : k \in ToSet(kids)}
      BY <1>2, <2>3 DEF CollectStep
    <3>3. CASE p.nodes[n].kind = "or"
      <4>1. A[n] = UNION {A[k] : k \in ToSet(kids)}
        BY <1>2, <3>3 DEF AllowsStep
      <4> QED
        BY <3>1, <3>2, <4>1
    <3>4. CASE p.nodes[n].kind = "and"
      <4>1. A[n] = Products(xs)
        BY <1>2, <3>4 DEF AllowsStep
      <4>2. ASSUME NEW S \in A[n] PROVE S \subseteq C[n]
        <5>1. PICK f \in [DOMAIN xs -> UNION ToSet(xs)] :
                (\A i \in DOMAIN xs : f[i] \in xs[i]) /\ S = UNION {f[i] : i \in DOMAIN xs}
          BY <4>1 DEF Products
        <5>2. ASSUME NEW i \in DOMAIN kids PROVE f[i] \subseteq C[n]
          <6>1. f[i] \in A[kids[i]] /\ kids[i] \in ToSet(kids)
            BY <5>1 DEF ToSet
          <6>2. f[i] \subseteq C[kids[i]]
            BY <3>1, <6>1
          <6> QED
            BY <3>2, <6>1, <6>2
        <5> QED
          BY <5>1, <5>2
      <4> QED
        BY <4>2
    <3> QED
      BY <2>3, <3>3, <3>4
  <2> QED
    BY <2>1, <2>2, <2>3 DEF WellRanked
<1> HIDE DEF N, T
<1>4. N \subseteq T
  BY <1>1, <1>3, RankInduct
<1> QED
  BY <1>4 DEF N, T, A, C

-----------------------------------------------------------------------------
(* CanContainAll and the candidates of Solve.                              *)

\* A compiled program: its expressions refer to each other without a circle, and
\* its order lists every set.
Compiled(p) ==
  /\ \E rank : WellRanked(p, rank)
  /\ p.order \in Seq(DOMAIN p.root) /\ ToSet(p.order) = DOMAIN p.root

\* The same for a set of the program.
LEMMA SetCovers ==
  ASSUME NEW p, Compiled(p), NEW R, NEW set \in DOMAIN p.root
  PROVE  /\ Covers(Evaluate(p, R)[p.root[set]], Allows(p, set), R)
         /\ \A S \in Allows(p, set) : S \subseteq Support(p, set)
<1>1. PICK rank : WellRanked(p, rank)
  BY DEF Compiled
<1>2. p.root[set] \in DOMAIN p.nodes
  BY <1>1 DEF WellRanked
<1> QED
  BY <1>1, <1>2, EvaluateCovers, AllowedAreCollected DEF Allows, Support

\* CanContainAll is true exactly of the models that an allowed set holds: the pruned
\* evaluation loses no combination.
THEOREM CanContainAllIs ==
  ASSUME NEW p, Compiled(p), NEW M \in SUBSET Models
  PROVE  CanContainAll(p, M) <=> M = {} \/ \E S \in AllowedSets(p) : M \subseteq S
<1> DEFINE E(set) == Evaluate(p, M)[p.root[set]]
<1>1. \A set \in DOMAIN p.root :
        Covers(E(set), Allows(p, set), M) /\ \A S \in Allows(p, set) : S \subseteq Support(p, set)
  BY SetCovers
<1>2. CanContainAll(p, M) <=> M = {} \/ \E set \in DOMAIN p.root :
        M \subseteq Support(p, set) /\ \E s \in ToSet(E(set)) : M \subseteq s.mask
  BY DEF CanContainAll, Compiled, ToSet
<1> HIDE DEF E
<1>3. ASSUME NEW set \in DOMAIN p.root, NEW s \in ToSet(E(set)), M \subseteq s.mask
      PROVE  \E S \in AllowedSets(p) : M \subseteq S
  <2>1. s.models \in Allows(p, set) /\ s.mask = s.models \cap M
    BY <1>1 DEF Covers
  <2>2. s.models \in AllowedSets(p) /\ M \subseteq s.models
    BY <1>3, <2>1 DEF AllowedSets
  <2> QED
    BY <2>2
<1>4. ASSUME NEW S \in AllowedSets(p), M \subseteq S
      PROVE  \E set \in DOMAIN p.root :
               M \subseteq Support(p, set) /\ \E s \in ToSet(E(set)) : M \subseteq s.mask
  <2>1. PICK set \in DOMAIN p.root : S \in Allows(p, set)
    BY DEF AllowedSets
  <2>2. PICK s \in ToSet(E(set)) : S \cap M \subseteq s.mask
    BY <1>1, <2>1 DEF Covers
  <2>3. S \subseteq Support(p, set)
    BY <1>1, <2>1
  <2> QED
    BY <1>4, <2>2, <2>3
<1> QED
  BY <1>2, <1>3, <1>4

\* FlattenSeq puts the sequences one after the other
FlattenStep(seqs, f, i) == IF i = 1 THEN seqs[i] ELSE f[i - 1] \o seqs[i]

\* What a concatenation holds.
LEMMA ConcatSet ==
  \A S : \A q, r \in Seq(S) : q \o r \in Seq(S) /\ ToSet(q \o r) = ToSet(q) \cup ToSet(r)
<1> SUFFICES ASSUME NEW S, NEW q \in Seq(S), NEW r \in Seq(S)
             PROVE  q \o r \in Seq(S) /\ ToSet(q \o r) = ToSet(q) \cup ToSet(r)
  OBVIOUS
<1> DEFINE ql == Len(q)
           rl == Len(r)
<1>1. /\ q \o r \in Seq(S) /\ Len(q \o r) = ql + rl /\ ql \in Nat /\ rl \in Nat
      /\ DOMAIN q = 1..ql /\ DOMAIN r = 1..rl /\ DOMAIN (q \o r) = 1..ql + rl
      /\ \A i \in 1..ql : (q \o r)[i] = q[i]
      /\ \A i \in ql + 1..ql + rl : (q \o r)[i] = r[i - ql]
  BY ConcatProperties
<1> HIDE DEF ql, rl
<1>2. ToSet(q \o r) \subseteq ToSet(q) \cup ToSet(r)
  <2>1. ASSUME NEW i \in 1..ql + rl PROVE (q \o r)[i] \in ToSet(q) \cup ToSet(r)
    <3>1. CASE i \in 1..ql
      BY <1>1, <3>1 DEF ToSet
    <3>2. CASE i \in ql + 1..ql + rl
      <4>1. i - ql \in 1..rl /\ (q \o r)[i] = r[i - ql]
        BY <1>1, <3>2
      <4> QED
        BY <1>1, <4>1 DEF ToSet
    <3> QED
      BY <1>1, <3>1, <3>2
  <2> QED
    BY <1>1, <2>1 DEF ToSet
<1>3. ToSet(q) \subseteq ToSet(q \o r)
  <2>1. \A i \in 1..ql : i \in 1..ql + rl /\ q[i] = (q \o r)[i]
    BY <1>1
  <2> QED
    BY <1>1, <2>1 DEF ToSet
<1>4. ToSet(r) \subseteq ToSet(q \o r)
  <2>1. \A i \in 1..rl : i + ql \in ql + 1..ql + rl /\ i + ql \in 1..ql + rl /\ (i + ql) - ql = i
    BY <1>1
  <2>2. ASSUME NEW i \in 1..rl PROVE r[i] \in ToSet(q \o r)
    <3>1. i + ql \in 1..ql + rl /\ r[i] = (q \o r)[i + ql]
      BY <1>1, <2>1
    <3> QED
      BY <1>1, <3>1 DEF ToSet
  <2> QED
    BY <1>1, <2>2 DEF ToSet
<1> QED
  BY <1>1, <1>2, <1>3, <1>4

\* FlattenSeq keeps all there is in the sequences.
LEMMA FlattenIs ==
  ASSUME NEW S, NEW seqs \in Seq(Seq(S))
  PROVE  /\ FlattenSeq(seqs) \in Seq(S)
         /\ ToSet(FlattenSeq(seqs)) = UNION {ToSet(seqs[i]) : i \in DOMAIN seqs}
<1> DEFINE n == Len(seqs)
           N == 1..n
           D == Seq(S)
           rank == [i \in N |-> i]
           g == [x \in N \X [N -> D] |-> FlattenStep(seqs, x[2], x[1])]
           k == CHOOSE f : f = [i \in 1..n |-> FlattenStep(seqs, f, i)]
<1>1. n \in Nat /\ DOMAIN seqs = N /\ \A i \in N : seqs[i] \in D
  OBVIOUS
<1>2. CASE n = 0
  <2>1. FlattenSeq(seqs) = <<>> /\ seqs = <<>>
    BY <1>2 DEF FlattenSeq
  <2> QED
    BY <2>1 DEF ToSet
<1>3. CASE n # 0
  <2>1. FlattenSeq(seqs) = k[n]
    BY <1>3 DEF FlattenSeq, FlattenStep
  <2>2. ASSUME NEW i \in N, NEW f \in [N -> D] PROVE FlattenStep(seqs, f, i) \in D
    <3>1. i # 1 => i - 1 \in N
      BY <1>1
    <3>2. i # 1 => f[i - 1] \o seqs[i] \in D
      BY <1>1, <3>1, ConcatSet
    <3> QED
      BY <1>1, <3>2 DEF FlattenStep
  <2>3. ASSUME NEW i \in N, NEW f1 \in [N -> D], NEW f2 \in [N -> D],
               \A j \in N : rank[j] < rank[i] => f1[j] = f2[j]
        PROVE  FlattenStep(seqs, f1, i) = FlattenStep(seqs, f2, i)
    <3>1. CASE i # 1
      <4>1. i - 1 \in N /\ rank[i - 1] < rank[i]
        BY <1>1, <3>1
      <4> QED
        BY <2>3, <4>1 DEF FlattenStep
    <3> QED
      BY <3>1 DEF FlattenStep
  <2>4. rank \in [N -> 0..n] /\ <<>> \in D
    BY <1>1
  <2> HIDE DEF rank, D
  <2>5. Recursive(g, N, D, rank) /\ \A i \in N, f \in [N -> D] : g[<<i, f>>] = FlattenStep(seqs, f, i)
    BY <2>2, <2>3 DEF Recursive
  <2> HIDE DEF N, g, n
  <2>6. PICK f : Solves(f, g, N, D)
    BY <1>1, <2>4, <2>5, Recursion
  <2>7. f = [i \in 1..n |-> FlattenStep(seqs, f, i)]
    BY <2>5, <2>6 DEF Solves, N
  <2>8. k = [i \in 1..n |-> FlattenStep(seqs, k, i)]
    BY <2>7
  <2> HIDE DEF k
  <2> DEFINE T == {m \in 0..n : m = 0 \/ /\ k[m] \in D
                                          /\ ToSet(k[m]) = UNION {ToSet(seqs[i]) : i \in 1..m}}
  <2>9. ASSUME NEW m \in 0..n - 1, m \in T PROVE m + 1 \in T
    <3>1. m + 1 \in 1..n /\ m + 1 \in 0..n /\ (m + 1) - 1 = m /\ seqs[m + 1] \in D
      BY <1>1 DEF N
    <3>2. k[m + 1] = FlattenStep(seqs, k, m + 1)
      BY <2>8, <3>1
    <3>3. UNION {ToSet(seqs[i]) : i \in 1..m + 1}
            = (UNION {ToSet(seqs[i]) : i \in 1..m}) \cup ToSet(seqs[m + 1])
      <4>1. {ToSet(seqs[i]) : i \in 1..m + 1} = {ToSet(seqs[i]) : i \in 1..m} \cup {ToSet(seqs[m + 1])}
        BY <3>1
      <4> QED
        BY <4>1
    <3>4. CASE m = 0
      <4>1. k[m + 1] = seqs[m + 1]
        BY <3>2, <3>4 DEF FlattenStep
      <4>2. UNION {ToSet(seqs[i]) : i \in 1..m} = {}
        BY <3>4
      <4>3. ToSet(k[m + 1]) = UNION {ToSet(seqs[i]) : i \in 1..m + 1}
        BY <3>3, <4>1, <4>2
      <4> QED
        BY <3>1, <4>1, <4>3
    <3>5. CASE m # 0
      <4>0. m + 1 # 1
        BY <3>1, <3>5
      <4>1. k[m + 1] = k[m] \o seqs[m + 1]
        BY <3>1, <3>2, <4>0 DEF FlattenStep
      <4>2. k[m] \in D /\ ToSet(k[m]) = UNION {ToSet(seqs[i]) : i \in 1..m}
        BY <2>9, <3>5
      <4>3. k[m + 1] \in D /\ ToSet(k[m + 1]) = ToSet(k[m]) \cup ToSet(seqs[m + 1])
        BY <3>1, <4>1, <4>2, ConcatSet DEF D
      <4> QED
        BY <3>1, <3>3, <4>2, <4>3
    <3> QED
      BY <3>4, <3>5
  <2>10. 0 \in T
    BY <1>1
  <2> HIDE DEF T
  <2>11. 0..n \subseteq T
    BY <1>1, <2>9, <2>10, Induct
  <2>12. n \in T
    BY <1>1, <2>11
  <2>13. k[n] \in D /\ ToSet(k[n]) = UNION {ToSet(seqs[i]) : i \in 1..n}
    BY <1>3, <2>12 DEF T
  <2> QED
    BY <1>1, <2>1, <2>13 DEF D, N
<1> QED
  BY <1>2, <1>3

\* Every combination holds the target and is of one of the sets, and every set
\* with the target has a combination that keeps as much.
CoversWith(states, sets, target, R) ==
  /\ states \in Seq(States)
  /\ \A s \in ToSet(states) : s.models \in sets /\ target \in s.models /\ s.mask = s.models \cap R
  /\ \A S \in sets : target \in S => \E s \in ToSet(states) : S \cap R \subseteq s.mask

\* what Solve tries of a set
Tried(p, target, R, set) ==
  IF target \notin Support(p, set) THEN <<>>
  ELSE Kept(Evaluate(p, R)[p.root[set]],
            {s \in ToSet(Evaluate(p, R)[p.root[set]]) : target \notin s.mask})

\* What Solve tries of a set holds the target and covers the combinations with it.
LEMMA TriedIs ==
  ASSUME NEW p, Compiled(p), NEW R, NEW target \in R, NEW set \in DOMAIN p.root
  PROVE  CoversWith(Tried(p, target, R, set), Allows(p, set), target, R)
<1> USE DEF CoversWith
<1> DEFINE E == Evaluate(p, R)[p.root[set]]
           gone == {s \in ToSet(E) : target \notin s.mask}
<1>1. Covers(E, Allows(p, set), R) /\ \A S \in Allows(p, set) : S \subseteq Support(p, set)
  BY SetCovers
<1>2. Tried(p, target, R, set) = IF target \notin Support(p, set) THEN <<>> ELSE Kept(E, gone)
  BY DEF Tried
<1> HIDE DEF E
<1>3. Kept(E, gone) \in Seq(States) /\ ToSet(Kept(E, gone)) = ToSet(E) \ gone
  <2> HIDE DEF gone
  <2> QED
    BY <1>1, KeptIs DEF Covers
<1>4. CASE target \notin Support(p, set)
  BY <1>1, <1>2, <1>4 DEF ToSet
<1>5. CASE target \in Support(p, set)
  <2>1. \A s \in ToSet(E) \ gone : s.models \in Allows(p, set) /\ target \in s.models /\ s.mask = s.models \cap R
    BY <1>1 DEF Covers
  <2>2. ASSUME NEW S \in Allows(p, set), target \in S
        PROVE  \E s \in ToSet(E) \ gone : S \cap R \subseteq s.mask
    BY <1>1, <2>2 DEF Covers
  <2> QED
    BY <1>2, <1>3, <1>5, <2>1, <2>2
<1> QED
  BY <1>4, <1>5

\* So do all the candidates.
LEMMA CandidatesAre ==
  ASSUME NEW p, Compiled(p), NEW target, NEW up
  PROVE  CoversWith(Candidates(p, target, up), AllowedSets(p), target, up \cup {target})
<1> DEFINE R == up \cup {target}
           seqs == [i \in DOMAIN p.order |-> Tried(p, target, R, p.order[i])]
           states == FlattenSeq(seqs)
<1>1. Candidates(p, target, up) = states
  BY DEF Candidates, Tried
<1>2. target \in R
  OBVIOUS
<1> HIDE DEF R
<1>3. /\ DOMAIN p.order = 1..Len(p.order) /\ Len(p.order) \in Nat
      /\ \A i \in DOMAIN p.order : p.order[i] \in DOMAIN p.root
      /\ \A set \in DOMAIN p.root : \E i \in DOMAIN p.order : set = p.order[i]
  BY DEF Compiled, ToSet
<1>4. \A set \in DOMAIN p.root : CoversWith(Tried(p, target, R, set), Allows(p, set), target, R)
  BY <1>2, TriedIs
<1>5. seqs \in Seq(Seq(States)) /\ DOMAIN seqs = DOMAIN p.order
  <2>1. \A i \in DOMAIN p.order : Tried(p, target, R, p.order[i]) \in Seq(States)
    BY <1>3, <1>4 DEF CoversWith
  <2> QED
    BY <1>3, <2>1
<1>6. states \in Seq(States) /\ ToSet(states) = UNION {ToSet(seqs[i]) : i \in DOMAIN seqs}
  <2> HIDE DEF seqs
  <2> QED
    BY <1>5, FlattenIs
<1>7. ToSet(states) = UNION {ToSet(Tried(p, target, R, p.order[i])) : i \in DOMAIN p.order}
  BY <1>5, <1>6
<1> HIDE DEF states, seqs
<1>8. ASSUME NEW s \in ToSet(states)
      PROVE  s.models \in AllowedSets(p) /\ target \in s.models /\ s.mask = s.models \cap R
  <2>1. PICK set \in DOMAIN p.root : s \in ToSet(Tried(p, target, R, set))
    BY <1>3, <1>7
  <2> QED
    BY <1>4, <2>1 DEF AllowedSets, CoversWith
<1>9. ASSUME NEW S \in AllowedSets(p), target \in S
      PROVE  \E s \in ToSet(states) : S \cap R \subseteq s.mask
  <2>1. PICK set \in DOMAIN p.root : S \in Allows(p, set)
    BY DEF AllowedSets
  <2>2. PICK s \in ToSet(Tried(p, target, R, set)) : S \cap R \subseteq s.mask
    BY <1>4, <1>9, <2>1 DEF CoversWith
  <2> QED
    BY <1>3, <1>7, <2>2
<1>10. CoversWith(states, AllowedSets(p), target, R)
  BY <1>6, <1>8, <1>9 DEF CoversWith
<1> QED
  BY <1>1, <1>10 DEF R

-----------------------------------------------------------------------------
(* What evictions cost.                                                    *)

\* finitely many models whose costs are numbers
Priced(c, E) == IsFiniteSet(E) /\ \A m \in E : c[m] \in Nat

\* the sum, one element after the other, over the subsets of E
Totals(f, c, E) ==
  /\ f \in [SUBSET E -> Nat]
  /\ \A s \in SUBSET E :
       f[s] = IF s = {} THEN 0 ELSE c[CHOOSE x \in s : TRUE] + f[s \ {CHOOSE x \in s : TRUE}]

\* There are such totals.
LEMMA TotalsExist ==
  ASSUME NEW E, NEW c, Priced(c, E)
  PROVE  \E f : Totals(f, c, E)
<1> USE DEF Priced
<1> DEFINE ch == [s \in SUBSET E |-> CHOOSE x \in s : TRUE]
           g == [x \in Nat \X E |-> c[x[2]] + x[1]]
<1>1. \A s \in SUBSET E : s # {} => ch[s] \in s
  OBVIOUS
<1>2. g \in [Nat \X E -> Nat] /\ \A i \in Nat, m \in E : g[<<i, m>>] = c[m] + i
  OBVIOUS
<1>3. \A s \in SUBSET E : ch[s] = CHOOSE x \in s : TRUE
  OBVIOUS
<1> HIDE DEF g, ch
<1>4. PICK f : Folds(f, g, 0, ch, E, Nat)
  BY <1>1, <1>2, FoldExists
<1>5. ASSUME NEW s \in SUBSET E, s # {} PROVE f[s] = c[ch[s]] + f[s \ {ch[s]}]
  <2>1. ch[s] \in E /\ s \ {ch[s]} \in SUBSET E
    BY <1>1, <1>5
  <2>2. f[s \ {ch[s]}] \in Nat
    BY <1>4, <2>1 DEF Folds
  <2> QED
    BY <1>2, <1>4, <1>5, <2>1, <2>2 DEF Folds
<1>6. Totals(f, c, E)
  BY <1>3, <1>4, <1>5 DEF Folds, Totals
<1> QED
  BY <1>6

\* EvictionCost is the total of the evicted.
LEMMA CostIs ==
  ASSUME NEW E, NEW c, Priced(c, E)
  PROVE  \E f : Totals(f, c, E) /\ EvictionCost(c, E) = f[E]
<1> USE DEF Priced
<1> DEFINE k == CHOOSE iter : iter = [s \in SUBSET E |->
                  IF s = {} THEN 0 ELSE c[CHOOSE x \in s : TRUE] + iter[s \ {CHOOSE x \in s : TRUE}]]
<1>1. EvictionCost(c, E) = k[E]
  BY DEF EvictionCost, MapThenSumSet, MapThenFoldSet
<1>2. PICK f : Totals(f, c, E)
  <2> HIDE DEF Priced
  <2> QED
    BY TotalsExist
<1>3. f = [s \in SUBSET E |->
             IF s = {} THEN 0 ELSE c[CHOOSE x \in s : TRUE] + f[s \ {CHOOSE x \in s : TRUE}]]
  BY <1>2 DEF Totals
<1>4. k = [s \in SUBSET E |->
             IF s = {} THEN 0 ELSE c[CHOOSE x \in s : TRUE] + k[s \ {CHOOSE x \in s : TRUE}]]
  BY <1>3
<1> HIDE DEF k
<1> DEFINE N == SUBSET E
           rank == [s \in N |-> Cardinality(s)]
           T == {s \in N : k[s] = f[s]}
<1>5. ASSUME NEW s \in N, \A t \in N : rank[t] < rank[s] => t \in T PROVE s \in T
  <2>1. CASE s = {}
    BY <1>2, <1>4, <2>1 DEF Totals
  <2>2. CASE s # {}
    <3> DEFINE x == CHOOSE x \in s : TRUE
    <3>1. x \in s /\ IsFiniteSet(s)
      BY <2>2, FS_Subset
    <3>2. k[s] = c[x] + k[s \ {x}] /\ f[s] = c[x] + f[s \ {x}]
      BY <1>2, <1>4, <2>2 DEF Totals
    <3> HIDE DEF x
    <3>3. Cardinality(s \ {x}) = Cardinality(s) - 1 /\ Cardinality(s) \in Nat
      BY <3>1, FS_RemoveElement, FS_CardinalityType
    <3>4. s \ {x} \in N /\ rank[s \ {x}] < rank[s]
      BY <3>3
    <3>5. s \ {x} \in T
      BY <1>5, <3>4
    <3> QED
      BY <3>2, <3>5
  <2> QED
    BY <2>1, <2>2
<1>6. rank \in [N -> Nat]
  BY FS_Subset, FS_CardinalityType
<1> HIDE DEF N, rank, T
<1>7. N \subseteq T
  BY <1>5, <1>6, RankInduct
<1>8. k[E] = f[E]
  BY <1>7 DEF N, T
<1> QED
  BY <1>1, <1>2, <1>8

\* EvictionCost is a number.
LEMMA CostIn ==
  ASSUME NEW E, NEW c, Priced(c, E),
         NEW f, Totals(f, c, E), NEW A \in SUBSET E
  PROVE  EvictionCost(c, A) = f[A]
<1> USE DEF Priced
<1>1. IsFiniteSet(A) /\ Priced(c, A)
  BY FS_Subset
<1>2. PICK k : Totals(k, c, A) /\ EvictionCost(c, A) = k[A]
  BY <1>1, CostIs
<1> DEFINE N == SUBSET A
           rank == [s \in N |-> Cardinality(s)]
           T == {s \in N : k[s] = f[s]}
<1>3. ASSUME NEW s \in N, \A t \in N : rank[t] < rank[s] => t \in T PROVE s \in T
  <2>1. CASE s = {}
    BY <1>2, <2>1 DEF Totals
  <2>2. CASE s # {}
    <3> DEFINE x == CHOOSE x \in s : TRUE
    <3>1. x \in s /\ IsFiniteSet(s)
      BY <1>1, <2>2, FS_Subset
    <3>2. k[s] = c[x] + k[s \ {x}] /\ f[s] = c[x] + f[s \ {x}]
      BY <1>2, <2>2 DEF Totals
    <3> HIDE DEF x
    <3>3. Cardinality(s \ {x}) = Cardinality(s) - 1 /\ Cardinality(s) \in Nat
      BY <3>1, FS_RemoveElement, FS_CardinalityType
    <3>4. s \ {x} \in N /\ rank[s \ {x}] < rank[s]
      BY <3>3
    <3>5. s \ {x} \in T
      BY <1>3, <3>4
    <3> QED
      BY <3>2, <3>5
  <2> QED
    BY <2>1, <2>2
<1>4. rank \in [N -> Nat]
  BY <1>1, FS_Subset, FS_CardinalityType
<1> HIDE DEF N, rank, T
<1>5. N \subseteq T
  BY <1>3, <1>4, RankInduct
<1> QED
  BY <1>2, <1>5 DEF N, T

\* The order of the sum does not matter.
LEMMA TotalsRemove ==
  ASSUME NEW E, NEW c, Priced(c, E), NEW f, Totals(f, c, E)
  PROVE  \A s \in SUBSET E : \A x \in s : f[s] = c[x] + f[s \ {x}]
<1> USE DEF Priced
<1> DEFINE N == SUBSET E
           rank == [s \in N |-> Cardinality(s)]
           T == {s \in N : \A x \in s : f[s] = c[x] + f[s \ {x}]}
<1>1. \A s \in N : f[s] \in Nat
  BY DEF Totals
<1>2. ASSUME NEW s \in N, \A t \in N : rank[t] < rank[s] => t \in T PROVE s \in T
  <2> SUFFICES ASSUME NEW x \in s PROVE f[s] = c[x] + f[s \ {x}]
    OBVIOUS
  <2> DEFINE y == CHOOSE y \in s : TRUE
  <2>1. y \in s /\ IsFiniteSet(s) /\ f[s] = c[y] + f[s \ {y}]
    BY FS_Subset DEF Totals
  <2> HIDE DEF y
  <2>2. CASE x = y
    BY <2>1, <2>2
  <2>3. CASE x # y
    <3> DEFINE u == (s \ {x}) \ {y}
    <3>1. /\ Cardinality(s \ {x}) = Cardinality(s) - 1 /\ Cardinality(s) \in Nat
          /\ Cardinality(s \ {y}) = Cardinality(s) - 1
      BY <2>1, FS_RemoveElement, FS_CardinalityType
    <3>2. s \ {x} \in N /\ s \ {y} \in N /\ rank[s \ {x}] < rank[s] /\ rank[s \ {y}] < rank[s]
      BY <3>1
    <3>3. s \ {x} \in T /\ s \ {y} \in T
      BY <1>2, <3>2
    <3>4. f[s \ {x}] = c[y] + f[u]
      BY <2>1, <2>3, <3>3
    <3>5. f[s \ {y}] = c[x] + f[u]
      <4>1. (s \ {y}) \ {x} = u
        OBVIOUS
      <4>2. f[s \ {y}] = c[x] + f[(s \ {y}) \ {x}]
        BY <2>3, <3>3
      <4> QED
        BY <4>1, <4>2
    <3>6. c[x] \in Nat /\ c[y] \in Nat /\ f[u] \in Nat
      BY <1>1, <2>1
    <3> HIDE DEF u
    <3> QED
      BY <2>1, <3>4, <3>5, <3>6
  <2> QED
    BY <2>2, <2>3
<1>3. rank \in [N -> Nat]
  BY FS_Subset, FS_CardinalityType
<1> HIDE DEF N, rank, T
<1>4. N \subseteq T
  BY <1>2, <1>3, RankInduct
<1> QED
  BY <1>4 DEF N, T

\* Evicting fewer is no dearer.
LEMMA CostMonotone ==
  ASSUME NEW E, NEW c, Priced(c, E), NEW A \in SUBSET E
  PROVE  EvictionCost(c, A) \in Nat /\ EvictionCost(c, E) \in Nat
         /\ EvictionCost(c, A) <= EvictionCost(c, E)
<1> USE DEF Priced
<1>1. PICK f : Totals(f, c, E)
  <2> HIDE DEF Priced
  <2> QED
    BY TotalsExist
<1>2. \A s \in SUBSET E : EvictionCost(c, s) = f[s] /\ f[s] \in Nat
  <2>1. ASSUME NEW s \in SUBSET E PROVE EvictionCost(c, s) = f[s]
    <3> HIDE DEF Priced
    <3> QED
      BY <1>1, CostIn
  <2> QED
    BY <1>1, <2>1 DEF Totals
<1>3. ASSUME NEW s \in SUBSET E, NEW x \in s PROVE f[s] = c[x] + f[s \ {x}]
  <2> HIDE DEF Priced
  <2> QED
    BY <1>1, TotalsRemove
<1> DEFINE N == SUBSET E
           rank == [s \in N |-> Cardinality(s)]
           T == {s \in N : A \subseteq s => f[A] <= f[s]}
<1>4. ASSUME NEW s \in N, \A t \in N : rank[t] < rank[s] => t \in T PROVE s \in T
  <2>1. CASE ~(A \subseteq s) \/ A = s
    BY <1>2, <2>1
  <2>2. CASE A \subseteq s /\ A # s
    <3>1. PICK x \in s : x \notin A
      BY <2>2
    <3>2. Cardinality(s \ {x}) = Cardinality(s) - 1 /\ Cardinality(s) \in Nat
      BY FS_Subset, FS_RemoveElement, FS_CardinalityType
    <3>3. s \ {x} \in N /\ rank[s \ {x}] < rank[s]
      BY <3>2
    <3>4. f[A] <= f[s \ {x}]
      BY <1>4, <2>2, <3>1, <3>3
    <3>5. f[s] = c[x] + f[s \ {x}] /\ c[x] \in Nat /\ f[s \ {x}] \in Nat /\ f[A] \in Nat
      BY <1>2, <1>3, <3>3
    <3> QED
      BY <3>4, <3>5
  <2> QED
    BY <2>1, <2>2
<1>5. rank \in [N -> Nat]
  BY FS_Subset, FS_CardinalityType
<1> HIDE DEF N, rank, T
<1>6. N \subseteq T
  BY <1>4, <1>5, RankInduct
<1>7. f[A] <= f[E]
  BY <1>6 DEF N, T
<1> QED
  BY <1>2, <1>7

-----------------------------------------------------------------------------
(* Solve.                                                                  *)

\* what Best says, of a program, costs and running models
IsBest(d, p, c, target, up) ==
  LET sets == {S \in AllowedSets(p) : target \in S} IN
  IF target \in up THEN d.evict = {}
  ELSE /\ d.evict = up \ d.set
       /\ IF sets = {} THEN d.set = {target}
          ELSE /\ d.set \in sets
               /\ \A S \in sets : EvictionCost(c, d.evict) <= EvictionCost(c, up \ S)

\* i comes first among those with the least cost
IsFirst(i, costs, I) ==
  i \in I /\ \A j \in I : costs[i] < costs[j] \/ (costs[i] = costs[j] /\ i <= j)

\* There is a first.
LEMMA FirstExists ==
  ASSUME NEW n \in Nat, n # 0, NEW costs \in [1..n -> Nat]
  PROVE  \E i : IsFirst(i, costs, 1..n)
<1> DEFINE I == 1..n
           C == {costs[i] : i \in I}
<1>1. C \in SUBSET Nat /\ C # {}
  <2>1. 1 \in I
    OBVIOUS
  <2> QED
    BY <2>1
<1> HIDE DEF C
<1>2. PICK x \in C : \A y \in C : x <= y
  BY <1>1, Least
<1> DEFINE J == {i \in I : costs[i] = x}
<1>3. J \in SUBSET Nat /\ J # {}
  BY DEF C
<1> HIDE DEF J
<1>4. PICK i \in J : \A j \in J : i <= j
  BY <1>3, Least
<1>5. i \in I /\ costs[i] = x
  BY DEF J
<1>6. ASSUME NEW j \in I PROVE costs[i] < costs[j] \/ (costs[i] = costs[j] /\ i <= j)
  <2>1. x <= costs[j] /\ x \in Nat /\ costs[j] \in Nat
    BY <1>1, <1>2 DEF C
  <2>2. costs[j] = x => i <= j
    BY <1>4 DEF J
  <2> QED
    BY <1>5, <2>1, <2>2
<1> QED
  BY <1>5, <1>6 DEF IsFirst

\* Solve gives a best answer.
THEOREM SolveIsBest ==
  ASSUME NEW p, Compiled(p), NEW c, NEW up, Priced(c, up), NEW target
  PROVE  IsBest(Solve(p, c, target, up), p, c, target, up)
<1> DEFINE states == Candidates(p, target, up)
           R == up \cup {target}
           sets == {S \in AllowedSets(p) : target \in S}
           Cost(i) == EvictionCost(c, up \ states[i].mask)
           best == CHOOSE i \in DOMAIN states :
                     \A j \in DOMAIN states : Cost(i) < Cost(j) \/ (Cost(i) = Cost(j) /\ i <= j)
           answer == Solve(p, c, target, up)
<1>1. CoversWith(states, AllowedSets(p), target, R)
  BY CandidatesAre
<1>2. answer = CASE target \in up -> [evict |-> {}, set |-> up, cost |-> 0]
                 [] target \notin up /\ states = <<>> -> [evict |-> up, set |-> {target}, cost |-> 0]
                 [] OTHER -> [evict |-> up \ states[best].mask, set |-> states[best].models,
                              cost |-> Cost(best)]
  BY DEF Solve
<1> HIDE DEF states, answer
<1>3. CASE target \in up
  BY <1>2, <1>3 DEF IsBest, answer
<1>4. CASE target \notin up /\ states = <<>>
  <2>1. answer.evict = up /\ answer.set = {target} /\ up = up \ {target}
    BY <1>2, <1>4
  <2>2. sets = {}
    BY <1>1, <1>4 DEF CoversWith, ToSet
  <2> QED
    BY <1>4, <2>1, <2>2 DEF IsBest, answer
<1>5. CASE target \notin up /\ states # <<>>
  <2> DEFINE n == Len(states)
  <2>1. states \in Seq(States) /\ DOMAIN states = 1..n /\ n \in Nat /\ n # 0
    BY <1>1, <1>5 DEF CoversWith
  <2>2. ASSUME NEW i \in 1..n
        PROVE  /\ states[i].models \in sets /\ states[i].mask = states[i].models \cap R
               /\ up \ states[i].mask = up \ states[i].models
    BY <1>1, <2>1 DEF CoversWith, ToSet
  <2>3. ASSUME NEW A \in SUBSET up, NEW B \in SUBSET A
        PROVE  /\ EvictionCost(c, A) \in Nat /\ EvictionCost(c, B) \in Nat
               /\ EvictionCost(c, B) <= EvictionCost(c, A)
    <3>1. Priced(c, A)
      BY FS_Subset DEF Priced
    <3> QED
      BY <3>1, CostMonotone
  <2> HIDE DEF n, sets
  <2>4. best \in 1..n /\ \A j \in 1..n : Cost(best) <= Cost(j)
    <3> DEFINE costs == [i \in 1..n |-> Cost(i)]
    <3>1. \A i \in 1..n : Cost(i) \in Nat
      BY <2>3
    <3> HIDE DEF Cost
    <3>2. costs \in [1..n -> Nat]
      BY <3>1
    <3>3. \E i : IsFirst(i, costs, 1..n)
      <4> HIDE DEF costs
      <4> QED
        BY <2>1, <3>2, FirstExists
    <3>4. \E i \in DOMAIN states :
            \A j \in DOMAIN states : Cost(i) < Cost(j) \/ (Cost(i) = Cost(j) /\ i <= j)
      BY <2>1, <3>3 DEF IsFirst
    <3>5. best \in DOMAIN states
          /\ \A j \in DOMAIN states : Cost(best) < Cost(j) \/ (Cost(best) = Cost(j) /\ best <= j)
      BY <3>4
    <3> HIDE DEF best
    <3>6. best \in 1..n /\ Cost(best) \in Nat
      BY <2>1, <3>1, <3>5
    <3>7. ASSUME NEW j \in 1..n PROVE Cost(best) <= Cost(j)
      <4>1. Cost(j) \in Nat /\ (Cost(best) < Cost(j) \/ Cost(best) = Cost(j))
        BY <2>1, <3>1, <3>5
      <4> QED
        BY <3>6, <4>1
    <3> QED
      BY <3>6, <3>7
  <2> HIDE DEF best
  <2>5. answer.evict = up \ states[best].mask /\ answer.set = states[best].models
    BY <1>2, <1>5
  <2>6. answer.set \in sets /\ answer.evict = up \ answer.set
    BY <2>2, <2>4, <2>5
  <2>7. ASSUME NEW S \in sets PROVE EvictionCost(c, answer.evict) <= EvictionCost(c, up \ S)
    <3>1. PICK j \in 1..n : S \cap R \subseteq states[j].mask
      BY <1>1, <2>1 DEF CoversWith, ToSet, sets
    <3>2. up \ states[j].mask \subseteq up \ S
      BY <3>1
    <3>3. Cost(best) <= Cost(j)
      BY <2>4
    <3>4. Cost(best) \in Nat /\ Cost(j) \in Nat
      BY <2>3
    <3>5. EvictionCost(c, up \ S) \in Nat /\ Cost(j) <= EvictionCost(c, up \ S)
      BY <2>3, <3>2
    <3> HIDE DEF Cost
    <3>6. Cost(best) <= EvictionCost(c, up \ S)
      BY <3>3, <3>4, <3>5
    <3> QED
      BY <2>5, <3>6 DEF Cost
  <2> QED
    BY <1>5, <2>6, <2>7 DEF IsBest, answer, sets
<1> QED
  BY <1>3, <1>4, <1>5

-----------------------------------------------------------------------------
(* Compile.                                                                *)

RefsStep(p, R, n) ==
  CASE p.nodes[n].kind = "ref"  -> <<p.nodes[n].set>>
    [] p.nodes[n].kind = "leaf" -> <<>>
    [] OTHER -> FlattenSeq([i \in DOMAIN p.nodes[n].kids |-> R[p.nodes[n].kids[i]]])

LEMMA SingleTyped == \A S : \A s \in S : <<s>> \in Seq(S)
<1> SUFFICES ASSUME NEW S, NEW s \in S PROVE <<s>> \in Seq(S)
  OBVIOUS
<1>1. <<>> \in Seq(S)
  OBVIOUS
<1>2. <<s>> = Append(<<>>, s)
  OBVIOUS
<1> QED
  BY <1>1, <1>2

LEMMA FlattenTyped == \A S : \A seqs \in Seq(Seq(S)) : FlattenSeq(seqs) \in Seq(S)
<1> SUFFICES ASSUME NEW S, NEW seqs \in Seq(Seq(S)) PROVE FlattenSeq(seqs) \in Seq(S)
  OBVIOUS
<1> QED
  BY FlattenIs

\* RefsOf has the value its definition says, and refers to sets of the program.
LEMMA RefsOfIs ==
  ASSUME NEW p, NEW rank, WellRanked(p, rank)
  PROVE  /\ \A n \in DOMAIN p.nodes : RefsOf(p)[n] = RefsStep(p, RefsOf(p), n)
         /\ RefsOf(p) \in [DOMAIN p.nodes -> Seq(DOMAIN p.root)]
<1> DEFINE N == DOMAIN p.nodes
           D == Seq(DOMAIN p.root)
           g == [x \in N \X [N -> D] |-> RefsStep(p, x[2], x[1])]
<1>1. PICK b \in Nat : rank \in [N -> 0..b]
  BY DEF WellRanked
<1>2. ASSUME NEW n \in N
      PROVE  /\ \A f \in [N -> D] : RefsStep(p, f, n) \in D
             /\ \A f1, f2 \in [N -> D] :
                  (\A m \in N : rank[m] < rank[n] => f1[m] = f2[m])
                    => RefsStep(p, f1, n) = RefsStep(p, f2, n)
  <2>1. CASE p.nodes[n].kind = "leaf" /\ p.nodes[n].model \in Models
    BY <2>1 DEF RefsStep
  <2>2. CASE /\ p.nodes[n].kind = "ref" /\ p.nodes[n].set \in DOMAIN p.root
             /\ rank[p.root[p.nodes[n].set]] < rank[n]
    <3>1. \A s \in DOMAIN p.root : <<s>> \in D
      BY SingleTyped
    <3>2. \A f : RefsStep(p, f, n) = <<p.nodes[n].set>>
      BY <2>2 DEF RefsStep
    <3> QED
      BY <2>2, <3>1, <3>2
  <2>3. CASE /\ p.nodes[n].kind \in {"or", "and"} /\ p.nodes[n].kids \in Seq(N)
             /\ \A k \in ToSet(p.nodes[n].kids) : rank[k] < rank[n]
    <3> DEFINE kids == p.nodes[n].kids
               seqs(f) == [i \in DOMAIN kids |-> f[kids[i]]]
    <3>1. \A i \in DOMAIN kids : kids[i] \in N /\ rank[kids[i]] < rank[n]
      BY <2>3 DEF ToSet
    <3>2. ASSUME NEW f \in [N -> D] PROVE RefsStep(p, f, n) \in D
      <4>1. \A k \in ToSet(kids) : f[k] \in D
        BY <3>1 DEF ToSet
      <4> HIDE DEF D, N
      <4>2. seqs(f) \in Seq(D)
        BY <2>3, <4>1, KidsIn
      <4>3. FlattenSeq(seqs(f)) \in D
        BY <4>2, FlattenTyped DEF D
      <4> QED
        BY <2>3, <4>3 DEF RefsStep
    <3>3. ASSUME NEW f1 \in [N -> D], NEW f2 \in [N -> D],
                 \A m \in N : rank[m] < rank[n] => f1[m] = f2[m]
          PROVE  RefsStep(p, f1, n) = RefsStep(p, f2, n)
      <4>1. seqs(f1) = seqs(f2)
        BY <3>1, <3>3
      <4> QED
        BY <2>3, <4>1 DEF RefsStep
    <3> QED
      BY <3>2, <3>3
  <2> QED
    BY <2>1, <2>2, <2>3 DEF WellRanked
<1>3. <<>> \in D
  OBVIOUS
<1> HIDE DEF D
<1>4. Recursive(g, N, D, rank) /\ \A n \in N, f \in [N -> D] : g[<<n, f>>] = RefsStep(p, f, n)
  BY <1>2 DEF Recursive
<1> HIDE DEF N, g
<1>5. PICK f : Solves(f, g, N, D)
  BY <1>1, <1>3, <1>4, Recursion
<1>6. f = [n \in DOMAIN p.nodes |-> RefsStep(p, f, n)]
  BY <1>4, <1>5 DEF Solves, N
<1>7. RefsOf(p) = [n \in DOMAIN p.nodes |-> RefsStep(p, RefsOf(p), n)]
  BY <1>6 DEF RefsOf, RefsStep
<1> DEFINE T == {n \in N : RefsOf(p)[n] \in D}
<1>8. ASSUME NEW n \in N, \A m \in N : rank[m] < rank[n] => m \in T PROVE n \in T
  <2> DEFINE h == [m \in N |-> IF m \in T THEN RefsOf(p)[m] ELSE <<>>]
  <2>1. h \in [N -> D]
    BY <1>3
  <2>2. RefsStep(p, h, n) \in D
    BY <1>2, <2>1 DEF N
  <2>3. \A m \in N : rank[m] < rank[n] => h[m] = RefsOf(p)[m]
    BY <1>8
  <2> HIDE DEF h, T
  <2>4. RefsStep(p, h, n) = RefsStep(p, RefsOf(p), n)
    <3>1. CASE p.nodes[n].kind = "leaf" \/ p.nodes[n].kind = "ref"
      BY <3>1 DEF RefsStep
    <3>2. CASE /\ p.nodes[n].kind \in {"or", "and"} /\ p.nodes[n].kids \in Seq(N)
               /\ \A k \in ToSet(p.nodes[n].kids) : rank[k] < rank[n]
      <4> DEFINE kids == p.nodes[n].kids
      <4>1. \A i \in DOMAIN kids : kids[i] \in N /\ rank[kids[i]] < rank[n]
        BY <3>2 DEF ToSet
      <4>2. \A i \in DOMAIN kids : h[kids[i]] = RefsOf(p)[kids[i]]
        BY <2>3, <4>1
      <4>3. [i \in DOMAIN kids |-> h[kids[i]]] = [i \in DOMAIN kids |-> RefsOf(p)[kids[i]]]
        BY <4>2
      <4> QED
        BY <3>2, <4>3 DEF RefsStep
    <3> QED
      BY <3>1, <3>2 DEF WellRanked, N
  <2> QED
    BY <1>7, <2>2, <2>4 DEF T, N
<1>9. rank \in [N -> Nat]
  BY <1>1
<1> HIDE DEF T
<1>10. N \subseteq T
  BY <1>8, <1>9, RankInduct
<1> QED
  BY <1>7, <1>10 DEF T, N, D

\* A set refers to sets below it.
LEMMA RefsLower ==
  ASSUME NEW p, NEW rank, WellRanked(p, rank)
  PROVE  \A n \in DOMAIN p.nodes : \A d \in ToSet(RefsOf(p)[n]) :
           d \in DOMAIN p.root /\ rank[p.root[d]] < rank[n]
<1> DEFINE N == DOMAIN p.nodes
           R == RefsOf(p)
           Lower(n) == \A d \in ToSet(R[n]) : d \in DOMAIN p.root /\ rank[p.root[d]] < rank[n]
           T == {n \in N : Lower(n)}
<1>1. rank \in [N -> Nat] /\ p.root \in [DOMAIN p.root -> N]
  BY RankIsNat DEF WellRanked
<1>2. ASSUME NEW n \in N, \A m \in N : rank[m] < rank[n] => m \in T PROVE n \in T
  <2> HIDE DEF R
  <2>0. R[n] = RefsStep(p, R, n) /\ R \in [N -> Seq(DOMAIN p.root)]
    BY RefsOfIs DEF R
  <2>1. CASE p.nodes[n].kind = "leaf"
    BY <2>0, <2>1 DEF RefsStep, ToSet
  <2>2. CASE /\ p.nodes[n].kind = "ref" /\ p.nodes[n].set \in DOMAIN p.root
             /\ rank[p.root[p.nodes[n].set]] < rank[n]
    <3>1. R[n] = <<p.nodes[n].set>>
      BY <2>0, <2>2 DEF RefsStep
    <3>2. ToSet(R[n]) = {p.nodes[n].set}
      BY <3>1 DEF ToSet
    <3> QED
      BY <2>2, <3>2
  <2>3. CASE /\ p.nodes[n].kind \in {"or", "and"} /\ p.nodes[n].kids \in Seq(N)
             /\ \A k \in ToSet(p.nodes[n].kids) : rank[k] < rank[n]
    <3> DEFINE kids == p.nodes[n].kids
               seqs == [i \in DOMAIN kids |-> R[kids[i]]]
    <3>1. \A i \in DOMAIN kids : kids[i] \in N /\ rank[kids[i]] < rank[n]
      BY <2>3 DEF ToSet
    <3>2. \A k \in ToSet(kids) : R[k] \in Seq(DOMAIN p.root)
      BY <2>0, <3>1 DEF ToSet
    <3>3. seqs \in Seq(Seq(DOMAIN p.root))
      <4> HIDE DEF N
      <4> QED
        BY <2>3, <3>2, KidsIn
    <3>4. R[n] = FlattenSeq(seqs)
      BY <2>0, <2>3 DEF RefsStep
    <3>5. ToSet(R[n]) = UNION {ToSet(seqs[i]) : i \in DOMAIN kids}
      <4>1. DOMAIN seqs = DOMAIN kids
        OBVIOUS
      <4> HIDE DEF seqs
      <4> QED
        BY <3>3, <3>4, <4>1, FlattenIs
    <3>6. ASSUME NEW d \in ToSet(R[n]) PROVE d \in DOMAIN p.root /\ rank[p.root[d]] < rank[n]
      <4>1. PICK i \in DOMAIN kids : d \in ToSet(R[kids[i]])
        BY <3>5
      <4>2. Lower(kids[i])
        BY <1>2, <3>1
      <4>3. d \in DOMAIN p.root /\ rank[p.root[d]] < rank[kids[i]] /\ p.root[d] \in N
        BY <1>1, <4>1, <4>2
      <4> QED
        BY <1>1, <3>1, <4>3
    <3> QED
      BY <3>6
  <2> QED
    BY <2>1, <2>2, <2>3 DEF WellRanked
<1> HIDE DEF T
<1>3. N \subseteq T
  BY <1>1, <1>2, RankInduct
<1> QED
  BY <1>3 DEF T

\* VisitAll, turn by turn
VisitAllLoop(h, visit, order, names, S) ==
  /\ h \in [0..Len(names) -> Seq(S)] /\ h[0] = order /\ h[Len(names)] = VisitAll(visit, order, names)
  /\ \A m \in 1..Len(names) : h[m] = visit[<<names[m], h[m - 1]>>]

LEMMA VisitAllTurns ==
  ASSUME NEW S, NEW visit, NEW order \in Seq(S), NEW names \in Seq(S),
         \A i \in 1..Len(names) : \A o \in Seq(S) : visit[<<names[i], o>>] \in Seq(S)
  PROVE  \E h : VisitAllLoop(h, visit, order, names, S)
<1> DEFINE n == Len(names)
           D == Seq(S)
           Turn(x, i) == visit[<<names[i], x>>]
           g == [x \in D \X (1..n) |-> Turn(x[1], x[2])]
           k == CHOOSE iter : iter = [s \in SUBSET (1..n) |->
                  IF s = {} THEN order ELSE Turn(iter[s \ {Max(s)}], Max(s))]
<1>1. n \in Nat /\ DOMAIN names = 1..n /\ order \in D
  OBVIOUS
<1>2. VisitAll(visit, order, names) = k[1..n]
  BY <1>1 DEF VisitAll, FoldLeft, MapThenFoldSet
<1>3. g \in [D \X (1..n) -> D] /\ \A x \in D : \A i \in 1..n : g[<<x, i>>] = Turn(x, i)
  <2>1. ASSUME NEW x \in D, NEW i \in 1..n PROVE Turn(x, i) \in D
    BY <2>1
  <2> HIDE DEF n, D, Turn
  <2> QED
    BY <2>1
<1> HIDE DEF n, D, g, Turn
<1>4. PICK f : FoldsLeft(f, g, order, n, D)
  BY <1>1, <1>3, TurnsExist
<1>5. f = [s \in SUBSET (1..n) |-> IF s = {} THEN order ELSE Turn(f[s \ {Max(s)}], Max(s))]
  <2>1. ASSUME NEW s \in SUBSET (1..n), s # {} PROVE f[s] = Turn(f[s \ {Max(s)}], Max(s))
    BY <1>1, <1>3, <1>4, <2>1, MaxIs DEF FoldsLeft
  <2> QED
    BY <1>4, <2>1 DEF FoldsLeft
<1>6. k = [s \in SUBSET (1..n) |-> IF s = {} THEN order ELSE Turn(k[s \ {Max(s)}], Max(s))]
  BY <1>5
<1> HIDE DEF k
<1>7. FoldsTyped(k, g, order, n, D)
  <2>1. ASSUME NEW s \in SUBSET (1..n), s # {}
        PROVE  k[s] = Turn(k[s \ {Max(s)}], Max(s)) /\ Max(s) \in 1..n
    BY <1>1, <1>6, <2>1, MaxIs
  <2> QED
    BY <1>3, <1>6, <2>1 DEF FoldsTyped
<1>8. TurnsTo(k[1..n], g, order, n, D)
  BY <1>1, <1>3, <1>7, TurnsAre
<1>9. PICK h : Turns(h, g, order, n, D) /\ k[1..n] = h[n]
  BY <1>8 DEF TurnsTo
<1>10. \A m \in 1..n : h[m] = Turn(h[m - 1], m)
  BY <1>3, <1>9 DEF Turns
<1> QED
  BY <1>2, <1>9, <1>10 DEF VisitAllLoop, n, D, Turn, Turns

Ordered(o, q, names, S) ==
  o \in Seq(S) /\ ToSet(q) \subseteq ToSet(o) /\ ToSet(names) \subseteq ToSet(o)

\* visited: the order only grows, and holds the sets of a sequence after them
LEMMA VisitAllOrders ==
  ASSUME NEW S, NEW visit, NEW order \in Seq(S), NEW names \in Seq(S),
         \A i \in 1..Len(names) : \A o \in Seq(S) :
           Ordered(visit[<<names[i], o>>], o, <<names[i]>>, S)
  PROVE  Ordered(VisitAll(visit, order, names), order, names, S)
<1>0. \A i \in 1..Len(names) : \A o \in Seq(S) : visit[<<names[i], o>>] \in Seq(S)
  BY DEF Ordered
<1>1. PICK h : VisitAllLoop(h, visit, order, names, S)
  BY <1>0, VisitAllTurns
<1> DEFINE n == Len(names)
           T == {m \in 0..n : ToSet(order) \subseteq ToSet(h[m]) /\ \A i \in 1..m : names[i] \in ToSet(h[m])}
<1>2. n \in Nat /\ DOMAIN names = 1..n
  OBVIOUS
<1>3. 0 \in T
  BY <1>1, <1>2 DEF VisitAllLoop
<1>4. ASSUME NEW m \in 0..n - 1, m \in T PROVE m + 1 \in T
  <2>1. m + 1 \in 1..n /\ m + 1 \in 0..n /\ m \in 0..n /\ (m + 1) - 1 = m
    BY <1>2
  <2>2. h[m] \in Seq(S) /\ h[m + 1] = visit[<<names[m + 1], h[m]>>]
    BY <1>1, <2>1 DEF VisitAllLoop
  <2>3. Ordered(h[m + 1], h[m], <<names[m + 1]>>, S)
    BY <2>1, <2>2
  <2>4. ToSet(h[m]) \subseteq ToSet(h[m + 1]) /\ names[m + 1] \in ToSet(h[m + 1])
    <3>1. ToSet(<<names[m + 1]>>) = {names[m + 1]}
      BY DEF ToSet
    <3> QED
      BY <2>3, <3>1 DEF Ordered
  <2>5. \A i \in 1..m + 1 : i \in 1..m \/ i = m + 1
    BY <2>1
  <2> QED
    BY <1>4, <2>1, <2>4, <2>5
<1> HIDE DEF T
<1>50. 0..n \subseteq T
  BY <1>2, <1>3, <1>4, Induct
<1>5. n \in T
  BY <1>2, <1>50
<1>6. ToSet(order) \subseteq ToSet(h[n]) /\ \A i \in 1..n : names[i] \in ToSet(h[n])
  BY <1>5 DEF T
<1>7. h[n] = VisitAll(visit, order, names) /\ h[n] \in Seq(S)
  BY <1>1, <1>2 DEF VisitAllLoop
<1> QED
  BY <1>2, <1>6, <1>7 DEF Ordered, ToSet

\* An order is a sequence of sets.
LEMMA VisitAllTyped ==
  ASSUME NEW S, NEW visit, NEW order \in Seq(S), NEW names \in Seq(S),
         \A i \in 1..Len(names) : \A o \in Seq(S) : visit[<<names[i], o>>] \in Seq(S)
  PROVE  VisitAll(visit, order, names) \in Seq(S)
<1>1. PICK h : VisitAllLoop(h, visit, order, names, S)
  BY VisitAllTurns
<1> QED
  BY <1>1 DEF VisitAllLoop

\* VisitAll asks only for the sets of the sequence
VisitSame(v1, v2, names, S) ==
  \A i \in 1..Len(names) : \A o \in Seq(S) :
    v1[<<names[i], o>>] \in Seq(S) /\ v1[<<names[i], o>>] = v2[<<names[i], o>>]

LEMMA VisitAllSame ==
  ASSUME NEW S, NEW v1, NEW v2, NEW order \in Seq(S), NEW names \in Seq(S),
         VisitSame(v1, v2, names, S)
  PROVE  VisitAll(v1, order, names) = VisitAll(v2, order, names)
<1>0. \A i \in 1..Len(names) : \A o \in Seq(S) :
        /\ v1[<<names[i], o>>] \in Seq(S) /\ v2[<<names[i], o>>] \in Seq(S)
        /\ v1[<<names[i], o>>] = v2[<<names[i], o>>]
  BY DEF VisitSame
<1>1. PICK h1 : VisitAllLoop(h1, v1, order, names, S)
  BY <1>0, VisitAllTurns
<1>2. PICK h2 : VisitAllLoop(h2, v2, order, names, S)
  BY <1>0, VisitAllTurns
<1> DEFINE n == Len(names)
           T == {m \in 0..n : h1[m] = h2[m]}
<1>3. n \in Nat
  OBVIOUS
<1>4. 0 \in T
  BY <1>1, <1>2, <1>3 DEF VisitAllLoop
<1>5. ASSUME NEW m \in 0..n - 1, m \in T PROVE m + 1 \in T
  <2>1. m + 1 \in 1..n /\ m + 1 \in 0..n /\ m \in 0..n /\ (m + 1) - 1 = m
    BY <1>3
  <2>2. h1[m] \in Seq(S) /\ h1[m] = h2[m]
    BY <1>1, <1>5, <2>1 DEF VisitAllLoop
  <2>3. h1[m + 1] = v1[<<names[m + 1], h1[m]>>] /\ h2[m + 1] = v2[<<names[m + 1], h2[m]>>]
    BY <1>1, <1>2, <2>1 DEF VisitAllLoop
  <2> QED
    BY <1>0, <2>1, <2>2, <2>3
<1> HIDE DEF T
<1>60. 0..n \subseteq T
  BY <1>3, <1>4, <1>5, Induct
<1>6. n \in T
  BY <1>3, <1>60
<1> QED
  BY <1>1, <1>2, <1>3, <1>6 DEF T, VisitAllLoop

VisitStep(p, V, v) ==
  IF Contains(v[2], v[1]) THEN v[2] ELSE Append(VisitAll(V, v[2], Refs(p, v[1])), v[1])

\* The sets that a set refers to.
LEMMA RefsAre ==
  ASSUME NEW p, NEW rank, WellRanked(p, rank), NEW set \in DOMAIN p.root
  PROVE  /\ Refs(p, set) \in Seq(DOMAIN p.root)
         /\ \A i \in 1..Len(Refs(p, set)) :
              /\ Refs(p, set)[i] \in DOMAIN p.root
              /\ rank[p.root[Refs(p, set)[i]]] < rank[p.root[set]]
<1>1. p.root[set] \in DOMAIN p.nodes
  BY DEF WellRanked
<1>2. RefsOf(p) \in [DOMAIN p.nodes -> Seq(DOMAIN p.root)]
  BY RefsOfIs
<1>3. Refs(p, set) = RefsOf(p)[p.root[set]] /\ Refs(p, set) \in Seq(DOMAIN p.root)
  BY <1>1, <1>2 DEF Refs
<1>4. \A d \in ToSet(Refs(p, set)) : d \in DOMAIN p.root /\ rank[p.root[d]] < rank[p.root[set]]
  BY <1>1, <1>3, RefsLower
<1>5. \A i \in 1..Len(Refs(p, set)) : Refs(p, set)[i] \in ToSet(Refs(p, set))
  BY <1>3 DEF ToSet
<1> QED
  BY <1>3, <1>4, <1>5

\* Visit has the value its definition says: a set refers to sets of lower rank.
LEMMA VisitIs ==
  ASSUME NEW p, NEW rank, WellRanked(p, rank)
  PROVE  /\ Visit(p) \in [(DOMAIN p.root) \X Seq(DOMAIN p.root) -> Seq(DOMAIN p.root)]
         /\ \A v \in (DOMAIN p.root) \X Seq(DOMAIN p.root) : Visit(p)[v] = VisitStep(p, Visit(p), v)
<1> DEFINE S == DOMAIN p.root
           D == Seq(S)
           N == S \X D
           height == [v \in N |-> rank[p.root[v[1]]]]
           g == [x \in N \X [N -> D] |-> VisitStep(p, x[2], x[1])]
<1>1. PICK b \in Nat : rank \in [DOMAIN p.nodes -> 0..b]
  BY DEF WellRanked
<1>2. p.root \in [S -> DOMAIN p.nodes]
  BY DEF WellRanked
<1>3. height \in [N -> 0..b]
  BY <1>1, <1>2
<1>4. ASSUME NEW v \in N
      PROVE  /\ \A f \in [N -> D] : VisitStep(p, f, v) \in D
             /\ \A f1, f2 \in [N -> D] :
                  (\A w \in N : height[w] < height[v] => f1[w] = f2[w])
                    => VisitStep(p, f1, v) = VisitStep(p, f2, v)
  <2> DEFINE names == Refs(p, v[1])
  <2>1. v[1] \in S /\ v[2] \in D
    OBVIOUS
  <2>2. names \in D /\ \A i \in 1..Len(names) : names[i] \in S /\ rank[p.root[names[i]]] < rank[p.root[v[1]]]
    BY <2>1, RefsAre
  <2> HIDE DEF names
  <2>3. \A i \in 1..Len(names) : \A o \in D :
          <<names[i], o>> \in N /\ height[<<names[i], o>>] < height[v]
    BY <2>2
  <2> HIDE DEF height
  <2>4. ASSUME NEW f \in [N -> D] PROVE VisitStep(p, f, v) \in D
    <3>1. \A i \in 1..Len(names) : \A o \in D : f[<<names[i], o>>] \in D
      BY <2>3
    <3> HIDE DEF N
    <3>2. VisitAll(f, v[2], names) \in D
      BY <2>1, <2>2, <3>1, VisitAllTyped
    <3>3. Append(VisitAll(f, v[2], names), v[1]) \in D
      BY <2>1, <3>2, AppendTyped
    <3> QED
      BY <2>1, <3>3 DEF VisitStep, names
  <2>5. ASSUME NEW f1 \in [N -> D], NEW f2 \in [N -> D],
               \A w \in N : height[w] < height[v] => f1[w] = f2[w]
        PROVE  VisitStep(p, f1, v) = VisitStep(p, f2, v)
    <3>1. VisitSame(f1, f2, names, S)
      BY <2>3, <2>5 DEF VisitSame
    <3> HIDE DEF N
    <3>2. VisitAll(f1, v[2], names) = VisitAll(f2, v[2], names)
      BY <2>1, <2>2, <3>1, VisitAllSame
    <3> QED
      BY <3>2 DEF VisitStep, names
  <2> QED
    BY <2>4, <2>5
<1>5. <<>> \in D
  OBVIOUS
<1> HIDE DEF D, height, N
<1>6. Recursive(g, N, D, height) /\ \A v \in N, f \in [N -> D] : g[<<v, f>>] = VisitStep(p, f, v)
  BY <1>4 DEF Recursive
<1> HIDE DEF g
<1>7. PICK f : Solves(f, g, N, D)
  BY <1>3, <1>5, <1>6, Recursion
<1>8. f = [v \in N |-> VisitStep(p, f, v)]
  BY <1>6, <1>7 DEF Solves
<1>9. Visit(p) = [v \in N |-> VisitStep(p, Visit(p), v)]
  BY <1>8 DEF Visit, VisitStep, N, D
<1>10. ASSUME NEW v \in N, \A w \in N : height[w] < height[v] => Visit(p)[w] \in D
       PROVE  Visit(p)[v] \in D
  <2> DEFINE h == [w \in N |-> IF Visit(p)[w] \in D THEN Visit(p)[w] ELSE <<>>]
             names == Refs(p, v[1])
  <2>1. v[1] \in S /\ v[2] \in D
    BY DEF N
  <2>2. names \in D /\ \A i \in 1..Len(names) : names[i] \in S /\ rank[p.root[names[i]]] < rank[p.root[v[1]]]
    BY <2>1, RefsAre DEF D
  <2> HIDE DEF names
  <2>3. ASSUME NEW i \in 1..Len(names), NEW o \in D
        PROVE  Visit(p)[<<names[i], o>>] \in D
    <3>1. <<names[i], o>> \in N /\ height[<<names[i], o>>] < height[v]
      BY <2>2 DEF N, height
    <3> QED
      BY <1>10, <3>1
  <2>4. VisitAll(Visit(p), v[2], names) \in D
    BY <2>1, <2>2, <2>3, VisitAllTyped DEF D
  <2>5. Append(VisitAll(Visit(p), v[2], names), v[1]) \in D
    BY <2>1, <2>4, AppendTyped DEF D
  <2>6. VisitStep(p, Visit(p), v) \in D
    BY <2>1, <2>5 DEF VisitStep, names
  <2> QED
    BY <1>9, <2>6
<1> DEFINE T == {v \in N : Visit(p)[v] \in D}
<1>11. \A v \in N : (\A w \in N : height[w] < height[v] => w \in T) => v \in T
  BY <1>10
<1>12. height \in [N -> Nat]
  BY <1>1, <1>3
<1> HIDE DEF T
<1>13. N \subseteq T
  BY <1>11, <1>12, RankInduct
<1> QED
  BY <1>9, <1>13 DEF T, N, D

\* A set is put after what was there, and those it refers to are there too.
LEMMA VisitOrders ==
  ASSUME NEW p, NEW rank, WellRanked(p, rank)
  PROVE  \A set \in DOMAIN p.root : \A o \in Seq(DOMAIN p.root) :
           Ordered(Visit(p)[<<set, o>>], o, <<set>>, DOMAIN p.root)
<1> DEFINE S == DOMAIN p.root
           height == [set \in S |-> rank[p.root[set]]]
           V == Visit(p)
           T == {set \in S : \A o \in Seq(S) : Ordered(V[<<set, o>>], o, <<set>>, S)}
<1>1. height \in [S -> Nat]
  BY RankIsNat DEF WellRanked
<1>2. ASSUME NEW set \in S, \A d \in S : height[d] < height[set] => d \in T PROVE set \in T
  <2> DEFINE names == Refs(p, set)
  <2>1. names \in Seq(S) /\ \A i \in 1..Len(names) : names[i] \in S /\ height[names[i]] < height[set]
    BY RefsAre
  <2> HIDE DEF names, V
  <2>2. \A i \in 1..Len(names) : \A o \in Seq(S) : Ordered(V[<<names[i], o>>], o, <<names[i]>>, S)
    BY <1>2, <2>1
  <2> HIDE DEF S
  <2>3. ASSUME NEW o \in Seq(S) PROVE Ordered(V[<<set, o>>], o, <<set>>, S)
    <3>1. V[<<set, o>>] = VisitStep(p, V, <<set, o>>)
      BY VisitIs DEF S, V
    <3>2. ToSet(<<set>>) = {set}
      BY DEF ToSet
    <3>3. CASE Contains(o, set)
      <4>1. V[<<set, o>>] = o
        BY <3>1, <3>3 DEF VisitStep
      <4>2. set \in ToSet(o)
        BY <3>3 DEF Contains, ToSet
      <4> QED
        BY <3>2, <4>1, <4>2 DEF Ordered
    <3>4. CASE ~Contains(o, set)
      <4> DEFINE q == VisitAll(V, o, names)
      <4>1. V[<<set, o>>] = Append(q, set)
        BY <3>1, <3>4 DEF VisitStep, names
      <4>2. Ordered(q, o, names, S)
        BY <2>1, <2>2, VisitAllOrders
      <4> HIDE DEF q
      <4>3. Append(q, set) \in Seq(S) /\ ToSet(Append(q, set)) = ToSet(q) \cup {set}
        BY <4>2, AppendTyped, AppendSet DEF Ordered
      <4> QED
        BY <3>2, <4>1, <4>2, <4>3 DEF Ordered
    <3> QED
      BY <3>3, <3>4
  <2> QED
    BY <2>3
<1> HIDE DEF T
<1>3. S \subseteq T
  BY <1>1, <1>2, RankInduct
<1>4. ASSUME NEW set \in S, NEW o \in Seq(S) PROVE Ordered(V[<<set, o>>], o, <<set>>, S)
  <2>1. set \in T
    BY <1>3
  <2> HIDE DEF S, V
  <2> QED
    BY <2>1, Zenon DEF T
<1> QED
  BY <1>4, Zenon

\* A program as the parser leaves it: expressions without a circle, and a
\* definition of every set.
WellMade(p) ==
  /\ \E rank : WellRanked(p, rank)
  /\ p.defs \in Seq(DOMAIN p.root) /\ ToSet(p.defs) = DOMAIN p.root

\* The compiled program tries every set, whatever the order of definition.
THEOREM CompileIs ==
  ASSUME NEW p, WellMade(p)
  PROVE  Compiled(Compile(p))
<1> DEFINE compiled == Compile(p)
           S == DOMAIN p.root
           o == VisitAll(Visit(p), <<>>, p.defs)
<1>1. PICK rank : WellRanked(p, rank)
  BY DEF WellMade
<1>2. compiled.nodes = p.nodes /\ compiled.root = p.root /\ compiled.order = o
  BY DEF Compile, TopologicalOrder
<1>3. WellRanked(compiled, rank)
  BY <1>1, <1>2 DEF WellRanked
<1>4. p.defs \in Seq(S) /\ ToSet(p.defs) = S /\ <<>> \in Seq(S)
  BY DEF WellMade
<1>5. \A i \in 1..Len(p.defs) : p.defs[i] \in S
  BY <1>4
<1>6. \A i \in 1..Len(p.defs) : \A q \in Seq(S) :
        Ordered(Visit(p)[<<p.defs[i], q>>], q, <<p.defs[i]>>, S)
  BY <1>1, <1>5, VisitOrders
<1>7. Ordered(o, <<>>, p.defs, S)
  <2> HIDE DEF S
  <2> QED
    BY <1>4, <1>6, VisitAllOrders
<1>8. o \in Seq(S) /\ S \subseteq ToSet(o)
  BY <1>4, <1>7 DEF Ordered
<1>9. ToSet(o) \subseteq S
  <2> HIDE DEF o
  <2> QED
    BY <1>8 DEF ToSet
<1> HIDE DEF compiled, o
<1> QED
  BY <1>2, <1>3, <1>8, <1>9 DEF Compiled, compiled

-----------------------------------------------------------------------------
(* The planner.                                                            *)

\* what the planner is given, and what is always true of it
Configured == MatrixAssumption /\ \A p \in Programs : WellMade(p)

PlannerInv ==
  /\ Compiled(program) /\ cost \in [Models -> Nat \ {0}]
  /\ running \in SUBSET Models /\ IsFiniteSet(running)
  /\ last # None => last.result = Solve(program, cost, last.target, last.running)
  /\ OneSetRuns

\* The invariant holds when the router starts ...
LEMMA PlannerInvInit == Configured /\ Init => PlannerInv
<1> SUFFICES ASSUME Configured, Init PROVE PlannerInv
  OBVIOUS
<1>1. PICK p \in Programs : program = Compile(p)
  BY DEF Init
<1>2. Compiled(program)
  BY <1>1, CompileIs DEF Configured
<1>3. cost \in [Models -> Nat \ {0}]
  BY DEF Init, Configured, MatrixAssumption
<1>4. running = {} /\ last = None
  BY DEF Init
<1>5. OneSetRuns
  BY <1>4 DEF OneSetRuns, CanContainAll
<1> QED
  BY <1>2, <1>3, <1>4, <1>5, FS_EmptySet DEF PlannerInv

\* A plan, cached or not, is a best answer.
LEMMA PlanIsBest ==
  ASSUME PlannerInv, NEW target \in Models
  PROVE  /\ Plan(target).result = Solve(program, cost, target, running)
         /\ IsBest(Plan(target).result, program, cost, target, running)
<1>1. Plan(target).result = Solve(program, cost, target, running)
  <2>1. CASE last # None /\ last.target = target /\ last.running = running
    <3>1. Plan(target) = last
      BY <2>1 DEF Plan
    <3>2. last.result = Solve(program, cost, last.target, last.running)
      BY <2>1 DEF PlannerInv
    <3> QED
      BY <2>1, <3>1, <3>2
  <2>2. CASE ~(last # None /\ last.target = target /\ last.running = running)
    BY <2>2 DEF Plan
  <2> QED
    BY <2>1, <2>2
<1>2. Priced(cost, running) /\ Compiled(program)
  BY DEF PlannerInv, Priced
<1> QED
  BY <1>1, <1>2, SolveIsBest

\* What the planner remembers is what it answered.
LEMMA PlanRecorded ==
  ASSUME PlannerInv, NEW target \in Models
  PROVE  Plan(target) # None =>
           Plan(target).result = Solve(program, cost, Plan(target).target, Plan(target).running)
<1>1. CASE last # None /\ last.target = target /\ last.running = running
  <2>1. Plan(target) = last
    BY <1>1 DEF Plan
  <2> QED
    BY <1>1, <2>1 DEF PlannerInv
<1>2. CASE ~(last # None /\ last.target = target /\ last.running = running)
  <2> DEFINE s == Solve(program, cost, target, running)
  <2> HIDE DEF s
  <2>1. Plan(target) = [target |-> target, running |-> running, result |-> s]
    BY <1>2 DEF Plan, s
  <2>2. Plan(target).target = target /\ Plan(target).running = running /\ Plan(target).result = s
    BY <2>1
  <2> QED
    BY <2>2 DEF s
<1> QED
  BY <1>1, <1>2

\* Fewer models can run together if more can.
LEMMA FewerFitToo ==
  ASSUME NEW p, Compiled(p), NEW M \in SUBSET Models, CanContainAll(p, M), NEW m
  PROVE  CanContainAll(p, M \ {m})
<1>1. M = {} \/ \E S \in AllowedSets(p) : M \subseteq S
  BY CanContainAllIs
<1>2. M \ {m} \in SUBSET Models
  OBVIOUS
<1>3. M \ {m} = {} \/ \E S \in AllowedSets(p) : M \ {m} \subseteq S
  BY <1>1
<1> QED
  BY <1>2, <1>3, CanContainAllIs

\* What runs after a swap is in one set, or the target runs alone.
LEMMA SwapKeepsOneSet ==
  ASSUME NEW p, Compiled(p), NEW c, NEW up \in SUBSET Models, NEW target \in Models,
         NEW d, IsBest(d, p, c, target, up),
         CanContainAll(p, up) \/ \E m \in Models : up = {m}
  PROVE  LET new == (up \ d.evict) \cup {target}
         IN  CanContainAll(p, new) \/ \E m \in Models : new = {m}
<1> DEFINE new == (up \ d.evict) \cup {target}
           sets == {S \in AllowedSets(p) : target \in S}
<1>1. CASE target \in up
  <2>1. d.evict = {}
    BY <1>1 DEF IsBest
  <2>2. new = up
    BY <1>1, <2>1
  <2> QED
    BY <2>2
<1>2. CASE target \notin up /\ sets = {}
  <2>1. d.evict = up \ d.set /\ d.set = {target}
    BY <1>2 DEF IsBest
  <2>2. new = {target}
    BY <1>2, <2>1
  <2> QED
    BY <2>2
<1>3. CASE target \notin up /\ sets # {}
  <2>1. d.evict = up \ d.set /\ d.set \in sets
    BY <1>3 DEF IsBest
  <2>2. new \subseteq d.set /\ d.set \in AllowedSets(p) /\ new \in SUBSET Models
    BY <2>1
  <2>3. CanContainAll(p, new)
    <3> HIDE DEF new
    <3> QED
      BY <2>2, CanContainAllIs
  <2> QED
    BY <2>3
<1> QED
  BY <1>1, <1>2, <1>3

\* ... and every step keeps it.
LEMMA PlannerInvStep == PlannerInv /\ [Next]_vars => PlannerInv'
<1> SUFFICES ASSUME PlannerInv, [Next]_vars PROVE PlannerInv'
  OBVIOUS
<1>1. ASSUME NEW m \in Models, EvictionFor(m) PROVE PlannerInv'
  <2>1. last' = Plan(m) /\ program' = program /\ cost' = cost /\ running' = running
    BY <1>1 DEF EvictionFor
  <2>2. last' # None => last'.result = Solve(program, cost, last'.target, last'.running)
    BY <2>1, PlanRecorded
  <2> QED
    BY <2>1, <2>2 DEF PlannerInv, OneSetRuns
<1>2. ASSUME NEW m \in Models, OnSwapStart(m) PROVE PlannerInv'
  <2>1. /\ last' = Plan(m) /\ program' = program /\ cost' = cost
        /\ running' = (running \ last'.result.evict) \cup {m}
    BY <1>2 DEF OnSwapStart
  <2>2. last' # None => last'.result = Solve(program, cost, last'.target, last'.running)
    BY <2>1, PlanRecorded
  <2>3. IsBest(last'.result, program, cost, m, running)
    BY <2>1, PlanIsBest
  <2>4. CanContainAll(program, running') \/ \E k \in Models : running' = {k}
    BY <2>1, <2>3, SwapKeepsOneSet DEF PlannerInv, OneSetRuns
  <2>5. running' \in SUBSET Models /\ IsFiniteSet(running')
    <3>1. IsFiniteSet(running \ last'.result.evict)
      BY FS_Subset DEF PlannerInv
    <3> QED
      BY <2>1, <3>1, FS_AddElement DEF PlannerInv
  <2> QED
    BY <2>1, <2>2, <2>4, <2>5 DEF PlannerInv, OneSetRuns
<1>3. ASSUME NEW m \in Models, Exit(m) PROVE PlannerInv'
  <2>1. /\ m \in running /\ running' = running \ {m}
        /\ program' = program /\ cost' = cost /\ last' = last
    BY <1>3 DEF Exit
  <2>2. CanContainAll(program, running') \/ \E k \in Models : running' = {k}
    <3>1. CASE CanContainAll(program, running)
      BY <2>1, <3>1, FewerFitToo DEF PlannerInv
    <3>2. CASE \E k \in Models : running = {k}
      <4>1. running' = {}
        BY <2>1, <3>2
      <4> QED
        BY <4>1 DEF CanContainAll
    <3> QED
      BY <3>1, <3>2 DEF PlannerInv, OneSetRuns
  <2>3. running' \in SUBSET Models /\ IsFiniteSet(running')
    BY <2>1, FS_Subset DEF PlannerInv
  <2> QED
    BY <2>1, <2>2, <2>3 DEF PlannerInv, OneSetRuns
<1>4. CASE UNCHANGED vars
  BY <1>4 DEF PlannerInv, OneSetRuns, vars
<1> QED
  BY <1>1, <1>2, <1>3, <1>4 DEF Next

\* The invariant has CanContainAll exact.
LEMMA ContainsExactIs == PlannerInv => ContainsExact
BY CanContainAllIs DEF PlannerInv, ContainsExact

\* Every answer is a best one.
LEMMA AnswersWellStep == PlannerInv /\ [Next]_vars => AnswersWell
<1> SUFFICES ASSUME PlannerInv, NEW m \in Models, EvictionFor(m) \/ OnSwapStart(m)
             PROVE  Best(last'.result, m)
  BY DEF AnswersWell
<1>1. last' = Plan(m)
  BY DEF EvictionFor, OnSwapStart
<1>2. IsBest(last'.result, program, cost, m, running)
  BY <1>1, PlanIsBest
<1> QED
  BY <1>2 DEF IsBest, Best

\* The planner always plans with a compiled program and a cache that says what
\* Solve would.
THEOREM PlannerInvHolds == ASSUME Configured PROVE Spec => []PlannerInv
<1> QED
  BY PlannerInvInit, PlannerInvStep, PTL DEF Spec

\* Pruning loses no combination, whatever the configuration.
THEOREM ContainsExactHolds == ASSUME Configured PROVE Spec => []ContainsExact
BY PlannerInvHolds, ContainsExactIs, PTL

\* Every answer, cached or not, evicts least.
THEOREM AnswersBestHolds == ASSUME Configured PROVE Spec => AnswersBest
<1>1. PlannerInv /\ [Next]_vars => [AnswersWell]_vars
  BY AnswersWellStep
<1> QED
  BY <1>1, PlannerInvHolds, PTL DEF Spec, AnswersBest

\* What the planner alone leaves running is part of one set, or one model.
THEOREM OneSetRunsHolds == ASSUME Configured PROVE Spec => []OneSetRuns
<1>1. PlannerInv => OneSetRuns
  BY DEF PlannerInv
<1> QED
  BY <1>1, PlannerInvHolds, PTL

=============================================================================

---------------------------- MODULE SumTheorems ----------------------------
(***************************************************************************)
(* What proofs about totals need to know of SumFunction: how a sum changes *)
(* with one of its terms, and how two sums compare whose terms do.         *)
(*                                                                         *)
(* SumFunction recurses over subsets and takes an element away with CHOOSE *)
(* at each.  That its recursion has a solution is shown by induction on    *)
(* the size of the subsets.  Every sum takes the same element from a set,  *)
(* so that facts about two sums follow by the same recursion and need no   *)
(* change of order.  Induction is stated about a set of numbers, and about *)
(* a set of subsets, instead of an operator.                               *)
(***************************************************************************)
EXTENDS Functions, FiniteSets, FiniteSetTheorems, WellFoundedInduction, TLAPS

\* The element the sums take from s.
Pick(s) == CHOOSE x \in s : TRUE

\* h is a solution of the recursion at s.
SumsAt(h, f, s) ==
  h[s] = IF s = {} THEN 0 ELSE f[Pick(s)] + h[s \ {Pick(s)}]

\* The solutions on all subsets of S.
PartialSums(f, S) ==
  {h \in [SUBSET S -> Int] : \A s \in SUBSET S : SumsAt(h, f, s)}
-----------------------------------------------------------------------------
\* What holds of 0 and of a successor whenever of its predecessor holds of all
\* numbers.
LEMMA CountingUp ==
  ASSUME NEW G \in SUBSET Nat, 0 \in G, \A n \in G : n + 1 \in G
  PROVE  G = Nat
<1> SUFFICES ASSUME Nat \ G # {} PROVE FALSE
  OBVIOUS
<1> DEFINE Below == OpToRel(<, Nat)
<1>1. IsWellFoundedOn(Below, Nat)
  BY NatLessThanWellFounded
<1>2. Nat \ G \subseteq Nat
  OBVIOUS
<1> HIDE DEF Below
<1>3. PICK n \in Nat \ G : \A m \in Nat \ G : ~(<<m, n>> \in Below)
  BY <1>1, <1>2, WFMin
<1>4. n - 1 \in Nat /\ n - 1 < n /\ (n - 1) + 1 = n
  BY <1>3
<1>5. <<n - 1, n>> \in Below
  BY <1>4 DEF Below, OpToRel
<1>6. n - 1 \in G
  BY <1>3, <1>4, <1>5
<1> QED
  BY <1>3, <1>4, <1>6

\* What is picked is an element, and the rest is smaller.
LEMMA PickFromSet ==
  ASSUME NEW S, IsFiniteSet(S), NEW s \in SUBSET S, s # {}
  PROVE  /\ Pick(s) \in s
         /\ s \ {Pick(s)} \in SUBSET S
         /\ Cardinality(s) \in Nat /\ Cardinality(s \ {Pick(s)}) \in Nat
         /\ Cardinality(s) = Cardinality(s \ {Pick(s)}) + 1
<1>1. Pick(s) \in s
  BY DEF Pick
<1>2. IsFiniteSet(s)
  BY FS_Subset
<1>3. IsFiniteSet(s \ {Pick(s)})
  BY <1>2, FS_RemoveElement
<1>4. Cardinality(s \ {Pick(s)}) = Cardinality(s) - 1
  BY <1>1, <1>2, FS_RemoveElement
<1>5. Cardinality(s) \in Nat /\ Cardinality(s \ {Pick(s)}) \in Nat
  BY <1>2, <1>3, FS_CardinalityType
<1> QED
  BY <1>1, <1>4, <1>5

\* What holds of the empty set, and of a set whenever of the rest, holds of all.
LEMMA PickingInduction ==
  ASSUME NEW S, IsFiniteSet(S), NEW G \in SUBSET (SUBSET S), {} \in G,
         \A s \in SUBSET S : s # {} /\ s \ {Pick(s)} \in G => s \in G
  PROVE  G = SUBSET S
<1> DEFINE Sized == {n \in Nat : \A s \in SUBSET S : Cardinality(s) = n => s \in G}
<1>1. 0 \in Sized
  <2> SUFFICES ASSUME NEW s \in SUBSET S, Cardinality(s) = 0 PROVE s = {}
    OBVIOUS
  <2>1. IsFiniteSet(s)
    BY FS_Subset
  <2> QED
    BY <2>1, FS_EmptySet
<1>2. \A n \in Sized : n + 1 \in Sized
  <2> SUFFICES ASSUME NEW n \in Sized, NEW s \in SUBSET S, Cardinality(s) = n + 1
               PROVE  s \in G
    OBVIOUS
  <2>1. s # {}
    <3> SUFFICES ASSUME s = {} PROVE FALSE
      OBVIOUS
    <3>1. Cardinality(s) = 0
      BY FS_EmptySet
    <3> QED
      BY <3>1
  <2>2. Cardinality(s \ {Pick(s)}) = n /\ s \ {Pick(s)} \in SUBSET S
    BY <2>1, PickFromSet
  <2> QED
    BY <2>1, <2>2
<1> HIDE DEF Sized
<1>3. Sized \in SUBSET Nat
  BY DEF Sized
<1>4. Sized = Nat
  BY <1>1, <1>2, <1>3, CountingUp
<1>5. ASSUME NEW s \in SUBSET S PROVE s \in G
  <2>1. Cardinality(s) \in Sized
    BY <1>4, FS_Subset, FS_CardinalityType
  <2> QED
    BY <2>1 DEF Sized
<1> QED
  BY <1>5

\* The recursion has a solution.
LEMMA PartialSumsExist ==
  ASSUME NEW S, IsFiniteSet(S), NEW f \in [S -> Int]
  PROVE  PartialSums(f, S) # {}
<1> DEFINE UpTo(n, h) ==
             \A s \in SUBSET S : Cardinality(s) <= n => SumsAt(h, f, s)
           Sized == {n \in Nat : \E h \in [SUBSET S -> Int] : UpTo(n, h)}
<1>1. \A s \in SUBSET S : Cardinality(s) \in Nat /\ (Cardinality(s) = 0 <=> s = {})
  <2> SUFFICES ASSUME NEW s \in SUBSET S
               PROVE  Cardinality(s) \in Nat /\ (Cardinality(s) = 0 <=> s = {})
    OBVIOUS
  <2>1. IsFiniteSet(s)
    BY FS_Subset
  <2> QED
    BY <2>1, FS_EmptySet, FS_CardinalityType
<1>2. 0 \in Sized
  <2> DEFINE h == [s \in SUBSET S |-> 0]
  <2>1. h \in [SUBSET S -> Int]
    OBVIOUS
  <2>2. UpTo(0, h)
    BY <1>1 DEF SumsAt
  <2> QED
    BY <2>1, <2>2
<1>3. ASSUME NEW n \in Sized PROVE n + 1 \in Sized
  <2>1. PICK h \in [SUBSET S -> Int] : UpTo(n, h)
    BY <1>3
  <2> DEFINE g == [s \in SUBSET S |->
                     IF s = {} THEN 0 ELSE f[Pick(s)] + h[s \ {Pick(s)}]]
  <2>2. g \in [SUBSET S -> Int]
    <3> SUFFICES ASSUME NEW s \in SUBSET S, s # {}
                 PROVE  f[Pick(s)] + h[s \ {Pick(s)}] \in Int
      OBVIOUS
    <3>1. Pick(s) \in S /\ s \ {Pick(s)} \in SUBSET S
      BY PickFromSet
    <3> QED
      BY <3>1
  <2>3. \A s \in SUBSET S : Cardinality(s) <= n => g[s] = h[s]
    BY <2>1 DEF SumsAt
  <2>4. UpTo(n + 1, g)
    <3> SUFFICES ASSUME NEW s \in SUBSET S, Cardinality(s) <= n + 1
                 PROVE  SumsAt(g, f, s)
      OBVIOUS
    <3>1. CASE s = {}
      BY <3>1 DEF SumsAt
    <3>2. CASE s # {}
      <4>1. /\ s \ {Pick(s)} \in SUBSET S
            /\ Cardinality(s \ {Pick(s)}) <= n
        BY <1>3, <3>2, PickFromSet
      <4>2. g[s \ {Pick(s)}] = h[s \ {Pick(s)}]
        BY <2>3, <4>1
      <4> QED
        BY <3>2, <4>2 DEF SumsAt
    <3> QED
      BY <3>1, <3>2
  <2> HIDE DEF g
  <2>5. n + 1 \in Nat
    BY <1>3
  <2> QED
    BY <2>2, <2>4, <2>5
<1>4. Sized \in SUBSET Nat
  OBVIOUS
<1> HIDE DEF Sized
<1>5. Sized = Nat
  BY <1>2, <1>3, <1>4, CountingUp
<1>6. Cardinality(S) \in Nat /\ \A s \in SUBSET S : Cardinality(s) <= Cardinality(S)
  BY FS_Subset, FS_CardinalityType
<1>7. PICK h \in [SUBSET S -> Int] : UpTo(Cardinality(S), h)
  BY <1>5, <1>6 DEF Sized
<1>8. h \in PartialSums(f, S)
  BY <1>6, <1>7 DEF PartialSums
<1> QED
  BY <1>8

\* SumFunction is one of these solutions.
LEMMA SumIsSolution ==
  ASSUME NEW S, IsFiniteSet(S), NEW f \in [S -> Int]
  PROVE  \E h \in PartialSums(f, S) : SumFunction(f) = h[S]
<1> DEFINE Solves(h) ==
             h = [s \in SUBSET S |->
                    IF s = {} THEN 0 ELSE f[Pick(s)] + h[s \ {Pick(s)}]]
           sums == CHOOSE h : Solves(h)
<1>1. SumFunction(f) = sums[S]
  BY DEF SumFunction, SumFunctionOnSet, FoldFunctionOnSet, MapThenFoldSet, Pick
<1>2. PICK g : g \in PartialSums(f, S)
  BY PartialSumsExist
<1>3. Solves(g)
  BY <1>2 DEF PartialSums, SumsAt
<1>4. Solves(sums)
  BY <1>3
<1> HIDE DEF sums
<1> DEFINE G == {s \in SUBSET S : sums[s] \in Int}
<1>5. {} \in G
  BY <1>4
<1>6. ASSUME NEW s \in SUBSET S, s # {}, s \ {Pick(s)} \in G
      PROVE  s \in G
  <2>1. Pick(s) \in S
    BY <1>6, PickFromSet
  <2>2. sums[s] = f[Pick(s)] + sums[s \ {Pick(s)}]
    BY <1>4, <1>6
  <2> QED
    BY <1>6, <2>1, <2>2
<1>7. G \in SUBSET (SUBSET S)
  OBVIOUS
<1> HIDE DEF G
<1>8. G = SUBSET S
  BY <1>5, <1>6, <1>7, PickingInduction
<1>9. sums \in PartialSums(f, S)
  <2>1. sums \in [SUBSET S -> Int]
    BY <1>4, <1>8 DEF G
  <2> QED
    BY <1>4, <2>1 DEF PartialSums, SumsAt
<1> QED
  BY <1>1, <1>9
-----------------------------------------------------------------------------
\* A sum of integers is an integer.
LEMMA SumType ==
  ASSUME NEW S, IsFiniteSet(S), NEW f \in [S -> Int]
  PROVE  SumFunction(f) \in Int
<1>1. PICK h \in PartialSums(f, S) : SumFunction(f) = h[S]
  BY SumIsSolution
<1>2. h \in [SUBSET S -> Int]
  BY DEF PartialSums
<1> QED
  BY <1>1, <1>2

\* A sum in which one term is replaced changes as the term does.
LEMMA SumUpdate ==
  ASSUME NEW S, IsFiniteSet(S), NEW f \in [S -> Int], NEW x \in S, NEW v \in Int
  PROVE  SumFunction([f EXCEPT ![x] = v]) = SumFunction(f) - f[x] + v
<1> DEFINE e == [f EXCEPT ![x] = v]
<1>1. e \in [S -> Int] /\ e[x] = v /\ \A y \in S \ {x} : e[y] = f[y]
  OBVIOUS
<1> HIDE DEF e
<1>2. PICK h \in PartialSums(f, S) : SumFunction(f) = h[S]
  BY SumIsSolution
<1>3. PICK k \in PartialSums(e, S) : SumFunction(e) = k[S]
  BY <1>1, SumIsSolution
<1> DEFINE G == {s \in SUBSET S :
                   k[s] = h[s] + (IF x \in s THEN v - f[x] ELSE 0)}
<1>4. {} \in G
  <2>1. h[{}] = 0 /\ k[{}] = 0
    BY <1>2, <1>3 DEF PartialSums, SumsAt
  <2> QED
    BY <2>1
<1>5. ASSUME NEW s \in SUBSET S, s # {}, s \ {Pick(s)} \in G
      PROVE  s \in G
  <2> DEFINE y == Pick(s)
             r == s \ {Pick(s)}
  <2>1. y \in S /\ y \in s /\ r \in SUBSET S
    BY <1>5, PickFromSet
  <2>2. h[s] = f[y] + h[r] /\ k[s] = e[y] + k[r]
    BY <1>2, <1>3, <1>5 DEF PartialSums, SumsAt
  <2>3. h[r] \in Int /\ k[r] \in Int /\ f[y] \in Int /\ e[y] \in Int /\ f[x] \in Int
    BY <1>1, <1>2, <1>3, <2>1 DEF PartialSums
  <2>4. k[r] = h[r] + (IF x \in r THEN v - f[x] ELSE 0)
    BY <1>5
  <2>5. CASE x = y
    <3>1. x \notin r /\ x \in s /\ e[y] = v
      BY <1>1, <2>1, <2>5
    <3>2. k[s] = h[s] + (v - f[x])
      BY <2>2, <2>3, <2>4, <2>5, <3>1
    <3> QED
      BY <3>1, <3>2
  <2>6. CASE x # y
    <3>1. (x \in r <=> x \in s) /\ e[y] = f[y]
      BY <1>1, <2>1, <2>6
    <3>2. k[s] = h[s] + (IF x \in r THEN v - f[x] ELSE 0)
      BY <2>2, <2>3, <2>4, <3>1
    <3> QED
      BY <3>1, <3>2
  <2> QED
    BY <2>5, <2>6
<1>6. G \in SUBSET (SUBSET S)
  OBVIOUS
<1> HIDE DEF G
<1>7. S \in G
  BY <1>4, <1>5, <1>6, PickingInduction
<1>8. h[S] \in Int /\ f[x] \in Int
  BY <1>2 DEF PartialSums
<1> QED
  BY <1>2, <1>3, <1>7, <1>8 DEF G, e

\* A sum is not greater than another whose terms are not less.
LEMMA SumMonotone ==
  ASSUME NEW S, IsFiniteSet(S), NEW f \in [S -> Int], NEW g \in [S -> Int],
         \A x \in S : f[x] <= g[x]
  PROVE  SumFunction(f) <= SumFunction(g)
<1>1. PICK h \in PartialSums(f, S) : SumFunction(f) = h[S]
  BY SumIsSolution
<1>2. PICK k \in PartialSums(g, S) : SumFunction(g) = k[S]
  BY SumIsSolution
<1> DEFINE G == {s \in SUBSET S : h[s] <= k[s]}
<1>3. {} \in G
  <2>1. h[{}] = 0 /\ k[{}] = 0
    BY <1>1, <1>2 DEF PartialSums, SumsAt
  <2> QED
    BY <2>1
<1>4. ASSUME NEW s \in SUBSET S, s # {}, s \ {Pick(s)} \in G
      PROVE  s \in G
  <2> DEFINE y == Pick(s)
             r == s \ {Pick(s)}
  <2>1. y \in S /\ r \in SUBSET S
    BY <1>4, PickFromSet
  <2>2. h[s] = f[y] + h[r] /\ k[s] = g[y] + k[r]
    BY <1>1, <1>2, <1>4 DEF PartialSums, SumsAt
  <2>3. h[r] \in Int /\ k[r] \in Int /\ f[y] \in Int /\ g[y] \in Int
    BY <2>1 DEF PartialSums
  <2> QED
    BY <1>4, <2>1, <2>2, <2>3
<1>5. G \in SUBSET (SUBSET S)
  OBVIOUS
<1> HIDE DEF G
<1>6. S \in G
  BY <1>3, <1>4, <1>5, PickingInduction
<1> QED
  BY <1>1, <1>2, <1>6 DEF G

\* A sum of ones, one for each member of a subset, is its size.
LEMMA SumCounts ==
  ASSUME NEW S, IsFiniteSet(S), NEW T \in SUBSET S
  PROVE  SumFunction([x \in S |-> IF x \in T THEN 1 ELSE 0]) = Cardinality(T)
<1> DEFINE f == [x \in S |-> IF x \in T THEN 1 ELSE 0]
<1>1. f \in [S -> Int] /\ \A x \in S : f[x] = IF x \in T THEN 1 ELSE 0
  OBVIOUS
<1> HIDE DEF f
<1>2. PICK h \in PartialSums(f, S) : SumFunction(f) = h[S]
  BY <1>1, SumIsSolution
<1> DEFINE G == {s \in SUBSET S : h[s] = Cardinality(s \cap T)}
<1>3. {} \in G
  <2>1. h[{}] = 0
    BY <1>2 DEF PartialSums, SumsAt
  <2>2. {} \cap T = {}
    OBVIOUS
  <2> QED
    BY <2>1, <2>2, FS_EmptySet
<1>4. ASSUME NEW s \in SUBSET S, s # {}, s \ {Pick(s)} \in G
      PROVE  s \in G
  <2> DEFINE y == Pick(s)
             r == s \ {Pick(s)}
  <2>1. y \in S /\ y \in s
    BY <1>4, PickFromSet
  <2>2. h[s] = f[y] + h[r] /\ h[r] = Cardinality(r \cap T)
    BY <1>2, <1>4 DEF PartialSums, SumsAt
  <2>3. IsFiniteSet(r \cap T) /\ Cardinality(r \cap T) \in Nat
    <3>1. r \cap T \in SUBSET S
      OBVIOUS
    <3> QED
      BY <3>1, FS_Subset, FS_CardinalityType
  <2>4. CASE y \in T
    <3>1. s \cap T = (r \cap T) \cup {y} /\ y \notin r \cap T
      BY <2>1, <2>4
    <3>2. Cardinality(s \cap T) = Cardinality(r \cap T) + 1
      BY <2>3, <3>1, FS_AddElement
    <3>3. f[y] = 1
      BY <1>1, <2>1, <2>4
    <3>4. h[s] = Cardinality(s \cap T)
      BY <2>2, <2>3, <3>2, <3>3
    <3> QED
      BY <3>4
  <2>5. CASE y \notin T
    <3>1. s \cap T = r \cap T
      BY <2>5
    <3>2. f[y] = 0
      BY <1>1, <2>1, <2>5
    <3>3. Cardinality(s \cap T) = Cardinality(r \cap T)
      BY <3>1, Zenon
    <3>4. h[s] = Cardinality(s \cap T)
      BY <2>2, <2>3, <3>2, <3>3
    <3> QED
      BY <3>4
  <2> QED
    BY <2>4, <2>5
<1>5. G \in SUBSET (SUBSET S)
  OBVIOUS
<1> HIDE DEF G
<1>6. S \in G
  BY <1>3, <1>4, <1>5, PickingInduction
<1>7. S \cap T = T
  OBVIOUS
<1> QED
  BY <1>2, <1>6, <1>7 DEF G, f

\* A sum of nothing but zeros is zero.
LEMMA SumOfZeros ==
  ASSUME NEW S, IsFiniteSet(S)
  PROVE  SumFunction([x \in S |-> 0]) = 0
<1>1. SumFunction([x \in S |-> IF x \in {} THEN 1 ELSE 0]) = Cardinality({})
  BY SumCounts
<1>2. [x \in S |-> IF x \in {} THEN 1 ELSE 0] = [x \in S |-> 0]
  OBVIOUS
<1> QED
  BY <1>1, <1>2, FS_EmptySet
=============================================================================

------------------------------- MODULE Induction -------------------------------
(***************************************************************************)
(* Induction over numbers, and recursive functions, in a form in which a   *)
(* property is a set of numbers and a recursion is given by functions, so  *)
(* that no operator need be a parameter.                                   *)
(*                                                                         *)
(* A recursive function f[d \in D] == e is CHOOSE f : f = [d \in D |-> e]. *)
(* That there is such a function is what Recursion gives, and then the     *)
(* equation holds of it.                                                   *)
(***************************************************************************)
EXTENDS Integers, Sequences, FiniteSets, FiniteSetsExt, FiniteSetTheorems,
        WellFoundedInduction, TLAPS

-----------------------------------------------------------------------------
(***************************************************************************)
(* The least and the greatest of a set of numbers.                         *)
(***************************************************************************)

\* The order of the numbers, as a set of pairs.
NatOrder == {p \in Nat \X Nat : p[1] < p[2]}

\* There is no endless descent in it.
LEMMA NatWellFounded == IsWellFoundedOn(NatOrder, Nat)
<1>1. NatOrder = OpToRel(<, Nat)
  BY DEF NatOrder, OpToRel
<1> QED
  BY <1>1, NatLessThanWellFounded

\* A set of numbers has a least one, and Min is it.
LEMMA Least ==
  ASSUME NEW S \in SUBSET Nat, S # {}
  PROVE  Min(S) \in S /\ \A x \in S : Min(S) <= x
<1>1. PICK x \in S : \A y \in S : ~(<<y, x>> \in NatOrder)
  BY NatWellFounded, WFMin
<1>2. ASSUME NEW y \in S
      PROVE  x <= y
  <2>1. ~(<<y, x>> \in NatOrder)
    BY <1>1
  <2>2. <<y, x>> \in Nat \X Nat
    OBVIOUS
  <2>3. ~(y < x)
    BY <2>1, <2>2 DEF NatOrder
  <2> QED
    BY <2>3
<1>3. \E z \in S : \A y \in S : z =< y
  BY <1>2
<1> DEFINE IsLeast(z) == z \in S /\ \A y \in S : z =< y
<1>4. IsLeast(CHOOSE z : IsLeast(z))
  BY <1>3
<1> QED
  BY <1>4 DEF Min

\* What holds of 0, and of n + 1 if it holds of n, holds of every number.
LEMMA EveryNumber ==
  ASSUME NEW S, 0 \in S, \A n \in Nat : n \in S => n + 1 \in S
  PROVE  \A n \in Nat : n \in S
<1> DEFINE Others == Nat \ S
<1>1. CASE Others = {}
  BY <1>1
<1>2. CASE Others # {}
  <2>1. Others \in SUBSET Nat
    OBVIOUS
  <2>2. PICK m : m \in Others /\ \A x \in Others : m <= x
    BY <1>2, <2>1, Least
  <2>3. m \in Nat /\ m # 0
    BY <2>2
  <2>4. m - 1 \in Nat /\ m - 1 \notin Others /\ (m - 1) + 1 = m
    BY <2>2, <2>3
  <2> QED
    BY <2>2, <2>4
<1> QED
  BY <1>1, <1>2

\* The same from one number to another.
LEMMA EveryNumberFromTo ==
  ASSUME NEW low \in Nat, NEW high \in Nat, NEW S,
         low <= high => low \in S, \A n \in low..(high - 1) : n \in S => n + 1 \in S
  PROVE  \A n \in low..high : n \in S
<1> DEFINE T == {n \in Nat : low + n <= high => low + n \in S}
<1>1. 0 \in T
  OBVIOUS
<1>2. ASSUME NEW n \in Nat, n \in T
      PROVE  n + 1 \in T
  <2> SUFFICES ASSUME low + (n + 1) <= high
               PROVE  low + (n + 1) \in S
    OBVIOUS
  <2>1. low + n \in low..(high - 1) /\ low + n \in S
    BY <1>2
  <2>2. (low + n) + 1 \in S
    BY <2>1
  <2>3. (low + n) + 1 = low + (n + 1)
    OBVIOUS
  <2> QED
    BY <2>2, <2>3
<1>3. \A n \in Nat : n \in T
  <2> HIDE DEF T
  <2> QED
    BY <1>1, <1>2, EveryNumber
<1>4. ASSUME NEW n \in low..high
      PROVE  n \in S
  <2>1. n - low \in T /\ low + (n - low) = n
    BY <1>3
  <2> QED
    BY <2>1
<1> QED
  BY <1>4

\* What holds of a number if it holds of all smaller ones holds of every number.
LEMMA EveryNumberBySmaller ==
  ASSUME NEW S, \A n \in Nat : (\A k \in 0..(n - 1) : k \in S) => n \in S
  PROVE  \A n \in Nat : n \in S
<1> DEFINE T == {n \in Nat : \A k \in 0..(n - 1) : k \in S}
<1>1. 0 \in T
  OBVIOUS
<1>2. ASSUME NEW n \in Nat, n \in T
      PROVE  n + 1 \in T
  <2>1. n \in S
    BY <1>2
  <2>2. \A k \in 0..((n + 1) - 1) : k = n \/ k \in 0..(n - 1)
    OBVIOUS
  <2> QED
    BY <1>2, <2>1, <2>2
<1>3. \A n \in Nat : n \in T
  <2> HIDE DEF T
  <2> QED
    BY <1>1, <1>2, EveryNumber
<1> QED
  BY <1>3

\* A set of some of the first numbers has a greatest one, and Max is it.
LEMMA Greatest ==
  ASSUME NEW n \in Nat, NEW S \in SUBSET (1..n), S # {}
  PROVE  Max(S) \in S /\ \A x \in S : x <= Max(S)
<1> DEFINE T == {n - x : x \in S}
           IsGreatest(z) == z \in S /\ \A y \in S : z >= y
<1>1. T \in SUBSET Nat /\ T # {}
  <2>1. \A x \in S : n - x \in Nat
    OBVIOUS
  <2>2. T \subseteq Nat
    BY <2>1
  <2>3. T # {}
    OBVIOUS
  <2> QED
    BY <2>2, <2>3
<1>2. PICK m : m \in T /\ \A x \in T : m <= x
  <2> HIDE DEF T
  <2> QED
    BY <1>1, Least
<1>3. PICK z \in S : m = n - z
  BY <1>2
<1>4. \A y \in S : z >= y
  <2> SUFFICES ASSUME NEW y \in S
               PROVE  z >= y
    OBVIOUS
  <2>1. n - z <= n - y
    BY <1>2, <1>3
  <2> QED
    BY <2>1
<1>5. IsGreatest(z)
  BY <1>4
<1>6. IsGreatest(CHOOSE x : IsGreatest(x))
  <2> HIDE DEF IsGreatest
  <2> QED
    BY <1>5
<1>7. Max(S) = CHOOSE x : IsGreatest(x)
  BY DEF Max
<1>8. IsGreatest(Max(S))
  <2> HIDE DEF IsGreatest
  <2> QED
    BY <1>6, <1>7
<1> QED
  BY <1>8

\* The greatest of the first n numbers is the n-th, and the others are the first
\* n - 1.
LEMMA GreatestOfFirst ==
  ASSUME NEW n \in Nat \ {0}
  PROVE  Max(1..n) = n /\ (1..n) \ {n} = 1..(n - 1)
<1>1. Max(1..n) \in 1..n /\ \A x \in 1..n : x <= Max(1..n)
  <2>1. 1..n \in SUBSET (1..n) /\ 1..n # {}
    OBVIOUS
  <2> QED
    BY <2>1, Greatest
<1>2. n \in 1..n
  OBVIOUS
<1>3. Max(1..n) = n
  <2> DEFINE m == Max(1..n)
  <2>1. m \in 1..n /\ n <= m
    BY <1>1, <1>2
  <2> HIDE DEF m
  <2>2. m = n
    BY <2>1
  <2> QED
    BY <2>2 DEF m
<1>4. (1..n) \ {n} = 1..(n - 1)
  OBVIOUS
<1> QED
  BY <1>3, <1>4

-----------------------------------------------------------------------------
(***************************************************************************)
(* Recursive functions.                                                    *)
(***************************************************************************)

\* What gives a function: its value on the elements of D of rank 0, and, on each
\* other element, a step from its value on one of smaller rank.
IsRecursion(X, D, base, step, prev, rank) ==
  /\ base \in [D -> X]
  /\ step \in [D -> [X -> X]]
  /\ prev \in [D -> D]
  /\ rank \in [D -> Nat]
  /\ \A d \in D : rank[d] # 0 => rank[prev[d]] < rank[d]

\* There is such a function.
LEMMA Recursion ==
  ASSUME NEW X, NEW D, NEW base, NEW step, NEW prev, NEW rank,
         IsRecursion(X, D, base, step, prev, rank)
  PROVE  \E f \in [D -> X] :
           \A d \in D : f[d] = IF rank[d] = 0 THEN base[d] ELSE step[d][f[prev[d]]]
<1> USE DEF IsRecursion
<1> DEFINE UpTo(n) == {d \in D : rank[d] <= n}
           Value(g, d) == IF rank[d] = 0 THEN base[d] ELSE step[d][g[prev[d]]]
           Approximates(g, n) == g \in [UpTo(n) -> X] /\ \A d \in UpTo(n) : g[d] = Value(g, d)
           S == {n \in Nat : \E g : Approximates(g, n)}
\* It can be given up to a rank, ...
<1>1. \A n \in Nat : \A d \in UpTo(n) : rank[d] # 0 =>
        prev[d] \in UpTo(n) /\ rank[prev[d]] < rank[d]
  OBVIOUS
<1>2. 0 \in S
  <2> DEFINE g == [d \in UpTo(0) |-> base[d]]
  <2>1. \A d \in UpTo(0) : rank[d] = 0
    BY <1>1
  <2>2. Approximates(g, 0)
    BY <2>1
  <2> QED
    BY <2>2
<1>3. ASSUME NEW n \in Nat, n \in S
      PROVE  n + 1 \in S
  <2>1. PICK g : Approximates(g, n)
    BY <1>3
  <2> DEFINE h == [d \in UpTo(n + 1) |-> Value(g, d)]
  <2>2. \A d \in UpTo(n + 1) : rank[d] # 0 => prev[d] \in UpTo(n) /\ rank[prev[d]] <= n
    OBVIOUS
  <2>3. \A d \in UpTo(n) : h[d] = g[d]
    BY <2>1
  <2>4. \A d \in UpTo(n + 1) : Value(g, d) \in X
    BY <2>1, <2>2
  <2>5. \A d \in UpTo(n + 1) : h[d] = Value(h, d)
    BY <2>2, <2>3
  <2>6. h \in [UpTo(n + 1) -> X]
    BY <2>4
  <2>7. Approximates(h, n + 1)
    BY <2>5, <2>6
  <2> HIDE DEF h, Approximates
  <2> QED
    BY <2>7
<1>4. \A n \in Nat : \E g : Approximates(g, n)
  <2> HIDE DEF Approximates
  <2>1. \A n \in Nat : n \in S
    <3> HIDE DEF S
    <3> QED
      BY <1>2, <1>3, EveryNumber
  <2> QED
    BY <2>1
\* ... in one way only, ...
<1>5. ASSUME NEW m \in Nat, NEW n \in Nat, NEW g, NEW h, Approximates(g, m), Approximates(h, n)
      PROVE  \A d \in UpTo(m) : d \in UpTo(n) => g[d] = h[d]
  <2> DEFINE Agree == {k \in Nat : \A d \in UpTo(m) : d \in UpTo(n) /\ rank[d] = k => g[d] = h[d]}
  <2>1. ASSUME NEW k \in Nat, \A i \in 0..(k - 1) : i \in Agree
        PROVE  k \in Agree
    <3> SUFFICES ASSUME NEW d \in UpTo(m), d \in UpTo(n), rank[d] = k
                 PROVE  g[d] = h[d]
      OBVIOUS
    <3>1. CASE rank[d] = 0
      BY <1>5, <3>1
    <3>2. CASE rank[d] # 0
      <4>1. /\ prev[d] \in UpTo(m) /\ prev[d] \in UpTo(n)
            /\ rank[prev[d]] \in Nat /\ rank[prev[d]] < k
        BY <3>2, <1>1
      <4>2. rank[prev[d]] \in Agree
        BY <2>1, <4>1
      <4>3. g[prev[d]] = h[prev[d]]
        BY <4>1, <4>2
      <4>4. g[d] = Value(g, d) /\ h[d] = Value(h, d)
        BY <1>5
      <4> QED
        BY <3>2, <4>3, <4>4
    <3> QED
      BY <3>1, <3>2
  <2>2. \A k \in Nat : k \in Agree
    <3> HIDE DEF Agree
    <3> QED
      BY <2>1, EveryNumberBySmaller
  <2> QED
    BY <2>2
\* ... and therefore everywhere.
<1> DEFINE Approximation(n) == CHOOSE g : Approximates(g, n)
           f == [d \in D |-> Approximation(rank[d])[d]]
<1>6. \A n \in Nat : Approximates(Approximation(n), n)
  <2> HIDE DEF Approximates
  <2> QED
    BY <1>4
<1> HIDE DEF Approximation
<1>7. \A d \in D : f[d] = Value(f, d) /\ f[d] \in X
  <2> SUFFICES ASSUME NEW d \in D
               PROVE  f[d] = Value(f, d) /\ f[d] \in X
    OBVIOUS
  <2>1. rank[d] \in Nat /\ d \in UpTo(rank[d])
    OBVIOUS
  <2>2. PICK g : g = Approximation(rank[d])
    OBVIOUS
  <2>3. Approximates(g, rank[d])
    BY <1>6, <2>1, <2>2
  <2>4. f[d] = g[d] /\ g[d] = Value(g, d) /\ g[d] \in X
    BY <2>1, <2>2, <2>3
  <2>5. CASE rank[d] = 0
    BY <2>4, <2>5
  <2>6. CASE rank[d] # 0
    <3>1. prev[d] \in D /\ rank[prev[d]] \in Nat /\ rank[prev[d]] < rank[d]
      BY <2>6
    <3>2. PICK h : h = Approximation(rank[prev[d]])
      OBVIOUS
    <3>3. Approximates(h, rank[prev[d]])
      BY <1>6, <3>1, <3>2
    <3>4. prev[d] \in UpTo(rank[d]) /\ prev[d] \in UpTo(rank[prev[d]])
      BY <2>1, <3>1
    <3>5. g[prev[d]] = h[prev[d]]
      <4> HIDE DEF Approximates, UpTo
      <4> QED
        BY <1>5, <2>1, <2>3, <3>1, <3>3, <3>4
    <3>6. f[prev[d]] = h[prev[d]]
      BY <3>1, <3>2
    <3> QED
      BY <2>4, <2>6, <3>5, <3>6
  <2> QED
    BY <2>5, <2>6
<1>8. f \in [D -> X]
  <2> HIDE DEF f
  <2>1. f = [d \in D |-> f[d]]
    BY DEF f
  <2> QED
    BY <1>7, <2>1
<1>9. \A d \in D : f[d] = IF rank[d] = 0 THEN base[d] ELSE step[d][f[prev[d]]]
  BY <1>7
<1> QED
  <2> HIDE DEF f
  <2> QED
    BY <1>8, <1>9

\* A function on sets of numbers may be given by taking away the greatest: this is
\* how the folds of the libraries are defined.
IsFold(n, X, base, step, f) ==
  /\ f \in [SUBSET (1..n) -> X]
  /\ \A s \in SUBSET (1..n) : f[s] = IF s = {} THEN base ELSE step[Max(s)][f[s \ {Max(s)}]]

\* There is such a function.
LEMMA FoldRecursion ==
  ASSUME NEW n \in Nat, NEW X, NEW base \in X, NEW step \in [1..n -> [X -> X]]
  PROVE  \E f : IsFold(n, X, base, step, f)
<1> DEFINE D == SUBSET (1..n)
           bases == [s \in D |-> base]
           steps == [s \in D |-> IF s = {} THEN [x \in X |-> x] ELSE step[Max(s)]]
           prev == [s \in D |-> s \ {Max(s)}]
           rank == [s \in D |-> Cardinality(s)]
<1>1. \A s \in D : s # {} => Max(s) \in s /\ Max(s) \in 1..n
  BY Greatest
<1>2. \A s \in D : IsFiniteSet(s) /\ Cardinality(s) \in Nat
  <2>1. IsFiniteSet(1..n)
    BY FS_Interval
  <2>2. \A s \in D : IsFiniteSet(s)
    BY <2>1, FS_Subset
  <2> QED
    BY <2>2, FS_CardinalityType
<1>3. \A s \in D : s # {} => Cardinality(s \ {Max(s)}) < Cardinality(s)
  <2> SUFFICES ASSUME NEW s \in D, s # {}
               PROVE  Cardinality(s \ {Max(s)}) < Cardinality(s)
    OBVIOUS
  <2>1. Cardinality(s \ {Max(s)}) = Cardinality(s) - 1
    BY <1>1, <1>2, FS_RemoveElement
  <2> QED
    BY <1>2, <2>1
<1>4. bases \in [D -> X] /\ steps \in [D -> [X -> X]] /\ prev \in [D -> D] /\ rank \in [D -> Nat]
  BY <1>1, <1>2
<1>5. \A s \in D : (rank[s] = 0 <=> s = {}) /\ (rank[s] # 0 => rank[prev[s]] < rank[s])
  BY <1>2, <1>3, FS_EmptySet
<1>6. IsRecursion(X, D, bases, steps, prev, rank)
  BY <1>4, <1>5 DEF IsRecursion
<1>7. \E f \in [D -> X] :
        \A s \in D : f[s] = IF rank[s] = 0 THEN bases[s] ELSE steps[s][f[prev[s]]]
  <2> HIDE DEF D, bases, steps, prev, rank
  <2> QED
    BY <1>6, Recursion
<1>8. PICK f \in [D -> X] :
        \A s \in D : f[s] = IF rank[s] = 0 THEN bases[s] ELSE steps[s][f[prev[s]]]
  BY <1>7
<1>9. \A s \in D : f[s] = IF s = {} THEN base ELSE step[Max(s)][f[s \ {Max(s)}]]
  <2> SUFFICES ASSUME NEW s \in D
               PROVE  f[s] = IF s = {} THEN base ELSE step[Max(s)][f[s \ {Max(s)}]]
    OBVIOUS
  <2>1. f[s] = IF rank[s] = 0 THEN bases[s] ELSE steps[s][f[prev[s]]]
    BY <1>8
  <2> QED
    BY <1>5, <2>1
<1> QED
  BY <1>8, <1>9 DEF IsFold
=============================================================================

---------------------------- MODULE HelloProofs ----------------------------
(***************************************************************************)
(* What is proved of a request's way to its response: over queries and     *)
(* forms of any length, PairsReadBack, EveryValueIsThere and               *)
(* TextsGivenInParts; that the matcher is used as it is specified; and     *)
(* HelloTypeOK.                                                            *)
(*                                                                         *)
(* PairsReadBack takes what the position of the iterator is, what          *)
(* Increment does to it, and what a split at the first equals sign is.     *)
(* EveryValueIsThere takes counting: wherever a multimap puts a value      *)
(* among its key's, there is one more of it, and as many of any other.     *)
(* TextsGivenInParts takes what the fold over a text has made of each of   *)
(* its beginnings.  HelloTypeOK takes the theorems about the matcher, and  *)
(* the templates of the resources, read letter by letter.                  *)
(***************************************************************************)
EXTENDS HelloServer, Induction, SequenceTheorems

-----------------------------------------------------------------------------
(***************************************************************************)
(* A part of a text and its pair.                                          *)
(***************************************************************************)

\* What is where in two sequences with a letter between them.
LEMMA ThreeParts ==
  ASSUME NEW T, NEW a \in Seq(T), NEW b \in T, NEW c \in Seq(T)
  PROVE  /\ a \o <<b>> \o c \in Seq(T)
         /\ Len(a \o <<b>> \o c) = Len(a) + 1 + Len(c)
         /\ \A j \in 1..Len(a) : (a \o <<b>> \o c)[j] = a[j]
         /\ (a \o <<b>> \o c)[Len(a) + 1] = b
         /\ \A j \in 1..Len(c) : (a \o <<b>> \o c)[Len(a) + 1 + j] = c[j]
<1> DEFINE u == a \o <<b>>
           t == u \o c
<1>1. /\ <<b>> \in Seq(T) /\ Len(<<b>>) = 1 /\ <<b>>[1] = b
  OBVIOUS
<1>2. /\ u \in Seq(T) /\ Len(u) = Len(a) + 1
      /\ \A j \in 1..Len(a) : u[j] = a[j]
      /\ u[Len(a) + 1] = b
  BY <1>1
<1> HIDE DEF u
<1>3. t \in Seq(T) /\ Len(t) = Len(a) + 1 + Len(c)
  BY <1>2
<1>4. \A j \in 1..(Len(a) + 1) : t[j] = u[j]
  BY <1>2
<1>5. \A j \in 1..Len(c) : t[Len(a) + 1 + j] = c[j]
  BY <1>2
<1> HIDE DEF t
<1>6. \A j \in 1..Len(a) : t[j] = a[j]
  BY <1>2, <1>4
<1>7. t[Len(a) + 1] = b
  BY <1>2, <1>4
<1> QED
  BY <1>3, <1>5, <1>6, <1>7 DEF t, u

\* Texts, and keys and values in them.
Word == Seq(Letter)

\* A part can be read back from its key and value: the first equals sign splits
\* it, so the key has none (query_string.h:35-40).
LEMMA SplitIsReadBack ==
  ASSUME NEW part \in Word
  PROVE  /\ SplitKeyValue(part) \in Word \X Word
         /\ \A j \in DOMAIN SplitKeyValue(part)[1] : SplitKeyValue(part)[1][j] # Equals
         /\ \/ part = SplitKeyValue(part)[1] \o <<Equals>> \o SplitKeyValue(part)[2]
            \/ part = SplitKeyValue(part)[1] /\ SplitKeyValue(part)[2] = <<>>
<1> DEFINE signs == {i \in DOMAIN part : part[i] = Equals}
<1>1. CASE signs = {}
  <2>1. SplitKeyValue(part) = <<part, <<>>>>
    BY <1>1 DEF SplitKeyValue
  <2> QED
    <3>1. \A j \in DOMAIN part : part[j] # Equals
      BY <1>1
    <3>2. <<>> \in Word
      BY DEF Word
    <3>3. <<part, <<>>>> \in Word \X Word
      BY <3>2
    <3> QED
      BY <2>1, <3>1, <3>3
<1>2. CASE signs # {}
  <2> DEFINE m == Min(signs)
             key == SubSeq(part, 1, m - 1)
             value == SubSeq(part, m + 1, Len(part))
  <2>1. SplitKeyValue(part) = <<key, value>>
    BY <1>2 DEF SplitKeyValue
  <2>2. signs \in SUBSET Nat
    BY DEF Word
  <2>3. m \in signs /\ \A x \in signs : m <= x
    BY <1>2, <2>2, Least
  <2> HIDE DEF m
  <2>4. m \in 1..Len(part) /\ part[m] = Equals
    BY <2>3 DEF Word
  <2>5. /\ key \in Word /\ Len(key) = m - 1
        /\ \A j \in 1..(m - 1) : key[j] = part[j]
    BY <2>4 DEF Word
  <2>6. /\ value \in Word /\ Len(value) = Len(part) - m
        /\ \A j \in 1..(Len(part) - m) : value[j] = part[m + j]
    BY <2>4 DEF Word
  <2>7. \A j \in DOMAIN key : key[j] # Equals
    <3> SUFFICES ASSUME NEW j \in DOMAIN key
                 PROVE  key[j] # Equals
      OBVIOUS
    <3>1. j \in 1..(m - 1)
      BY <2>5, <2>4 DEF Word
    <3>2. j \in DOMAIN part /\ ~(m <= j)
      BY <3>1, <2>4 DEF Word
    <3> QED
      BY <3>1, <3>2, <2>3, <2>5
  <2>8. part = key \o <<Equals>> \o value
    <3> DEFINE whole == key \o <<Equals>> \o value
    <3>1. Equals \in Letter
      BY EqualsAssumption
    <3> HIDE DEF key, value
    <3>2. /\ whole \in Word /\ Len(whole) = Len(part)
          /\ \A j \in 1..(m - 1) : whole[j] = key[j]
          /\ whole[m] = Equals
          /\ \A j \in 1..(Len(part) - m) : whole[m + j] = value[j]
      <4>1. m - 1 + 1 = m /\ m - 1 + 1 + (Len(part) - m) = Len(part)
        BY <2>4 DEF Word
      <4>2. /\ whole \in Word
            /\ Len(whole) = Len(key) + 1 + Len(value)
            /\ \A j \in 1..Len(key) : whole[j] = key[j]
            /\ whole[Len(key) + 1] = Equals
            /\ \A j \in 1..Len(value) : whole[Len(key) + 1 + j] = value[j]
        <5>1. key \in Seq(Letter) /\ value \in Seq(Letter)
          BY <2>5, <2>6 DEF Word
        <5>2. /\ whole \in Seq(Letter)
              /\ Len(whole) = Len(key) + 1 + Len(value)
              /\ \A j \in 1..Len(key) : whole[j] = key[j]
              /\ whole[Len(key) + 1] = Equals
              /\ \A j \in 1..Len(value) : whole[Len(key) + 1 + j] = value[j]
          BY <5>1, <3>1, ThreeParts
        <5> QED
          BY <5>2 DEF Word
      <4> HIDE DEF whole
      <4> QED
        BY <2>4, <2>5, <2>6, <4>1, <4>2
    <3>3. ASSUME NEW i \in 1..Len(part)
          PROVE  whole[i] = part[i]
      <4>1. CASE i < m
        <5>1. i \in 1..(m - 1)
          BY <4>1, <2>4 DEF Word
        <5> QED
          BY <5>1, <3>2, <2>5
      <4>2. CASE i = m
        BY <4>2, <2>4, <3>2
      <4>3. CASE i > m
        <5>1. i - m \in 1..(Len(part) - m) /\ m + (i - m) = i
          BY <4>3, <2>4 DEF Word
        <5> QED
          BY <5>1, <3>2, <2>6
      <4>4. i < m \/ i = m \/ i > m
        BY <2>4 DEF Word
      <4> QED
        BY <4>1, <4>2, <4>3, <4>4
    <3> HIDE DEF whole
    <3>4. whole = part
      BY <3>2, <3>3 DEF Word
    <3> QED
      BY <3>4 DEF whole
  <2> HIDE DEF key, value
  <2>9. <<key, value>>[1] = key /\ <<key, value>>[2] = value
    OBVIOUS
  <2>10. <<key, value>> \in Word \X Word
    BY <2>5, <2>6
  <2> QED
    BY <2>1, <2>7, <2>8, <2>9, <2>10
<1> QED
  BY <1>1, <1>2

-----------------------------------------------------------------------------
(***************************************************************************)
(* Counting.                                                               *)
(***************************************************************************)

\* Where a value is in a sequence.
Where(s, w) == {j \in DOMAIN s : s[j] = w}

\* The places in a sequence are finitely many.
LEMMA WhereFinite ==
  ASSUME NEW T, NEW s \in Seq(T), NEW w
  PROVE  IsFiniteSet(Where(s, w)) /\ Cardinality(Where(s, w)) \in Nat
<1>1. Where(s, w) \in SUBSET (1..Len(s))
  BY DEF Where
<1>2. IsFiniteSet(1..Len(s))
  BY FS_Interval
<1>3. IsFiniteSet(Where(s, w))
  BY <1>1, <1>2, FS_Subset
<1> QED
  BY <1>3, FS_CardinalityType

\* Wherever a value is inserted there is one more of it, and of each other value
\* as many as before: what follows it moves on by one.
LEMMA InsertCounts ==
  ASSUME NEW T, NEW s \in Seq(T), NEW v \in T, NEW i \in 1..(Len(s) + 1), NEW w
  PROVE  /\ InsertAt(s, i, v) \in Seq(T)
         /\ Len(InsertAt(s, i, v)) = Len(s) + 1
         /\ Cardinality(Where(InsertAt(s, i, v), w))
              = Cardinality(Where(s, w)) + (IF w = v THEN 1 ELSE 0)
<1> DEFINE t == InsertAt(s, i, v)
           left == SubSeq(s, 1, i - 1)
           right == SubSeq(s, i, Len(s))
           A == Where(s, w)
           B == Where(t, w) \ {i}
           f == [j \in A |-> IF j < i THEN j ELSE j + 1]
<1>1. /\ left \in Seq(T) /\ Len(left) = i - 1
      /\ \A j \in 1..(i - 1) : left[j] = s[j]
  OBVIOUS
<1>2. /\ right \in Seq(T) /\ Len(right) = Len(s) + 1 - i
      /\ \A j \in 1..(Len(s) + 1 - i) : right[j] = s[i + j - 1]
  OBVIOUS
<1>3. t = left \o <<v>> \o right
  BY DEF InsertAt
<1> HIDE DEF t, left, right
<1>4. /\ t \in Seq(T) /\ Len(t) = Len(s) + 1
      /\ \A j \in 1..(i - 1) : t[j] = left[j]
      /\ t[i] = v
      /\ \A j \in 1..(Len(s) + 1 - i) : t[i + j] = right[j]
  <2>1. i - 1 + 1 = i /\ i - 1 + 1 + (Len(s) + 1 - i) = Len(s) + 1
    OBVIOUS
  <2>2. /\ t \in Seq(T)
        /\ Len(t) = Len(left) + 1 + Len(right)
        /\ \A j \in 1..Len(left) : t[j] = left[j]
        /\ t[Len(left) + 1] = v
        /\ \A j \in 1..Len(right) : t[Len(left) + 1 + j] = right[j]
    <3>1. left \in Seq(T) /\ right \in Seq(T)
      BY <1>1, <1>2
    <3> DEFINE whole == left \o <<v>> \o right
    <3>2. /\ whole \in Seq(T)
          /\ Len(whole) = Len(left) + 1 + Len(right)
          /\ \A j \in 1..Len(left) : whole[j] = left[j]
          /\ whole[Len(left) + 1] = v
          /\ \A j \in 1..Len(right) : whole[Len(left) + 1 + j] = right[j]
      BY <3>1, ThreeParts
    <3>3. t = whole
      BY <1>3
    <3> HIDE DEF whole
    <3> QED
      BY <3>2, <3>3
  <2> QED
    BY <1>1, <1>2, <2>1, <2>2
<1>5. t[i] = v /\ \A j \in 1..(i - 1) : t[j] = s[j]
  BY <1>1, <1>4
<1>6. ASSUME NEW j \in i..Len(s)
      PROVE  t[j + 1] = s[j]
  <2>1. /\ j + 1 - i \in 1..(Len(s) + 1 - i)
        /\ i + (j + 1 - i) = j + 1
        /\ i + (j + 1 - i) - 1 = j
    OBVIOUS
  <2> DEFINE k == j + 1 - i
  <2>2. t[i + k] = right[k]
    BY <2>1, <1>4
  <2>3. right[k] = s[i + k - 1]
    BY <2>1, <1>2
  <2>4. i + k = j + 1 /\ i + k - 1 = j
    BY <2>1
  <2> HIDE DEF k
  <2> QED
    BY <2>2, <2>3, <2>4
<1>7. /\ A = {j \in 1..Len(s) : s[j] = w}
      /\ B = {j \in 1..(Len(s) + 1) : j # i /\ t[j] = w}
  BY <1>4 DEF Where
<1> HIDE DEF A, B
<1>8. f \in [A -> B]
  BY <1>5, <1>6, <1>7
<1>9. \A x, y \in A : f[x] = f[y] => x = y
  BY <1>7
<1>10. \A y \in B : \E x \in A : f[x] = y
  <2> SUFFICES ASSUME NEW y \in B
               PROVE  \E x \in A : f[x] = y
    OBVIOUS
  <2>1. CASE y < i
    <3>1. y \in A
      BY <2>1, <1>5, <1>7
    <3> QED
      BY <3>1, <2>1, <1>7
  <2>2. CASE y > i
    <3>1. y - 1 \in i..Len(s) /\ (y - 1) + 1 = y
      BY <2>2, <1>7
    <3>2. t[(y - 1) + 1] = s[y - 1]
      BY <3>1, <1>6
    <3>3. y - 1 \in A
      BY <3>1, <3>2, <1>7
    <3>4. f[y - 1] = y
      BY <3>1, <3>3
    <3> QED
      BY <3>3, <3>4
  <2> QED
    BY <2>1, <2>2, <1>7
<1>11. ExistsBijection(A, B)
  BY <1>8, <1>9, <1>10 DEF ExistsBijection, Bijection, Injection, Surjection, IsInjective
<1>12. IsFiniteSet(A) /\ Cardinality(A) \in Nat
  BY WhereFinite DEF A
<1>13. IsFiniteSet(B) /\ Cardinality(B) = Cardinality(A)
  BY <1>11, <1>12, FS_Bijection
<1>14. i \notin B
  BY <1>7
<1>15. Cardinality(B \cup {i}) = Cardinality(A) + 1
  BY <1>13, <1>14, FS_AddElement
<1>16. Where(t, w) = IF w = v THEN B \cup {i} ELSE B
  BY <1>4, <1>5, <1>7 DEF Where
<1>17. Cardinality(Where(t, w)) = Cardinality(A) + (IF w = v THEN 1 ELSE 0)
  BY <1>12, <1>13, <1>15, <1>16
<1> QED
  BY <1>4, <1>17 DEF t, A

\* Where a key is in the pairs.
WithKey(p, key) == {i \in DOMAIN p : p[i][1] = key}

\* The multimap has the keys of the pairs, each with as many values as it has
\* pairs, and each value as often as its pair. Get says it of all keys at once.
CountsKept(p, m) ==
  /\ p \in Seq(Word \X Word)
  /\ m \in [{p[i][1] : i \in DOMAIN p} -> Seq(Word)]
  /\ \A key \in Word : Len(Get(m, key)) = Cardinality(WithKey(p, key))
  /\ \A key \in Word : \A value \in Word :
       Cardinality(Where(p, <<key, value>>)) = Cardinality(Where(Get(m, key), value))

\* So it is before the first pair.
LEMMA NoneKept == CountsKept(<<>>, NoParams)
<1>1. <<>> \in Seq(Word \X Word) /\ DOMAIN <<>> = {}
  OBVIOUS
<1>2. NoParams \in [{<<>>[i][1] : i \in DOMAIN <<>>} -> Seq(Word)] /\ DOMAIN NoParams = {}
  BY <1>1 DEF NoParams
<1>3. \A key : Get(NoParams, key) = <<>>
  BY <1>2 DEF Get
<1>4. \A w : Where(<<>>, w) = {} /\ WithKey(<<>>, w) = {}
  BY <1>1 DEF Where, WithKey
<1>5. Cardinality({}) = 0 /\ Len(<<>>) = 0
  BY FS_EmptySet
<1>6. \A key \in Word : Len(Get(NoParams, key)) = Cardinality(WithKey(<<>>, key))
  BY <1>3, <1>4, <1>5
<1>7. \A key \in Word : \A value \in Word :
        Cardinality(Where(<<>>, <<key, value>>)) = Cardinality(Where(Get(NoParams, key), value))
  BY <1>3, <1>4
<1> QED
  BY <1>1, <1>2, <1>6, <1>7 DEF CountsKept

\* The next number makes a set of earlier ones one larger.
LEMMA AddNext ==
  ASSUME NEW n \in Nat, NEW S \in SUBSET (1..n)
  PROVE  Cardinality(S \cup {n + 1}) = Cardinality(S) + 1
<1>1. IsFiniteSet(1..n)
  BY FS_Interval
<1>2. IsFiniteSet(S)
  BY <1>1, FS_Subset
<1>3. n + 1 \notin S
  OBVIOUS
<1> QED
  BY <1>2, <1>3, FS_AddElement

\* A pair more is one more of it, and one more with its key.
LEMMA AppendCounts ==
  ASSUME NEW T, NEW s \in Seq(T), NEW x \in T, NEW w
  PROVE  /\ Cardinality(Where(Append(s, x), w))
              = Cardinality(Where(s, w)) + (IF x = w THEN 1 ELSE 0)
         /\ Cardinality(WithKey(Append(s, x), w))
              = Cardinality(WithKey(s, w)) + (IF x[1] = w THEN 1 ELSE 0)
<1> DEFINE t == Append(s, x)
<1>1. /\ DOMAIN s = 1..Len(s) /\ DOMAIN t = 1..(Len(s) + 1) /\ Len(s) \in Nat
      /\ \A j \in 1..Len(s) : t[j] = s[j]
      /\ t[Len(s) + 1] = x
  OBVIOUS
<1> HIDE DEF t
<1>2. 1..(Len(s) + 1) = 1..Len(s) \cup {Len(s) + 1} /\ ~(Len(s) + 1 \in 1..Len(s))
  BY <1>1
<1>3. Where(s, w) \in SUBSET (1..Len(s)) /\ WithKey(s, w) \in SUBSET (1..Len(s))
  BY <1>1 DEF Where, WithKey
<1>4. IsFiniteSet(Where(s, w)) /\ IsFiniteSet(WithKey(s, w))
  <2>1. IsFiniteSet(1..Len(s))
    BY <1>1, FS_Interval
  <2> QED
    BY <1>3, <2>1, FS_Subset
<1>5. Cardinality(Where(s, w)) \in Nat /\ Cardinality(WithKey(s, w)) \in Nat
  BY <1>4, FS_CardinalityType
<1>6. Cardinality(Where(t, w)) = Cardinality(Where(s, w)) + (IF x = w THEN 1 ELSE 0)
  <2>1. CASE x = w
    <3>1. Where(t, w) = Where(s, w) \cup {Len(s) + 1}
      BY <1>1, <1>2, <2>1 DEF Where
    <3> QED
      BY <1>1, <1>3, <2>1, <3>1, AddNext
  <2>2. CASE x # w
    <3>1. Where(t, w) = Where(s, w)
      BY <1>1, <1>2, <2>2 DEF Where
    <3> QED
      BY <1>5, <2>2, <3>1
  <2> QED
    BY <2>1, <2>2
<1>7. Cardinality(WithKey(t, w)) = Cardinality(WithKey(s, w)) + (IF x[1] = w THEN 1 ELSE 0)
  <2>1. CASE x[1] = w
    <3>1. WithKey(t, w) = WithKey(s, w) \cup {Len(s) + 1}
      BY <1>1, <1>2, <2>1 DEF WithKey
    <3> QED
      BY <1>1, <1>3, <2>1, <3>1, AddNext
  <2>2. CASE x[1] # w
    <3>1. WithKey(t, w) = WithKey(s, w)
      BY <1>1, <1>2, <2>2 DEF WithKey
    <3> QED
      BY <1>5, <2>2, <3>1
  <2> QED
    BY <2>1, <2>2
<1> QED
  BY <1>6, <1>7 DEF t

\* A pair given to the loop and inserted into the multimap leaves them in step
\* (request_builder.h:119-122).
LEMMA InsertKeeps ==
  ASSUME NEW p, NEW m, CountsKept(p, m), NEW key \in Word, NEW value \in Word,
         NEW n \in Insert(m, key, value)
  PROVE  CountsKept(Append(p, <<key, value>>), n)
<1> DEFINE x == <<key, value>>
           q == Append(p, x)
           values == Get(m, key)
           Keys(r) == {r[i][1] : i \in DOMAIN r}
<1>1. /\ p \in Seq(Word \X Word) /\ x \in Word \X Word /\ x[1] = key
      /\ m \in [Keys(p) -> Seq(Word)]
  BY DEF CountsKept
<1>2. q \in Seq(Word \X Word)
  BY <1>1
<1>3. Keys(q) = Keys(p) \cup {key}
  <2>1. /\ DOMAIN p = 1..Len(p) /\ DOMAIN q = 1..(Len(p) + 1) /\ Len(p) \in Nat
        /\ \A j \in 1..Len(p) : q[j] = p[j]
        /\ q[Len(p) + 1] = x
    BY <1>1
  <2> HIDE DEF q, x
  <2>2. 1..(Len(p) + 1) = 1..Len(p) \cup {Len(p) + 1}
    BY <2>1
  <2> QED
    BY <1>1, <2>1, <2>2
<1> HIDE DEF q, Keys
<1>4. values \in Seq(Word)
  BY <1>1 DEF Get
<1>5. PICK i \in 1..(Len(values) + 1) :
        n = [k \in DOMAIN m \cup {key} |-> IF k = key THEN InsertAt(values, i, value) ELSE m[k]]
  BY DEF Insert, Get
<1> HIDE DEF values
<1>6. DOMAIN n = Keys(q) /\ DOMAIN m = Keys(p)
  BY <1>1, <1>3, <1>5
<1>7. Get(n, key) = InsertAt(values, i, value)
  BY <1>3, <1>5, <1>6 DEF Get
<1>8. \A k : k # key => Get(n, k) = Get(m, k)
  BY <1>3, <1>5, <1>6 DEF Get
<1>9. /\ InsertAt(values, i, value) \in Seq(Word)
      /\ Len(InsertAt(values, i, value)) = Len(values) + 1
      /\ \A w : Cardinality(Where(InsertAt(values, i, value), w))
                = Cardinality(Where(values, w)) + (IF w = value THEN 1 ELSE 0)
  BY <1>4, InsertCounts
<1>10. n \in [Keys(q) -> Seq(Word)]
  BY <1>1, <1>3, <1>5, <1>6, <1>9
<1> HIDE DEF x
<1>11. \A k : Cardinality(WithKey(q, k))
                = Cardinality(WithKey(p, k)) + (IF x[1] = k THEN 1 ELSE 0)
  BY <1>1, AppendCounts DEF q
<1>12. \A w : Cardinality(Where(q, w)) = Cardinality(Where(p, w)) + (IF x = w THEN 1 ELSE 0)
  BY <1>1, AppendCounts DEF q
<1>13. \A k \in Word :
         /\ Len(Get(m, k)) = Cardinality(WithKey(p, k))
         /\ Get(m, k) \in Seq(Word)
  BY <1>1 DEF CountsKept, Get
<1>14. ASSUME NEW k \in Word
       PROVE  Len(Get(n, k)) = Cardinality(WithKey(q, k))
  <2>1. CASE k = key
    BY <1>1, <1>7, <1>9, <1>11, <1>13, <2>1 DEF values
  <2>2. CASE k # key
    <3>1. Cardinality(WithKey(q, k)) = Cardinality(WithKey(p, k)) + 0
      BY <1>1, <1>11, <2>2
    <3> QED
      BY <1>8, <1>13, <2>2, <3>1
  <2> QED
    BY <2>1, <2>2
<1>15. ASSUME NEW k \in Word, NEW w \in Word
       PROVE  Cardinality(Where(q, <<k, w>>)) = Cardinality(Where(Get(n, k), w))
  <2>1. /\ Cardinality(Where(p, <<k, w>>)) = Cardinality(Where(Get(m, k), w))
        /\ Cardinality(Where(p, <<k, w>>)) \in Nat
    BY <1>1, WhereFinite DEF CountsKept
  <2>2. x = <<k, w>> <=> k = key /\ w = value
    BY DEF x
  <2>3. CASE k = key
    <3>1. Cardinality(Where(Get(n, k), w))
            = Cardinality(Where(Get(m, k), w)) + (IF w = value THEN 1 ELSE 0)
      BY <1>7, <1>9, <2>3 DEF values
    <3> QED
      BY <1>12, <2>1, <2>2, <2>3, <3>1
  <2>4. CASE k # key
    <3>1. Cardinality(Where(q, <<k, w>>)) = Cardinality(Where(p, <<k, w>>)) + 0
      BY <1>12, <2>2, <2>4
    <3> QED
      BY <1>8, <2>1, <2>4, <3>1
  <2> QED
    BY <2>3, <2>4
<1>16. CountsKept(q, n)
  BY <1>2, <1>10, <1>14, <1>15 DEF CountsKept, Keys
<1> QED
  BY <1>16 DEF q, x

-----------------------------------------------------------------------------
(***************************************************************************)
(* The inductive invariant.                                                *)
(***************************************************************************)

\* The iterator: a part begins and ends within the text, and ends at a letter of it
\* or with it.
AtPosition ==
  /\ text \in Word
  /\ psep \in {Npos} \cup 0..Len(text)
  /\ nsep \in {Npos} \cup 0..Len(text)
  /\ psep # Npos /\ nsep # Npos => nsep < Len(text)

\* A query or a form of the request is being read.
Reading ==
  /\ \E r \in Asked : request = <<r>>
  /\ AtPosition
  /\ parts \in Seq(Word)
  /\ PairsAreParts

\* Pairs and multimap are in step at all times, and are also a text's while one
\* is read.
HelloInv ==
  /\ CountsKept(pairs, params)
  /\ stage \in {"query", "post"} => Reading

-----------------------------------------------------------------------------
(***************************************************************************)
(* The steps.                                                              *)
(***************************************************************************)

\* find gives a position from the one given on, or none.
LEMMA FindWithin ==
  ASSUME text \in Word, NEW from \in 0..Len(text)
  PROVE  Find(from) \in {Npos} \cup from..(Len(text) - 1)
<1> DEFINE found == {i \in from..(Len(text) - 1) : At(i) \in Delimiters}
<1>1. CASE found = {}
  BY <1>1 DEF Find
<1>2. CASE found # {}
  <2>1. Len(text) \in Nat
    BY DEF Word
  <2>2. found \in SUBSET Nat
    BY <2>1
  <2>3. Min(found) \in found
    BY <1>2, <2>2, Least
  <2>4. from # Npos
    BY <2>1 DEF Npos
  <2>5. Find(from) = Min(found)
    BY <1>2, <2>4 DEF Find
  <2> QED
    BY <2>3, <2>5
<1> QED
  BY <1>1, <1>2

\* The iterator stays within its text (path_components.h:62-81).
LEMMA IncrementKeepsPosition ==
  ASSUME AtPosition, psep # Npos \/ nsep = 0, Increment, UNCHANGED text
  PROVE  AtPosition'
<1>1. Len(text) \in Nat
  BY DEF AtPosition, Word
<1>2. NextBegin \in {Npos} \cup 0..Len(text)
  BY <1>1 DEF AtPosition, NextBegin, Npos
<1>3. CASE NextBegin = Len(text)
  BY <1>3 DEF AtPosition, Increment, Npos
<1>4. CASE NextBegin = Npos
  <2>1. psep' = Npos /\ nsep' = Npos
    BY <1>1, <1>4 DEF Increment, Find, Npos
  <2> QED
    BY <2>1 DEF AtPosition
<1>5. CASE NextBegin \in 0..(Len(text) - 1)
  <2>1. psep' = NextBegin /\ nsep' = Find(NextBegin)
    BY <1>1, <1>5 DEF Increment
  <2>2. Find(NextBegin) \in {Npos} \cup NextBegin..(Len(text) - 1)
    BY <1>1, <1>5, FindWithin DEF AtPosition
  <2> QED
    BY <1>1, <1>5, <2>1, <2>2 DEF AtPosition, Npos
<1> QED
  BY <1>1, <1>2, <1>3, <1>4, <1>5

\* What is between its positions is a text.
LEMMA DereferenceIsWord ==
  ASSUME AtPosition, psep # Npos
  PROVE  Dereference \in Word
<1> DEFINE last == IF nsep # Npos THEN nsep ELSE Len(text)
<1>1. text \in Seq(Letter) /\ Len(text) \in Nat
  BY DEF AtPosition, Word
<1>2. psep \in 0..Len(text) /\ last \in 0..Len(text)
  BY <1>1 DEF AtPosition, Npos
<1> HIDE DEF last
<1>3. SubSeq(text, psep + 1, last) \in Seq(Letter)
  BY <1>1, <1>2
<1> QED
  BY <1>3 DEF Dereference, Word, last

\* Pairs and multimap stay in step if neither changes.
LEMMA CountsStand ==
  ASSUME CountsKept(pairs, params), UNCHANGED <<pairs, params>>
  PROVE  CountsKept(pairs, params)'
<1>1. pairs' = pairs /\ params' = params
  OBVIOUS
<1>2. CountsKept(pairs', params')
  BY <1>1
<1> QED
  BY <1>2

\* An iteration begins with no pairs and no parameters.
LEMMA IterateForgets ==
  ASSUME NEW t, Iterate(t)
  PROVE  CountsKept(pairs, params)'
<1>1. pairs' = <<>> /\ params' = NoParams
  BY DEF Iterate
<1> QED
  BY <1>1, NoneKept

\* It begins at the beginning of its text.
LEMMA IterateBegins ==
  ASSUME NEW t \in Word, Iterate(t)
  PROVE  AtPosition' /\ (parts \in Seq(Word))' /\ PairsAreParts'
<1>1. text' = t /\ psep' = Npos /\ nsep' = 0 /\ parts' = <<>> /\ pairs' = <<>>
  BY DEF Iterate
<1>2. Len(t) \in Nat
  BY DEF Word
<1>3. AtPosition'
  BY <1>1, <1>2 DEF AtPosition
<1>4. PairsAreParts'
  BY <1>1 DEF PairsAreParts
<1> QED
  BY <1>1, <1>3, <1>4

\* A round of the loop keeps all of it.
LEMMA ParamsKept ==
  ASSUME HelloInv, Reading, ParamsNext, UNCHANGED request
  PROVE  CountsKept(pairs, params)' /\ Reading'
<1>1. CASE ParamsBegin
  <2>1. /\ psep = Npos /\ nsep = 0 /\ Increment
        /\ UNCHANGED <<text, parts, pairs, params>>
    BY <1>1 DEF ParamsBegin, QueryBegin, Begin
  <2>2. AtPosition'
    BY <2>1, IncrementKeepsPosition DEF Reading
  <2>3. CountsKept(pairs, params)'
    BY <2>1, CountsStand DEF HelloInv
  <2>4. (\E r \in Asked : request = <<r>>)' /\ (parts \in Seq(Word))' /\ PairsAreParts'
    BY <2>1 DEF Reading, PairsAreParts
  <2> QED
    BY <2>2, <2>3, <2>4 DEF Reading
<1>2. CASE ParamsStep
  <2> DEFINE part == Dereference
             pair == SplitKeyValue(part)
  <2>1. /\ psep # Npos /\ Increment /\ UNCHANGED text
        /\ parts' = Append(parts, part) /\ pairs' = Append(pairs, pair)
        /\ params' \in Insert(params, Last(pairs')[1], Last(pairs')[2])
    BY <1>2 DEF ParamsStep, QueryStep, Step
  <2>2. AtPosition'
    BY <2>1, IncrementKeepsPosition DEF Reading
  <2>3. part \in Word
    BY <2>1, DereferenceIsWord DEF Reading
  <2>4. /\ pair \in Word \X Word
        /\ \A j \in DOMAIN pair[1] : pair[1][j] # Equals
        /\ \/ part = pair[1] \o <<Equals>> \o pair[2]
           \/ part = pair[1] /\ pair[2] = <<>>
    BY <2>3, SplitIsReadBack
  <2> HIDE DEF part, pair
  <2>5. pairs \in Seq(Word \X Word) /\ parts \in Seq(Word)
    BY DEF HelloInv, CountsKept, Reading
  <2>6. /\ parts' \in Seq(Word) /\ Len(pairs') = Len(pairs) + 1 /\ Len(parts') = Len(parts) + 1
        /\ \A i \in 1..Len(pairs) : pairs'[i] = pairs[i]
        /\ \A i \in 1..Len(parts) : parts'[i] = parts[i]
        /\ pairs'[Len(pairs) + 1] = pair /\ parts'[Len(parts) + 1] = part
        /\ DOMAIN pairs' = 1..(Len(pairs) + 1) /\ DOMAIN pairs = 1..Len(pairs)
        /\ Len(pairs) \in Nat
    BY <2>1, <2>3, <2>4, <2>5
  <2>7. PairsAreParts'
    <3> DEFINE Back(key, value, of) ==
                 /\ \A j \in DOMAIN key : key[j] # Equals
                 /\ \/ of = key \o <<Equals>> \o value
                    \/ of = key /\ value = <<>>
    <3>1. /\ Len(pairs) = Len(parts)
          /\ \A i \in 1..Len(pairs) : Back(pairs[i][1], pairs[i][2], parts[i])
      BY <2>6 DEF Reading, PairsAreParts
    <3>2. Back(pair[1], pair[2], part)
      BY <2>4
    <3> HIDE DEF Back
    <3>3. \A i \in 1..(Len(pairs) + 1) : Back(pairs'[i][1], pairs'[i][2], parts'[i])
      <4> SUFFICES ASSUME NEW i \in 1..(Len(pairs) + 1)
                   PROVE  Back(pairs'[i][1], pairs'[i][2], parts'[i])
        OBVIOUS
      <4>1. CASE i = Len(pairs) + 1
        BY <2>6, <3>1, <3>2, <4>1
      <4>2. CASE i # Len(pairs) + 1
        <5>1. i \in 1..Len(pairs)
          BY <2>6, <4>2
        <5>2. pairs'[i] = pairs[i] /\ parts'[i] = parts[i]
          BY <2>6, <3>1, <5>1
        <5> QED
          BY <3>1, <5>1, <5>2
      <4> QED
        BY <4>1, <4>2
    <3>4. Len(pairs') = Len(parts')
      BY <2>6, <3>1
    <3> QED
      BY <2>6, <3>3, <3>4 DEF PairsAreParts, Back
  <2>8. CountsKept(pairs, params)'
    <3>1. Last(pairs') = pair
      BY <2>6 DEF Last
    <3>2. pair[1] \in Word /\ pair[2] \in Word /\ pair = <<pair[1], pair[2]>>
      BY <2>4
    <3>3. params' \in Insert(params, pair[1], pair[2])
      BY <2>1, <3>1
    <3>4. CountsKept(Append(pairs, <<pair[1], pair[2]>>), params')
      BY <3>2, <3>3, InsertKeeps DEF HelloInv
    <3>5. pairs' = Append(pairs, <<pair[1], pair[2]>>)
      BY <2>1, <3>2
    <3>6. CountsKept(pairs', params')
      BY <3>4, <3>5
    <3> QED
      BY <3>6
  <2>9. (\E r \in Asked : request = <<r>>)'
    BY DEF Reading
  <2> QED
    BY <2>2, <2>6, <2>7, <2>8, <2>9 DEF Reading
<1> QED
  BY <1>1, <1>2 DEF ParamsNext

\* The texts of a request.
LEMMA AskedTexts ==
  ASSUME NEW r \in Asked
  PROVE  r.query \in Word /\ r.body \in Word
BY HelloAssumption DEF Word

\* A step that reads no parameters.
LEMMA NotReading ==
  ASSUME HelloInv, UNCHANGED <<pairs, params>>, ~(stage' \in {"query", "post"})
  PROVE  HelloInv'
<1>1. CountsKept(pairs, params)'
  BY CountsStand DEF HelloInv
<1> QED
  BY <1>1 DEF HelloInv

\* It holds at first.
LEMMA HelloInvInit == HelloInit => HelloInv
<1> SUFFICES ASSUME HelloInit
             PROVE  HelloInv
  OBVIOUS
<1>1. pairs = <<>> /\ params = NoParams /\ stage = "main"
  BY DEF HelloInit
<1> QED
  BY <1>1, NoneKept DEF HelloInv

\* Every step keeps it.
LEMMA HelloInvNext == HelloInv /\ [HelloNext]_helloVars => HelloInv'
<1> SUFFICES ASSUME HelloInv, [HelloNext]_helloVars
             PROVE  HelloInv'
  OBVIOUS
<1>1. CASE RegisterResource
  <2>1. /\ \E t : Iterate(t)
        /\ stage' = "template"
    BY <1>1 DEF RegisterResource
  <2> QED
    BY <2>1, IterateForgets DEF HelloInv
<1>2. CASE AddResource
  BY <1>2, NotReading DEF AddResource, reading
<1>3. CASE EnterResource
  BY <1>3, NotReading DEF EnterResource, reading
<1>4. CASE SplitPath
  BY <1>4, NotReading DEF SplitPath
<1>5. CASE Ask
  <2>1. PICK r \in Asked : request' = <<r>> /\ Iterate(r.query)
    BY <1>5 DEF Ask
  <2>2. r.query \in Word
    BY AskedTexts
  <2>3. AtPosition' /\ (parts \in Seq(Word))' /\ PairsAreParts'
    BY <2>1, <2>2, IterateBegins
  <2>4. CountsKept(pairs, params)'
    BY <2>1, IterateForgets
  <2> QED
    BY <2>1, <2>3, <2>4 DEF HelloInv, Reading
<1>6. CASE ReadParameters
  <2>1. Reading /\ ParamsNext /\ UNCHANGED request
    BY <1>6 DEF ReadParameters, exchange, HelloInv
  <2>2. CountsKept(pairs, params)' /\ Reading'
    BY <2>1, ParamsKept
  <2> QED
    BY <2>2 DEF HelloInv
<1>7. CASE QueryRead
  <2>1. \E t : Iterate(t)
    BY <1>7 DEF QueryRead
  <2>2. CountsKept(pairs, params)'
    BY <2>1, IterateForgets
  <2>3. CASE request[1].method = "POST"
    <3>1. /\ stage = "query" /\ Iterate(request[1].body) /\ request' = request
      BY <1>7, <2>3 DEF QueryRead
    <3>2. PICK r \in Asked : request = <<r>>
      BY <3>1 DEF HelloInv, Reading
    <3>3. r.body \in Word /\ request[1].body = r.body
      BY <3>2, AskedTexts
    <3>4. Iterate(r.body)
      BY <3>1, <3>3
    <3>5. AtPosition' /\ (parts \in Seq(Word))' /\ PairsAreParts'
      BY <3>3, <3>4, IterateBegins
    <3> QED
      BY <2>2, <3>1, <3>2, <3>5 DEF HelloInv, Reading
  <2>4. CASE request[1].method # "POST"
    BY <1>7, <2>2, <2>4 DEF QueryRead, HelloInv
  <2> QED
    BY <2>3, <2>4
<1>8. CASE FormRead
  <2>1. /\ \E t : Iterate(t)
        /\ stage' = "path"
    BY <1>8 DEF FormRead
  <2> QED
    BY <2>1, IterateForgets DEF HelloInv
<1>9. CASE BuildThrows
  BY <1>9, NotReading DEF BuildThrows, Respond, reading
<1>10. CASE Match
  BY <1>10, NotReading DEF Match, reading
<1>11. CASE Search
  BY <1>11, NotReading DEF Search, reading
<1>12. CASE Unmatched
  BY <1>12, NotReading DEF Unmatched, Respond, reading
<1>13. CASE DispatchBegin
  BY <1>13, NotReading DEF DispatchBegin, reading
<1>14. CASE Extract
  BY <1>14, NotReading DEF Extract, reading
<1>15. CASE HandlerReturns
  BY <1>15, NotReading DEF HandlerReturns, Respond, reading
<1>16. CASE Written
  <2>1. Iterate(<<>>) /\ stage' = "main"
    BY <1>16 DEF Written
  <2> QED
    BY <2>1, IterateForgets DEF HelloInv
<1>17. CASE UNCHANGED helloVars
  <2>1. UNCHANGED <<text, psep, nsep, parts, pairs, params, stage, request>>
    BY <1>17 DEF helloVars, reading, exchange
  <2>2. CountsKept(pairs, params)'
    BY <2>1, CountsStand DEF HelloInv
  <2>3. Reading => Reading'
    BY <2>1 DEF Reading, AtPosition, PairsAreParts
  <2> QED
    BY <2>1, <2>2, <2>3 DEF HelloInv
<1> QED
  BY <1>1, <1>2, <1>3, <1>4, <1>5, <1>6, <1>7, <1>8, <1>9, <1>10, <1>11, <1>12, <1>13, <1>14,
     <1>15, <1>16, <1>17 DEF HelloNext, Register, Serve

\* So it always holds.
LEMMA HelloInvariant == HelloSpec => []HelloInv
<1> QED
  BY HelloInvInit, HelloInvNext, PTL DEF HelloSpec

-----------------------------------------------------------------------------
(***************************************************************************)
(* The theorems.                                                           *)
(***************************************************************************)

\* Whatever the query or the form, its loop is given a pair for each part, in
\* order, and each part can be read back from its pair (query_string.h:35-40 and
\* 96-105).
THEOREM PairsStayReadable == HelloSpec => []PairsReadBack
<1>1. HelloInv => PairsReadBack
  BY DEF HelloInv, Reading, PairsReadBack
<1> QED
  BY <1>1, HelloInvariant, PTL

\* Whatever the pairs, and wherever the multimap puts equal keys, get gives the
\* values written for a key, each as often as it was written, and nothing for other
\* keys (request_builder.h:119-122, parameter_internal.h:48-64 and 106-122).
THEOREM ValuesKept == HelloSpec => []EveryValueIsThere
<1>1. HelloInv => EveryValueIsThere
  <2> SUFFICES ASSUME CountsKept(pairs, params)
               PROVE  EveryValueIsThere
    BY DEF HelloInv
  <2>1. DOMAIN params = {pairs[i][1] : i \in DOMAIN pairs}
    BY DEF CountsKept
  <2>2. ASSUME NEW name \in DOMAIN params
        PROVE  name \in Word /\ Get(params, name) \in Seq(Word)
    <3>1. pairs \in Seq(Word \X Word) /\ params \in [DOMAIN params -> Seq(Word)]
      BY <2>1 DEF CountsKept
    <3>2. PICK i \in DOMAIN pairs : name = pairs[i][1]
      BY <2>1
    <3>3. pairs[i] \in Word \X Word
      BY <3>1, <3>2
    <3> QED
      BY <3>1, <3>2, <3>3 DEF Get
  <2>3. ASSUME NEW name \in DOMAIN params
        PROVE  Len(Get(params, name)) = Cardinality({i \in DOMAIN pairs : pairs[i][1] = name})
    BY <2>2 DEF CountsKept, WithKey
  <2>4. ASSUME NEW name \in DOMAIN params, NEW value \in ToSet(Get(params, name))
        PROVE  Cardinality({i \in DOMAIN pairs : pairs[i] = <<name, value>>})
                 = Cardinality({i \in DOMAIN Get(params, name) : Get(params, name)[i] = value})
    <3>1. value \in Word
      BY <2>2 DEF ToSet
    <3> QED
      BY <2>2, <3>1 DEF CountsKept, Where
  <2> QED
    BY <2>1, <2>3, <2>4 DEF EveryValueIsThere
<1> QED
  BY <1>1, HelloInvariant, PTL

-----------------------------------------------------------------------------
(***************************************************************************)
(* What the parts of a text are, letter by letter.                         *)
(***************************************************************************)

\* Parts of which there is at least one, the one that is being read.
Groups(A) == {all \in Seq(Seq(A)) : all # <<>>}

\* What PartsAt makes of a letter, and of the parts at the end.
ReadLetter(delimiters, all, letter) ==
  IF letter \in delimiters THEN Append(all, <<>>) ELSE Front(all) \o <<Append(Last(all), letter)>>

Closed(all) == IF Last(all) = <<>> THEN Front(all) ELSE all

\* The parts after each number of letters.
IsReading(delimiters, t, A, f) ==
  /\ t \in Seq(A)
  /\ f \in [0..Len(t) -> Groups(A)]
  /\ f[0] = <<<<>>>>
  /\ \A k \in 1..Len(t) : f[k] = ReadLetter(delimiters, f[k - 1], t[k])
  /\ PartsAt(delimiters, t) = Closed(f[Len(t)])

\* A sequence with one more at its end, taken apart.
LEMMA TakenApart ==
  ASSUME NEW T, NEW s, NEW x, s \in Seq(T), x \in T
  PROVE  /\ Front(Append(s, x)) = s
         /\ Last(Append(s, x)) = x
         /\ \A y \in T : s \o <<y>> = Append(s, y)
<1>1. /\ Append(s, x) \in Seq(T) /\ Len(Append(s, x)) = Len(s) + 1 /\ Len(s) \in Nat
      /\ \A j \in 1..Len(s) : Append(s, x)[j] = s[j]
      /\ Append(s, x)[Len(s) + 1] = x
  OBVIOUS
<1>2. Last(Append(s, x)) = x
  BY <1>1 DEF Last
<1>3. Front(Append(s, x)) = s
  <2> DEFINE u == Append(s, x)
             v == SubSeq(u, 1, Len(s))
  <2> HIDE DEF u
  <2>1. v \in Seq(T) /\ Len(v) = Len(s) /\ \A j \in 1..Len(s) : v[j] = u[j]
    BY <1>1 DEF u
  <2>2. \A j \in 1..Len(s) : v[j] = s[j]
    BY <1>1, <2>1 DEF u
  <2> HIDE DEF v
  <2>3. v = s
    BY <2>1, <2>2, SeqEqual
  <2>4. Len(u) - 1 = Len(s)
    BY <1>1 DEF u
  <2> QED
    BY <2>3, <2>4 DEF Front, u, v
<1>4. \A y \in T : s \o <<y>> = Append(s, y)
  BY AppendIsConcat
<1> QED
  BY <1>2, <1>3, <1>4

\* Whatever the letter, the parts before the one that is read stay.
LEMMA OthersStay ==
  ASSUME NEW A, NEW delimiters, NEW all, NEW letter, all \in Groups(A), letter \in A
  PROVE  /\ ReadLetter(delimiters, all, letter) \in Groups(A)
         /\ Len(ReadLetter(delimiters, all, letter)) >= Len(all)
         /\ \A i \in 1..(Len(all) - 1) : ReadLetter(delimiters, all, letter)[i] = all[i]
<1> DEFINE read == ReadLetter(delimiters, all, letter)
           front == Front(all)
           last == Last(all)
           more == Append(last, letter)
<1>1. /\ all \in Seq(Seq(A)) /\ Len(all) \in Nat \ {0}
      /\ last \in Seq(A) /\ more \in Seq(A)
      /\ front \in Seq(Seq(A)) /\ Len(front) = Len(all) - 1
      /\ \A i \in 1..(Len(all) - 1) : front[i] = all[i]
  <2>1. all \in Seq(Seq(A)) /\ all # <<>>
    BY DEF Groups
  <2>2. Len(all) \in Nat \ {0}
    BY <2>1, EmptySeq
  <2>3. last \in Seq(A)
    BY <2>1, <2>2 DEF Last
  <2>4. more \in Seq(A)
    BY <2>3
  <2>5. /\ front \in Seq(Seq(A)) /\ Len(front) = Len(all) - 1
        /\ \A i \in 1..(Len(all) - 1) : front[i] = all[i]
    <3>1. PICK m : m = Len(all) - 1
      OBVIOUS
    <3>2. m \in Nat /\ m <= Len(all) /\ front = SubSeq(all, 1, m)
      BY <2>2, <3>1 DEF Front
    <3> HIDE DEF front
    <3>3. front \in Seq(Seq(A)) /\ Len(front) = m /\ \A i \in 1..m : front[i] = all[i]
      BY <2>1, <2>2, <3>2
    <3> QED
      BY <3>1, <3>3
  <2> QED
    BY <2>1, <2>2, <2>3, <2>4, <2>5
<1>2. CASE letter \in delimiters
  <2>1. read = Append(all, <<>>) /\ <<>> \in Seq(A)
    BY <1>2 DEF ReadLetter
  <2>2. /\ read \in Seq(Seq(A)) /\ Len(read) = Len(all) + 1
        /\ \A i \in 1..Len(all) : read[i] = all[i]
    BY <1>1, <2>1
  <2>3. read # <<>>
    BY <1>1, <2>2
  <2> QED
    BY <1>1, <1>2, <2>2, <2>3 DEF Groups
<1>3. CASE letter \notin delimiters
  <2>1. read = front \o <<more>>
    BY <1>3 DEF ReadLetter
  <2> HIDE DEF front, more
  <2>2. read = Append(front, more)
    BY <1>1, <2>1, AppendIsConcat
  <2>3. /\ read \in Seq(Seq(A)) /\ Len(read) = Len(all)
        /\ \A i \in 1..(Len(all) - 1) : read[i] = all[i]
    <3> HIDE DEF read, last
    <3>1. front \in Seq(Seq(A)) /\ more \in Seq(A)
      BY <1>1 DEF more
    <3>2. /\ read \in Seq(Seq(A)) /\ Len(read) = Len(front) + 1
          /\ \A i \in 1..Len(front) : read[i] = front[i]
      BY <2>2, <3>1
    <3> QED
      BY <1>1, <3>2
  <2>4. read # <<>>
    BY <1>1, <2>3
  <2>5. read \in Groups(A) /\ Len(read) >= Len(all)
    BY <1>1, <2>3, <2>4 DEF Groups
  <2> QED
    BY <2>3, <2>5
<1> QED
  BY <1>2, <1>3

\* The part that is read goes on with a letter that is no delimiter.
LEMMA PartGoesOn ==
  ASSUME NEW A, NEW delimiters, NEW s, NEW w, NEW letter,
         s \in Seq(Seq(A)), w \in Seq(A), letter \in A, letter \notin delimiters
  PROVE  ReadLetter(delimiters, Append(s, w), letter) = Append(s, Append(w, letter))
<1>1. Front(Append(s, w)) = s /\ Last(Append(s, w)) = w
  BY TakenApart
<1>2. Append(w, letter) \in Seq(A)
  OBVIOUS
<1>3. s \o <<Append(w, letter)>> = Append(s, Append(w, letter))
  BY <1>2, AppendIsConcat
<1> QED
  BY <1>1, <1>3 DEF ReadLetter

\* The parts after each number of letters are there, and lead to PartsAt.
LEMMA PartsLetterByLetter ==
  ASSUME NEW A, NEW delimiters, NEW t \in Seq(A)
  PROVE  \E f : IsReading(delimiters, t, A, f)
<1> DEFINE n == Len(t)
           X == Groups(A)
           base == <<<<>>>>
           step == [k \in 1..n |-> [all \in X |-> ReadLetter(delimiters, all, t[k])]]
           Equation(it) == it = [s \in SUBSET (1..n) |->
                                   IF s = {} THEN base
                                   ELSE ReadLetter(delimiters, it[s \ {Max(s)}], t[Max(s)])]
<1>1. n \in Nat /\ DOMAIN t = 1..n /\ \A k \in 1..n : t[k] \in A
  OBVIOUS
<1>2. base \in X
  <2>1. base \in Seq(Seq(A)) /\ Len(base) = 1
    OBVIOUS
  <2> QED
    BY <2>1 DEF Groups
<1>3. step \in [1..n -> [X -> X]]
  <2>1. \A k \in 1..n : \A all \in X : ReadLetter(delimiters, all, t[k]) \in X
    BY <1>1, OthersStay
  <2> HIDE DEF X, n
  <2> QED
    BY <2>1
<1>3a. PICK g : IsFold(n, X, base, step, g)
  <2>1. n \in Nat /\ base \in X /\ step \in [1..n -> [X -> X]]
    BY <1>1, <1>2, <1>3
  <2> HIDE DEF n, X, base, step
  <2> QED
    BY <2>1, FoldRecursion
<1>4. /\ g \in [SUBSET (1..n) -> X]
      /\ \A s \in SUBSET (1..n) : g[s] = IF s = {} THEN base ELSE step[Max(s)][g[s \ {Max(s)}]]
  <2> HIDE DEF n, X, base, step
  <2> QED
    BY <1>3a DEF IsFold
<1>5. \A s \in SUBSET (1..n) : s # {} => Max(s) \in 1..n
  BY <1>1, Greatest
<1>6. Equation(g)
  <2>1. ASSUME NEW s \in SUBSET (1..n), s # {}
        PROVE  g[s] = ReadLetter(delimiters, g[s \ {Max(s)}], t[Max(s)])
    <3> DEFINE m == Max(s)
               r == s \ {m}
    <3>1. m \in 1..n /\ r \in SUBSET (1..n)
      BY <1>5, <2>1
    <3> HIDE DEF m
    <3>2. g[r] \in X
      BY <1>4, <3>1
    <3>3. g[s] = step[m][g[r]]
      BY <1>4, <2>1 DEF m
    <3> HIDE DEF X, r, n
    <3> QED
      BY <3>1, <3>2, <3>3 DEF m, r
  <2>2. g[{}] = base
    BY <1>4
  <2>3. g = [s \in SUBSET (1..n) |-> g[s]]
    BY <1>4
  <2>4. \A s \in SUBSET (1..n) :
          g[s] = IF s = {} THEN base ELSE ReadLetter(delimiters, g[s \ {Max(s)}], t[Max(s)])
    BY <2>1, <2>2
  <2> HIDE DEF base
  <2> QED
    BY <2>3, <2>4
<1> DEFINE iter == CHOOSE it : Equation(it)
<1>7. Equation(iter)
  <2> HIDE DEF Equation
  <2> QED
    BY <1>6
<1>8. PartsAt(delimiters, t) = Closed(iter[1..n])
  BY <1>1 DEF PartsAt, FoldLeft, MapThenFoldSet, ReadLetter, Closed
<1> HIDE DEF iter
<1>9. \A s \in SUBSET (1..n) :
        iter[s] = IF s = {} THEN base ELSE ReadLetter(delimiters, iter[s \ {Max(s)}], t[Max(s)])
  BY <1>7
<1> DEFINE f == [k \in 0..n |-> iter[1..k]]
<1>10. f[0] = base
  <2>1. 1..0 = {} /\ 0 \in 0..n
    BY <1>1
  <2> QED
    BY <1>9, <2>1
<1>11. ASSUME NEW k \in 1..n
       PROVE  f[k] = ReadLetter(delimiters, f[k - 1], t[k])
  <2>1. k \in Nat \ {0} /\ k - 1 \in 0..n /\ k \in 0..n
    BY <1>1
  <2>2. Max(1..k) = k /\ (1..k) \ {k} = 1..(k - 1)
    BY <2>1, GreatestOfFirst
  <2>3. 1..k \in SUBSET (1..n) /\ 1..k # {}
    <3>1. k \in 1..k
      BY <2>1
    <3>2. \A i \in 1..k : i \in 1..n
      BY <1>1, <2>1
    <3> QED
      BY <3>1, <3>2
  <2>4. iter[1..k] = ReadLetter(delimiters, iter[1..(k - 1)], t[k])
    BY <1>9, <2>2, <2>3
  <2>5. f[k] = iter[1..k] /\ f[k - 1] = iter[1..(k - 1)]
    BY <2>1
  <2> HIDE DEF f
  <2> QED
    BY <2>4, <2>5
<1>12. f[n] = iter[1..n]
  BY <1>1
<1>13. \A k \in 0..n : f[k] \in X
  <2> DEFINE S == {k \in 0..n : f[k] \in X}
  <2> HIDE DEF f, X, base
  <2>1. 0 \in S
    BY <1>1, <1>2, <1>10
  <2>2. ASSUME NEW k \in 0..(n - 1), k \in S
        PROVE  k + 1 \in S
    <3>1. PICK j : j = k + 1
      OBVIOUS
    <3>2. j \in 1..n /\ j - 1 = k /\ j \in 0..n
      BY <1>1, <3>1
    <3>3. f[j] = ReadLetter(delimiters, f[k], t[j])
      BY <1>11, <3>2
    <3>4. f[j] \in X
      <4>1. f[k] \in Groups(A) /\ t[j] \in A
        BY <1>1, <2>2, <3>2 DEF X
      <4>2. ReadLetter(delimiters, f[k], t[j]) \in Groups(A)
        BY <4>1, OthersStay
      <4> QED
        BY <3>3, <4>2 DEF X
    <3> QED
      BY <3>1, <3>2, <3>4
  <2>3. \A k \in 0..n : k \in S
    <3> HIDE DEF S, n
    <3> QED
      BY <1>1, <2>1, <2>2, EveryNumberFromTo
  <2> QED
    BY <2>3
<1>14. f \in [0..n -> X]
  BY <1>13
<1> HIDE DEF f
<1>15. IsReading(delimiters, t, A, f)
  BY <1>8, <1>10, <1>11, <1>12, <1>14 DEF IsReading
<1> QED
  BY <1>15

-----------------------------------------------------------------------------
(***************************************************************************)
(* The loop over the parts.                                                *)
(***************************************************************************)

\* Where a part that begins at from ends: at the first delimiter, or with the text.
EndOf(last) == IF last = Npos THEN Len(text) ELSE last

NoneIn(delimiters, from, last) == \A i \in from..(last - 1) : At(i) \notin delimiters

EndsAt(delimiters, from, last) ==
  /\ last \in {Npos} \cup from..(Len(text) - 1)
  /\ NoneIn(delimiters, from, EndOf(last))
  /\ last # Npos => At(last) \in delimiters

\* Of the parts after each number of letters the loop has been given all but the
\* one it is at, which begins there.
Given(delimiters, A, f) ==
  /\ IsReading(delimiters, text, A, f)
  /\ parts \in Seq(Seq(A))
  /\ psep \in {Npos} \cup 0..(Len(text) - 1)
  /\ psep = Npos => \/ nsep = 0 /\ parts = <<>>
                    \/ nsep = Npos /\ parts = PartsAt(delimiters, text)
  /\ psep # Npos => EndsAt(delimiters, psep, nsep) /\ f[psep] = Append(parts, <<>>)

\* The find of an iterator with these delimiters, and its Increment.
FindWith(delimiters, from) ==
  LET found == {i \in from..(Len(text) - 1) : At(i) \in delimiters}
  IN  IF from = Npos \/ found = {} THEN Npos ELSE Min(found)

IncrementWith(delimiters) ==
  IF NextBegin = Len(text)
  THEN psep' = Npos /\ nsep' = Npos
  ELSE psep' = NextBegin /\ nsep' = FindWith(delimiters, NextBegin)

\* It finds where a part ends (path_components.h:62-81).
LEMMA FindsEnd ==
  ASSUME NEW A, text \in Seq(A), NEW delimiters, NEW from \in 0..(Len(text) - 1)
  PROVE  EndsAt(delimiters, from, FindWith(delimiters, from))
<1> DEFINE found == {i \in from..(Len(text) - 1) : At(i) \in delimiters}
<1>1. Len(text) \in Nat /\ from \in Nat /\ from # Npos
  BY DEF Npos
<1>2. CASE found = {}
  <2>1. FindWith(delimiters, from) = Npos
    BY <1>2 DEF FindWith
  <2>2. \A i \in from..(Len(text) - 1) : At(i) \notin delimiters
    BY <1>2
  <2> QED
    BY <2>1, <2>2 DEF EndsAt, NoneIn, EndOf
<1>3. CASE found # {}
  <2> DEFINE m == Min(found)
  <2>1. FindWith(delimiters, from) = m
    BY <1>1, <1>3 DEF FindWith
  <2>2. found \in SUBSET Nat
    BY <1>1
  <2>3. m \in found /\ \A x \in found : m <= x
    BY <1>3, <2>2, Least
  <2> HIDE DEF m
  <2>4. m \in from..(Len(text) - 1) /\ At(m) \in delimiters /\ m # Npos
    BY <1>1, <2>3 DEF Npos
  <2>5. ASSUME NEW i \in from..(m - 1)
        PROVE  At(i) \notin delimiters
    <3>1. i \in from..(Len(text) - 1) /\ ~(m <= i)
      BY <1>1, <2>4
    <3> QED
      BY <2>3, <3>1
  <2>6. EndOf(m) = m
    BY <2>4 DEF EndOf
  <2>7. EndsAt(delimiters, from, m)
    BY <2>4, <2>5, <2>6 DEF EndsAt, NoneIn
  <2> QED
    BY <2>1, <2>7
<1> QED
  BY <1>2, <1>3

\* The parts s are over, and w is what has been read of the one after them.
Ongoing(all, s, w) == all = Append(s, w)

\* Up to where it ends, the part is what was read since it began.
LEMMA PartIsRead ==
  ASSUME NEW A, NEW delimiters, NEW f, IsReading(delimiters, text, A, f),
         NEW from, NEW last, from \in 0..Len(text), last \in from..Len(text),
         NEW s, s \in Seq(Seq(A)), f[from] = Append(s, <<>>),
         NoneIn(delimiters, from, last)
  PROVE  Ongoing(f[last], s, SubSeq(text, from + 1, last))
<1> DEFINE word(k) == SubSeq(text, from + 1, k)
           S == {k \in from..last : f[k] = Append(s, word(k))}
<1>1. text \in Seq(A) /\ Len(text) \in Nat /\ from \in Nat /\ last \in Nat /\ last <= Len(text)
  BY DEF IsReading
<1>2. \A k \in from..last : word(k) \in Seq(A)
  BY <1>1
<1>3. from \in S
  <2>1. word(from) = <<>>
    BY <1>1
  <2>2. from \in from..last
    BY <1>1
  <2> QED
    BY <2>1, <2>2
<1>4. ASSUME NEW k \in from..(last - 1), k \in S
      PROVE  k + 1 \in S
  <2>1. PICK j : j = k + 1
    OBVIOUS
  <2>2. j \in 1..Len(text) /\ j \in from..last /\ j - 1 = k /\ k \in from..last
    BY <1>1, <2>1
  <2>3. f[j] = ReadLetter(delimiters, f[k], text[j])
    BY <2>2 DEF IsReading
  <2>4. text[j] \in A /\ text[j] \notin delimiters
    BY <1>1, <2>1, <2>2 DEF At, NoneIn
  <2>5. f[k] \in Groups(A) /\ f[k] = Append(s, word(k)) /\ word(k) \in Seq(A)
    <3>1. k \in 0..Len(text)
      BY <1>1, <2>2
    <3> QED
      BY <1>2, <1>4, <2>2, <3>1 DEF IsReading
  <2>6. f[j] = Append(s, Append(word(k), text[j]))
    <3> HIDE DEF word
    <3> QED
      BY <2>3, <2>4, <2>5, PartGoesOn
  <2>7. Append(word(k), text[j]) = word(j)
    <3> DEFINE u == word(k)
               v == word(j)
               w == Append(u, text[j])
    <3>1. u \in Seq(A) /\ Len(u) = k - from /\ \A i \in 1..(k - from) : u[i] = text[from + i]
      BY <1>1, <2>2
    <3>2. /\ v \in Seq(A) /\ Len(v) = k + 1 - from
          /\ \A i \in 1..(k + 1 - from) : v[i] = text[from + i]
      BY <1>1, <2>1, <2>2
    <3> HIDE DEF u, v
    <3>3. /\ w \in Seq(A) /\ Len(w) = k + 1 - from
          /\ \A i \in 1..(k - from) : w[i] = u[i]
          /\ w[k + 1 - from] = text[j]
      <4>1. text[j] \in A /\ Len(u) + 1 = k + 1 - from
        BY <1>1, <2>2, <2>4, <3>1
      <4>2. /\ w \in Seq(A) /\ Len(w) = Len(u) + 1 /\ \A i \in 1..Len(u) : w[i] = u[i]
            /\ w[Len(u) + 1] = text[j]
        BY <3>1, <4>1, AppendProperties
      <4> HIDE DEF w
      <4> QED
        BY <3>1, <4>1, <4>2
    <3> HIDE DEF w
    <3>4. ASSUME NEW i \in 1..(k + 1 - from)
          PROVE  w[i] = v[i]
      <4>1. CASE i = k + 1 - from
        <5>1. from + i = j
          BY <1>1, <2>1, <2>2, <4>1
        <5> QED
          BY <3>2, <3>3, <4>1, <5>1
      <4>2. CASE i # k + 1 - from
        <5>1. i \in 1..(k - from)
          BY <1>1, <2>2, <4>2
        <5> QED
          BY <3>1, <3>2, <3>3, <5>1
      <4> QED
        BY <4>1, <4>2
    <3>5. w = v
      BY <3>2, <3>3, <3>4, SeqEqual
    <3> QED
      BY <3>5 DEF u, v, w
  <2> QED
    BY <2>1, <2>2, <2>6, <2>7
<1>5. \A k \in from..last : k \in S
  <2> HIDE DEF S
  <2> QED
    BY <1>1, <1>3, <1>4, EveryNumberFromTo
<1>6. last \in from..last
  BY <1>1
<1> QED
  BY <1>5, <1>6 DEF Ongoing

\* Parts that are over stay, whatever is read.
LEMMA PartsStay ==
  ASSUME NEW A, NEW delimiters, NEW f, IsReading(delimiters, text, A, f),
         NEW from \in 0..Len(text), NEW s \in Seq(Seq(A)), f[from] = Append(s, <<>>)
  PROVE  IsPrefix(s, PartsAt(delimiters, text))
<1> DEFINE n == Len(text)
           m == Len(s)
           S == {k \in from..n : Len(f[k]) > m /\ \A i \in 1..m : f[k][i] = s[i]}
<1>1. text \in Seq(A) /\ n \in Nat /\ from \in Nat /\ from <= n /\ m \in Nat
  BY DEF IsReading
<1>2. \A k \in 0..n : f[k] \in Seq(Seq(A)) /\ f[k] \in Groups(A) /\ f[k] # <<>>
  BY DEF IsReading, Groups
<1>3. from \in S
  <2>1. <<>> \in Seq(A)
    OBVIOUS
  <2>2. Len(Append(s, <<>>)) = m + 1 /\ \A i \in 1..m : Append(s, <<>>)[i] = s[i]
    BY <2>1, AppendProperties
  <2>3. from \in from..n
    BY <1>1
  <2>4. Len(f[from]) > m /\ \A i \in 1..m : f[from][i] = s[i]
    BY <1>1, <2>2
  <2> QED
    BY <2>3, <2>4
<1>4. ASSUME NEW k \in from..(n - 1), k \in S
      PROVE  k + 1 \in S
  <2>1. PICK j : j = k + 1
    OBVIOUS
  <2>2. j \in 1..n /\ j \in from..n /\ j - 1 = k /\ k \in 0..n
    BY <1>1, <2>1
  <2>3. f[j] = ReadLetter(delimiters, f[k], text[j])
    BY <2>2 DEF IsReading
  <2>4. text[j] \in A /\ f[k] \in Groups(A)
    BY <1>1, <1>2, <2>2
  <2>5. /\ Len(f[j]) >= Len(f[k])
        /\ \A i \in 1..(Len(f[k]) - 1) : f[j][i] = f[k][i]
    <3>1. PICK all \in Groups(A), letter \in A : all = f[k] /\ letter = text[j]
      BY <2>4
    <3>2. /\ Len(ReadLetter(delimiters, all, letter)) >= Len(all)
          /\ \A i \in 1..(Len(all) - 1) : ReadLetter(delimiters, all, letter)[i] = all[i]
      BY <3>1, OthersStay
    <3> QED
      BY <2>3, <3>1, <3>2
  <2>6. Len(f[k]) \in Nat /\ Len(f[j]) \in Nat /\ Len(f[k]) > m /\ \A i \in 1..m : f[k][i] = s[i]
    <3>1. j \in 0..n
      BY <1>1, <2>2
    <3>2. f[k] \in Seq(Seq(A)) /\ f[j] \in Seq(Seq(A))
      BY <1>2, <2>2, <3>1
    <3>3. Len(f[k]) > m /\ \A i \in 1..m : f[k][i] = s[i]
      BY <1>4
    <3> QED
      BY <3>2, <3>3
  <2>7. Len(f[j]) > m /\ \A i \in 1..m : f[j][i] = s[i]
    BY <1>1, <2>5, <2>6
  <2> QED
    BY <2>1, <2>2, <2>7
<1>5. \A k \in from..n : k \in S
  <2> HIDE DEF S, n
  <2> QED
    BY <1>1, <1>3, <1>4, EveryNumberFromTo
<1>6. n \in S
  BY <1>1, <1>5
<1> DEFINE all == f[n]
           closed == Closed(all)
<1>7. /\ all \in Seq(Seq(A)) /\ Len(all) \in Nat /\ Len(all) > m
      /\ \A i \in 1..m : all[i] = s[i]
  BY <1>1, <1>2, <1>6
<1> HIDE DEF all
<1>8. closed \in Seq(Seq(A)) /\ Len(closed) >= m /\ \A i \in 1..m : closed[i] = s[i]
  <2>1. CASE Last(all) = <<>>
    <3>1. PICK p : p = Len(all) - 1
      OBVIOUS
    <3>2. p \in Nat /\ p <= Len(all) /\ p >= m /\ closed = SubSeq(all, 1, p)
      BY <1>1, <1>7, <2>1, <3>1 DEF Closed, Front
    <3> HIDE DEF closed
    <3>3. closed \in Seq(Seq(A)) /\ Len(closed) = p /\ \A i \in 1..p : closed[i] = all[i]
      BY <1>7, <3>2
    <3>4. \A i \in 1..m : i \in 1..p
      BY <1>1, <3>2
    <3>5. \A i \in 1..m : closed[i] = s[i]
      BY <1>7, <3>3, <3>4
    <3> QED
      BY <3>2, <3>3, <3>5
  <2>2. CASE Last(all) # <<>>
    BY <1>1, <1>7, <2>2 DEF Closed
  <2> QED
    BY <2>1, <2>2
<1> HIDE DEF closed
<1>9. SubSeq(s, 1, m) = SubSeq(closed, 1, m)
  <2> DEFINE u == SubSeq(s, 1, m)
             v == SubSeq(closed, 1, m)
  <2>1. u \in Seq(Seq(A)) /\ Len(u) = m /\ \A i \in 1..m : u[i] = s[i]
    BY <1>1
  <2>2. v \in Seq(Seq(A)) /\ Len(v) = m /\ \A i \in 1..m : v[i] = closed[i]
    BY <1>1, <1>8
  <2> HIDE DEF u, v
  <2>3. u = v
    BY <1>1, <1>8, <2>1, <2>2, SeqEqual
  <2> QED
    BY <2>3 DEF u, v
<1>10. PartsAt(delimiters, text) = closed
  BY DEF IsReading, closed, all
<1> QED
  BY <1>1, <1>8, <1>9, <1>10 DEF IsPrefix

\* All of it but its last part is over, so what the loop has been given are parts of
\* the text, and at its end all of them.
LEMMA GivenParts ==
  ASSUME NEW A, NEW delimiters, NEW f, Given(delimiters, A, f)
  PROVE  /\ IsPrefix(parts, PartsAt(delimiters, text))
         /\ psep = Npos /\ nsep = Npos => parts = PartsAt(delimiters, text)
<1>1. IsReading(delimiters, text, A, f) /\ parts \in Seq(Seq(A)) /\ Len(text) \in Nat
  BY DEF Given, IsReading
<1>2. CASE psep # Npos
  <2>1. psep \in 0..Len(text) /\ f[psep] = Append(parts, <<>>)
    BY <1>1, <1>2 DEF Given
  <2> QED
    BY <1>1, <1>2, <2>1, PartsStay
<1>3. CASE psep = Npos /\ nsep = 0
  <2>1. parts = <<>> /\ nsep # Npos
    BY <1>3 DEF Given, Npos
  <2>2. f[0] = Append(<<>>, <<>>) /\ 0 \in 0..Len(text) /\ <<>> \in Seq(Seq(A))
    BY <1>1 DEF IsReading
  <2> QED
    BY <1>1, <2>1, <2>2, PartsStay
<1>4. CASE psep = Npos /\ nsep = Npos
  <2>1. parts = PartsAt(delimiters, text)
    BY <1>4 DEF Given, Npos
  <2>2. IsPrefix(parts, parts)
    BY <1>1 DEF IsPrefix
  <2> QED
    BY <2>1, <2>2
<1> QED
  BY <1>2, <1>3, <1>4 DEF Given

\* The loop begins at the first part, if there is one.
LEMMA BeginGiven ==
  ASSUME NEW A, NEW delimiters, NEW f, Given(delimiters, A, f), psep = Npos, nsep = 0,
         IncrementWith(delimiters), UNCHANGED <<text, parts>>
  PROVE  Given(delimiters, A, f)'
<1>1. /\ IsReading(delimiters, text, A, f) /\ parts = <<>> /\ <<>> \in Seq(Seq(A))
      /\ text \in Seq(A) /\ Len(text) \in Nat /\ f[0] = <<<<>>>>
  BY DEF Given, IsReading, Npos
<1>2. NextBegin = 0
  BY DEF NextBegin, Npos
<1>3. <<<<>>>> = Append(<<>>, <<>>)
  OBVIOUS
<1>4. CASE Len(text) = 0
  <2>1. psep' = Npos /\ nsep' = Npos
    BY <1>2, <1>4 DEF IncrementWith
  <2>2. Last(<<<<>>>>) = <<>> /\ Front(<<<<>>>>) = <<>>
    <3>1. Front(Append(<<>>, <<>>)) = <<>> /\ Last(Append(<<>>, <<>>)) = <<>>
      <4>1. <<>> \in Seq(A)
        OBVIOUS
      <4> QED
        BY <1>1, <4>1, TakenApart
    <3> QED
      BY <1>3, <3>1
  <2>3. PartsAt(delimiters, text) = <<>>
    BY <1>1, <1>4, <2>2 DEF IsReading, Closed
  <2> QED
    BY <1>1, <2>1, <2>3 DEF Given
<1>5. CASE Len(text) # 0
  <2>1. psep' = 0 /\ nsep' = FindWith(delimiters, 0) /\ 0 \in 0..(Len(text) - 1)
    BY <1>1, <1>2, <1>5 DEF IncrementWith
  <2>2. EndsAt(delimiters, 0, FindWith(delimiters, 0))
    BY <1>1, <2>1, FindsEnd
  <2>3. EndsAt(delimiters, psep, nsep)'
    BY <2>1, <2>2 DEF EndsAt, NoneIn, EndOf, At
  <2>4. psep' # Npos
    BY <2>1 DEF Npos
  <2>5. (f[psep] = Append(parts, <<>>))'
    BY <1>1, <1>3, <2>1
  <2>6. IsReading(delimiters, text, A, f)' /\ (parts \in Seq(Seq(A)))'
    BY <1>1
  <2> QED
    BY <2>1, <2>3, <2>4, <2>5, <2>6 DEF Given
<1> QED
  BY <1>4, <1>5

\* It goes on with the next, or ends after the last one (path_components.h:62-81).
LEMMA StepGiven ==
  ASSUME NEW A, NEW delimiters, NEW f, Given(delimiters, A, f), psep # Npos,
         IncrementWith(delimiters), UNCHANGED text, parts' = Append(parts, Dereference)
  PROVE  Given(delimiters, A, f)'
<1> DEFINE n == Len(text)
           part == Dereference
           last == EndOf(nsep)
<1>1. /\ IsReading(delimiters, text, A, f) /\ parts \in Seq(Seq(A))
      /\ text \in Seq(A) /\ n \in Nat /\ psep \in 0..(n - 1)
      /\ EndsAt(delimiters, psep, nsep) /\ f[psep] = Append(parts, <<>>)
  BY DEF Given, IsReading
<1>2. /\ last \in psep..n /\ last \in Nat /\ psep \in 0..n
      /\ NoneIn(delimiters, psep, last)
  BY <1>1 DEF EndsAt, EndOf, Npos
<1>3. part = SubSeq(text, psep + 1, last)
  BY DEF Dereference, EndOf
<1>4. part \in Seq(A) /\ Len(part) = last - psep
  BY <1>1, <1>2, <1>3
<1> HIDE DEF part, last
<1>5. f[last] = Append(parts, part)
  <2>1. Ongoing(f[last], parts, SubSeq(text, psep + 1, last))
    BY <1>1, <1>2, PartIsRead
  <2> QED
    BY <1>3, <2>1 DEF Ongoing
<1>6. parts' = f[last] /\ parts' \in Seq(Seq(A))
  BY <1>1, <1>4, <1>5 DEF part
<1>7. IsReading(delimiters, text, A, f)' /\ (parts \in Seq(Seq(A)))'
  BY <1>1, <1>6
<1>8. PartsAt(delimiters, text) = Closed(f[n])
  BY <1>1 DEF IsReading
<1>9. CASE nsep = Npos
  <2>1. last = n /\ NextBegin = Npos /\ Npos # n
    BY <1>1, <1>9 DEF last, EndOf, NextBegin, Npos
  <2>2. psep' = Npos /\ nsep' = Npos
    BY <2>1 DEF IncrementWith, FindWith
  <2>3. part # <<>>
    BY <1>1, <1>4, <2>1
  <2>4. Last(Append(parts, part)) = part
    BY <1>1, <1>4, TakenApart
  <2>5. Closed(parts') = parts'
    BY <1>5, <1>6, <2>3, <2>4 DEF Closed
  <2>6. parts' = PartsAt(delimiters, text)
    BY <1>6, <1>8, <2>1, <2>5
  <2> QED
    BY <1>7, <2>2, <2>6 DEF Given
<1>10. CASE nsep # Npos
  <2>1. PICK k : k = nsep + 1
    OBVIOUS
  <2>2. /\ last = nsep /\ nsep \in 0..(n - 1) /\ text[k] \in delimiters
        /\ k \in 1..n /\ k - 1 = nsep /\ NextBegin = k
    BY <1>1, <1>10, <2>1 DEF last, EndOf, EndsAt, At, NextBegin, Npos
  <2>3. f[k] = ReadLetter(delimiters, f[nsep], text[k])
    BY <1>1, <2>2 DEF IsReading
  <2>4. f[k] = Append(parts', <<>>)
    BY <1>6, <2>2, <2>3 DEF ReadLetter
  <2>5. CASE k = n
    <3>1. psep' = Npos /\ nsep' = Npos
      BY <2>2, <2>5 DEF IncrementWith
    <3>2. Front(Append(parts', <<>>)) = parts' /\ Last(Append(parts', <<>>)) = <<>>
      <4>1. <<>> \in Seq(A)
        OBVIOUS
      <4> QED
        BY <1>6, <4>1, TakenApart
    <3>3. parts' = PartsAt(delimiters, text)
      BY <1>8, <2>4, <2>5, <3>2 DEF Closed
    <3> QED
      BY <1>7, <3>1, <3>3 DEF Given
  <2>6. CASE k # n
    <3>1. psep' = k /\ nsep' = FindWith(delimiters, k) /\ k \in 0..(n - 1) /\ k # Npos
      BY <1>1, <2>2, <2>6 DEF IncrementWith, Npos
    <3>2. EndsAt(delimiters, k, FindWith(delimiters, k))
      BY <1>1, <3>1, FindsEnd
    <3>3. EndsAt(delimiters, psep, nsep)'
      BY <3>1, <3>2 DEF EndsAt, NoneIn, EndOf, At
    <3>4. (f[psep] = Append(parts, <<>>))'
      BY <2>4, <3>1
    <3> QED
      BY <1>7, <3>1, <3>3, <3>4 DEF Given
  <2> QED
    BY <2>5, <2>6
<1> QED
  BY <1>9, <1>10

-----------------------------------------------------------------------------
(***************************************************************************)
(* The texts, from the server's start.                                     *)
(***************************************************************************)
GivenUpTo(delimiters) == \E A : \E f : Given(delimiters, A, f)

\* Every text that is iterated over has been given to its loop up to where the
\* iterator is, and the resources are a sequence.
GivenInv ==
  /\ stage \in {"query", "post"} => GivenUpTo(Delimiters)
  /\ stage \in {"template", "path"} => GivenUpTo({Slash})
  /\ \E S : resources \in Seq(S)

\* Neither does a step that leaves the text alone change what it has been given.
LEMMA GivenStands ==
  ASSUME NEW delimiters, GivenUpTo(delimiters), UNCHANGED <<text, psep, nsep, parts>>
  PROVE  GivenUpTo(delimiters)'
<1>1. PICK A, f : Given(delimiters, A, f)
  BY DEF GivenUpTo
<1>2. text' = text /\ psep' = psep /\ nsep' = nsep /\ parts' = parts
  OBVIOUS
<1>3. /\ IsReading(delimiters, text, A, f)'
      /\ EndsAt(delimiters, psep, nsep)' = EndsAt(delimiters, psep, nsep)
  BY <1>1, <1>2 DEF Given, EndsAt, NoneIn, EndOf, At
<1>4. Given(delimiters, A, f)'
  BY <1>1, <1>2, <1>3 DEF Given
<1> QED
  BY <1>4 DEF GivenUpTo

\* An iteration begins with nothing given.
LEMMA IterateGives ==
  ASSUME NEW delimiters, NEW A, NEW t, t \in Seq(A), Iterate(t)
  PROVE  GivenUpTo(delimiters)'
<1>1. text' = t /\ psep' = Npos /\ nsep' = 0 /\ parts' = <<>>
  BY DEF Iterate
<1>2. PICK f : IsReading(delimiters, t, A, f)
  BY PartsLetterByLetter
<1>3. IsReading(delimiters, text, A, f)' /\ (parts \in Seq(Seq(A)))'
  BY <1>1, <1>2
<1>4. Given(delimiters, A, f)'
  BY <1>1, <1>3 DEF Given
<1> QED
  BY <1>4 DEF GivenUpTo

\* A round of either loop gives the next part (path_components.h:62-81,
\* query_string.h:62-81).
LEMMA RoundGiven ==
  ASSUME NEW delimiters, GivenUpTo(delimiters), IncrementWith(delimiters), UNCHANGED text,
         \/ psep = Npos /\ nsep = 0 /\ UNCHANGED parts
         \/ psep # Npos /\ parts' = Append(parts, Dereference)
  PROVE  GivenUpTo(delimiters)'
<1>1. PICK A, f : Given(delimiters, A, f)
  BY DEF GivenUpTo
<1>2. CASE psep = Npos /\ nsep = 0 /\ UNCHANGED parts
  <2>1. Given(delimiters, A, f)'
    BY <1>1, <1>2, BeginGiven
  <2> QED
    BY <2>1 DEF GivenUpTo
<1>3. CASE psep # Npos /\ parts' = Append(parts, Dereference)
  <2>1. Given(delimiters, A, f)'
    BY <1>1, <1>3, StepGiven
  <2> QED
    BY <2>1 DEF GivenUpTo
<1> QED
  BY <1>2, <1>3

\* Both iterators do that: the one of a query or a form ...
LEMMA QueryRound ==
  ASSUME ParamsNext
  PROVE  /\ IncrementWith(Delimiters) /\ UNCHANGED text
         /\ \/ psep = Npos /\ nsep = 0 /\ UNCHANGED parts
            \/ psep # Npos /\ parts' = Append(parts, Dereference)
<1>1. Increment => IncrementWith(Delimiters)
  BY DEF Increment, IncrementWith, Find, FindWith
<1> QED
  BY <1>1 DEF ParamsNext, ParamsBegin, ParamsStep, QueryBegin, QueryStep, Begin, Step

\* ... and the one of a path.
LEMMA PathRound ==
  ASSUME Path!Next
  PROVE  /\ IncrementWith({Slash}) /\ UNCHANGED text
         /\ \/ psep = Npos /\ nsep = 0 /\ UNCHANGED parts
            \/ psep # Npos /\ parts' = Append(parts, Dereference)
<1>1. Path!NextBegin = NextBegin /\ Path!Npos = Npos /\ Path!Dereference = Dereference
  BY DEF Path!NextBegin, NextBegin, Path!Npos, Npos, Path!Dereference, Dereference
<1>2. \A from : Path!Find(from) = FindWith({Slash}, from)
  BY DEF Path!Find, Path!At, Path!Npos, Path!Min, FindWith, At, Npos, Min
<1>3. Path!Increment => IncrementWith({Slash})
  BY <1>1, <1>2 DEF Path!Increment, IncrementWith
<1> QED
  BY <1>1, <1>3 DEF Path!Next, Path!Begin, Path!Step

\* The paths of the resources are texts.
LEMMA RegisteredPaths ==
  ASSUME NEW n \in 1..Len(Registered)
  PROVE  Registered[n].path \in Seq(Nat)
<1>1. /\ <<Slash>> \in Seq(Nat) /\ D \in Seq(Nat) /\ G \in Seq(Nat) /\ P \in Seq(Nat)
      /\ M \in Seq(Nat) /\ User \in Seq(Nat)
  BY DEF Slash, D, G, P, M, User, LBrace, RBrace
<1>2. /\ HelloResource.path \in Seq(Nat) /\ HelloParamResource.path \in Seq(Nat)
      /\ HelloDoubleParamResource.path \in Seq(Nat)
      /\ HelloQueryParamResource.path \in Seq(Nat) /\ HelloPostParamResource.path \in Seq(Nat)
      /\ PingResource.path \in Seq(Nat) /\ MetricsResource.path \in Seq(Nat)
  BY <1>1 DEF HelloResource, HelloParamResource, HelloDoubleParamResource,
              HelloQueryParamResource, HelloPostParamResource, PingResource, MetricsResource
<1>3. CASE server = "hello"
  <2>1. Len(Registered) = 5 /\ Registered =
          <<HelloResource, HelloParamResource, HelloDoubleParamResource,
            HelloQueryParamResource, HelloPostParamResource>>
    BY <1>3 DEF Registered, ResourcesOf, HelloResources
  <2>2. n \in {1, 2, 3, 4, 5}
    BY <2>1
  <2> QED
    BY <1>2, <2>1, <2>2
<1>4. CASE server # "hello"
  <2>1. Len(Registered) = 2 /\ Registered = <<PingResource, MetricsResource>>
    BY <1>4 DEF Registered, ResourcesOf, AdminResources
  <2>2. n \in {1, 2}
    BY <2>1
  <2> QED
    BY <1>2, <2>1, <2>2
<1> QED
  BY <1>3, <1>4

\* The path of a request is one.
LEMMA AskedPaths ==
  ASSUME NEW r \in Asked
  PROVE  r.path \in Word
BY HelloAssumption DEF Word

\* What is registered are some resources, one more at a time.
LEMMA ResourcesListed ==
  ASSUME NEW S, resources \in Seq(S), Matcher!Adding
  PROVE  \E T : resources' \in Seq(T)
<1>1. CASE UNCHANGED resources
  BY <1>1
<1>2. CASE resources' = Append(resources, registrar.template)
  <2> DEFINE T == S \cup {registrar.template}
  <2>1. resources \in Seq(T) /\ registrar.template \in T
    OBVIOUS
  <2> HIDE DEF T
  <2>2. resources' \in Seq(T)
    BY <1>2, <2>1
  <2> QED
    BY <2>2
<1> QED
  BY <1>1, <1>2
     DEF Matcher!Adding, Matcher!Walk, Matcher!SetResource, Matcher!SetMethods, Matcher!Collision,
         Matcher!nodes

\* A step that neither reads a text nor registers.
LEMMA NotGiving ==
  ASSUME GivenInv, UNCHANGED resources, ~(stage' \in {"query", "post", "template", "path"})
  PROVE  GivenInv'
BY DEF GivenInv

\* It holds at first.
LEMMA GivenInvInit == HelloInit => GivenInv
<1> SUFFICES ASSUME HelloInit
             PROVE  GivenInv
  OBVIOUS
<1>1. stage = "main" /\ resources = <<>> /\ <<>> \in Seq({})
  BY DEF HelloInit, Matcher!Init
<1> QED
  BY <1>1 DEF GivenInv

\* Every step keeps it.
LEMMA GivenInvNext == HelloInv /\ GivenInv /\ [HelloNext]_helloVars => GivenInv'
<1> SUFFICES ASSUME HelloInv, GivenInv, [HelloNext]_helloVars
             PROVE  GivenInv'
  OBVIOUS
<1>1. CASE RegisterResource
  <2>1. PICK n : n = Len(resources) + 1
    OBVIOUS
  <2>2. /\ Iterate(Registered[n].path) /\ stage' = "template" /\ UNCHANGED resources
        /\ Len(resources) < Len(Registered)
    BY <1>1, <2>1 DEF RegisterResource, matcher
  <2>3. Len(resources) \in Nat /\ Len(Registered) \in Nat
    BY DEF GivenInv, Registered, ResourcesOf, HelloResources, AdminResources
  <2>4. n \in 1..Len(Registered)
    BY <2>1, <2>2, <2>3
  <2>5. Registered[n].path \in Seq(Nat)
    BY <2>4, RegisteredPaths
  <2>6. GivenUpTo({Slash})'
    BY <2>2, <2>5, IterateGives
  <2> QED
    BY <2>2, <2>6 DEF GivenInv
<1>2. CASE AddResource
  BY <1>2, NotGiving DEF AddResource, Matcher!AddResource, Matcher!nodes
<1>3. CASE EnterResource
  <2>1. \E T : resources' \in Seq(T)
    BY <1>3, ResourcesListed DEF EnterResource, GivenInv
  <2>2. stage' \in {"main", "adding"}
    BY <1>3 DEF EnterResource
  <2> QED
    BY <2>1, <2>2 DEF GivenInv
<1>4. CASE SplitPath
  <2>1. /\ stage \in {"template", "path"} /\ Path!Next /\ stage' = stage /\ UNCHANGED resources
    BY <1>4 DEF SplitPath, matcher
  <2>2. GivenUpTo({Slash})'
    BY <2>1, PathRound, RoundGiven DEF GivenInv
  <2> QED
    BY <2>1, <2>2 DEF GivenInv
<1>5. CASE Ask
  <2>1. PICK r \in Asked : Iterate(r.query)
    BY <1>5 DEF Ask
  <2>2. stage' = "query" /\ UNCHANGED resources
    BY <1>5 DEF Ask, matcher
  <2>3. r.query \in Seq(Letter)
    BY AskedTexts DEF Word
  <2>4. GivenUpTo(Delimiters)'
    BY <2>1, <2>3, IterateGives
  <2> QED
    BY <2>2, <2>4 DEF GivenInv
<1>6. CASE ReadParameters
  <2>1. stage \in {"query", "post"} /\ ParamsNext /\ stage' = stage /\ UNCHANGED resources
    BY <1>6 DEF ReadParameters, matcher
  <2>2. GivenUpTo(Delimiters)'
    BY <2>1, QueryRound, RoundGiven DEF GivenInv
  <2> QED
    BY <2>1, <2>2 DEF GivenInv
<1>7. ASSUME QueryRead \/ FormRead
      PROVE  GivenInv'
  <2>1. stage \in {"query", "post"} /\ UNCHANGED resources
    BY <1>7 DEF QueryRead, FormRead, matcher
  <2>2. PICK r \in Asked : request = <<r>>
    BY <2>1 DEF HelloInv, Reading
  <2>3. r.path \in Seq(Letter) /\ r.body \in Seq(Letter) /\ request[1] = r
    BY <2>2, AskedTexts, AskedPaths DEF Word
  <2>4. \/ Iterate(r.body) /\ stage' = "post"
        \/ Iterate(r.path) /\ stage' = "path"
    BY <1>7, <2>3 DEF QueryRead, FormRead
  <2>5. CASE Iterate(r.body) /\ stage' = "post"
    <3>1. GivenUpTo(Delimiters)'
      BY <2>3, <2>5, IterateGives
    <3> QED
      BY <2>1, <2>5, <3>1 DEF GivenInv
  <2>6. CASE Iterate(r.path) /\ stage' = "path"
    <3>1. GivenUpTo({Slash})'
      BY <2>3, <2>6, IterateGives
    <3> QED
      BY <2>1, <2>6, <3>1 DEF GivenInv
  <2> QED
    BY <2>4, <2>5, <2>6
<1>8. CASE BuildThrows \/ Unmatched \/ HandlerReturns
  BY <1>8, NotGiving DEF BuildThrows, Unmatched, HandlerReturns, Respond, matcher
<1>9. CASE Match
  BY <1>9, NotGiving DEF Match, Matcher!Match, Matcher!nodes
<1>10. CASE Search
  BY <1>10, NotGiving DEF Search, Matcher!Looking, Matcher!MatchComponent, Matcher!Matches,
                          Matcher!NoMatch, Matcher!MatchRaces, Matcher!nodes
<1>11. CASE DispatchBegin \/ Extract
  BY <1>11, NotGiving DEF DispatchBegin, Extract, matcher
<1>12. CASE Written
  BY <1>12, NotGiving DEF Written
<1>13. CASE UNCHANGED helloVars
  <2>1. UNCHANGED <<text, psep, nsep, parts>> /\ UNCHANGED <<stage, resources>>
    BY <1>13 DEF helloVars, reading, matcher
  <2>2. \A d : GivenUpTo(d) => GivenUpTo(d)'
    BY <2>1, GivenStands
  <2> QED
    BY <2>1, <2>2 DEF GivenInv
<1> QED
  BY <1>1, <1>2, <1>3, <1>4, <1>5, <1>6, <1>7, <1>8, <1>9, <1>10, <1>11, <1>12, <1>13
     DEF HelloNext, Register, Serve

\* Whatever the texts, and however long, each is given to its loop part by part, and
\* all of it by the time the loop ends (path_components.h:39-42 and 62-81,
\* query_string.h:62-81).
THEOREM GivenWhole == HelloSpec => []TextsGivenInParts
<1>1. GivenInv => TextsGivenInParts
  <2> SUFFICES ASSUME GivenInv
               PROVE  TextsGivenInParts
    OBVIOUS
  <2>1. ASSUME NEW delimiters, GivenUpTo(delimiters)
        PROVE  /\ IsPrefix(parts, PartsAt(delimiters, text))
               /\ psep = Npos /\ nsep = Npos => parts = PartsAt(delimiters, text)
    <3>1. PICK A, f : Given(delimiters, A, f)
      BY <2>1 DEF GivenUpTo
    <3> QED
      BY <3>1, GivenParts
  <2>2. GivenUpTo(Delimiters) => GivenItsParts
    BY <2>1 DEF GivenItsParts, Parts, AtEnd
  <2>3. GivenUpTo({Slash}) => Path!GivenItsParts
    <3>1. Path!PartsAt({Slash}, text) = PartsAt({Slash}, text)
      BY DEF Path!PartsAt, Path!FoldLeft, Path!MapThenFoldSet, Path!Max, Path!Front, Path!Last,
             PartsAt, FoldLeft, MapThenFoldSet, Max, Front, Last
    <3>2. \A s, t : Path!IsPrefix(s, t) = IsPrefix(s, t)
      BY DEF Path!IsPrefix, IsPrefix
    <3> QED
      BY <2>1, <3>1, <3>2
         DEF Path!GivenItsParts, Path!AtEnd, Path!Parts, Path!Npos, Npos
  <2> QED
    BY <2>2, <2>3 DEF GivenInv, TextsGivenInParts
<1>2. HelloSpec => []GivenInv
  BY GivenInvInit, GivenInvNext, HelloInvariant, PTL DEF HelloSpec
<1> QED
  BY <1>1, <1>2, PTL

-----------------------------------------------------------------------------
(***************************************************************************)
(* The types.  What is proved of the matcher, whatever its templates, is   *)
(* used of the one that has the templates of the resources here.           *)
(***************************************************************************)
TemplateOf(resource) == Template(PartsAt({Slash}, resource.path))

\* The templates of both servers' resources, and the matcher's theorems for them.
ResourceTemplates ==
  UNION {{TemplateOf(ResourcesOf(s)[n]) : n \in DOMAIN ResourcesOf(s)} : s \in Server}

Proved ==
  INSTANCE ResourceMatcherProofs WITH
    Templates <- ResourceTemplates,
    Paths <- Seq(Component),
    MaxResources <- Max({Len(ResourcesOf(s)) : s \in Server}),
    clearing <- [stack |-> <<>>, forgotten |-> {}, deleted |-> <<>>]

\* The resources and their paths.
LEMMA Resources ==
  ASSUME NEW s, NEW n \in DOMAIN ResourcesOf(s)
  PROVE  /\ DOMAIN ResourcesOf(s) \subseteq 1..5
         /\ ResourcesOf(s)[n].path \in Seq(Letter)
<1>1. /\ <<Slash>> \in Seq(Letter) /\ D \in Seq(Letter) /\ G \in Seq(Letter) /\ P \in Seq(Letter)
      /\ M \in Seq(Letter) /\ User \in Seq(Letter)
  BY LettersAssumption DEF Slash, D, G, P, M, User, LBrace, RBrace
<1>2. /\ HelloResource.path \in Seq(Letter) /\ HelloParamResource.path \in Seq(Letter)
      /\ HelloDoubleParamResource.path \in Seq(Letter)
      /\ HelloQueryParamResource.path \in Seq(Letter)
      /\ HelloPostParamResource.path \in Seq(Letter)
      /\ PingResource.path \in Seq(Letter) /\ MetricsResource.path \in Seq(Letter)
  BY <1>1 DEF HelloResource, HelloParamResource, HelloDoubleParamResource,
              HelloQueryParamResource, HelloPostParamResource, PingResource, MetricsResource
<1>3. CASE s = "hello"
  <2>1. Len(ResourcesOf(s)) = 5 /\ ResourcesOf(s) =
          <<HelloResource, HelloParamResource, HelloDoubleParamResource,
            HelloQueryParamResource, HelloPostParamResource>>
    BY <1>3 DEF ResourcesOf, HelloResources
  <2>2. n \in {1, 2, 3, 4, 5} /\ DOMAIN ResourcesOf(s) \subseteq 1..5
    BY <2>1
  <2> QED
    BY <1>2, <2>1, <2>2
<1>4. CASE s # "hello"
  <2>1. Len(ResourcesOf(s)) = 2 /\ ResourcesOf(s) = <<PingResource, MetricsResource>>
    BY <1>4 DEF ResourcesOf, AdminResources
  <2>2. n \in {1, 2} /\ DOMAIN ResourcesOf(s) \subseteq 1..5
    BY <2>1
  <2> QED
    BY <1>2, <2>1, <2>2
<1> QED
  BY <1>3, <1>4

\* They are numbered from 1.
LEMMA ResourcesInOrder ==
  ASSUME NEW s
  PROVE  DOMAIN ResourcesOf(s) = 1..Len(ResourcesOf(s)) /\ Len(ResourcesOf(s)) \in Nat
<1>1. CASE s = "hello"
  BY <1>1 DEF ResourcesOf, HelloResources
<1>2. CASE s # "hello"
  BY <1>2 DEF ResourcesOf, AdminResources
<1> QED
  BY <1>1, <1>2

\* The parts of a text are texts.
LEMMA PartsAreTexts ==
  ASSUME NEW A, NEW delimiters, NEW t, t \in Seq(A)
  PROVE  PartsAt(delimiters, t) \in Seq(Seq(A))
<1>1. PICK f : IsReading(delimiters, t, A, f)
  BY PartsLetterByLetter
<1> DEFINE all == f[Len(t)]
<1>2. all \in Seq(Seq(A)) /\ all # <<>> /\ PartsAt(delimiters, t) = Closed(all)
  BY <1>1 DEF IsReading, Groups
<1> HIDE DEF all
<1>3. Front(all) \in Seq(Seq(A))
  BY <1>2 DEF Front
<1> QED
  BY <1>2, <1>3 DEF Closed

\* A template is made of components and the variable.
LEMMA TemplateType ==
  ASSUME NEW components, components \in Seq(Component)
  PROVE  Template(components) \in Seq(Component \cup {Variable})
<1>1. DOMAIN components = 1..Len(components) /\ Len(components) \in Nat
      /\ \A i \in 1..Len(components) : components[i] \in Component
  OBVIOUS
<1>2. \A i \in 1..Len(components) :
        (IF IsVariable(components[i]) THEN Variable ELSE components[i])
          \in Component \cup {Variable}
  BY <1>1
<1> QED
  BY <1>1, <1>2 DEF Template

\* So the matcher's templates are what it takes templates to be.
LEMMA TemplatesType == ResourceTemplates \subseteq Seq(Component \cup {Variable})
<1> SUFFICES ASSUME NEW s \in Server, NEW n \in DOMAIN ResourcesOf(s)
             PROVE  TemplateOf(ResourcesOf(s)[n]) \in Seq(Component \cup {Variable})
  BY DEF ResourceTemplates
<1>1. PICK t : t = ResourcesOf(s)[n].path
  OBVIOUS
<1>2. PICK components : components = PartsAt({Slash}, t)
  OBVIOUS
<1>3. components \in Seq(Component)
  BY <1>1, <1>2, Resources, PartsAreTexts DEF Component
<1>4. Template(components) \in Seq(Component \cup {Variable})
  BY <1>3, TemplateType
<1> QED
  BY <1>1, <1>2, <1>4 DEF TemplateOf

\* The assumption of the matcher holds of these templates.
LEMMA Assumed == Proved!MatcherAssumption
<1>0. Max({Len(ResourcesOf(s)) : s \in Server}) \in Nat
  <2> DEFINE lengths == {Len(ResourcesOf(s)) : s \in Server}
  <2>1. Len(ResourcesOf("hello")) = 5 /\ Len(ResourcesOf("admin")) = 2
    BY DEF ResourcesOf, HelloResources, AdminResources
  <2>2. lengths = {5, 2}
    BY <2>1 DEF Server
  <2> HIDE DEF lengths
  <2>3. lengths \in SUBSET (1..5) /\ lengths # {}
    BY <2>2
  <2>4. Max(lengths) \in lengths
    BY <2>3, Greatest
  <2> QED
    BY <2>3, <2>4 DEF lengths
<1>1. Component \subseteq Seq(Nat) /\ Variable \notin Component
  <2>1. \A t \in Seq(Letter) : t \in Seq(Nat)
    <3> SUFFICES ASSUME NEW t \in Seq(Letter)
                 PROVE  t \in Seq(Nat)
      OBVIOUS
    <3>1. Len(t) \in Nat /\ t = [i \in 1..Len(t) |-> t[i]] /\ \A i \in 1..Len(t) : t[i] \in Nat
      BY LettersAssumption
    <3> QED
      BY <3>1
  <2> QED
    BY <2>1, LettersAssumption DEF Component
<1>2. NoResource \notin ResourceTemplates
  BY TemplatesType, LettersAssumption DEF Component
<1> QED
  BY <1>0, <1>1, <1>2, TemplatesType DEF Proved!MatcherAssumption

\* The matcher here is that matcher.
LEMMA SameWalks ==
  Matcher!Adding => Proved!Adding
BY DEF Matcher!Adding, Proved!Adding, Matcher!Walk, Proved!Walk, Matcher!Walking, Proved!Walking,
       Matcher!NextNode, Proved!NextNode, Matcher!Has, Proved!Has,
       Matcher!SetResource, Proved!SetResource, Matcher!AtTerminal, Proved!AtTerminal,
       Matcher!Collides, Proved!Collides, Matcher!SetMethods, Proved!SetMethods,
       Matcher!Binding, Proved!Binding, Matcher!Idle, Proved!Idle,
       Matcher!Collision, Proved!Collision, Matcher!nodes, Proved!nodes

\* And what a sort may put first, and a search state's turn.
LEMMA SameFirst ==
  \A states : Matcher!First(states) = Proved!First(states)
BY DEF Matcher!First, Proved!First, Matcher!IsCandidate, Proved!IsCandidate, Matcher!Before,
       Proved!Before, Matcher!Greater, Proved!Greater

LEMMA SameAdvance ==
  Matcher!Advance(search) = Proved!Advance(search)
BY DEF Matcher!Advance, Proved!Advance, Matcher!ThroughLiteral, Proved!ThroughLiteral,
       Matcher!ThroughVariable, Proved!ThroughVariable, Matcher!Has, Proved!Has,
       Matcher!Dot, Proved!Dot

LEMMA SameLooks ==
  Matcher!Looking => Proved!Looking
<1>1. Matcher!MatchComponent => Proved!MatchComponent
  BY SameAdvance DEF Matcher!MatchComponent, Proved!MatchComponent, Matcher!Exploring,
                     Proved!Exploring, Matcher!nodes, Proved!nodes
<1>2. Matcher!Matches => Proved!Matches
  BY SameFirst DEF Matcher!Matches, Proved!Matches, Matcher!Explored, Proved!Explored,
                   Matcher!nodes, Proved!nodes
<1>3. Matcher!NoMatch => Proved!NoMatch
  BY DEF Matcher!NoMatch, Proved!NoMatch, Matcher!Explored, Proved!Explored,
         Matcher!IsCandidate, Proved!IsCandidate, Matcher!nodes, Proved!nodes
<1>4. Matcher!MatchRaces => Proved!MatchRaces
  BY SameFirst DEF Matcher!MatchRaces, Proved!MatchRaces, Matcher!Exploring, Proved!Exploring,
         Matcher!Walking, Proved!Walking, Matcher!NextNode, Proved!NextNode,
         Matcher!Has, Proved!Has, Matcher!Last, Proved!Last, Matcher!Parent, Proved!Parent,
         Matcher!Explored, Proved!Explored, Matcher!Binding, Proved!Binding,
         Matcher!NotMatching, Proved!NotMatching, Matcher!nodes, Proved!nodes
<1> QED
  BY <1>1, <1>2, <1>3, <1>4 DEF Matcher!Looking, Proved!Looking

\* And the other steps, and the types.
LEMMA SameMatch ==
  ASSUME NEW path, Matcher!Match(path)
  PROVE  Proved!Match(path)
BY DEF Matcher!Match, Proved!Match, Matcher!Alive, Proved!Alive, Matcher!NotClearing,
       Proved!NotClearing, Matcher!Matching, Proved!Matching, Matcher!NotMatching,
       Proved!NotMatching, Matcher!ToSet, Proved!ToSet, Matcher!FirstState, Proved!FirstState,
       Matcher!Head_, Proved!Head_, Matcher!nodes, Proved!nodes

LEMMA SameTypes ==
  Proved!TypeOK => Matcher!TypeOK
BY DEF Matcher!TypeOK, Proved!TypeOK, Matcher!Node, Proved!Node, Matcher!Resource,
       Proved!Resource, ResourceTemplates, TemplateOf

LEMMA SameClears ==
  Matcher!Clear \/ Matcher!ClearVisit \/ Matcher!ClearDelete
    => Proved!Clear \/ Proved!ClearVisit \/ Proved!ClearDelete
BY DEF Matcher!Clear, Proved!Clear, Matcher!Alive, Proved!Alive, Matcher!NotClearing,
       Proved!NotClearing, Matcher!Idle, Proved!Idle, Matcher!Matching, Proved!Matching,
       Matcher!NotMatching, Proved!NotMatching, Matcher!Visit, Proved!Visit, Matcher!Head_,
       Proved!Head_, Matcher!nodes, Proved!nodes, Matcher!ClearVisit, Proved!ClearVisit,
       Matcher!Top, Proved!Top, Matcher!Last, Proved!Last, Matcher!Front, Proved!Front,
       Matcher!Pushed, Proved!Pushed, Matcher!Children, Proved!Children,
       Matcher!SetToSeq, Proved!SetToSeq, Matcher!ClearDelete, Proved!ClearDelete

LEMMA SameAdds ==
  ASSUME NEW template, Matcher!AddResource(template)
  PROVE  Proved!AddResource(template)
BY DEF Matcher!AddResource, Proved!AddResource, Matcher!Alive, Proved!Alive,
       Matcher!NotClearing, Proved!NotClearing, Matcher!Idle, Proved!Idle, Matcher!nodes,
       Proved!nodes

LEMMA SameReturns ==
  Matcher!Return => Proved!Return
BY DEF Matcher!Return, Proved!Return, Matcher!NotMatching, Proved!NotMatching, Matcher!nodes,
       Proved!nodes

\* So it is the same specification.
LEMMA SameMatcher == Matcher!Spec => Proved!Spec
<1>1. Matcher!Init => Proved!Init
  BY DEF Matcher!Init, Proved!Init, Matcher!Head_, Proved!Head_, Matcher!Idle,
         Proved!Idle, Matcher!NotMatching, Proved!NotMatching, Matcher!NotClearing,
         Proved!NotClearing
<1>2. Matcher!Next => Proved!Next
  BY SameAdds, SameWalks, SameMatch, SameLooks, SameReturns, SameClears
     DEF Matcher!Next, Proved!Next, ResourceTemplates, TemplateOf
<1>3. Matcher!vars = Proved!vars /\ Matcher!vars' = Proved!vars'
  BY DEF Matcher!vars, Proved!vars, Matcher!nodes, Proved!nodes
<1>4. [Matcher!Next]_(Matcher!vars) => [Proved!Next]_(Proved!vars)
  BY <1>2, <1>3
<1> QED
  BY <1>1, <1>4, PTL DEF Matcher!Spec, Proved!Spec


\* At every stage the iterator is within its text, which is no longer than the
\* bound, and what it has given are texts.
TextInv ==
  /\ AtPosition
  /\ Len(text) <= MaxLength
  /\ parts \in Seq(Word)

\* A new text.
LEMMA IterateText ==
  ASSUME NEW t, t \in Word, Len(t) <= MaxLength, Iterate(t)
  PROVE  TextInv'
<1>1. text' = t /\ AtPosition' /\ (parts \in Seq(Word))'
  BY IterateBegins DEF Iterate
<1> QED
  BY <1>1 DEF TextInv

\* Whatever the delimiters.
LEMMA RoundText ==
  ASSUME TextInv, NEW delimiters, IncrementWith(delimiters), UNCHANGED text,
         \/ psep = Npos /\ nsep = 0 /\ UNCHANGED parts
         \/ psep # Npos /\ parts' = Append(parts, Dereference)
  PROVE  TextInv'
<1>1. Len(text) \in Nat /\ text \in Seq(Letter)
  BY DEF TextInv, AtPosition, Word
<1>2. NextBegin \in {Npos} \cup 0..Len(text)
  BY <1>1 DEF TextInv, AtPosition, NextBegin, Npos
<1>3. AtPosition'
  <2>1. CASE NextBegin = Len(text)
    BY <2>1 DEF TextInv, AtPosition, IncrementWith, Npos
  <2>2. CASE NextBegin = Npos
    <3>1. psep' = Npos /\ nsep' = Npos
      BY <1>1, <2>2 DEF IncrementWith, FindWith, Npos
    <3> QED
      BY <3>1 DEF TextInv, AtPosition
  <2>3. CASE NextBegin \in 0..(Len(text) - 1)
    <3>1. psep' = NextBegin /\ nsep' = FindWith(delimiters, NextBegin)
      BY <1>1, <2>3 DEF IncrementWith
    <3>2. FindWith(delimiters, NextBegin) \in {Npos} \cup NextBegin..(Len(text) - 1)
      BY <1>1, <2>3, FindsEnd DEF EndsAt
    <3> QED
      BY <1>1, <2>3, <3>1, <3>2 DEF TextInv, AtPosition, Npos
  <2> QED
    BY <1>1, <1>2, <2>1, <2>2, <2>3
<1>4. (parts \in Seq(Word))'
  <2>1. CASE UNCHANGED parts
    BY <2>1 DEF TextInv
  <2>2. CASE psep # Npos /\ parts' = Append(parts, Dereference)
    BY <2>2, DereferenceIsWord DEF TextInv
  <2> QED
    BY <2>1, <2>2
<1> QED
  BY <1>3, <1>4 DEF TextInv

LEMMA TextInvInit == HelloInit => TextInv
<1> SUFFICES ASSUME HelloInit
             PROVE  TextInv
  OBVIOUS
<1>1. text = <<>> /\ psep = Npos /\ nsep = 0 /\ parts = <<>> /\ MaxLength \in Nat
  BY ComponentsAssumption DEF HelloInit
<1> QED
  BY <1>1 DEF TextInv, AtPosition, Word

\* What is registered and what is asked are texts within the bound.
LEMMA BoundedTexts ==
  /\ <<>> \in Word /\ Len(<<>>) <= MaxLength
  /\ \A r \in Asked : \A t \in {r.path, r.query, r.body} : t \in Word /\ Len(t) <= MaxLength
  /\ \A s \in Server : \A n \in DOMAIN ResourcesOf(s) :
       ResourcesOf(s)[n].path \in Word /\ Len(ResourcesOf(s)[n].path) <= MaxLength
<1>1. <<>> \in Word /\ Len(<<>>) <= MaxLength
  BY ComponentsAssumption DEF Word
<1>2. \A r \in Asked : \A t \in {r.path, r.query, r.body} : t \in Word /\ Len(t) <= MaxLength
  BY AskedTexts, AskedPaths, LengthsAssumption
<1>3. \A s \in Server : \A n \in DOMAIN ResourcesOf(s) :
        ResourcesOf(s)[n].path \in Word /\ Len(ResourcesOf(s)[n].path) <= MaxLength
  BY Resources, LengthsAssumption DEF Word
<1> QED
  BY <1>1, <1>2, <1>3

\* What has been registered, and what is being, in the order of the resources; no
\* addResource goes on but at its stage.
RegistrationInv ==
  /\ server \in Server
  /\ registrar \in [phase : {"idle", "walking", "binding"},
                    template : Seq(Component \cup {Variable}), depth : Nat]
  /\ resources \in Seq(ResourceTemplates) /\ Len(resources) <= Len(Registered)
  /\ \A n \in DOMAIN resources : resources[n] = TemplateOf(Registered[n])
  /\ stage \in {"template", "adding"} => Len(resources) < Len(Registered)
  /\ stage = "template" => text = Registered[Len(resources) + 1].path
  /\ stage = "adding" => registrar.template = TemplateOf(Registered[Len(resources) + 1])
  /\ stage # "adding" => registrar = Matcher!Idle

\* Every step of either loop, and every other that takes another text.
LEMMA TextInvNext ==
  HelloInv /\ RegistrationInv /\ TextInv /\ [HelloNext]_helloVars => TextInv'
<1> SUFFICES ASSUME HelloInv, RegistrationInv, TextInv, [HelloNext]_helloVars
             PROVE  TextInv'
  OBVIOUS
<1>1. ASSUME UNCHANGED reading
      PROVE  TextInv'
  BY <1>1 DEF reading, TextInv, AtPosition
<1>2. CASE RegisterResource
  <2>1. PICK n : n = Len(resources) + 1
    OBVIOUS
  <2>2. Iterate(Registered[n].path) /\ Len(resources) < Len(Registered)
    BY <1>2, <2>1 DEF RegisterResource
  <2>3. Len(resources) \in Nat /\ DOMAIN Registered = 1..Len(Registered) /\ Len(Registered) \in Nat
    BY ResourcesInOrder DEF RegistrationInv, Registered
  <2>4. n \in DOMAIN ResourcesOf(server) /\ server \in Server
    BY <2>1, <2>2, <2>3 DEF Registered, RegistrationInv
  <2> QED
    BY <2>2, <2>4, BoundedTexts, IterateText DEF Registered
<1>3. CASE Ask
  <2>1. PICK r \in Asked : Iterate(r.query)
    BY <1>3 DEF Ask
  <2> QED
    BY <2>1, BoundedTexts, IterateText
<1>4. CASE QueryRead \/ FormRead
  <2>1. stage \in {"query", "post"}
    BY <1>4 DEF QueryRead, FormRead
  <2>2. PICK r \in Asked : request = <<r>>
    BY <2>1 DEF HelloInv, Reading
  <2>3. request[1] = r
    BY <2>2
  <2>4. Iterate(r.body) \/ Iterate(r.path)
    BY <1>4, <2>3 DEF QueryRead, FormRead
  <2> QED
    BY <2>4, BoundedTexts, IterateText
<1>5. CASE Written
  BY <1>5, BoundedTexts, IterateText DEF Written
<1>6. CASE SplitPath
  BY <1>6, PathRound, RoundText DEF SplitPath
<1>7. CASE ReadParameters
  BY <1>7, QueryRound, RoundText DEF ReadParameters
<1>8. CASE \/ AddResource \/ EnterResource \/ BuildThrows \/ Match \/ Search \/ Unmatched
          \/ DispatchBegin \/ Extract \/ HandlerReturns \/ UNCHANGED helloVars
  BY <1>1, <1>8 DEF AddResource, EnterResource, BuildThrows, Match, Search, Unmatched, Respond,
                    DispatchBegin, Extract, HandlerReturns, helloVars
<1> QED
  BY <1>2, <1>3, <1>4, <1>5, <1>6, <1>7, <1>8 DEF HelloNext, Register, Serve

LEMMA RegistrationInvInit == HelloInit => RegistrationInv
<1> SUFFICES ASSUME HelloInit
             PROVE  RegistrationInv
  OBVIOUS
<1>1. server \in Server /\ resources = <<>> /\ registrar = Matcher!Idle /\ stage = "main"
  BY DEF HelloInit, Matcher!Init
<1>2. Len(Registered) \in Nat /\ Len(resources) = 0 /\ DOMAIN resources = {}
  BY <1>1, ResourcesInOrder DEF Registered
<1> QED
  BY <1>1, <1>2 DEF RegistrationInv, Matcher!Idle

\* A step that does not register.
LEMMA NotRegistering ==
  ASSUME RegistrationInv, UNCHANGED <<server, resources, registrar>>,
         \/ stage \notin {"template", "adding"} /\ stage' \notin {"template", "adding"}
         \/ UNCHANGED <<stage, text>>
  PROVE  RegistrationInv'
<1>1. /\ server' = server /\ resources' = resources /\ registrar' = registrar
      /\ Registered' = Registered /\ Matcher!Idle' = Matcher!Idle
  BY DEF Registered, Matcher!Idle
<1>2. CASE stage \notin {"template", "adding"} /\ stage' \notin {"template", "adding"}
  BY <1>1, <1>2 DEF RegistrationInv
<1>3. CASE UNCHANGED <<stage, text>>
  BY <1>1, <1>3 DEF RegistrationInv
<1> QED
  BY <1>2, <1>3

\* A template is given whole by the time it is added.
LEMMA TemplateGiven ==
  ASSUME GivenInv, RegistrationInv, stage = "template", Path!AtEnd
  PROVE  Template(parts) = TemplateOf(Registered[Len(resources) + 1])
<1>1. PICK A, f : Given({Slash}, A, f)
  BY DEF GivenInv, GivenUpTo
<1>2. psep = Npos /\ nsep = Npos
  BY DEF Path!AtEnd, Path!Npos, Npos
<1>3. parts = PartsAt({Slash}, text)
  BY <1>1, <1>2, GivenParts
<1> QED
  BY <1>3 DEF RegistrationInv, TemplateOf

\* Every step keeps what is registered the resources in order.
LEMMA RegistrationInvNext ==
  GivenInv /\ RegistrationInv /\ [HelloNext]_helloVars => RegistrationInv'
<1> SUFFICES ASSUME GivenInv, RegistrationInv, [HelloNext]_helloVars
             PROVE  RegistrationInv'
  OBVIOUS
<1>0. Len(Registered) \in Nat /\ Len(resources) \in Nat
  BY ResourcesInOrder DEF RegistrationInv, Registered
<1>1. CASE RegisterResource
  <2>1. /\ stage = "main" /\ stage' = "template" /\ Len(resources) < Len(Registered)
        /\ text' = Registered[Len(resources) + 1].path
        /\ UNCHANGED <<server, resources, registrar>>
    BY <1>1 DEF RegisterResource, Iterate, matcher
  <2>2. /\ server' = server /\ resources' = resources /\ registrar' = registrar
        /\ Registered' = Registered /\ Matcher!Idle' = Matcher!Idle
    BY <2>1 DEF Registered, Matcher!Idle
  <2> QED
    BY <2>1, <2>2 DEF RegistrationInv
<1>2. CASE AddResource
  <2>1. /\ stage = "template" /\ stage' = "adding" /\ Path!AtEnd
        /\ registrar' = [phase |-> "walking", template |-> Template(parts), depth |-> 0]
        /\ UNCHANGED <<server, resources>>
    BY <1>2 DEF AddResource, Matcher!AddResource, Matcher!nodes
  <2>2. server' = server /\ resources' = resources /\ Registered' = Registered
    BY <2>1 DEF Registered
  <2>3. Template(parts) = TemplateOf(Registered[Len(resources) + 1])
    BY <2>1, TemplateGiven
  <2>4. Template(parts) \in Seq(Component \cup {Variable})
    <3>1. Len(resources) + 1 \in DOMAIN ResourcesOf(server) /\ server \in Server
      BY <1>0, <2>1, ResourcesInOrder DEF RegistrationInv, Registered
    <3>2. Template(parts) \in ResourceTemplates
      BY <2>3, <3>1 DEF ResourceTemplates, Registered
    <3> QED
      BY <3>2, TemplatesType
  <2>5. /\ registrar'.template = TemplateOf(Registered[Len(resources) + 1])
        /\ registrar' \in [phase : {"idle", "walking", "binding"},
                           template : Seq(Component \cup {Variable}), depth : Nat]
    BY <2>1, <2>3, <2>4
  <2> QED
    BY <2>1, <2>2, <2>5 DEF RegistrationInv
<1>3. CASE EnterResource
  <2>1. /\ stage = "adding" /\ Matcher!Adding /\ UNCHANGED server
        /\ stage' = IF registrar'.phase = "idle" THEN "main" ELSE "adding"
    BY <1>3 DEF EnterResource
  <2>2. server' = server /\ Registered' = Registered /\ Matcher!Idle' = Matcher!Idle
    BY <2>1 DEF Registered, Matcher!Idle
  <2>3. /\ Matcher!Idle.phase = "idle"
        /\ Matcher!Idle \in [phase : {"idle", "walking", "binding"},
                             template : Seq(Component \cup {Variable}), depth : Nat]
    BY DEF Matcher!Idle
  <2>4. CASE Matcher!Walk \/ Matcher!SetResource
    <3>0. registrar \in [phase : {"idle", "walking", "binding"},
                         template : Seq(Component \cup {Variable}), depth : Nat]
      BY DEF RegistrationInv
    <3>1. /\ registrar'.template = registrar.template /\ registrar'.phase # "idle"
          /\ resources' = resources
          /\ registrar' \in [phase : {"idle", "walking", "binding"},
                             template : Seq(Component \cup {Variable}), depth : Nat]
      BY <2>4, <3>0 DEF Matcher!Walk, Matcher!Walking, Matcher!SetResource, Matcher!AtTerminal
    <3> QED
      BY <2>1, <2>2, <3>1 DEF RegistrationInv
  <2>5. CASE Matcher!Collision
    <3>1. registrar' = Matcher!Idle /\ resources' = resources
      BY <2>5 DEF Matcher!Collision, Matcher!nodes
    <3> QED
      BY <2>1, <2>2, <2>3, <3>1 DEF RegistrationInv
  <2>6. CASE Matcher!SetMethods
    <3>1. registrar' = Matcher!Idle /\ resources' = Append(resources, registrar.template)
      BY <2>6 DEF Matcher!SetMethods
    <3>2. PICK t : t = TemplateOf(Registered[Len(resources) + 1])
      OBVIOUS
    <3>3. registrar.template = t /\ Len(resources) + 1 \in 1..Len(Registered)
      BY <1>0, <2>1, <3>2 DEF RegistrationInv
    <3>4. t \in ResourceTemplates
      <4>1. server \in Server /\ Len(resources) + 1 \in DOMAIN ResourcesOf(server)
        BY <3>3, ResourcesInOrder DEF RegistrationInv, Registered
      <4> QED
        BY <3>2, <4>1 DEF ResourceTemplates, Registered
    <3>5. resources \in Seq(ResourceTemplates) /\ resources' = Append(resources, t)
      BY <3>1, <3>3 DEF RegistrationInv
    <3>6. /\ resources' \in Seq(ResourceTemplates) /\ Len(resources') = Len(resources) + 1
          /\ \A n \in 1..Len(resources) : resources'[n] = resources[n]
          /\ resources'[Len(resources) + 1] = t
      BY <3>4, <3>5
    <3>7. \A n \in DOMAIN resources' : resources'[n] = TemplateOf(Registered[n])
      <4>1. DOMAIN resources' = 1..(Len(resources) + 1) /\ DOMAIN resources = 1..Len(resources)
        BY <3>5, <3>6
      <4>2. ASSUME NEW n \in DOMAIN resources', n # Len(resources) + 1
            PROVE  resources'[n] = TemplateOf(Registered[n])
        <5>1. n \in 1..Len(resources)
          BY <1>0, <4>1, <4>2
        <5> QED
          BY <3>6, <4>1, <5>1 DEF RegistrationInv
      <4> QED
        BY <3>2, <3>6, <4>2
    <3>8. Len(resources') <= Len(Registered)
      BY <1>0, <3>3, <3>6
    <3>9. stage' = "main"
      BY <2>1, <2>3, <3>1
    <3> QED
      BY <2>2, <2>3, <3>1, <3>6, <3>7, <3>8, <3>9 DEF RegistrationInv
  <2> QED
    BY <2>1, <2>4, <2>5, <2>6 DEF Matcher!Adding
<1>4. CASE SplitPath
  <2>1. UNCHANGED <<server, resources, registrar, stage, text>>
    BY <1>4, PathRound DEF SplitPath, matcher
  <2> QED
    BY <2>1, NotRegistering
<1>5. CASE Ask \/ ReadParameters \/ QueryRead \/ FormRead \/ BuildThrows
  <2>1. /\ stage \in {"main", "query", "post"} /\ stage' \in {"query", "post", "path", "answered"}
        /\ UNCHANGED <<server, resources, registrar>>
    BY <1>5 DEF Ask, ReadParameters, QueryRead, FormRead, BuildThrows, Respond, matcher
  <2> QED
    BY <2>1, NotRegistering
<1>6. CASE Match \/ Search \/ Unmatched
  <2>1. /\ stage \in {"path", "matching"} /\ stage' \in {"matching", "answered"} /\ UNCHANGED server
    BY <1>6 DEF Match, Search, Unmatched, Respond
  <2>2. UNCHANGED <<resources, registrar>>
    BY <1>6 DEF Match, Search, Unmatched, Respond, matcher, Matcher!Match, Matcher!Looking,
                Matcher!MatchComponent, Matcher!Matches, Matcher!NoMatch, Matcher!MatchRaces,
                Matcher!nodes
  <2> QED
    BY <2>1, <2>2, NotRegistering
<1>7. CASE DispatchBegin \/ Extract \/ HandlerReturns \/ Written
  <2>1. /\ stage \in {"matching", "dispatching", "answered"}
        /\ stage' \in {"dispatching", "answered", "main"}
        /\ UNCHANGED <<server, resources, registrar>>
    BY <1>7 DEF DispatchBegin, Extract, HandlerReturns, Written, Respond, matcher
  <2> QED
    BY <2>1, NotRegistering
<1>8. CASE UNCHANGED helloVars
  BY <1>8, NotRegistering DEF helloVars, matcher, reading
<1> QED
  BY <1>1, <1>2, <1>3, <1>4, <1>5, <1>6, <1>7, <1>8 DEF HelloNext, Register, Serve

\* Where a request is, its match is.
SearchStage ==
  /\ stage \in {"main", "template", "adding", "query", "post", "path", "matching", "dispatching",
                "answered"}
  /\ stage \notin {"matching", "dispatching", "answered"} => search = Matcher!NotMatching
  /\ stage = "dispatching" => search.phase = "matched"
  /\ stage = "answered" => \/ search.phase \in {"matched", "unmatched"}
                           \/ search = Matcher!NotMatching
  /\ request \in Seq(Asked) /\ Len(request) <= 1

LEMMA SearchStageInit == HelloInit => SearchStage
<1> SUFFICES ASSUME HelloInit
             PROVE  SearchStage
  OBVIOUS
<1>1. stage = "main" /\ search = Matcher!NotMatching /\ request = <<>>
  BY DEF HelloInit, Matcher!Init
<1> QED
  BY <1>1 DEF SearchStage

\* Every step keeps the search at its stage.
LEMMA SearchStageNext == SearchStage /\ [HelloNext]_helloVars => SearchStage'
<1> SUFFICES ASSUME SearchStage, [HelloNext]_helloVars
             PROVE  SearchStage'
  OBVIOUS
<1>0. Matcher!NotMatching' = Matcher!NotMatching
  BY DEF Matcher!NotMatching
<1>1. CASE RegisterResource \/ SplitPath \/ AddResource \/ EnterResource
  <2>1. /\ stage' \in {"main", "template", "adding", "path"} /\ UNCHANGED <<search, request>>
        /\ stage \notin {"matching", "dispatching", "answered"}
    BY <1>1 DEF RegisterResource, SplitPath, AddResource, EnterResource, matcher, exchange,
                Matcher!AddResource, Matcher!Adding, Matcher!Walk, Matcher!SetResource,
                Matcher!SetMethods, Matcher!Collision
  <2> QED
    BY <1>0, <2>1 DEF SearchStage
<1>2. CASE Ask
  <2>1. PICK r \in Asked : request' = <<r>>
    BY <1>2 DEF Ask
  <2>2. stage = "main" /\ stage' = "query" /\ search' = search
    BY <1>2 DEF Ask, matcher
  <2>3. request' \in Seq(Asked) /\ Len(request') = 1
    BY <2>1
  <2> QED
    BY <1>0, <2>2, <2>3 DEF SearchStage
<1>3. CASE ReadParameters \/ QueryRead \/ FormRead \/ BuildThrows
  <2>1. /\ stage \in {"query", "post"} /\ stage' \in {"query", "post", "path", "answered"}
        /\ UNCHANGED <<search, request>>
    BY <1>3 DEF ReadParameters, QueryRead, FormRead, BuildThrows, Respond, matcher, exchange
  <2> QED
    BY <1>0, <2>1 DEF SearchStage
<1>4. CASE Match \/ Search
  <2>1. stage' = "matching" /\ UNCHANGED request
    BY <1>4 DEF Match, Search, exchange
  <2> QED
    BY <2>1 DEF SearchStage
<1>5. CASE Unmatched \/ DispatchBegin \/ Extract \/ HandlerReturns
  <2>1. /\ UNCHANGED <<search, request>>
        /\ \/ search.phase = "unmatched" /\ stage' = "answered"
           \/ stage = "matching" /\ search.phase = "matched" /\ stage' = "dispatching"
           \/ stage = "dispatching" /\ stage' \in {"dispatching", "answered"}
    BY <1>5 DEF Unmatched, DispatchBegin, Extract, HandlerReturns, Respond, matcher, exchange
  <2> QED
    BY <2>1 DEF SearchStage
<1>6. CASE Written
  <2>1. stage' = "main" /\ search' = Matcher!NotMatching /\ request' = <<>>
    BY <1>6 DEF Written
  <2> QED
    BY <1>0, <2>1 DEF SearchStage
<1>7. CASE UNCHANGED helloVars
  BY <1>0, <1>7 DEF helloVars, matcher, exchange, SearchStage
<1> QED
  BY <1>1, <1>2, <1>3, <1>4, <1>5, <1>6, <1>7 DEF HelloNext, Register, Serve

\* All of it.
UsedInv == HelloInv /\ GivenInv /\ RegistrationInv /\ TextInv /\ SearchStage

LEMMA UsedInvariant == HelloSpec => []UsedInv
<1>1. HelloInit => UsedInv
  BY HelloInvInit, GivenInvInit, RegistrationInvInit, TextInvInit, SearchStageInit DEF UsedInv
<1>2. UsedInv /\ [HelloNext]_helloVars => UsedInv'
  BY HelloInvNext, GivenInvNext, RegistrationInvNext, TextInvNext, SearchStageNext DEF UsedInv
<1> QED
  BY <1>1, <1>2, PTL DEF HelloSpec

\* Every step is one of the matcher's, or none.
LEMMA StepOfMatcher == UsedInv /\ [HelloNext]_helloVars => [Matcher!Next]_(Matcher!vars)
<1> SUFFICES ASSUME UsedInv, [HelloNext]_helloVars
             PROVE  [Matcher!Next]_(Matcher!vars)
  OBVIOUS
<1>1. ASSUME UNCHANGED matcher
      PROVE  UNCHANGED Matcher!vars
  BY <1>1 DEF matcher, Matcher!vars, Matcher!nodes
<1>2. CASE AddResource
  <2>1. stage = "template" /\ Path!AtEnd /\ Matcher!AddResource(Template(parts))
    BY <1>2 DEF AddResource
  <2>2. PICK template : template = Template(parts)
    OBVIOUS
  <2>3. template \in ResourceTemplates
    <3>1. template = TemplateOf(Registered[Len(resources) + 1])
      BY <2>1, <2>2, TemplateGiven DEF UsedInv
    <3>2. Len(resources) + 1 \in DOMAIN ResourcesOf(server) /\ server \in Server
      BY <2>1, ResourcesInOrder DEF UsedInv, RegistrationInv, Registered
    <3> QED
      BY <3>1, <3>2 DEF ResourceTemplates, Registered
  <2>4. Matcher!AddResource(template)
    BY <2>1, <2>2
  <2> QED
    BY <2>3, <2>4 DEF Matcher!Next, ResourceTemplates, TemplateOf
<1>3. CASE EnterResource
  BY <1>3 DEF EnterResource, Matcher!Next
<1>4. CASE Match
  <2>1. parts \in Seq(Component) /\ Matcher!Match(parts)
    BY <1>4 DEF Match, UsedInv, TextInv, Word, Component
  <2> QED
    BY <2>1 DEF Matcher!Next
<1>5. CASE Search
  BY <1>5 DEF Search, Matcher!Next
<1>6. CASE Written
  <2>1. /\ stage = "answered" /\ search' = Matcher!NotMatching
        /\ UNCHANGED <<trie, bound, resources, registrar>>
    BY <1>6 DEF Written
  <2>2. CASE search.phase \in {"matched", "unmatched"}
    <3>1. Matcher!Return
      BY <2>1, <2>2 DEF Matcher!Return, Matcher!nodes
    <3> QED
      BY <3>1 DEF Matcher!Next
  <2>3. CASE search = Matcher!NotMatching
    BY <2>1, <2>3 DEF Matcher!vars, Matcher!nodes
  <2> QED
    BY <2>1, <2>2, <2>3 DEF UsedInv, SearchStage
<1>7. CASE \/ RegisterResource \/ SplitPath \/ Ask \/ ReadParameters \/ QueryRead \/ FormRead
          \/ BuildThrows \/ Unmatched \/ DispatchBegin \/ Extract \/ HandlerReturns
          \/ UNCHANGED helloVars
  BY <1>1, <1>7 DEF RegisterResource, SplitPath, Ask, ReadParameters, QueryRead, FormRead,
                    BuildThrows, Unmatched, DispatchBegin, Extract, HandlerReturns, Respond,
                    helloVars
<1> QED
  BY <1>2, <1>3, <1>4, <1>5, <1>6, <1>7 DEF HelloNext, Register, Serve

\* The server uses its matcher as the matcher is meant to be: resources are added one
\* at a time and paths are matched one at a time, and between a step of one and the next
\* it stays as it is (server_instance.h:126-179).
THEOREM MatcherUsed == HelloSpec => Matcher!Spec
<1>1. HelloInit => Matcher!Init
  BY DEF HelloInit, Matcher!Init
<1> QED
  BY <1>1, StepOfMatcher, UsedInvariant, PTL DEF HelloSpec, Matcher!Spec

\* So what is proved of the matcher is true of it here.
LEMMA MatcherKept ==
  HelloSpec => [](Proved!TypeOK /\ Proved!RegistryInv /\ Proved!SearchInv)
<1>1. Proved!Spec => []Proved!TypeOK
  BY Proved!MatcherTypeCorrect, Assumed
<1>2. Proved!Spec => [](Proved!RegistryInv /\ Proved!SearchInv)
  BY Proved!SearchInvariant, Assumed
<1> QED
  BY <1>1, <1>2, MatcherUsed, SameMatcher, PTL

-----------------------------------------------------------------------------
\* Short sequences, letter by letter.
LEMMA Tuples ==
  ASSUME NEW a, NEW b, NEW c
  PROVE  /\ Append(<<>>, a) = <<a>> /\ Append(<<a>>, b) = <<a, b>>
         /\ Append(<<a, b>>, c) = <<a, b, c>>
<1> DEFINE T == {a, b, c}
<1>1. ASSUME NEW s, NEW x, NEW u, s \in Seq(T), x \in T, u \in Seq(T), Len(u) = Len(s) + 1,
             \A i \in 1..Len(s) : u[i] = s[i], u[Len(s) + 1] = x
      PROVE  Append(s, x) = u
  <2> DEFINE v == Append(s, x)
  <2>1. /\ v \in Seq(T) /\ Len(v) = Len(s) + 1 /\ Len(s) \in Nat
        /\ \A i \in 1..Len(s) : v[i] = s[i]
        /\ v[Len(s) + 1] = x
    BY <1>1
  <2> HIDE DEF v, T
  <2>2. \A i \in 1..Len(v) : v[i] = u[i]
    BY <1>1, <2>1
  <2>3. v = u
    BY <1>1, <2>1, <2>2, SeqEqual
  <2> QED
    BY <2>3 DEF v
<1>2. /\ <<>> \in Seq(T) /\ <<a>> \in Seq(T) /\ <<a, b>> \in Seq(T) /\ <<a, b, c>> \in Seq(T)
      /\ a \in T /\ b \in T /\ c \in T
  OBVIOUS
<1>3. /\ Len(<<>>) = 0 /\ Len(<<a>>) = 1 /\ Len(<<a, b>>) = 2 /\ Len(<<a, b, c>>) = 3
  OBVIOUS
<1> HIDE DEF T
<1>4. Append(<<>>, a) = <<a>>
  BY <1>1, <1>2, <1>3
<1>5. Append(<<a>>, b) = <<a, b>>
  <2>1. /\ Len(<<a, b>>) = Len(<<a>>) + 1 /\ \A i \in 1..Len(<<a>>) : <<a, b>>[i] = <<a>>[i]
        /\ <<a, b>>[Len(<<a>>) + 1] = b
    OBVIOUS
  <2> QED
    BY <1>1, <1>2, <2>1, Zenon
<1>6. Append(<<a, b>>, c) = <<a, b, c>>
  <2>1. /\ Len(<<a, b, c>>) = Len(<<a, b>>) + 1
        /\ \A i \in 1..Len(<<a, b>>) : <<a, b, c>>[i] = <<a, b>>[i]
        /\ <<a, b, c>>[Len(<<a, b>>) + 1] = c
    OBVIOUS
  <2> QED
    BY <1>1, <1>2, <2>1, Zenon
<1> QED
  BY <1>4, <1>5, <1>6

\* One more.
LEMMA FourTuple ==
  ASSUME NEW a, NEW b, NEW c, NEW d, NEW s, NEW r, s = <<a, b, c>>, r = <<a, b, c, d>>
  PROVE  Append(s, d) = r
<1> DEFINE T == {a, b, c, d}
           v == Append(s, d)
<1>1. /\ s \in Seq(T) /\ r \in Seq(T) /\ Len(s) = 3 /\ Len(r) = 4 /\ d \in T
      /\ r[1] = s[1] /\ r[2] = s[2] /\ r[3] = s[3] /\ r[4] = d
  OBVIOUS
<1> HIDE DEF T
<1>2. v \in Seq(T) /\ Len(v) = 4 /\ v[1] = s[1] /\ v[2] = s[2] /\ v[3] = s[3] /\ v[4] = d
  BY <1>1
<1> HIDE DEF v
<1>3. \A i \in 1..4 : v[i] = r[i]
  BY <1>1, <1>2
<1>4. v = r
  BY <1>1, <1>2, <1>3, SeqEqual
<1> QED
  BY <1>4 DEF v

\* After k letters the parts s are over, and w is what there is of the next.
UpTo(A, f, k, s, w) == f[k] = Append(s, w) /\ s \in Seq(Seq(A)) /\ w \in Seq(A)

\* A sequence with one more at its end.
Longer(s, x, r) == r = Append(s, x)

\* The next letter goes on with the part, or begins another.
LEMMA LetterIsRead ==
  ASSUME NEW A, NEW delimiters, NEW t, NEW f, NEW k, NEW n, NEW s, NEW w, NEW letter,
         IsReading(delimiters, t, A, f), k \in 0..(Len(t) - 1), n = k + 1, UpTo(A, f, k, s, w),
         t[n] = letter
  PROVE  /\ letter \notin delimiters => \A v : Longer(w, letter, v) => UpTo(A, f, n, s, v)
         /\ letter \in delimiters => \A r : Longer(s, w, r) => UpTo(A, f, n, r, <<>>)
<1>1. t \in Seq(A) /\ Len(t) \in Nat
  BY DEF IsReading
<1>2. k \in Nat /\ n \in 1..Len(t) /\ n - 1 = k
  BY <1>1
<1>3. f[n] = ReadLetter(delimiters, f[k], letter) /\ letter \in A
  <2>1. f[n] = ReadLetter(delimiters, f[n - 1], t[n])
    BY <1>2 DEF IsReading
  <2>2. t[n] \in A
    BY <1>1, <1>2
  <2> QED
    BY <1>2, <2>1, <2>2
<1>4. f[k] = Append(s, w) /\ s \in Seq(Seq(A)) /\ w \in Seq(A)
  BY DEF UpTo
<1>5. ASSUME letter \notin delimiters, NEW v, v = Append(w, letter)
      PROVE  UpTo(A, f, n, s, v)
  <2>1. ReadLetter(delimiters, Append(s, w), letter) = Append(s, Append(w, letter))
    <3>1. letter \in A /\ letter \notin delimiters
      BY <1>3, <1>5
    <3> QED
      BY <1>4, <3>1, PartGoesOn
  <2>2. v \in Seq(A)
    BY <1>3, <1>4, <1>5
  <2>3. f[n] = Append(s, v)
    BY <1>3, <1>4, <1>5, <2>1, Zenon
  <2> QED
    BY <1>4, <2>2, <2>3 DEF UpTo
<1>6. ASSUME letter \in delimiters, NEW r, r = Append(s, w)
      PROVE  UpTo(A, f, n, r, <<>>)
  <2>1. ReadLetter(delimiters, f[k], letter) = Append(f[k], <<>>)
    BY <1>6 DEF ReadLetter
  <2>2. r \in Seq(Seq(A)) /\ <<>> \in Seq(A)
    BY <1>4, <1>6
  <2>3. f[n] = Append(r, <<>>)
    BY <1>3, <1>4, <1>6, <2>1, Zenon
  <2> QED
    BY <2>2, <2>3 DEF UpTo
<1> QED
  BY <1>5, <1>6 DEF Longer

\* A text that ends within a part ends with it.
LEMMA ReadToEnd ==
  ASSUME NEW A, NEW delimiters, NEW t, NEW f, NEW s, NEW w, NEW all,
         IsReading(delimiters, t, A, f), UpTo(A, f, Len(t), s, w), w # <<>>, all = Append(s, w)
  PROVE  PartsAt(delimiters, t) = all
<1>1. f[Len(t)] = Append(s, w) /\ s \in Seq(Seq(A)) /\ w \in Seq(A)
  BY DEF UpTo
<1>2. Last(Append(s, w)) = w
  BY <1>1, TakenApart
<1>3. PartsAt(delimiters, t) = Closed(f[Len(t)])
  BY DEF IsReading
<1>4. Closed(f[Len(t)]) = f[Len(t)]
  BY <1>1, <1>2, Zenon DEF Closed
<1> QED
  BY <1>1, <1>3, <1>4, Zenon

\* A word in braces, and beginnings of it and of paths that begin with it.
Brace == <<LBrace>>
Bracing == <<LBrace, 117>>
Braced == <<LBrace, 117, RBrace>>
NoneBefore == <<>>
RootBefore == <<<<>>>>
UserBefore == <<<<>>, Braced>>
DetailsBefore == <<<<>>, Braced, D>>

\* Each is one longer than the one before.
LEMMA Beginnings ==
  /\ Longer(<<>>, LBrace, Brace) /\ Longer(Brace, 117, Bracing) /\ Longer(Bracing, RBrace, Braced)
  /\ Longer(<<>>, 100, D)
  /\ Longer(NoneBefore, <<>>, RootBefore) /\ Longer(RootBefore, Braced, UserBefore)
  /\ Longer(UserBefore, D, DetailsBefore)
<1>1. /\ Brace = Append(<<>>, LBrace) /\ Bracing = Append(Brace, 117)
      /\ Braced = Append(Bracing, RBrace) /\ D = Append(<<>>, 100)
  BY Tuples DEF Brace, Bracing, Braced, D
<1>2. /\ RootBefore = Append(NoneBefore, <<>>) /\ UserBefore = Append(RootBefore, Braced)
      /\ DetailsBefore = Append(UserBefore, D)
  BY Tuples DEF NoneBefore, RootBefore, UserBefore, DetailsBefore
<1> QED
  BY <1>1, <1>2, Zenon DEF Longer

\* None of the letters of a word is a slash, and no word is empty.
LEMMA WordLetters ==
  /\ LBrace # Slash /\ 117 # Slash /\ RBrace # Slash /\ 100 # Slash
  /\ Braced # <<>>
<1>1. Braced # <<>>
  BY DEF Braced
<1>2. LBrace # Slash /\ 117 # Slash /\ RBrace # Slash /\ 100 # Slash
  BY DEF Slash, LBrace, RBrace
<1> QED
  BY <1>1, <1>2

\* The word in braces is read wherever it follows a slash.
LEMMA BracedIsRead ==
  ASSUME NEW A, NEW delimiters, NEW t, NEW f, NEW k, NEW s,
         IsReading(delimiters, t, A, f), k \in 0..(Len(t) - 3), UpTo(A, f, k, s, <<>>),
         LBrace \notin delimiters, 117 \notin delimiters, RBrace \notin delimiters,
         t[k + 1] = LBrace, t[k + 2] = 117, t[k + 3] = RBrace
  PROVE  UpTo(A, f, k + 3, s, Braced)
<1>0. Len(t) \in Nat /\ k \in Nat
  BY DEF IsReading
<1>1. PICK l, m, n : l = k + 1 /\ m = k + 2 /\ n = k + 3
  OBVIOUS
<1>2. /\ k \in 0..(Len(t) - 1) /\ l \in 0..(Len(t) - 1) /\ m \in 0..(Len(t) - 1)
      /\ m = l + 1 /\ n = m + 1
  BY <1>0, <1>1
<1>3. t[l] = LBrace /\ t[m] = 117 /\ t[n] = RBrace
  BY <1>1
<1>4. UpTo(A, f, l, s, Brace)
  BY <1>1, <1>2, <1>3, Beginnings, LetterIsRead
<1>5. UpTo(A, f, m, s, Bracing)
  BY <1>2, <1>3, <1>4, Beginnings, LetterIsRead
<1>6. UpTo(A, f, n, s, Braced)
  BY <1>2, <1>3, <1>5, Beginnings, LetterIsRead
<1> QED
  BY <1>1, <1>6

\* The first part of a path is empty, and its second is the user.
LEMMA UserIsRead ==
  ASSUME NEW A, NEW delimiters, NEW t, NEW f, IsReading(delimiters, t, A, f), Len(t) >= 4,
         delimiters = {Slash}, t[1] = Slash, t[2] = LBrace, t[3] = 117, t[4] = RBrace
  PROVE  /\ UpTo(A, f, 4, RootBefore, Braced)
         /\ Len(t) > 4 /\ t[5] = Slash => UpTo(A, f, 5, UserBefore, <<>>)
<1>0. Len(t) \in Nat
  BY DEF IsReading
<1>9. /\ LBrace \notin delimiters /\ 117 \notin delimiters /\ RBrace \notin delimiters
      /\ Slash \in delimiters
  BY WordLetters
<1>1. UpTo(A, f, 0, NoneBefore, <<>>)
  BY DEF IsReading, UpTo, NoneBefore
<1>2. UpTo(A, f, 1, RootBefore, <<>>)
  BY <1>0, <1>1, <1>9, Beginnings, LetterIsRead
<1>3. UpTo(A, f, 1 + 3, RootBefore, Braced)
  <2>1. /\ 1 \in 0..(Len(t) - 3)
        /\ t[1 + 1] = LBrace /\ t[1 + 2] = 117 /\ t[1 + 3] = RBrace
    BY <1>0
  <2> QED
    BY <1>2, <1>9, <2>1, BracedIsRead
<1>4. ASSUME Len(t) > 4, t[5] = Slash
      PROVE  UpTo(A, f, 5, UserBefore, <<>>)
  <2>1. 4 \in 0..(Len(t) - 1) /\ 5 = 4 + 1 /\ UpTo(A, f, 4, RootBefore, Braced)
    BY <1>0, <1>3, <1>4
  <2> QED
    BY <1>4, <1>9, <2>1, Beginnings, LetterIsRead
<1> QED
  BY <1>3, <1>4

\* The paths that begin with a user, letter by letter.
StartsWithUser(t) ==
  /\ t \in Seq(Nat) /\ t[1] = Slash /\ t[2] = LBrace /\ t[3] = 117 /\ t[4] = RBrace

\* And go on with four more letters.
UserThen(t, a, b, c, d) ==
  StartsWithUser(t) /\ Len(t) = 8 /\ t[5] = a /\ t[6] = b /\ t[7] = c /\ t[8] = d

LEMMA UserPaths ==
  /\ StartsWithUser(HelloParamResource.path) /\ Len(HelloParamResource.path) = 4
  /\ UserThen(HelloDoubleParamResource.path, Slash, LBrace, 117, RBrace)
  /\ UserThen(HelloQueryParamResource.path, Slash, 100, Slash, 103)
  /\ UserThen(HelloPostParamResource.path, Slash, 100, Slash, 112)
<1>1. /\ User \in Seq(Nat) /\ Len(User) = 4
      /\ User[1] = Slash /\ User[2] = LBrace /\ User[3] = 117 /\ User[4] = RBrace
  BY DEF User, Slash, LBrace, RBrace
<1>2. ASSUME NEW x, x \in Seq(Nat), Len(x) = 4
      PROVE  UserThen(User \o x, x[1], x[2], x[3], x[4])
  <2>0. PICK t : t = User \o x
    OBVIOUS
  <2>1. PICK A, u : A = Nat /\ u = User
    OBVIOUS
  <2>2. u \in Seq(A) /\ Len(u) = 4 /\ x \in Seq(A) /\ Len(x) = 4 /\ t = u \o x
    BY <1>1, <1>2, <2>0, <2>1
  <2>3. /\ u \o x \in Seq(A) /\ Len(u \o x) = Len(u) + Len(x)
        /\ \A i \in 1..(Len(u) + Len(x)) :
             (u \o x)[i] = IF i <= Len(u) THEN u[i] ELSE x[i - Len(u)]
    BY <2>2, ConcatProperties, Zenon
  <2>5. /\ t \in Seq(A) /\ Len(t) = 8
        /\ \A i \in 1..8 : t[i] = IF i <= 4 THEN u[i] ELSE x[i - 4]
    BY <2>2, <2>3
  <2>6. /\ t[1] = u[1] /\ t[2] = u[2] /\ t[3] = u[3] /\ t[4] = u[4]
        /\ t[5] = x[1] /\ t[6] = x[2] /\ t[7] = x[3] /\ t[8] = x[4]
    BY <2>5
  <2> QED
    BY <1>1, <1>2, <2>0, <2>1, <2>5, <2>6 DEF StartsWithUser, UserThen
<1>3. ASSUME NEW l \in Nat
      PROVE  UserThen(User \o <<Slash>> \o D \o <<Slash>> \o <<l>>, Slash, 100, Slash, l)
  <2>0. PICK t : t = User \o <<Slash>> \o D \o <<Slash>> \o <<l>>
    OBVIOUS
  <2>1. PICK x : x = <<Slash, 100, Slash, l>>
    OBVIOUS
  <2>2. x \in Seq(Nat) /\ Len(x) = 4 /\ x[1] = Slash /\ x[2] = 100 /\ x[3] = Slash /\ x[4] = l
    BY <2>1 DEF Slash
  <2>3. PICK u, v, w : u = <<Slash>> /\ v = <<Slash, 100>> /\ w = <<Slash, 100, Slash>>
    OBVIOUS
  <2>4. u \in Seq(Nat) /\ v \in Seq(Nat) /\ w \in Seq(Nat) /\ D \in Seq(Nat) /\ <<l>> \in Seq(Nat)
    BY <2>3 DEF Slash, D
  <2>5. v = u \o D
    <3>1. v = Append(u, 100) /\ 100 \in Nat /\ D = <<100>>
      BY <2>3, Tuples DEF D
    <3> QED
      BY <2>4, <3>1, AppendIsConcat, Zenon
  <2>6. w = v \o u
    <3>1. w = Append(v, Slash) /\ Slash \in Nat
      BY <2>3, Tuples DEF Slash
    <3> QED
      BY <2>3, <2>4, <3>1, AppendIsConcat, Zenon
  <2>7. x = w \o <<l>>
    <3>1. x = Append(w, l)
      BY <2>1, <2>3, Tuples
    <3> QED
      BY <2>4, <3>1, AppendIsConcat, Zenon
  <2>8. ASSUME NEW a, NEW b, a \in Seq(Nat), b \in Seq(Nat)
        PROVE  (User \o a) \o b = User \o (a \o b)
    <3>1. PICK S, u0 : S = Seq(Nat) /\ u0 = User
      OBVIOUS
    <3>2. u0 \in S /\ a \in S /\ b \in S
      BY <1>1, <2>8, <3>1
    <3> QED
      BY <3>1, <3>2, ConcatAssociative
  <2>10. (((User \o u) \o D) \o u) \o <<l>> = User \o x
    <3>1. (User \o u) \o D = User \o v
      BY <2>4, <2>5, <2>8, Zenon
    <3>2. (User \o v) \o u = User \o w
      BY <2>4, <2>6, <2>8, Zenon
    <3>3. (User \o w) \o <<l>> = User \o x
      BY <2>4, <2>7, <2>8, Zenon
    <3> QED
      BY <3>1, <3>2, <3>3, Zenon
  <2>9. t = User \o x
    BY <2>0, <2>3, <2>10, Zenon
  <2> QED
    <3>1. UserThen(User \o x, x[1], x[2], x[3], x[4])
      BY <1>2, <2>2, Zenon
    <3> QED
      BY <2>0, <2>2, <2>9, <3>1, Zenon
<1>4. HelloParamResource.path = User
  BY DEF HelloParamResource
<1>5. HelloDoubleParamResource.path = User \o User
  BY DEF HelloDoubleParamResource
<1>6. /\ HelloQueryParamResource.path = User \o <<Slash>> \o D \o <<Slash>> \o <<103>>
      /\ HelloPostParamResource.path = User \o <<Slash>> \o D \o <<Slash>> \o <<112>>
  BY DEF HelloQueryParamResource, HelloPostParamResource, G, P
<1>7. StartsWithUser(HelloParamResource.path) /\ Len(HelloParamResource.path) = 4
  BY <1>1, <1>4 DEF StartsWithUser
<1>8. UserThen(HelloDoubleParamResource.path, Slash, LBrace, 117, RBrace)
  <2>1. UserThen(User \o User, User[1], User[2], User[3], User[4])
    BY <1>1, <1>2, Zenon
  <2> QED
    BY <1>1, <1>5, <2>1, Zenon
<1>9. 103 \in Nat /\ 112 \in Nat
  OBVIOUS
<1>10. /\ UserThen(HelloQueryParamResource.path, Slash, 100, Slash, 103)
       /\ UserThen(HelloPostParamResource.path, Slash, 100, Slash, 112)
  <2>1. UserThen(User \o <<Slash>> \o D \o <<Slash>> \o <<103>>, Slash, 100, Slash, 103)
    BY <1>3, <1>9, Zenon
  <2>2. UserThen(User \o <<Slash>> \o D \o <<Slash>> \o <<112>>, Slash, 100, Slash, 112)
    BY <1>3, <1>9, Zenon
  <2> QED
    BY <1>6, <2>1, <2>2, Zenon
<1> QED
  BY <1>7, <1>8, <1>10

\* The parts of every resource's path.
LEMMA PartsOfPaths ==
  /\ PartsAt({Slash}, HelloResource.path) = <<<<>>>>
  /\ PartsAt({Slash}, HelloParamResource.path) = <<<<>>, Braced>>
  /\ PartsAt({Slash}, HelloDoubleParamResource.path) = <<<<>>, Braced, Braced>>
  /\ PartsAt({Slash}, HelloQueryParamResource.path) = <<<<>>, Braced, D, G>>
  /\ PartsAt({Slash}, HelloPostParamResource.path) = <<<<>>, Braced, D, P>>
  /\ PartsAt({Slash}, PingResource.path) = <<<<>>, P>>
  /\ PartsAt({Slash}, MetricsResource.path) = <<<<>>, M>>
<1>4. /\ Append(RootBefore, Braced) = <<<<>>, Braced>>
      /\ Append(UserBefore, Braced) = <<<<>>, Braced, Braced>>
  BY Tuples DEF RootBefore, UserBefore
<1>5. PICK delimiters : delimiters = {Slash}
  OBVIOUS
<1>6. ASSUME NEW t, StartsWithUser(t), Len(t) = 4
      PROVE  PartsAt({Slash}, t) = <<<<>>, Braced>>
  <2>1. PICK f : IsReading(delimiters, t, Nat, f)
    BY <1>6, PartsLetterByLetter DEF StartsWithUser
  <2>2. UpTo(Nat, f, Len(t), RootBefore, Braced)
    BY <1>5, <1>6, <2>1, UserIsRead DEF StartsWithUser
  <2>3. PartsAt(delimiters, t) = <<<<>>, Braced>>
    BY <1>4, <2>1, <2>2, ReadToEnd, WordLetters
  <2> QED
    BY <1>5, <2>3
<1>7. ASSUME NEW t, UserThen(t, Slash, LBrace, 117, RBrace)
      PROVE  PartsAt({Slash}, t) = <<<<>>, Braced, Braced>>
  <2>0. /\ StartsWithUser(t) /\ Len(t) = 8
        /\ t[5] = Slash /\ t[6] = LBrace /\ t[7] = 117 /\ t[8] = RBrace
    BY <1>7 DEF UserThen
  <2>1. PICK f : IsReading(delimiters, t, Nat, f)
    BY <2>0, PartsLetterByLetter DEF StartsWithUser
  <2>2. UpTo(Nat, f, 5, UserBefore, <<>>)
    BY <1>5, <2>0, <2>1, UserIsRead DEF StartsWithUser
  <2>3. /\ LBrace \notin delimiters /\ 117 \notin delimiters /\ RBrace \notin delimiters
        /\ t[5 + 1] = LBrace /\ t[5 + 2] = 117 /\ t[5 + 3] = RBrace /\ 5 \in 0..(Len(t) - 3)
    BY <1>5, <2>0, WordLetters
  <2>4. UpTo(Nat, f, 5 + 3, UserBefore, Braced)
    BY <2>1, <2>2, <2>3, BracedIsRead
  <2>5. UpTo(Nat, f, Len(t), UserBefore, Braced)
    BY <2>0, <2>4
  <2>6. PartsAt(delimiters, t) = <<<<>>, Braced, Braced>>
    BY <1>4, <2>1, <2>5, ReadToEnd, WordLetters
  <2> QED
    BY <1>5, <2>6
<1>8. ASSUME NEW t, NEW letter, NEW last, UserThen(t, Slash, 100, Slash, letter),
             letter # Slash, last = <<letter>>
      PROVE  PartsAt({Slash}, t) = <<<<>>, Braced, D, last>>
  <2>0. /\ StartsWithUser(t) /\ Len(t) = 8
        /\ t[5] = Slash /\ t[6] = 100 /\ t[7] = Slash /\ t[8] = letter
    BY <1>8 DEF UserThen
  <2>1. PICK f : IsReading(delimiters, t, Nat, f)
    BY <2>0, PartsLetterByLetter DEF StartsWithUser
  <2>2. UpTo(Nat, f, 5, UserBefore, <<>>)
    <3>1. /\ Len(t) >= 4 /\ Len(t) > 4 /\ t[5] = Slash
          /\ t[1] = Slash /\ t[2] = LBrace /\ t[3] = 117 /\ t[4] = RBrace
      BY <2>0 DEF StartsWithUser
    <3> QED
      BY <1>5, <2>1, <3>1, UserIsRead
  <2>3. PICK k, l, m, n : k = 5 /\ l = 6 /\ m = 7 /\ n = 8
    OBVIOUS
  <2>4. /\ k \in 0..(Len(t) - 1) /\ l \in 0..(Len(t) - 1) /\ m \in 0..(Len(t) - 1)
        /\ l = k + 1 /\ m = l + 1 /\ n = m + 1
        /\ t[l] = 100 /\ t[m] = Slash /\ t[n] = letter
    BY <2>0, <2>3
  <2>5. 100 \notin delimiters /\ Slash \in delimiters /\ letter \notin delimiters
    BY <1>5, <1>8, WordLetters
  <2>12. UpTo(Nat, f, k, UserBefore, <<>>)
    BY <2>2, <2>3
  <2>13. UpTo(Nat, f, l, UserBefore, D)
    BY <2>1, <2>4, <2>5, <2>12, Beginnings, LetterIsRead
  <2>14. UpTo(Nat, f, m, DetailsBefore, <<>>)
    BY <2>1, <2>4, <2>5, <2>13, Beginnings, LetterIsRead
  <2>6. Longer(<<>>, letter, last)
    BY <1>8, Tuples DEF Longer
  <2>7. UpTo(Nat, f, n, DetailsBefore, last)
    BY <2>1, <2>4, <2>5, <2>6, <2>14, LetterIsRead
  <2>8. Append(DetailsBefore, last) = <<<<>>, Braced, D, last>>
    <3>1. PICK a, b, c, s, r : /\ a = <<>> /\ b = Braced /\ c = D
                                /\ s = <<a, b, c>> /\ r = <<a, b, c, last>>
      OBVIOUS
    <3>2. Append(s, last) = r
      BY <3>1, FourTuple
    <3> QED
      BY <3>1, <3>2, Zenon DEF DetailsBefore
  <2>9. last # <<>>
    BY <1>8
  <2>10. UpTo(Nat, f, Len(t), DetailsBefore, last)
    BY <2>0, <2>3, <2>7
  <2>11. PartsAt(delimiters, t) = <<<<>>, Braced, D, last>>
    BY <2>1, <2>8, <2>9, <2>10, ReadToEnd
  <2> QED
    BY <1>5, <2>11
<1>9. ASSUME NEW t, t = <<Slash>>
      PROVE  PartsAt({Slash}, t) = <<<<>>>>
  <2>1. t \in Seq(Nat) /\ Len(t) = 1 /\ t[1] = Slash
    BY <1>9 DEF Slash
  <2>2. PICK f : IsReading(delimiters, t, Nat, f)
    BY <2>1, PartsLetterByLetter
  <2>3. UpTo(Nat, f, 0, NoneBefore, <<>>)
    BY <2>2 DEF IsReading, UpTo, NoneBefore
  <2>4. UpTo(Nat, f, 1, RootBefore, <<>>)
    <3>1. 0 \in 0..(Len(t) - 1) /\ 1 = 0 + 1 /\ Slash \in delimiters
      BY <1>5, <2>1
    <3> QED
      BY <2>1, <2>2, <2>3, <3>1, Beginnings, LetterIsRead
  <2>5. /\ f[1] = Append(RootBefore, <<>>) /\ RootBefore \in Seq(Seq(Nat)) /\ <<>> \in Seq(Nat)
        /\ PartsAt(delimiters, t) = Closed(f[1])
    BY <2>1, <2>2, <2>4 DEF UpTo, IsReading
  <2>6. Last(Append(RootBefore, <<>>)) = <<>> /\ Front(Append(RootBefore, <<>>)) = RootBefore
    BY <2>5, TakenApart
  <2>7. Closed(f[1]) = RootBefore
    BY <2>5, <2>6, Zenon DEF Closed
  <2> QED
    BY <1>5, <2>5, <2>7 DEF RootBefore
<1>10. ASSUME NEW t, NEW letter \in Nat, NEW last, t = <<Slash, letter>>, letter # Slash,
              last = <<letter>>
       PROVE  PartsAt({Slash}, t) = <<<<>>, last>>
  <2>1. t \in Seq(Nat) /\ Len(t) = 2 /\ t[1] = Slash /\ t[2] = letter
    BY <1>10 DEF Slash
  <2>2. PICK f : IsReading(delimiters, t, Nat, f)
    BY <2>1, PartsLetterByLetter
  <2>3. UpTo(Nat, f, 0, NoneBefore, <<>>)
    BY <2>2 DEF IsReading, UpTo, NoneBefore
  <2>4. UpTo(Nat, f, 1, RootBefore, <<>>)
    <3>1. 0 \in 0..(Len(t) - 1) /\ 1 = 0 + 1 /\ Slash \in delimiters
      BY <1>5, <2>1
    <3> QED
      BY <2>1, <2>2, <2>3, <3>1, Beginnings, LetterIsRead
  <2>5. Longer(<<>>, letter, last)
    BY <1>10, Tuples DEF Longer
  <2>6. UpTo(Nat, f, 2, RootBefore, last)
    <3>1. 1 \in 0..(Len(t) - 1) /\ 2 = 1 + 1 /\ letter \notin delimiters
      BY <1>5, <1>10, <2>1
    <3> QED
      BY <2>1, <2>2, <2>4, <2>5, <3>1, LetterIsRead
  <2>7. Append(RootBefore, last) = <<<<>>, last>>
    BY Tuples DEF RootBefore
  <2>8. last # <<>>
    BY <1>10
  <2>9. PartsAt(delimiters, t) = <<<<>>, last>>
    BY <2>1, <2>2, <2>6, <2>7, <2>8, ReadToEnd
  <2> QED
    BY <1>5, <2>9
<1>11. /\ HelloResource.path = <<Slash>>
       /\ PingResource.path = <<Slash, 112>> /\ MetricsResource.path = <<Slash, 109>>
  <2>1. ASSUME NEW l \in Nat
        PROVE  <<Slash>> \o <<l>> = <<Slash, l>>
    <3>1. PICK u : u = <<Slash>>
      OBVIOUS
    <3>2. u \in Seq(Nat)
      BY <3>1 DEF Slash
    <3>3. Append(u, l) = u \o <<l>>
      BY <3>2, AppendIsConcat
    <3>4. Append(u, l) = <<Slash, l>>
      BY <3>1, Tuples, Zenon
    <3> QED
      BY <3>1, <3>3, <3>4, Zenon
  <2>2. <<Slash>> \o <<112>> = <<Slash, 112>> /\ <<Slash>> \o <<109>> = <<Slash, 109>>
    <3>1. 112 \in Nat /\ 109 \in Nat
      OBVIOUS
    <3> QED
      BY <2>1, <3>1, Zenon
  <2>3. <<Slash>> \o P = <<Slash, 112>> /\ <<Slash>> \o M = <<Slash, 109>>
    BY <2>2, Zenon DEF P, M
  <2> QED
    BY <2>3 DEF HelloResource, PingResource, MetricsResource
<1>12. /\ 103 # Slash /\ 112 # Slash /\ 109 # Slash
       /\ G = <<103>> /\ P = <<112>> /\ M = <<109>>
  BY DEF Slash, G, P, M
<1>13. /\ PartsAt({Slash}, HelloResource.path) = <<<<>>>>
       /\ PartsAt({Slash}, HelloParamResource.path) = <<<<>>, Braced>>
       /\ PartsAt({Slash}, HelloDoubleParamResource.path) = <<<<>>, Braced, Braced>>
  BY <1>6, <1>7, <1>9, <1>11, UserPaths
<1>14. /\ PartsAt({Slash}, HelloQueryParamResource.path) = <<<<>>, Braced, D, G>>
       /\ PartsAt({Slash}, HelloPostParamResource.path) = <<<<>>, Braced, D, P>>
  <2>1. PICK t, u, l, m : /\ t = HelloQueryParamResource.path /\ u = HelloPostParamResource.path
                          /\ l = 103 /\ m = 112
    OBVIOUS
  <2>2. /\ UserThen(t, Slash, 100, Slash, l) /\ l # Slash /\ G = <<l>>
        /\ UserThen(u, Slash, 100, Slash, m) /\ m # Slash /\ P = <<m>>
    BY <1>12, <2>1, UserPaths
  <2>3. PartsAt({Slash}, t) = <<<<>>, Braced, D, G>>
    BY <1>8, <2>2
  <2>4. PartsAt({Slash}, u) = <<<<>>, Braced, D, P>>
    BY <1>8, <2>2
  <2> QED
    BY <2>1, <2>3, <2>4
<1>15. /\ PartsAt({Slash}, PingResource.path) = <<<<>>, P>>
       /\ PartsAt({Slash}, MetricsResource.path) = <<<<>>, M>>
  <2>1. PICK t, u, l, m : /\ t = PingResource.path /\ u = MetricsResource.path
                          /\ l = 112 /\ m = 109
    OBVIOUS
  <2>2. /\ t = <<Slash, l>> /\ l \in Nat /\ l # Slash /\ P = <<l>>
        /\ u = <<Slash, m>> /\ m \in Nat /\ m # Slash /\ M = <<m>>
    BY <1>11, <1>12, <2>1
  <2>3. PartsAt({Slash}, t) = <<<<>>, P>>
    BY <1>10, <2>2
  <2>4. PartsAt({Slash}, u) = <<<<>>, M>>
    BY <1>10, <2>2
  <2> QED
    BY <2>1, <2>3, <2>4
<1> QED
  BY <1>13, <1>14, <1>15

\* Which of a template's parts are variables, and the others.
LEMMA TemplatesSpelled ==
  /\ LET t == TemplateOf(HelloResource) IN DOMAIN t = 1..1 /\ t[1] = <<>>
  /\ LET t == TemplateOf(HelloParamResource)
     IN  DOMAIN t = 1..2 /\ t[1] = <<>> /\ t[2] = Variable
  /\ LET t == TemplateOf(HelloDoubleParamResource)
     IN  DOMAIN t = 1..3 /\ t[1] = <<>> /\ t[2] = Variable /\ t[3] = Variable
  /\ LET t == TemplateOf(HelloQueryParamResource)
     IN  DOMAIN t = 1..4 /\ t[1] = <<>> /\ t[2] = Variable /\ t[3] = D /\ t[4] = G
  /\ LET t == TemplateOf(HelloPostParamResource)
     IN  DOMAIN t = 1..4 /\ t[1] = <<>> /\ t[2] = Variable /\ t[3] = D /\ t[4] = P
  /\ LET t == TemplateOf(PingResource) IN DOMAIN t = 1..2 /\ t[1] = <<>> /\ t[2] = P
  /\ LET t == TemplateOf(MetricsResource) IN DOMAIN t = 1..2 /\ t[1] = <<>> /\ t[2] = M
<1>1. IsVariable(Braced)
  BY DEF IsVariable, Braced, Last, LBrace, RBrace
<1>2. ~IsVariable(<<>>) /\ ~IsVariable(D) /\ ~IsVariable(G) /\ ~IsVariable(P) /\ ~IsVariable(M)
  BY DEF IsVariable, D, G, P, M
<1>3. ASSUME NEW components, NEW n, DOMAIN components = 1..n
      PROVE  /\ DOMAIN Template(components) = 1..n
             /\ \A i \in 1..n : /\ components[i] = Braced => Template(components)[i] = Variable
                                /\ components[i] \in {<<>>, D, G, P, M}
                                     => Template(components)[i] = components[i]
  BY <1>1, <1>2, <1>3 DEF Template
<1>4. ASSUME NEW a
      PROVE  DOMAIN <<a>> = 1..1 /\ <<a>>[1] = a
  OBVIOUS
<1>5. ASSUME NEW a, NEW b
      PROVE  DOMAIN <<a, b>> = 1..2 /\ <<a, b>>[1] = a /\ <<a, b>>[2] = b
  OBVIOUS
<1>6. ASSUME NEW a, NEW b, NEW c
      PROVE  /\ DOMAIN <<a, b, c>> = 1..3
             /\ <<a, b, c>>[1] = a /\ <<a, b, c>>[2] = b /\ <<a, b, c>>[3] = c
  OBVIOUS
<1>7. ASSUME NEW a, NEW b, NEW c, NEW d
      PROVE  /\ DOMAIN <<a, b, c, d>> = 1..4
             /\ <<a, b, c, d>>[1] = a /\ <<a, b, c, d>>[2] = b
             /\ <<a, b, c, d>>[3] = c /\ <<a, b, c, d>>[4] = d
  OBVIOUS
<1>8. LET t == TemplateOf(HelloResource) IN DOMAIN t = 1..1 /\ t[1] = <<>>
  <2>1. PICK s : s = <<<<>>>>
    OBVIOUS
  <2>2. DOMAIN s = 1..1 /\ s[1] = <<>>
    BY <1>4, <2>1
  <2>3. TemplateOf(HelloResource) = Template(s)
    BY <2>1, PartsOfPaths DEF TemplateOf
  <2> QED
    BY <1>3, <2>2, <2>3
<1>9. LET t == TemplateOf(HelloParamResource)
      IN  DOMAIN t = 1..2 /\ t[1] = <<>> /\ t[2] = Variable
  <2>1. PICK s : s = <<<<>>, Braced>>
    OBVIOUS
  <2>2. DOMAIN s = 1..2 /\ s[1] = <<>> /\ s[2] = Braced
    BY <1>5, <2>1
  <2>3. TemplateOf(HelloParamResource) = Template(s)
    BY <2>1, PartsOfPaths DEF TemplateOf
  <2> QED
    BY <1>3, <2>2, <2>3
<1>10. LET t == TemplateOf(HelloDoubleParamResource)
       IN  DOMAIN t = 1..3 /\ t[1] = <<>> /\ t[2] = Variable /\ t[3] = Variable
  <2>1. PICK s : s = <<<<>>, Braced, Braced>>
    OBVIOUS
  <2>2. DOMAIN s = 1..3 /\ s[1] = <<>> /\ s[2] = Braced /\ s[3] = Braced
    BY <1>6, <2>1
  <2>3. TemplateOf(HelloDoubleParamResource) = Template(s)
    BY <2>1, PartsOfPaths DEF TemplateOf
  <2> QED
    BY <1>3, <2>2, <2>3
<1>11. LET t == TemplateOf(HelloQueryParamResource)
       IN  DOMAIN t = 1..4 /\ t[1] = <<>> /\ t[2] = Variable /\ t[3] = D /\ t[4] = G
  <2>1. PICK s : s = <<<<>>, Braced, D, G>>
    OBVIOUS
  <2>2. DOMAIN s = 1..4 /\ s[1] = <<>> /\ s[2] = Braced /\ s[3] = D /\ s[4] = G
    BY <1>7, <2>1
  <2>3. TemplateOf(HelloQueryParamResource) = Template(s)
    BY <2>1, PartsOfPaths DEF TemplateOf
  <2> QED
    BY <1>3, <2>2, <2>3
<1>12. LET t == TemplateOf(HelloPostParamResource)
       IN  DOMAIN t = 1..4 /\ t[1] = <<>> /\ t[2] = Variable /\ t[3] = D /\ t[4] = P
  <2>1. PICK s : s = <<<<>>, Braced, D, P>>
    OBVIOUS
  <2>2. DOMAIN s = 1..4 /\ s[1] = <<>> /\ s[2] = Braced /\ s[3] = D /\ s[4] = P
    BY <1>7, <2>1
  <2>3. TemplateOf(HelloPostParamResource) = Template(s)
    BY <2>1, PartsOfPaths DEF TemplateOf
  <2> QED
    BY <1>3, <2>2, <2>3
<1>13. LET t == TemplateOf(PingResource) IN DOMAIN t = 1..2 /\ t[1] = <<>> /\ t[2] = P
  <2>1. PICK s : s = <<<<>>, P>>
    OBVIOUS
  <2>2. DOMAIN s = 1..2 /\ s[1] = <<>> /\ s[2] = P
    BY <1>5, <2>1
  <2>3. TemplateOf(PingResource) = Template(s)
    BY <2>1, PartsOfPaths DEF TemplateOf
  <2> QED
    BY <1>3, <2>2, <2>3
<1>14. LET t == TemplateOf(MetricsResource) IN DOMAIN t = 1..2 /\ t[1] = <<>> /\ t[2] = M
  <2>1. PICK s : s = <<<<>>, M>>
    OBVIOUS
  <2>2. DOMAIN s = 1..2 /\ s[1] = <<>> /\ s[2] = M
    BY <1>5, <2>1
  <2>3. TemplateOf(MetricsResource) = Template(s)
    BY <2>1, PartsOfPaths DEF TemplateOf
  <2> QED
    BY <1>3, <2>2, <2>3
<1> QED
  BY <1>8, <1>9, <1>10, <1>11, <1>12, <1>13, <1>14

\* So the second part of the user's templates is the variable, and where the user comes
\* twice the third is too.
LEMMA UserTemplates ==
  /\ LET t == TemplateOf(HelloParamResource) IN 2 \in DOMAIN t /\ t[2] = Variable
  /\ LET t == TemplateOf(HelloDoubleParamResource)
     IN  2 \in DOMAIN t /\ t[2] = Variable /\ 3 \in DOMAIN t /\ t[3] = Variable
  /\ LET t == TemplateOf(HelloQueryParamResource) IN 2 \in DOMAIN t /\ t[2] = Variable
  /\ LET t == TemplateOf(HelloPostParamResource) IN 2 \in DOMAIN t /\ t[2] = Variable
<1>1. 2 \in 1..2 /\ 2 \in 1..3 /\ 3 \in 1..3 /\ 2 \in 1..4
  OBVIOUS
<1> QED
  BY <1>1, TemplatesSpelled, Zenon

\* What every method of every resource takes: no integer, and no more strings than
\* its template has variables.
TakesNoMore(handler, template) ==
  \A i \in DOMAIN handler :
    /\ handler[i] # "int"
    /\ handler[i] = "string" =>
         /\ i \in {1, 2}
         /\ 2 \in DOMAIN template /\ template[2] = Variable
         /\ i = 2 => 3 \in DOMAIN template /\ template[3] = Variable

\* The handlers of every resource fit its template (hello_server.cc:34-96).
LEMMA HandlersFit ==
  ASSUME NEW s \in Server, NEW n \in DOMAIN ResourcesOf(s),
         NEW method \in DOMAIN ResourcesOf(s)[n].on
  PROVE  TakesNoMore(ResourcesOf(s)[n].on[method], TemplateOf(ResourcesOf(s)[n]))
<1> DEFINE Fits(r) == \A m \in DOMAIN r.on : TakesNoMore(r.on[m], TemplateOf(r))
<1>1. Fits(HelloResource) /\ Fits(PingResource) /\ Fits(MetricsResource)
  BY DEF HelloResource, PingResource, MetricsResource, Takes, TakesNoMore
<1>2. Fits(HelloParamResource)
  <2>1. PICK t : t = TemplateOf(HelloParamResource)
    OBVIOUS
  <2>2. \A m \in DOMAIN HelloParamResource.on : HelloParamResource.on[m] = <<"string">>
    BY DEF HelloParamResource, Takes
  <2>3. 2 \in DOMAIN t /\ t[2] = Variable
    BY <2>1, UserTemplates
  <2>4. TakesNoMore(<<"string">>, t)
    BY <2>3 DEF TakesNoMore
  <2> QED
    BY <2>1, <2>2, <2>4
<1>3. Fits(HelloDoubleParamResource)
  <2>1. PICK t : t = TemplateOf(HelloDoubleParamResource)
    OBVIOUS
  <2>2. \A m \in DOMAIN HelloDoubleParamResource.on :
          HelloDoubleParamResource.on[m]
            \in {<<"string", "string">>, <<"string", "string", "entity">>}
    BY DEF HelloDoubleParamResource
  <2>3. 2 \in DOMAIN t /\ t[2] = Variable /\ 3 \in DOMAIN t /\ t[3] = Variable
    BY <2>1, UserTemplates
  <2>4. TakesNoMore(<<"string", "string">>, t) /\ TakesNoMore(<<"string", "string", "entity">>, t)
    BY <2>3 DEF TakesNoMore
  <2> QED
    BY <2>1, <2>2, <2>4
<1>4. Fits(HelloQueryParamResource)
  <2>1. PICK t : t = TemplateOf(HelloQueryParamResource)
    OBVIOUS
  <2>2. \A m \in DOMAIN HelloQueryParamResource.on :
          HelloQueryParamResource.on[m] = <<"string", "query">>
    BY DEF HelloQueryParamResource, Takes
  <2>3. 2 \in DOMAIN t /\ t[2] = Variable
    BY <2>1, UserTemplates
  <2>4. TakesNoMore(<<"string", "query">>, t)
    BY <2>3 DEF TakesNoMore
  <2> QED
    BY <2>1, <2>2, <2>4
<1>5. Fits(HelloPostParamResource)
  <2>1. PICK t : t = TemplateOf(HelloPostParamResource)
    OBVIOUS
  <2>2. \A m \in DOMAIN HelloPostParamResource.on :
          HelloPostParamResource.on[m] = <<"string", "post">>
    BY DEF HelloPostParamResource, Takes
  <2>3. 2 \in DOMAIN t /\ t[2] = Variable
    BY <2>1, UserTemplates
  <2>4. TakesNoMore(<<"string", "post">>, t)
    BY <2>3 DEF TakesNoMore
  <2> QED
    BY <2>1, <2>2, <2>4
<1> HIDE DEF Fits
<1>6. Fits(ResourcesOf(s)[n])
  <2>1. CASE s = "hello"
    <3>1. n \in {1, 2, 3, 4, 5} /\ ResourcesOf(s) =
            <<HelloResource, HelloParamResource, HelloDoubleParamResource,
              HelloQueryParamResource, HelloPostParamResource>>
      BY <2>1 DEF ResourcesOf, HelloResources
    <3> QED
      BY <1>1, <1>2, <1>3, <1>4, <1>5, <3>1
  <2>2. CASE s # "hello"
    <3>1. n \in {1, 2} /\ ResourcesOf(s) = <<PingResource, MetricsResource>>
      BY <2>2 DEF ResourcesOf, AdminResources
    <3> QED
      BY <1>1, <3>1
  <2> QED
    BY <2>1, <2>2
<1> QED
  BY <1>6 DEF Fits

\* While a request is dispatched its resource is one that was registered, whose
\* template's variables the path parameters stand for.
LEMMA ResourceFound ==
  ASSUME UsedInv, Proved!RegistryInv, Proved!SearchInv, stage = "dispatching"
  PROVE  /\ \E n \in DOMAIN ResourcesOf(server) :
              Found = ResourcesOf(server)[n] /\ search.resource = TemplateOf(Found)
         /\ server \in Server
         /\ Len(search.resource) = Len(search.path)
         /\ Proved!StandFor(search.parameters, search.resource, search.path)
         /\ search.parameters \in Seq(Component) /\ search.path \in Seq(Component)
<1>1. search.phase = "matched" /\ registrar = Matcher!Idle /\ server \in Server
  BY DEF UsedInv, SearchStage, RegistrationInv
<1>2. /\ Len(search.resource) = Len(search.path)
      /\ Proved!StandFor(search.parameters, search.resource, search.path)
  BY <1>1 DEF Proved!SearchInv, Proved!MatchedFits, Proved!Fits
<1>3. search.parameters \in Seq(Component) /\ search.path \in Seq(Component)
  BY DEF Proved!SearchInv, Proved!Call
<1>4. search.resource \in Proved!ToSet(resources)
  <2>1. ~Proved!Binding
    BY <1>1 DEF Proved!Binding, Matcher!Idle
  <2>2. Proved!Entered = Proved!ToSet(resources)
    BY <2>1 DEF Proved!RegistryInv, Proved!ListedInv, Proved!RegisteredOnce
  <2> QED
    BY <1>1, <2>2 DEF Proved!SearchInv
<1>5. PICK m \in DOMAIN resources : resources[m] = search.resource
  BY <1>4 DEF Proved!ToSet
<1> DEFINE n == CHOOSE k \in DOMAIN resources : resources[k] = search.resource
<1>6. n \in DOMAIN resources /\ resources[n] = search.resource
  BY <1>5
<1>7. Found = ResourcesOf(server)[n]
  BY DEF Found, Registered
<1> HIDE DEF n
<1>8. n \in DOMAIN ResourcesOf(server)
  <2>1. /\ resources \in Seq(ResourceTemplates) /\ Len(resources) <= Len(ResourcesOf(server))
    BY DEF UsedInv, RegistrationInv, Registered
  <2> QED
    BY <1>6, <2>1, ResourcesInOrder
<1>9. resources[n] = TemplateOf(ResourcesOf(server)[n])
  BY <1>6 DEF UsedInv, RegistrationInv, Registered
<1> QED
  BY <1>1, <1>2, <1>3, <1>6, <1>7, <1>8, <1>9

\* There is a parameter for each variable of a template.
LEMMA EnoughParameters ==
  ASSUME NEW parameters, NEW template, NEW path, parameters \in Seq(Component),
         path \in Seq(Component), Len(template) = Len(path),
         template \in Seq(Component \cup {Variable}), 2 \in DOMAIN template,
         template[2] = Variable, Proved!StandFor(parameters, template, path)
  PROVE  /\ Len(parameters) >= 1
         /\ 3 \in DOMAIN template /\ template[3] = Variable => Len(parameters) >= 2
<1>1. PICK place \in [DOMAIN parameters -> DOMAIN path] :
        {place[k] : k \in DOMAIN parameters} = {i \in DOMAIN path : template[i] = Variable}
  BY DEF Proved!StandFor
<1>2. /\ DOMAIN path = DOMAIN template
      /\ DOMAIN parameters = 1..Len(parameters) /\ Len(parameters) \in Nat
  OBVIOUS
<1>3. PICK k \in DOMAIN parameters : place[k] = 2
  BY <1>1, <1>2
<1>4. ASSUME 3 \in DOMAIN template, template[3] = Variable
      PROVE  Len(parameters) >= 2
  <2>1. PICK l \in DOMAIN parameters : place[l] = 3
    BY <1>1, <1>2, <1>4
  <2>2. k # l
    BY <1>3, <2>1
  <2> QED
    BY <1>2, <2>2
<1> QED
  BY <1>2, <1>3, <1>4

\* Every string a handler takes has its path parameter.
LEMMA InBoundsHere ==
  ASSUME UsedInv, Proved!RegistryInv, Proved!SearchInv, stage = "dispatching",
         NEW i \in DOMAIN Handler
  PROVE  /\ Handler[i] # "int"
         /\ Handler[i] = "string" => Call!InBounds(i)
<1>1. PICK n \in DOMAIN ResourcesOf(server) :
        Found = ResourcesOf(server)[n] /\ search.resource = TemplateOf(Found)
  BY ResourceFound
<1>2. Overridden /\ Handler = Found.on[request[1].method]
  BY DEF Handler
<1>3. TakesNoMore(Handler, search.resource)
  BY <1>1, <1>2, ResourceFound, HandlersFit DEF Overridden
<1>4. search.resource \in Seq(Component \cup {Variable})
  BY <1>1, ResourceFound, TemplatesType DEF ResourceTemplates
<1>5. ASSUME Handler[i] = "string"
      PROVE  Call!InBounds(i)
  <2>1. /\ i \in {1, 2} /\ 2 \in DOMAIN search.resource /\ search.resource[2] = Variable
        /\ i = 2 => 3 \in DOMAIN search.resource /\ search.resource[3] = Variable
    BY <1>3, <1>5 DEF TakesNoMore
  <2>2. Len(search.parameters) >= i
    BY <1>4, <2>1, ResourceFound, EnoughParameters
  <2>3. Call!Index(i) \in Nat /\ Call!Index(i) <= i
    <3> DEFINE before == {j \in 1..(i - 1) : Call!Advances(Handler[j])}
    <3>1. before \subseteq 1..(i - 1) /\ 1..(i - 1) \subseteq {1}
      BY <2>1
    <3>2. before \in {{}, {1}}
      BY <3>1
    <3>3. Cardinality({}) = 0 /\ Cardinality({1}) = 1
      BY FS_EmptySet, FS_Singleton
    <3>4. i = 1 => before = {}
      OBVIOUS
    <3> HIDE DEF before
    <3>5. Cardinality(before) \in Nat /\ Cardinality(before) <= i - 1
      BY <2>1, <3>2, <3>3, <3>4
    <3>6. Call!Index(i) = 1 + Cardinality(before)
      BY DEF Call!Index, before, Call!Cardinality, Cardinality
    <3> QED
      BY <2>1, <3>5, <3>6
  <2>4. Len(search.parameters) \in Nat
    BY ResourceFound
  <2> QED
    BY <1>5, <2>1, <2>2, <2>3, <2>4 DEF Call!InBounds, Call!PathKind
<1> QED
  BY <1>3, <1>5 DEF TakesNoMore

\* No handler is refused, throws or reads beyond its parameters.
OutcomeInv == outcome \in {"compiling", "extracting", "invoked"}

\* Every step keeps that.
LEMMA OutcomeInvNext ==
  UsedInv /\ Proved!RegistryInv /\ Proved!SearchInv /\ OutcomeInv /\ [HelloNext]_helloVars
    => OutcomeInv'
<1> SUFFICES ASSUME UsedInv, Proved!RegistryInv, Proved!SearchInv, OutcomeInv, [HelloNext]_helloVars
             PROVE  OutcomeInv'
  OBVIOUS
<1>1. CASE Extract
  <2>1. stage = "dispatching" /\ Call!Next
    BY <1>1 DEF Extract
  <2>2. \A i \in DOMAIN Handler :
          Handler[i] # "int" /\ (Handler[i] = "string" => Call!InBounds(i))
    BY <2>1, InBoundsHere
  <2>3. ~Call!RefuseToCompile
    BY <2>2 DEF Call!RefuseToCompile, Call!Compiles
  <2>4. \A i \in DOMAIN Handler : ~Call!GetIntThrows(i) /\ ~Call!GetBeyond(i)
    BY <2>2 DEF Call!GetIntThrows, Call!GetBeyond, Call!PathKind
  <2> QED
    BY <2>1, <2>3, <2>4
       DEF Call!Next, Call!Bind, Call!Invoke, Call!Ends, Call!GetUriInfo, Call!GetString,
           Call!GetInt, Call!Extract, OutcomeInv
<1>2. CASE Written
  BY <1>2 DEF Written, OutcomeInv
<1>3. CASE ~Extract /\ ~Written
  <2>1. outcome' = outcome
    BY <1>3 DEF HelloNext, Register, Serve, RegisterResource, AddResource, EnterResource, SplitPath,
                Ask, ReadParameters, QueryRead, FormRead, BuildThrows, Match, Search, Unmatched,
                DispatchBegin, HandlerReturns, Respond, calling, helloVars
  <2> QED
    BY <2>1 DEF OutcomeInv
<1> QED
  BY <1>1, <1>2, <1>3

\* Whatever is registered and asked, every variable has its type, and no handler is
\* dispatched that is refused, throws, or reads beyond the parameters its resource's
\* path gives it (tuple_util.h:73-89, hello_server.cc).
THEOREM HelloTypeCorrect == HelloSpec => []HelloTypeOK
<1>1. HelloInit => OutcomeInv
  BY DEF HelloInit, OutcomeInv
<1>2. UsedInv /\ Proved!TypeOK /\ OutcomeInv => HelloTypeOK
  <2> SUFFICES ASSUME UsedInv, Proved!TypeOK, OutcomeInv
               PROVE  HelloTypeOK
    OBVIOUS
  <2>1. /\ text \in Seq(Letter) /\ Len(text) \in Nat /\ Len(text) <= MaxLength
        /\ parts \in Seq(Seq(Letter))
        /\ psep \in {Npos} \cup 0..Len(text) /\ nsep \in {Npos} \cup 0..Len(text)
    BY DEF UsedInv, TextInv, AtPosition, Word
  <2>2. TypeOK
    BY <2>1, ComponentsAssumption DEF TypeOK, Position
  <2> QED
    BY <2>2, SameTypes DEF HelloTypeOK, UsedInv, SearchStage, OutcomeInv
<1> QED
  BY <1>1, <1>2, OutcomeInvNext, MatcherKept, UsedInvariant, PTL DEF HelloSpec
=============================================================================

--------------------------- MODULE DispatchProofs ---------------------------
(***************************************************************************)
(* What is proved of Dispatch, for handlers with any number of arguments,  *)
(* any number of path parameters, any texts in them, and any widths of T   *)
(* and long long: InOrder, WithinBounds and AsWritten.                     *)
(*                                                                         *)
(* The first two take that the index of a path argument is its number      *)
(* among them.  AsWritten takes what std::stoll reads: that a row of       *)
(* digits is zeros and the digits of its number, and so that what is read  *)
(* is what is written.                                                     *)
(***************************************************************************)
EXTENDS Dispatch, Induction, SequenceTheorems

-----------------------------------------------------------------------------
(***************************************************************************)
(* The path arguments, in order.                                           *)
(***************************************************************************)

\* Where the arguments are that take a path parameter.
Places == {i \in DOMAIN handler : handler[i] \in PathKind}

\* Those before an argument.
Before(i) == {j \in 1..(i - 1) : Advances(handler[j])}

\* The index of a path argument is its number among them (tuple_util.h:47-70).
LEMMA IndicesCount ==
  ASSUME handler \in Seq(Kind)
  PROVE  /\ IsFiniteSet(Places) /\ Cardinality(Places) \in Nat
         /\ \A i \in Places : Index(i) \in 1..Cardinality(Places)
         /\ \A i, j \in Places : i < j => Index(i) < Index(j)
         /\ \A n \in 1..Cardinality(Places) : \E i \in Places : Index(i) = n
<1> DEFINE N == Cardinality(Places)
<1>1. /\ Len(handler) \in Nat /\ DOMAIN handler = 1..Len(handler)
      /\ Places \subseteq 1..Len(handler)
  BY DEF Places
<1>2. IsFiniteSet(Places) /\ N \in Nat
  <2>1. IsFiniteSet(1..Len(handler))
    BY <1>1, FS_Interval
  <2> QED
    BY <1>1, <2>1, FS_Subset, FS_CardinalityType
<1>3. ASSUME NEW i \in Places
      PROVE  /\ Before(i) \subseteq Places /\ i \notin Before(i)
             /\ IsFiniteSet(Before(i)) /\ Cardinality(Before(i)) \in Nat
             /\ Cardinality(Before(i)) < N
             /\ Index(i) = 1 + Cardinality(Before(i))
  <2>1. Before(i) \subseteq Places /\ i \notin Before(i)
    BY <1>1 DEF Before, Places, Advances
  <2>2. IsFiniteSet(Before(i)) /\ Cardinality(Before(i)) \in Nat
    BY <1>2, <2>1, FS_Subset, FS_CardinalityType
  <2>3. Cardinality(Before(i)) < N
    <3>1. Cardinality(Before(i)) <= N /\ (Cardinality(Before(i)) = N => Before(i) = Places)
      BY <1>2, <2>1, FS_Subset
    <3> QED
      BY <1>2, <2>1, <2>2, <3>1
  <2> QED
    BY <2>1, <2>2, <2>3 DEF Index, Before
<1>4. \A i \in Places : Index(i) \in 1..N
  BY <1>2, <1>3
<1>5. ASSUME NEW i \in Places, NEW j \in Places, i < j
      PROVE  Index(i) < Index(j)
  <2>1. Before(i) \subseteq Before(j) /\ i \in Before(j)
    BY <1>1, <1>5 DEF Before, Places, Advances
  <2>2. /\ Cardinality(Before(i)) <= Cardinality(Before(j))
        /\ Cardinality(Before(i)) = Cardinality(Before(j)) => Before(i) = Before(j)
    BY <1>3, <2>1, FS_Subset
  <2> QED
    BY <1>3, <2>1, <2>2
<1>6. \A n \in 1..N : \E i \in Places : Index(i) = n
  <2> DEFINE f == [i \in Places |-> Index(i)]
             Is == {Index(i) : i \in Places}
  <2>1. \A i, j \in Places : Index(i) = Index(j) => i = j
    <3> SUFFICES ASSUME NEW i \in Places, NEW j \in Places, i # j
                 PROVE  Index(i) # Index(j)
      OBVIOUS
    <3>1. i < j \/ j < i
      BY <1>1
    <3> QED
      BY <1>2, <1>4, <1>5, <3>1
  <2>2. f \in Bijection(Places, Is)
    BY <2>1 DEF Bijection, Injection, Surjection, IsInjective
  <2>3. IsFiniteSet(Is) /\ Cardinality(Is) = N
    BY <1>2, <2>2, FS_Bijection DEF ExistsBijection
  <2>4. Is \subseteq 1..N
    BY <1>4
  <2>5. IsFiniteSet(1..N) /\ Cardinality(1..N) = N
    BY <1>2, FS_Interval
  <2>6. Is = 1..N
    BY <2>3, <2>4, <2>5, FS_Subset
  <2> QED
    BY <2>6
<1> QED
  BY <1>2, <1>4, <1>5, <1>6

\* So the n-th path argument is the one with the index n.
LEMMA PathArgsByIndex ==
  ASSUME handler \in Seq(Kind)
  PROVE  /\ Len(PathArgs) = Cardinality(Places) /\ DOMAIN PathArgs = 1..Cardinality(Places)
         /\ \A n \in DOMAIN PathArgs : PathArgs[n] \in Places /\ Index(PathArgs[n]) = n
         /\ \A i \in Places : Index(i) \in DOMAIN PathArgs /\ PathArgs[Index(i)] = i
<1> DEFINE N == Cardinality(Places)
           InOrder(s) == /\ s \in [1..N -> Places]
                         /\ \A m, n \in DOMAIN s : m < n => s[m] < s[n]
           s == PathArgs
<1>1. /\ N \in Nat /\ \A i \in Places : Index(i) \in 1..N /\ i \in Nat
      /\ \A i, j \in Places : i < j => Index(i) < Index(j)
      /\ \A n \in 1..N : \E i \in Places : Index(i) = n
  <2>1. \A i \in Places : i \in Nat
    BY DEF Places
  <2> QED
    BY <2>1, IndicesCount
<1>2. \A i, j \in Places : Index(i) < Index(j) => i < j
  <2> SUFFICES ASSUME NEW i \in Places, NEW j \in Places, ~(i < j)
               PROVE  ~(Index(i) < Index(j))
    OBVIOUS
  <2>1. i = j \/ j < i
    BY <1>1
  <2>2. Index(i) \in Nat /\ Index(j) \in Nat
    BY <1>1
  <2> QED
    BY <1>1, <2>1, <2>2
<1>3. \E r : InOrder(r)
  <2> DEFINE r == [n \in 1..N |-> CHOOSE i \in Places : Index(i) = n]
  <2>1. \A n \in 1..N : r[n] \in Places /\ Index(r[n]) = n
    BY <1>1
  <2>2. r \in [1..N -> Places] /\ DOMAIN r = 1..N
    BY <2>1
  <2> HIDE DEF r, N
  <2>3. \A m, n \in DOMAIN r : m < n => r[m] < r[n]
    BY <1>2, <2>1, <2>2
  <2> QED
    BY <2>2, <2>3
<1>4. InOrder(s)
  <2>1. s = CHOOSE r \in [1..N -> Places] : \A m, n \in DOMAIN r : m < n => r[m] < r[n]
    BY DEF PathArgs, Places
  <2> HIDE DEF s, N
  <2> QED
    BY <1>3, <2>1
<1> HIDE DEF s, N
<1>5. s \in [1..N -> Places] /\ DOMAIN s = 1..N /\ \A m, n \in 1..N : m < n => s[m] < s[n]
  BY <1>4
\* Each index is at least the number, since they grow, ...
<1>6. \A n \in 1..N : Index(s[n]) >= n
  <2> DEFINE S == {n \in 1..N : Index(s[n]) >= n}
  <2>1. 1 <= N => 1 \in S
    BY <1>1, <1>5
  <2>2. ASSUME NEW n \in 1..(N - 1), n \in S
        PROVE  n + 1 \in S
    <3>1. PICK k : k = n + 1
      OBVIOUS
    <3>2. n \in 1..N /\ k \in 1..N /\ n < k
      BY <1>1, <3>1
    <3>3. /\ Index(s[n]) < Index(s[k])
          /\ Index(s[n]) \in Nat /\ Index(s[k]) \in Nat /\ Index(s[n]) >= n
      <4>1. s[n] \in Places /\ s[k] \in Places /\ s[n] < s[k]
        BY <1>5, <3>2
      <4>2. Index(s[n]) < Index(s[k]) /\ Index(s[n]) \in Nat /\ Index(s[k]) \in Nat
        BY <1>1, <4>1
      <4> QED
        BY <2>2, <4>2
    <3>4. Index(s[k]) >= k
      BY <1>1, <3>1, <3>3
    <3> QED
      BY <3>1, <3>2, <3>4
  <2>3. \A n \in 1..N : n \in S
    <3> HIDE DEF S
    <3>1. 1 \in Nat /\ N \in Nat
      BY <1>1
    <3> QED
      BY <2>1, <2>2, <3>1, EveryNumberFromTo
  <2> QED
    BY <2>3
\* ... and no more, since they do not grow beyond N.
<1>7. \A n \in 1..N : Index(s[n]) <= n
  <2> DEFINE S == {d \in 0..(N - 1) : Index(s[N - d]) <= N - d}
  <2>1. 0 <= N - 1 => 0 \in S
    <3> SUFFICES ASSUME 0 <= N - 1
                 PROVE  0 \in S
      OBVIOUS
    <3>1. N \in 1..N /\ N - 0 = N /\ 0 \in 0..(N - 1)
      BY <1>1
    <3>2. Index(s[N]) <= N
      BY <1>1, <1>5, <3>1
    <3> QED
      BY <3>1, <3>2
  <2>2. ASSUME NEW d \in 0..((N - 1) - 1), d \in S
        PROVE  d + 1 \in S
    <3>1. PICK m, n, e : m = N - d /\ e = d + 1 /\ n = N - e
      OBVIOUS
    <3>2. n \in 1..N /\ m \in 1..N /\ n < m /\ e \in 0..(N - 1) /\ m = n + 1
      BY <1>1, <3>1
    <3>3. Index(s[m]) <= m
      BY <2>2, <3>1
    <3>4. Index(s[n]) < Index(s[m]) /\ Index(s[n]) \in Nat /\ Index(s[m]) \in Nat
      BY <1>1, <1>5, <3>2
    <3>5. Index(s[n]) <= n
      BY <1>1, <3>2, <3>3, <3>4
    <3> QED
      BY <3>1, <3>2, <3>5
  <2>3. N \in Nat \ {0} => \A d \in 0..(N - 1) : d \in S
    <3> SUFFICES ASSUME N \in Nat \ {0}
                 PROVE  \A d \in 0..(N - 1) : d \in S
      OBVIOUS
    <3>1. PICK last : last = N - 1 /\ last \in Nat
      OBVIOUS
    <3> HIDE DEF S
    <3>2. (0 <= last => 0 \in S) /\ \A d \in 0..(last - 1) : d \in S => d + 1 \in S
      BY <2>1, <2>2, <3>1
    <3>3. 0 \in Nat
      OBVIOUS
    <3>4. \A d \in 0..last : d \in S
      BY <3>1, <3>2, <3>3, EveryNumberFromTo
    <3> QED
      BY <3>1, <3>4
  <2> SUFFICES ASSUME NEW n \in 1..N
               PROVE  Index(s[n]) <= n
    OBVIOUS
  <2>4. PICK d : d = N - n
    OBVIOUS
  <2>5. d \in 0..(N - 1) /\ N - d = n /\ N \in Nat \ {0}
    BY <1>1, <2>4
  <2> QED
    BY <2>3, <2>5
<1>8. \A n \in 1..N : s[n] \in Places /\ Index(s[n]) = n
  <2> SUFFICES ASSUME NEW n \in 1..N
               PROVE  s[n] \in Places /\ Index(s[n]) = n
    OBVIOUS
  <2>1. s[n] \in Places /\ Index(s[n]) \in Nat /\ n \in Nat
    BY <1>1, <1>5
  <2> QED
    BY <1>6, <1>7, <2>1
<1>9. ASSUME NEW i \in Places
      PROVE  s[Index(i)] = i
  <2>1. PICK n : n = Index(i)
    OBVIOUS
  <2>2. n \in 1..N /\ s[n] \in Places /\ Index(s[n]) = Index(i)
    BY <1>1, <1>8, <2>1
  <2>3. ~(s[n] < i) /\ ~(i < s[n])
    BY <1>1, <2>2
  <2>4. s[n] \in Nat /\ i \in Nat
    BY <1>1, <2>2
  <2> QED
    BY <2>1, <2>3, <2>4
<1>10. Len(s) = N
  BY <1>1, <1>5
<1> QED
  BY <1>1, <1>5, <1>8, <1>9, <1>10 DEF s, N

-----------------------------------------------------------------------------
(***************************************************************************)
(* The inductive invariant.                                                *)
(***************************************************************************)

\* What an argument that was extracted is.
Extracted(i) ==
  /\ handler[i] \notin PathKind => args[i] = <<handler[i]>>
  /\ handler[i] \in PathKind => InBounds(i)
  /\ handler[i] = "string" => args[i] = <<params[Index(i)]>>
  /\ handler[i] = "int" =>
       /\ ~ParseThrows(params[Index(i)])
       /\ args[i] = <<Parse(params[Index(i)])>>

\* Each argument that was extracted is what it ought to be, and a call that ended
\* otherwise has an argument to blame.
DispatchInv ==
  /\ handler \in Seq(Kind) /\ params \in Seq(Seq(Nat))
  /\ outcome \in {"extracting", "invoked"} =>
       /\ DOMAIN args = DOMAIN handler
       /\ \A i \in DOMAIN handler : args[i] # <<>> => Extracted(i)
  /\ outcome = "invoked" => \A i \in DOMAIN handler : args[i] # <<>>
  /\ outcome = "undefined" => \E i \in Places : ~InBounds(i)
  /\ outcome = "threw" =>
       \E i \in Places : handler[i] = "int" /\ InBounds(i) /\ ParseThrows(params[Index(i)])

\* It holds at first.
LEMMA DispatchInvInit == Init => DispatchInv
<1> SUFFICES ASSUME Init
             PROVE  DispatchInv
  OBVIOUS
<1>1. PICK call \in Calls : handler = call.handler /\ params = call.params
  BY DEF Init
<1>2. handler \in Seq(Kind) /\ params \in Seq(Seq(Nat))
  BY <1>1, DispatchAssumption
<1>3. outcome = "compiling"
  BY DEF Init
<1> QED
  BY <1>2, <1>3 DEF DispatchInv

\* An argument that is extracted as it ought to be, among others that were.
LEMMA ExtractKeeps ==
  ASSUME DispatchInv, NEW i \in DOMAIN handler, Pending(i), NEW value, Extract(i, value),
         /\ handler[i] \notin PathKind => value = handler[i]
         /\ handler[i] \in PathKind => InBounds(i)
         /\ handler[i] = "string" => value = params[Index(i)]
         /\ handler[i] = "int" => ~ParseThrows(params[Index(i)]) /\ value = Parse(params[Index(i)])
  PROVE  DispatchInv'
<1>1. /\ handler' = handler /\ params' = params /\ outcome' = "extracting"
      /\ args' = [args EXCEPT ![i] = <<value>>] /\ outcome = "extracting"
  BY DEF Extract, Pending
<1>2. DOMAIN args = DOMAIN handler /\ \A j \in DOMAIN handler : args[j] # <<>> => Extracted(j)
  BY <1>1 DEF DispatchInv
<1>3. /\ DOMAIN args' = DOMAIN handler /\ args'[i] = <<value>>
      /\ \A j \in DOMAIN handler : j # i => args'[j] = args[j]
  BY <1>1, <1>2
<1>4. \A j : Index(j)' = Index(j) /\ InBounds(j)' = InBounds(j)
  BY <1>1 DEF Index, Advances, InBounds
<1>5. ASSUME NEW j \in DOMAIN handler, args'[j] # <<>>
      PROVE  Extracted(j)'
  <2>1. CASE j = i
    BY <1>1, <1>3, <1>4, <2>1 DEF Extracted, ParseThrows, Parse
  <2>2. CASE j # i
    <3>1. Extracted(j) /\ args'[j] = args[j]
      BY <1>2, <1>3, <1>5, <2>2
    <3> QED
      BY <1>1, <1>4, <3>1 DEF Extracted
  <2> QED
    BY <2>1, <2>2
<1>6. (\A j \in DOMAIN handler : args[j] # <<>> => Extracted(j))'
  BY <1>1, <1>5
<1>7. handler' \in Seq(Kind) /\ params' \in Seq(Seq(Nat))
  BY <1>1 DEF DispatchInv
<1> QED
  BY <1>1, <1>3, <1>6, <1>7 DEF DispatchInv

\* Every step keeps it.
LEMMA DispatchInvNext == DispatchInv /\ [Next]_vars => DispatchInv'
<1> SUFFICES ASSUME DispatchInv, [Next]_vars
             PROVE  DispatchInv'
  OBVIOUS
<1>1. CASE Bind
  <2>1. /\ handler' = handler /\ params' = params /\ outcome' = "extracting"
        /\ args' = [i \in DOMAIN handler |-> <<>>]
    BY <1>1 DEF Bind
  <2>2. DOMAIN args' = DOMAIN handler' /\ \A i \in DOMAIN handler' : args'[i] = <<>>
    BY <2>1
  <2> QED
    BY <2>1, <2>2 DEF DispatchInv
<1>2. CASE RefuseToCompile
  BY <1>2 DEF RefuseToCompile, DispatchInv
<1>3. CASE Invoke
  <2>1. /\ handler' = handler /\ params' = params /\ args' = args /\ outcome' = "invoked"
        /\ outcome = "extracting" /\ \A i \in DOMAIN handler : args[i] # <<>>
    BY <1>3 DEF Invoke, Ends
  <2>2. \A i : Extracted(i)' = Extracted(i)
    BY <2>1 DEF Extracted, InBounds, Index, Advances
  <2> QED
    BY <2>1, <2>2 DEF DispatchInv
<1>4. ASSUME NEW i \in DOMAIN handler, GetUriInfo(i)
      PROVE  DispatchInv'
  <2>1. /\ Pending(i) /\ handler[i] \notin PathKind /\ Extract(i, handler[i])
        /\ handler[i] # "string" /\ handler[i] # "int"
    BY <1>4 DEF GetUriInfo, PathKind
  <2> QED
    BY <2>1, ExtractKeeps
<1>5. ASSUME NEW i \in DOMAIN handler, GetString(i)
      PROVE  DispatchInv'
  <2>1. /\ Pending(i) /\ handler[i] = "string" /\ handler[i] # "int" /\ InBounds(i)
        /\ handler[i] \in PathKind /\ Extract(i, params[Index(i)])
    BY <1>5 DEF GetString, PathKind
  <2> QED
    BY <2>1, ExtractKeeps
<1>6. ASSUME NEW i \in DOMAIN handler, GetInt(i)
      PROVE  DispatchInv'
  <2>1. /\ Pending(i) /\ handler[i] = "int" /\ handler[i] # "string" /\ InBounds(i)
        /\ handler[i] \in PathKind /\ ~ParseThrows(params[Index(i)])
        /\ Extract(i, Parse(params[Index(i)]))
    BY <1>6 DEF GetInt, PathKind
  <2> QED
    BY <2>1, ExtractKeeps
<1>7. ASSUME NEW i \in DOMAIN handler, GetIntThrows(i)
      PROVE  DispatchInv'
  <2>1. /\ handler' = handler /\ params' = params /\ outcome' = "threw"
        /\ handler[i] = "int" /\ InBounds(i) /\ ParseThrows(params[Index(i)]) /\ i \in Places
    BY <1>7 DEF GetIntThrows, Ends, InBounds, Places
  <2>2. /\ Places' = Places /\ InBounds(i)' = InBounds(i)
        /\ ParseThrows(params[Index(i)])' = ParseThrows(params[Index(i)])
    BY <2>1 DEF Places, InBounds, Index, Advances
  <2> QED
    BY <2>1, <2>2 DEF DispatchInv
<1>8. ASSUME NEW i \in DOMAIN handler, GetBeyond(i)
      PROVE  DispatchInv'
  <2>1. /\ handler' = handler /\ params' = params /\ outcome' = "undefined"
        /\ ~InBounds(i) /\ i \in Places
    BY <1>8 DEF GetBeyond, Ends, Places
  <2>2. Places' = Places /\ InBounds(i)' = InBounds(i)
    BY <2>1 DEF Places, InBounds, Index, Advances
  <2> QED
    BY <2>1, <2>2 DEF DispatchInv
<1>9. CASE UNCHANGED vars
  <2>1. handler' = handler /\ params' = params /\ args' = args /\ outcome' = outcome
    BY <1>9 DEF vars
  <2>2. /\ Places' = Places
        /\ \A i : /\ Extracted(i)' = Extracted(i) /\ InBounds(i)' = InBounds(i)
                  /\ Index(i)' = Index(i)
    BY <2>1 DEF Extracted, InBounds, Index, Advances, Places
  <2> QED
    BY <2>1, <2>2 DEF DispatchInv
<1> QED
  BY <1>1, <1>2, <1>3, <1>4, <1>5, <1>6, <1>7, <1>8, <1>9 DEF Next

\* So it always holds.
LEMMA DispatchInvariant == Spec => []DispatchInv
<1> QED
  BY DispatchInvInit, DispatchInvNext, PTL DEF Spec

-----------------------------------------------------------------------------
(***************************************************************************)
(* The theorems.                                                           *)
(***************************************************************************)

\* Wherever its other arguments stand, a handler's n-th path argument is the n-th
\* path parameter, and each of another kind is what its type names
\* (tuple_util.h:47-89 and 129-164).
THEOREM InOrder == Spec => []ArgumentsInOrder
<1>1. DispatchInv => ArgumentsInOrder
  <2> SUFFICES ASSUME DispatchInv, outcome = "invoked"
               PROVE  ArgumentsInOrder
    BY DEF ArgumentsInOrder
  <2>1. \A i \in DOMAIN handler : Extracted(i)
    BY DEF DispatchInv
  <2>2. params \in Seq(Seq(Nat)) /\ handler \in Seq(Kind)
    BY DEF DispatchInv
  <2>3. ASSUME NEW n \in DOMAIN PathArgs
        PROVE  /\ n \in DOMAIN params
               /\ handler[PathArgs[n]] = "string" => args[PathArgs[n]] = <<params[n]>>
    <3>1. PICK i : i = PathArgs[n]
      OBVIOUS
    <3>2. i \in Places /\ Index(i) = n /\ n \in 1..Cardinality(Places)
      BY <2>2, <2>3, <3>1, PathArgsByIndex
    <3>3. Extracted(i) /\ handler[i] \in PathKind
      BY <2>1, <3>2 DEF Places
    <3>4. n <= Len(params) /\ (handler[i] = "string" => args[i] = <<params[n]>>)
      BY <3>2, <3>3 DEF Extracted, InBounds
    <3>5. n \in DOMAIN params
      BY <2>2, <3>2, <3>4, IndicesCount
    <3> QED
      BY <3>1, <3>4, <3>5
  <2>4. \A i \in DOMAIN handler : handler[i] \notin PathKind => args[i] = <<handler[i]>>
    BY <2>1 DEF Extracted
  <2> QED
    BY <2>3, <2>4 DEF ArgumentsInOrder
<1> QED
  BY <1>1, DispatchInvariant, PTL

\* Only a handler with more path arguments than there are path parameters reads
\* beyond them (tuple_util.h:73-89).
THEOREM WithinBounds == Spec => []ReadsWithinBounds
<1>1. DispatchInv => ReadsWithinBounds
  <2> SUFFICES ASSUME DispatchInv, outcome = "undefined"
               PROVE  Len(PathArgs) > Len(params)
    BY DEF ReadsWithinBounds
  <2>1. PICK i \in Places : ~InBounds(i)
    BY DEF DispatchInv
  <2>2. handler \in Seq(Kind) /\ Len(params) \in Nat
    BY DEF DispatchInv
  <2>3. Index(i) \in 1..Cardinality(Places) /\ Cardinality(Places) \in Nat
    BY <2>1, <2>2, IndicesCount
  <2>4. Len(PathArgs) = Cardinality(Places)
    BY <2>2, PathArgsByIndex
  <2>5. ~(Index(i) <= Len(params))
    BY <2>1 DEF InBounds, Places
  <2> QED
    BY <2>2, <2>3, <2>4, <2>5
<1> QED
  BY <1>1, DispatchInvariant, PTL

-----------------------------------------------------------------------------
(***************************************************************************)
(* The conversion to T.                                                    *)
(***************************************************************************)

\* Powers of two are positive, and each is twice the one before.
LEMMA Powers ==
  /\ \A n \in Nat : TwoTo[n] \in Nat \ {0}
  /\ \A n \in Nat \ {0} : TwoTo[n] = 2 * TwoTo[n - 1]
<1> DEFINE Equation(f) == f = [n \in Nat |-> IF n = 0 THEN 1 ELSE 2 * f[n - 1]]
           base == [n \in Nat |-> 1]
           step == [n \in Nat |-> [p \in Nat |-> 2 * p]]
           prev == [n \in Nat |-> IF n = 0 THEN 0 ELSE n - 1]
           rank == [n \in Nat |-> n]
<1>1. IsRecursion(Nat, Nat, base, step, prev, rank)
  <2>1. base \in [Nat -> Nat] /\ step \in [Nat -> [Nat -> Nat]]
    OBVIOUS
  <2>2. prev \in [Nat -> Nat] /\ rank \in [Nat -> Nat]
    OBVIOUS
  <2>3. \A n \in Nat : rank[n] # 0 => rank[prev[n]] < rank[n]
    OBVIOUS
  <2> HIDE DEF base, step, prev, rank
  <2> QED
    BY <2>1, <2>2, <2>3 DEF IsRecursion
<1>2. PICK g \in [Nat -> Nat] :
        \A n \in Nat : g[n] = IF rank[n] = 0 THEN base[n] ELSE step[n][g[prev[n]]]
  <2> HIDE DEF base, step, prev, rank
  <2> QED
    BY <1>1, Recursion
<1>3. Equation(g)
  <2>1. ASSUME NEW n \in Nat
        PROVE  g[n] = IF n = 0 THEN 1 ELSE 2 * g[n - 1]
    <3>1. g[n] = IF rank[n] = 0 THEN base[n] ELSE step[n][g[prev[n]]]
      BY <1>2
    <3>2. CASE n = 0
      BY <3>1, <3>2
    <3>3. CASE n # 0
      <4>1. rank[n] # 0 /\ prev[n] = n - 1 /\ n - 1 \in Nat
        BY <3>3
      <4>2. g[n - 1] \in Nat
        BY <1>2, <4>1
      <4> QED
        BY <3>1, <3>3, <4>1, <4>2
    <3> QED
      BY <3>2, <3>3
  <2>2. g = [n \in Nat |-> g[n]]
    OBVIOUS
  <2> QED
    BY <2>1, <2>2
<1> DEFINE f == CHOOSE h : Equation(h)
<1>4. Equation(f)
  <2> HIDE DEF Equation
  <2> QED
    BY <1>3
<1>5. TwoTo = f
  BY DEF TwoTo
<1> HIDE DEF f
<1>6. \A n \in Nat : TwoTo[n] = IF n = 0 THEN 1 ELSE 2 * TwoTo[n - 1]
  BY <1>4, <1>5
<1>7. \A n \in Nat : TwoTo[n] \in Nat \ {0}
  <2> DEFINE S == {n \in Nat : TwoTo[n] \in Nat \ {0}}
  <2>1. 0 \in S
    BY <1>6
  <2>2. ASSUME NEW n \in Nat, n \in S
        PROVE  n + 1 \in S
    <3>1. PICK k : k = n + 1
      OBVIOUS
    <3>2. k \in Nat /\ k # 0 /\ k - 1 = n
      BY <3>1
    <3>3. TwoTo[k] = 2 * TwoTo[n] /\ TwoTo[n] \in Nat \ {0}
      BY <1>6, <2>2, <3>2
    <3> QED
      BY <3>1, <3>2, <3>3
  <2>3. \A n \in Nat : n \in S
    <3> HIDE DEF S
    <3> QED
      BY <2>1, <2>2, EveryNumber
  <2> QED
    BY <2>3
<1> QED
  BY <1>6, <1>7

\* What long long can hold are numbers.
LEMMA LongLongNumbers == LongLong \subseteq Int
<1>1. LongLongBits - 1 \in Nat
  BY DispatchAssumption
<1>2. TwoTo[LongLongBits - 1] \in Nat
  BY <1>1, Powers
<1> QED
  BY <1>2 DEF LongLong, ValuesOf

\* A number comes out of Narrow as one of T's, and congruent to what it was
\* (parameter.h:66).
LEMMA Narrowed ==
  ASSUME NEW v \in Int
  PROVE  Narrow(v) \in ValuesOf(IntBits) /\ (Narrow(v) - v) % TwoTo[IntBits] = 0
<1>1. IntBits \in Nat \ {0} /\ IntBits - 1 \in Nat
  BY DispatchAssumption
<1>2. PICK w, h : w = TwoTo[IntBits] /\ h = TwoTo[IntBits - 1]
  OBVIOUS
<1>3. w \in Nat \ {0} /\ h \in Nat \ {0} /\ w = 2 * h
  BY <1>1, <1>2, Powers
<1>4. PICK a, r : a = v + h /\ r = a % w
  OBVIOUS
<1>5. Narrow(v) = r - h
  BY <1>2, <1>4 DEF Narrow
<1>6. r \in 0..(w - 1) /\ a \in Int
  BY <1>3, <1>4
<1>7. Narrow(v) \in ValuesOf(IntBits)
  BY <1>2, <1>3, <1>5, <1>6 DEF ValuesOf
<1>8. Narrow(v) - v = r - a
  BY <1>3, <1>4, <1>5, <1>6
<1>9. (r - a) % w = 0
  <2>1. PICK q \in Int : a = w * q + r
    <3>1. a \div w \in Int
      BY <1>3, <1>6
    <3>2. a = w * (a \div w) + (a % w)
      BY <1>3, <1>6
    <3> QED
      BY <1>4, <3>1, <3>2
  <2>2. r - a = w * (-q)
    BY <1>3, <1>6, <2>1
  <2>3. (w * (-q)) % w = 0
    BY <1>3
  <2> QED
    BY <2>2, <2>3
<1> QED
  BY <1>2, <1>7, <1>8, <1>9

-----------------------------------------------------------------------------
(***************************************************************************)
(* The number of a row of digits.                                          *)
(***************************************************************************)

\* What has been counted after each digit.
IsCount(ds, f) ==
  /\ f \in [0..Len(ds) -> Int]
  /\ f[0] = 0
  /\ \A k \in 1..Len(ds) : f[k] = 10 * f[k - 1] + (ds[k] - Zero)

\* The number is counted digit by digit.
LEMMA Counted ==
  ASSUME NEW ds \in Seq(Int)
  PROVE  \E f : IsCount(ds, f) /\ NumberOf(ds) = f[Len(ds)]
<1> DEFINE n == Len(ds)
           step == [k \in 1..n |-> [m \in Int |-> 10 * m + (ds[k] - Zero)]]
           Equation(it) == it = [s \in SUBSET (1..n) |->
                                   IF s = {} THEN 0
                                   ELSE 10 * it[s \ {Max(s)}] + (ds[Max(s)] - Zero)]
<1>1. n \in Nat /\ DOMAIN ds = 1..n /\ \A k \in 1..n : ds[k] \in Int
  OBVIOUS
<1>2. step \in [1..n -> [Int -> Int]]
  BY <1>1 DEF Zero
<1>3. PICK g : IsFold(n, Int, 0, step, g)
  <2>1. n \in Nat /\ 0 \in Int /\ step \in [1..n -> [Int -> Int]]
    BY <1>1, <1>2
  <2> HIDE DEF n, step
  <2> QED
    BY <2>1, FoldRecursion
<1>4. /\ g \in [SUBSET (1..n) -> Int]
      /\ \A s \in SUBSET (1..n) : g[s] = IF s = {} THEN 0 ELSE step[Max(s)][g[s \ {Max(s)}]]
  <2> HIDE DEF n, step
  <2> QED
    BY <1>3 DEF IsFold
<1>5. Equation(g)
  <2>1. ASSUME NEW s \in SUBSET (1..n), s # {}
        PROVE  g[s] = 10 * g[s \ {Max(s)}] + (ds[Max(s)] - Zero)
    <3> DEFINE m == Max(s)
               r == s \ {m}
    <3>1. m \in 1..n /\ r \in SUBSET (1..n)
      BY <1>1, <2>1, Greatest
    <3> HIDE DEF m
    <3>2. g[r] \in Int
      BY <1>4, <3>1
    <3>3. g[s] = step[m][g[r]]
      BY <1>4, <2>1 DEF m
    <3> HIDE DEF r, n
    <3> QED
      BY <3>1, <3>2, <3>3 DEF m, r
  <2>2. g[{}] = 0
    BY <1>4
  <2>3. g = [s \in SUBSET (1..n) |-> g[s]]
    BY <1>4
  <2>4. \A s \in SUBSET (1..n) :
          g[s] = IF s = {} THEN 0 ELSE 10 * g[s \ {Max(s)}] + (ds[Max(s)] - Zero)
    BY <2>1, <2>2
  <2> QED
    BY <2>3, <2>4
<1> DEFINE iter == CHOOSE it : Equation(it)
<1>6. Equation(iter)
  <2> HIDE DEF Equation
  <2> QED
    BY <1>5
<1>7. NumberOf(ds) = iter[1..n]
  BY <1>1 DEF NumberOf, FoldLeft, MapThenFoldSet
<1> HIDE DEF iter
<1>8. \A s \in SUBSET (1..n) :
        iter[s] = IF s = {} THEN 0 ELSE 10 * iter[s \ {Max(s)}] + (ds[Max(s)] - Zero)
  BY <1>6
<1> DEFINE f == [k \in 0..n |-> iter[1..k]]
<1>9. f[0] = 0
  <2>1. 1..0 = {} /\ 0 \in 0..n
    BY <1>1
  <2> QED
    BY <1>8, <2>1
<1>10. ASSUME NEW k \in 1..n
       PROVE  f[k] = 10 * f[k - 1] + (ds[k] - Zero)
  <2>1. k \in Nat \ {0} /\ k - 1 \in 0..n /\ k \in 0..n
    BY <1>1
  <2>2. Max(1..k) = k /\ (1..k) \ {k} = 1..(k - 1)
    BY <2>1, GreatestOfFirst
  <2>3. 1..k \in SUBSET (1..n) /\ 1..k # {}
    <3>1. k \in 1..k
      BY <2>1
    <3>2. \A i \in 1..k : i \in 1..n
      BY <1>1, <2>1
    <3> QED
      BY <3>1, <3>2
  <2>4. iter[1..k] = 10 * iter[1..(k - 1)] + (ds[k] - Zero)
    BY <1>8, <2>2, <2>3
  <2>5. f[k] = iter[1..k] /\ f[k - 1] = iter[1..(k - 1)]
    BY <2>1
  <2> HIDE DEF f
  <2> QED
    BY <2>4, <2>5
<1>11. f[n] = iter[1..n]
  BY <1>1
<1>12. \A k \in 0..n : f[k] \in Int
  <2> DEFINE S == {k \in 0..n : f[k] \in Int}
  <2> HIDE DEF f
  <2>1. 0 \in S
    BY <1>1, <1>9
  <2>2. ASSUME NEW k \in 0..(n - 1), k \in S
        PROVE  k + 1 \in S
    <3>1. PICK j : j = k + 1
      OBVIOUS
    <3>2. j \in 1..n /\ j - 1 = k /\ j \in 0..n
      BY <1>1, <3>1
    <3>3. f[j] = 10 * f[k] + (ds[j] - Zero)
      BY <1>10, <3>2
    <3>4. f[j] \in Int
      BY <1>1, <2>2, <3>2, <3>3 DEF Zero
    <3> QED
      BY <3>1, <3>2, <3>4
  <2>3. \A k \in 0..n : k \in S
    <3>1. 0 \in Nat
      OBVIOUS
    <3> HIDE DEF S, n
    <3> QED
      BY <1>1, <2>1, <2>2, <3>1, EveryNumberFromTo
  <2> QED
    BY <2>3
<1>13. f \in [0..n -> Int]
  BY <1>12
<1> HIDE DEF f
<1>14. IsCount(ds, f)
  BY <1>9, <1>10, <1>13 DEF IsCount
<1> QED
  BY <1>7, <1>11, <1>14

\* As far as two rows agree, so do their counts.
LEMMA CountsAgree ==
  ASSUME NEW ds \in Seq(Int), NEW es \in Seq(Int), NEW f, NEW g, IsCount(ds, f), IsCount(es, g),
         NEW n \in Nat, n <= Len(ds), n <= Len(es), \A k \in 1..n : ds[k] = es[k]
  PROVE  f[n] = g[n]
<1> DEFINE S == {k \in 0..n : f[k] = g[k]}
<1>1. 0 \in S
  BY DEF IsCount
<1>2. ASSUME NEW k \in 0..(n - 1), k \in S
      PROVE  k + 1 \in S
  <2>1. PICK j : j = k + 1
    OBVIOUS
  <2>2. j \in 1..n /\ j - 1 = k /\ j \in 1..Len(ds) /\ j \in 1..Len(es)
    BY <2>1
  <2>3. /\ f[j] = 10 * f[k] + (ds[j] - Zero)
        /\ g[j] = 10 * g[k] + (es[j] - Zero)
    BY <2>2 DEF IsCount
  <2>4. f[k] = g[k] /\ ds[j] = es[j]
    BY <1>2, <2>2
  <2> QED
    BY <2>1, <2>2, <2>3, <2>4
<1>3. \A k \in 0..n : k \in S
  <2>1. 0 \in Nat
    OBVIOUS
  <2> HIDE DEF S
  <2> QED
    BY <1>1, <1>2, <2>1, EveryNumberFromTo
<1> QED
  BY <1>3

\* No digits are nothing, and one more digit is ten times as much and itself.
LEMMA NumberGrows ==
  ASSUME NEW ds \in Seq(Int)
  PROVE  /\ NumberOf(ds) \in Int
         /\ Len(ds) = 0 => NumberOf(ds) = 0
         /\ Len(ds) > 0 =>
              NumberOf(ds) = 10 * NumberOf(SubSeq(ds, 1, Len(ds) - 1)) + (ds[Len(ds)] - Zero)
<1> DEFINE n == Len(ds)
<1>1. n \in Nat
  OBVIOUS
<1>2. PICK f : IsCount(ds, f) /\ NumberOf(ds) = f[n]
  BY Counted
<1>3. f[n] \in Int /\ f[0] = 0
  BY <1>1, <1>2 DEF IsCount
<1>4. ASSUME n > 0
      PROVE  NumberOf(ds) = 10 * NumberOf(SubSeq(ds, 1, n - 1)) + (ds[n] - Zero)
  <2>1. PICK es, k : es = SubSeq(ds, 1, n - 1) /\ k = n - 1
    OBVIOUS
  <2>2. k \in Nat /\ es \in Seq(Int) /\ Len(es) = k /\ \A i \in 1..k : es[i] = ds[i]
    <3>1. k \in Nat /\ k <= n
      BY <1>1, <1>4, <2>1
    <3>2. SubSeq(ds, 1, k) \in Seq(Int) /\ Len(SubSeq(ds, 1, k)) = k
      BY <1>1, <3>1
    <3>3. \A i \in 1..k : SubSeq(ds, 1, k)[i] = ds[i]
      BY <1>1, <3>1
    <3> QED
      BY <2>1, <3>1, <3>2, <3>3
  <2>3. PICK g : IsCount(es, g) /\ NumberOf(es) = g[k]
    BY <2>2, Counted
  <2>4. f[k] = g[k]
    <3>1. /\ k \in Nat /\ k <= Len(ds) /\ k <= Len(es)
          /\ \A i \in 1..k : ds[i] = es[i]
          /\ es \in Seq(Int) /\ IsCount(ds, f) /\ IsCount(es, g)
      BY <1>1, <1>2, <1>4, <2>1, <2>2, <2>3
    <3> QED
      BY <3>1, CountsAgree
  <2>5. f[n] = 10 * f[k] + (ds[n] - Zero)
    BY <1>1, <1>2, <1>4, <2>1 DEF IsCount
  <2> QED
    BY <1>2, <2>1, <2>3, <2>4, <2>5
<1> QED
  BY <1>2, <1>3, <1>4

-----------------------------------------------------------------------------
(***************************************************************************)
(* The digits of a number.                                                 *)
(***************************************************************************)

Digit == Zero..(Zero + 9)

\* A number of one digit is written by it, and any other by what it has tens of
\* and the digit of what is left.
LEMMA DecimalSteps ==
  ASSUME NEW n \in Nat
  PROVE  /\ Decimal[n] \in Seq(Digit) /\ Len(Decimal[n]) > 0
         /\ n < 10 => Len(Decimal[n]) = 1 /\ Decimal[n][1] = Zero + n
         /\ n >= 10 =>
              /\ Len(Decimal[n]) = Len(Decimal[n \div 10]) + 1
              /\ Decimal[n][Len(Decimal[n])] = Zero + (n % 10)
              /\ \A k \in 1..Len(Decimal[n \div 10]) : Decimal[n][k] = Decimal[n \div 10][k]
<1> DEFINE X == {s \in Seq(Digit) : Len(s) > 0}
           base == [m \in Nat |-> <<Zero + (m % 10)>>]
           step == [m \in Nat |-> [p \in X |-> Append(p, Zero + (m % 10))]]
           prev == [m \in Nat |-> m \div 10]
           rank == [m \in Nat |-> IF m < 10 THEN 0 ELSE m]
           Equation(f) == f = [m \in Nat |-> IF m < 10 THEN <<Zero + m>>
                                             ELSE Append(f[m \div 10], Zero + (m % 10))]
<1>1. \A m \in Nat : /\ Zero + (m % 10) \in Digit
                     /\ m \div 10 \in Nat /\ (m >= 10 => m \div 10 < m)
                     /\ m < 10 => m % 10 = m
  BY DEF Zero, Digit
<1>2. ASSUME NEW p \in X, NEW d \in Digit
      PROVE  /\ Append(p, d) \in X /\ Len(Append(p, d)) = Len(p) + 1
             /\ Append(p, d)[Len(p) + 1] = d
             /\ \A k \in 1..Len(p) : Append(p, d)[k] = p[k]
  <2>1. p \in Seq(Digit) /\ Len(p) \in Nat /\ Len(p) > 0
    OBVIOUS
  <2>2. Append(p, d) \in Seq(Digit) /\ Len(Append(p, d)) = Len(p) + 1
    BY <2>1
  <2>3. Append(p, d)[Len(p) + 1] = d /\ \A k \in 1..Len(p) : Append(p, d)[k] = p[k]
    BY <2>1
  <2> QED
    BY <2>1, <2>2, <2>3
<1>3. IsRecursion(X, Nat, base, step, prev, rank)
  <2>1. base \in [Nat -> X]
    <3>1. \A m \in Nat : <<Zero + (m % 10)>> \in X
      <4> SUFFICES ASSUME NEW m \in Nat
                   PROVE  <<Zero + (m % 10)>> \in X
        OBVIOUS
      <4>1. <<Zero + (m % 10)>> \in Seq(Digit) /\ Len(<<Zero + (m % 10)>>) = 1
        BY <1>1
      <4> QED
        BY <4>1
    <3> HIDE DEF X
    <3> QED
      BY <3>1
  <2>2. step \in [Nat -> [X -> X]]
    <3>1. \A m \in Nat : \A p \in X : Append(p, Zero + (m % 10)) \in X
      BY <1>1, <1>2
    <3> HIDE DEF X
    <3> QED
      BY <3>1
  <2>3. prev \in [Nat -> Nat] /\ rank \in [Nat -> Nat]
    BY <1>1
  <2>4. \A m \in Nat : rank[m] # 0 => rank[prev[m]] < rank[m]
    <3> SUFFICES ASSUME NEW m \in Nat, rank[m] # 0
                 PROVE  rank[prev[m]] < rank[m]
      OBVIOUS
    <3>1. PICK q : q = m \div 10
      OBVIOUS
    <3>2. m >= 10 /\ q \in Nat /\ q < m /\ prev[m] = q /\ rank[m] = m
      BY <1>1, <3>1
    <3>3. rank[q] = 0 \/ rank[q] = q
      BY <3>2
    <3> QED
      BY <3>2, <3>3
  <2> HIDE DEF X, base, step, prev, rank
  <2> QED
    BY <2>1, <2>2, <2>3, <2>4 DEF IsRecursion
<1>4. PICK g \in [Nat -> X] :
        \A m \in Nat : g[m] = IF rank[m] = 0 THEN base[m] ELSE step[m][g[prev[m]]]
  <2> HIDE DEF X, base, step, prev, rank
  <2> QED
    BY <1>3, Recursion
<1>5. Equation(g)
  <2>1. ASSUME NEW m \in Nat
        PROVE  g[m] = IF m < 10 THEN <<Zero + m>> ELSE Append(g[m \div 10], Zero + (m % 10))
    <3>1. g[m] = IF rank[m] = 0 THEN base[m] ELSE step[m][g[prev[m]]]
      BY <1>4
    <3>2. CASE m < 10
      <4>1. rank[m] = 0 /\ base[m] = <<Zero + (m % 10)>> /\ m % 10 = m
        BY <1>1, <3>2
      <4> QED
        BY <3>1, <3>2, <4>1
    <3>3. CASE m >= 10
      <4>1. PICK q : q = m \div 10
        OBVIOUS
      <4>2. q \in Nat /\ rank[m] # 0 /\ prev[m] = q /\ ~(m < 10)
        BY <1>1, <3>3, <4>1
      <4>3. g[q] \in X
        BY <1>4, <4>2
      <4>4. g[m] = step[m][g[q]]
        BY <3>1, <4>2
      <4>5. step[m][g[q]] = Append(g[q], Zero + (m % 10))
        <5> HIDE DEF X
        <5> QED
          BY <4>3
      <4> QED
        BY <4>1, <4>2, <4>4, <4>5
    <3> QED
      BY <3>2, <3>3
  <2>2. g = [m \in Nat |-> g[m]]
    <3> HIDE DEF X
    <3> QED
      BY <1>4
  <2> QED
    BY <2>1, <2>2
<1> DEFINE f == CHOOSE h : Equation(h)
<1>6. Equation(f)
  <2> HIDE DEF Equation
  <2> QED
    BY <1>5
<1>7. Decimal = f
  BY DEF Decimal
<1> HIDE DEF f
<1>8. \A m \in Nat : Decimal[m] = IF m < 10 THEN <<Zero + m>>
                                  ELSE Append(Decimal[m \div 10], Zero + (m % 10))
  BY <1>6, <1>7
<1>9. \A m \in Nat : Decimal[m] \in X
  <2> DEFINE S == {m \in Nat : Decimal[m] \in X}
  <2>1. ASSUME NEW m \in Nat, \A k \in 0..(m - 1) : k \in S
        PROVE  m \in S
    <3>1. CASE m < 10
      <4>1. Decimal[m] = <<Zero + m>>
        BY <1>8, <3>1, Zenon
      <4>2. PICK d : d = Zero + m
        OBVIOUS
      <4>3. d \in Digit
        BY <3>1, <4>2 DEF Digit, Zero
      <4>4. <<d>> \in Seq(Digit) /\ Len(<<d>>) = 1
        BY <4>3
      <4>5. <<d>> \in X
        BY <4>4
      <4> HIDE DEF X
      <4> QED
        BY <4>1, <4>2, <4>5
    <3>2. CASE m >= 10
      <4>1. PICK q : q = m \div 10
        OBVIOUS
      <4>2. q \in 0..(m - 1) /\ Zero + (m % 10) \in Digit
        BY <1>1, <3>2, <4>1
      <4>3. Decimal[q] \in X
        BY <2>1, <4>2
      <4>4. Decimal[m] = Append(Decimal[q], Zero + (m % 10))
        <5>1. ~(m < 10)
          BY <3>2
        <5> QED
          BY <1>8, <4>1, <5>1, Zenon
      <4>5. Append(Decimal[q], Zero + (m % 10)) \in X
        BY <1>2, <4>2, <4>3
      <4> HIDE DEF X
      <4> QED
        BY <4>4, <4>5
    <3> QED
      BY <3>1, <3>2
  <2>2. \A m \in Nat : m \in S
    <3> HIDE DEF S
    <3> QED
      BY <2>1, EveryNumberBySmaller
  <2> QED
    BY <2>2
<1>10. n < 10 => Len(Decimal[n]) = 1 /\ Decimal[n][1] = Zero + n
  <2> SUFFICES ASSUME n < 10
               PROVE  Len(Decimal[n]) = 1 /\ Decimal[n][1] = Zero + n
    OBVIOUS
  <2>1. Decimal[n] = <<Zero + n>>
    BY <1>8
  <2> QED
    BY <2>1
<1>11. ASSUME n >= 10
       PROVE  /\ Len(Decimal[n]) = Len(Decimal[n \div 10]) + 1
              /\ Decimal[n][Len(Decimal[n])] = Zero + (n % 10)
              /\ \A k \in 1..Len(Decimal[n \div 10]) : Decimal[n][k] = Decimal[n \div 10][k]
  <2>1. PICK p, d : p = Decimal[n \div 10] /\ d = Zero + (n % 10)
    OBVIOUS
  <2>2. p \in X /\ d \in Digit
    BY <1>1, <1>9, <2>1
  <2>3. Decimal[n] = Append(p, d)
    <3>1. ~(n < 10)
      BY <1>11
    <3> QED
      BY <1>8, <2>1, <3>1, Zenon
  <2>4. /\ Len(Append(p, d)) = Len(p) + 1 /\ Append(p, d)[Len(p) + 1] = d
        /\ \A k \in 1..Len(p) : Append(p, d)[k] = p[k]
    BY <1>2, <2>2
  <2> HIDE DEF X
  <2> QED
    BY <2>1, <2>3, <2>4
<1>12. Decimal[n] \in Seq(Digit) /\ Len(Decimal[n]) > 0
  BY <1>9
<1> QED
  BY <1>10, <1>11, <1>12

\* Zeros and then the digits of a number.
Padded(ds, z, n) ==
  /\ Len(ds) = z + Len(Decimal[n])
  /\ \A k \in 1..z : ds[k] = Zero
  /\ \A k \in 1..Len(Decimal[n]) : ds[z + k] = Decimal[n][k]

\* A row of zeros is nothing.
LEMMA NothingOfZeros ==
  ASSUME NEW z \in Nat
  PROVE  \A ds \in Seq(Int) : Len(ds) = z /\ (\A k \in 1..z : ds[k] = Zero) => NumberOf(ds) = 0
<1> DEFINE Nothing(ds) == NumberOf(ds) = 0
           S == {n \in Nat : \A ds \in Seq(Int) :
                   Len(ds) = n /\ (\A k \in 1..n : ds[k] = Zero) => Nothing(ds)}
<1>1. 0 \in S
  BY NumberGrows
<1>2. ASSUME NEW n \in Nat, n \in S
      PROVE  n + 1 \in S
  <2>1. ASSUME NEW ds \in Seq(Int), Len(ds) = n + 1, \A k \in 1..(n + 1) : ds[k] = Zero
        PROVE  Nothing(ds)
    <3>1. PICK es : es = SubSeq(ds, 1, n)
      OBVIOUS
    <3>2. es \in Seq(Int) /\ Len(es) = n
      BY <2>1, <3>1
    <3>3. \A k \in 1..n : es[k] = Zero
      BY <2>1, <3>1
    <3>4. NumberOf(es) = 0
      BY <1>2, <3>2, <3>3
    <3>5. NumberOf(ds) = 10 * NumberOf(SubSeq(ds, 1, Len(ds) - 1)) + (ds[Len(ds)] - Zero)
      BY <2>1, NumberGrows
    <3>6. Len(ds) - 1 = n /\ ds[Len(ds)] = Zero
      BY <2>1
    <3>7. NumberOf(ds) = 10 * NumberOf(es) + (Zero - Zero)
      BY <3>1, <3>5, <3>6
    <3> QED
      BY <3>4, <3>7 DEF Zero
  <2> HIDE DEF Nothing
  <2>2. \A ds \in Seq(Int) :
          Len(ds) = n + 1 /\ (\A k \in 1..(n + 1) : ds[k] = Zero) => Nothing(ds)
    BY <2>1
  <2> QED
    BY <2>2
<1>3. \A n \in Nat : n \in S
  <2> HIDE DEF S
  <2> QED
    BY <1>1, <1>2, EveryNumber
<1> QED
  BY <1>3

\* Zeros and the digits of a number are that number.
LEMMA NumberOfPadded ==
  ASSUME NEW n \in Nat
  PROVE  \A ds \in Seq(Int) : \A z \in Nat : Padded(ds, z, n) => NumberOf(ds) = n
<1> DEFINE Is(ds, m) == NumberOf(ds) = m
           S == {m \in Nat : \A ds \in Seq(Int) : \A z \in Nat : Padded(ds, z, m) => Is(ds, m)}
<1>1. ASSUME NEW m \in Nat, \A k \in 0..(m - 1) : k \in S
      PROVE  m \in S
  <2>1. ASSUME NEW ds \in Seq(Int), NEW z \in Nat, Padded(ds, z, m)
        PROVE  Is(ds, m)
    <3>1. PICK l, es : l = Len(Decimal[m]) /\ es = SubSeq(ds, 1, Len(ds) - 1)
      OBVIOUS
    <3>2. /\ l \in Nat /\ l > 0 /\ Len(ds) = z + l
          /\ \A k \in 1..z : ds[k] = Zero
          /\ \A k \in 1..l : ds[z + k] = Decimal[m][k]
      <4>1. l \in Nat /\ l > 0
        BY <3>1, DecimalSteps
      <4> QED
        BY <2>1, <3>1, <4>1 DEF Padded
    <3>3. es \in Seq(Int) /\ Len(es) = z + l - 1 /\ \A k \in 1..(z + l - 1) : es[k] = ds[k]
      <4>1. PICK e : e = z + l - 1
        OBVIOUS
      <4>2. e \in Nat /\ e <= Len(ds) /\ es = SubSeq(ds, 1, e)
        BY <3>1, <3>2, <4>1
      <4>3. SubSeq(ds, 1, e) \in Seq(Int) /\ Len(SubSeq(ds, 1, e)) = e
        BY <4>2
      <4>4. \A k \in 1..e : SubSeq(ds, 1, e)[k] = ds[k]
        BY <4>2
      <4> QED
        BY <4>1, <4>2, <4>3, <4>4
    <3>4. NumberOf(ds) = 10 * NumberOf(es) + (ds[z + l] - Zero)
      <4>1. Len(ds) > 0
        BY <3>2
      <4> QED
        BY <3>1, <3>2, <4>1, NumberGrows
    <3>5. ds[z + l] = Decimal[m][l]
      BY <3>2
    <3>6. CASE m < 10
      <4>1. l = 1 /\ Decimal[m][1] = Zero + m
        BY <3>1, <3>6, DecimalSteps
      <4>2. Len(es) = z /\ \A k \in 1..z : es[k] = Zero
        BY <3>2, <3>3, <4>1
      <4>3. NumberOf(es) = 0
        BY <3>3, <4>2, NothingOfZeros
      <4>4. ds[z + l] = Zero + m
        BY <3>5, <4>1
      <4> QED
        BY <3>4, <4>3, <4>4 DEF Zero
    <3>7. CASE m >= 10
      <4>1. PICK q, r : q = m \div 10 /\ r = m % 10
        OBVIOUS
      <4>2. q \in Nat /\ q \in 0..(m - 1) /\ r \in Int /\ m = 10 * q + r
        BY <3>7, <4>1
      <4>3. /\ l = Len(Decimal[q]) + 1 /\ Decimal[m][l] = Zero + r
            /\ \A k \in 1..Len(Decimal[q]) : Decimal[m][k] = Decimal[q][k]
        BY <3>1, <3>7, <4>1, DecimalSteps
      <4>4. Padded(es, z, q)
        <5>1. PICK d : d = Len(Decimal[q])
          OBVIOUS
        <5>2. d \in Nat /\ d = l - 1
          BY <3>2, <4>3, <5>1
        <5>3. Len(es) = z + d
          BY <3>2, <3>3, <5>2
        <5>4. \A k \in 1..z : es[k] = Zero
          BY <3>2, <3>3
        <5>5. \A k \in 1..d : es[z + k] = Decimal[q][k]
          <6> SUFFICES ASSUME NEW k \in 1..d
                       PROVE  es[z + k] = Decimal[q][k]
            OBVIOUS
          <6>1. z + k \in 1..(z + l - 1) /\ k \in 1..l
            BY <3>2, <5>2
          <6>2. es[z + k] = ds[z + k] /\ ds[z + k] = Decimal[m][k]
            BY <3>2, <3>3, <6>1
          <6> QED
            BY <4>3, <5>1, <6>2
        <5> QED
          BY <5>1, <5>3, <5>4, <5>5 DEF Padded
      <4>5. Is(es, q)
        <5> HIDE DEF Is
        <5> QED
          BY <1>1, <3>3, <4>2, <4>4
      <4>6. NumberOf(ds) = 10 * q + ((Zero + r) - Zero)
        BY <3>4, <3>5, <4>3, <4>5
      <4> QED
        BY <4>2, <4>6 DEF Zero
    <3> QED
      BY <3>6, <3>7
  <2> HIDE DEF Is
  <2> QED
    BY <2>1
<1>2. \A m \in Nat : m \in S
  <2> HIDE DEF S
  <2> QED
    BY <1>1, EveryNumberBySmaller
<1> QED
  BY <1>2

\* Any row of digits is zeros and the digits of its number.
IsPadded(ds) ==
  /\ NumberOf(ds) \in Nat
  /\ \E z \in Nat : Padded(ds, z, NumberOf(ds))

LEMMA PaddedByNumber ==
  ASSUME NEW n \in Nat
  PROVE  \A ds \in Seq(Digit) : Len(ds) = n + 1 => IsPadded(ds)
<1> DEFINE S == {m \in Nat : \A ds \in Seq(Digit) : Len(ds) = m + 1 => IsPadded(ds)}
<1>1. \A ds \in Seq(Digit) : ds \in Seq(Int)
  BY DEF Digit, Zero
<1>2. ASSUME NEW ds \in Seq(Digit), Len(ds) = 1
      PROVE  IsPadded(ds)
  <2>1. ds \in Seq(Int) /\ ds[1] \in Digit /\ SubSeq(ds, 1, 0) = <<>>
    BY <1>1, <1>2
  <2>2. NumberOf(ds) = 10 * NumberOf(SubSeq(ds, 1, Len(ds) - 1)) + (ds[Len(ds)] - Zero)
    <3>1. ds \in Seq(Int) /\ Len(ds) > 0
      BY <1>2, <2>1
    <3> QED
      BY <3>1, NumberGrows
  <2>3. NumberOf(<<>>) = 0
    <3>1. <<>> \in Seq(Int) /\ Len(<<>>) = 0
      OBVIOUS
    <3> QED
      BY <3>1, NumberGrows
  <2>4. PICK d : d = ds[1] - Zero
    OBVIOUS
  <2>5. d \in 0..9 /\ ds[1] = Zero + d
    BY <2>1, <2>4 DEF Digit, Zero
  <2>6. NumberOf(ds) = d
    <3>1. Len(ds) - 1 = 0 /\ SubSeq(ds, 1, Len(ds) - 1) = <<>>
      BY <1>2, <2>1
    <3>2. NumberOf(SubSeq(ds, 1, Len(ds) - 1)) = 0
      BY <2>3, <3>1
    <3>3. ds[Len(ds)] = Zero + d
      BY <1>2, <2>5
    <3> QED
      BY <2>2, <2>5, <3>2, <3>3 DEF Zero
  <2>7. Len(Decimal[d]) = 1 /\ Decimal[d][1] = Zero + d
    BY <2>5, DecimalSteps
  <2>8. Padded(ds, 0, d)
    BY <1>2, <2>5, <2>7 DEF Padded
  <2> QED
    BY <2>5, <2>6, <2>8 DEF IsPadded
<1>3. ASSUME NEW m \in Nat, m \in S
      PROVE  m + 1 \in S
  <2>1. ASSUME NEW ds \in Seq(Digit), Len(ds) = (m + 1) + 1
        PROVE  IsPadded(ds)
    <3>1. PICK es, l : es = SubSeq(ds, 1, m + 1) /\ l = m + 2
      OBVIOUS
    <3>2. /\ es \in Seq(Digit) /\ Len(es) = m + 1 /\ Len(ds) = l /\ l \in Nat
          /\ \A k \in 1..(m + 1) : es[k] = ds[k]
      BY <2>1, <3>1
    <3>3. NumberOf(es) \in Nat /\ \E z \in Nat : Padded(es, z, NumberOf(es))
      BY <1>3, <3>2 DEF IsPadded
    <3>4. PICK q : q = NumberOf(es)
      OBVIOUS
    <3>5. q \in Nat /\ \E z \in Nat : Padded(es, z, q)
      BY <3>3, <3>4
    <3>6. PICK z \in Nat : Padded(es, z, q)
      BY <3>5
    <3>7. PICK d : d = ds[l] - Zero
      OBVIOUS
    <3>8. d \in 0..9 /\ ds[l] = Zero + d
      <4>1. ds[l] \in Digit
        BY <2>1, <3>1
      <4> QED
        BY <3>7, <4>1 DEF Digit, Zero
    <3>9. NumberOf(ds) = 10 * q + d
      <4>1. ds \in Seq(Int) /\ Len(ds) > 0 /\ Len(ds) - 1 = m + 1
        BY <1>1, <2>1
      <4>2. NumberOf(ds) = 10 * NumberOf(SubSeq(ds, 1, Len(ds) - 1)) + (ds[Len(ds)] - Zero)
        BY <4>1, NumberGrows
      <4> QED
        BY <3>1, <3>2, <3>4, <3>7, <4>1, <4>2
    <3>10. PICK n0 : n0 = 10 * q + d
      OBVIOUS
    <3>11. n0 \in Nat
      BY <3>5, <3>8, <3>10
    <3>12. PICK c : c = Len(Decimal[q])
      OBVIOUS
    <3>13. /\ c \in Nat /\ c > 0 /\ Len(es) = z + c
           /\ \A k \in 1..z : es[k] = Zero
           /\ \A k \in 1..c : es[z + k] = Decimal[q][k]
      <4>1. c \in Nat /\ c > 0
        BY <3>5, <3>12, DecimalSteps
      <4> QED
        BY <3>6, <3>12, <4>1 DEF Padded
    <3>14. l = z + c + 1
      BY <3>1, <3>2, <3>13
    <3>15. CASE q = 0
      <4>1. c = 1 /\ Decimal[0][1] = Zero + 0
        BY <3>12, <3>15, DecimalSteps
      <4>2. n0 < 10 /\ n0 = d
        BY <3>8, <3>10, <3>15
      <4>3. Len(Decimal[n0]) = 1 /\ Decimal[n0][1] = Zero + d
        BY <3>11, <4>2, DecimalSteps
      <4>4. PICK y : y = z + 1
        OBVIOUS
      <4>5. y \in Nat /\ l = y + 1 /\ y = m + 1
        BY <3>1, <3>14, <4>1, <4>4
      <4>6. \A k \in 1..y : ds[k] = Zero
        <5> SUFFICES ASSUME NEW k \in 1..y
                     PROVE  ds[k] = Zero
          OBVIOUS
        <5>1. ds[k] = es[k]
          BY <3>2, <4>5
        <5>2. CASE k \in 1..z
          BY <3>13, <5>1, <5>2
        <5>3. CASE k = z + 1
          <6>1. es[z + 1] = Decimal[0][1]
            BY <3>13, <3>15, <4>1
          <6> QED
            BY <4>1, <5>1, <5>3, <6>1 DEF Zero
        <5> QED
          BY <4>4, <5>2, <5>3
      <4>7. ds[y + 1] = Decimal[n0][1]
        BY <3>8, <4>3, <4>5
      <4>8. Padded(ds, y, n0)
        BY <3>2, <4>3, <4>5, <4>6, <4>7 DEF Padded
      <4> QED
        BY <3>9, <3>10, <3>11, <4>5, <4>8 DEF IsPadded
    <3>16. CASE q # 0
      <4>1. n0 >= 10 /\ n0 \div 10 = q /\ n0 % 10 = d
        BY <3>5, <3>8, <3>10, <3>16
      <4>2. /\ Len(Decimal[n0]) = c + 1
            /\ Decimal[n0][c + 1] = Zero + d
            /\ \A k \in 1..c : Decimal[n0][k] = Decimal[q][k]
        <5>1. Len(Decimal[n0]) = Len(Decimal[q]) + 1
          BY <3>11, <4>1, DecimalSteps
        <5>2. Decimal[n0][Len(Decimal[n0])] = Zero + d
          BY <3>11, <4>1, DecimalSteps
        <5>3. \A k \in 1..Len(Decimal[q]) : Decimal[n0][k] = Decimal[q][k]
          BY <3>11, <4>1, DecimalSteps
        <5> QED
          BY <3>12, <5>1, <5>2, <5>3
      <4>3. \A k \in 1..z : ds[k] = Zero
        BY <3>1, <3>2, <3>13, <3>14
      <4>4. \A k \in 1..(c + 1) : ds[z + k] = Decimal[n0][k]
        <5> SUFFICES ASSUME NEW k \in 1..(c + 1)
                     PROVE  ds[z + k] = Decimal[n0][k]
          OBVIOUS
        <5>1. CASE k \in 1..c
          <6>1. z + k \in 1..(m + 1)
            BY <3>1, <3>13, <3>14, <5>1
          <6> QED
            BY <3>2, <3>13, <4>2, <5>1, <6>1
        <5>2. CASE k = c + 1
          <6>1. z + k = l
            BY <3>13, <3>14, <5>2
          <6> QED
            BY <3>8, <4>2, <5>2, <6>1
        <5> QED
          BY <3>13, <5>1, <5>2
      <4>5. Len(ds) = z + (c + 1)
        BY <3>2, <3>13, <3>14
      <4>6. Padded(ds, z, n0)
        BY <4>2, <4>3, <4>4, <4>5 DEF Padded
      <4> QED
        BY <3>9, <3>10, <3>11, <4>6 DEF IsPadded
    <3> QED
      BY <3>15, <3>16
  <2> QED
    BY <2>1
<1>4. \A m \in Nat : m \in S
  <2>1. 0 \in S
    BY <1>2
  <2> HIDE DEF S
  <2> QED
    BY <1>3, <2>1, EveryNumber
<1> QED
  BY <1>4

-----------------------------------------------------------------------------
(***************************************************************************)
(* What std::stoll reads.                                                  *)
(***************************************************************************)

\* Where the characters of a kind that stand from low on come to an end.
Stops(input, low, S, i) ==
  /\ i \in low..(Len(input) + 1)
  /\ \A j \in low..(i - 1) : input[j] \in S
  /\ i <= Len(input) => input[i] \notin S

\* There is one such place.
LEMMA StopsOnce ==
  ASSUME NEW input \in Seq(Nat), NEW low \in 1..(Len(input) + 1), NEW S
  PROVE  /\ \E i : Stops(input, low, S, i)
         /\ \A i, j : Stops(input, low, S, i) /\ Stops(input, low, S, j) => i = j
<1> DEFINE Others == {i \in low..Len(input) : input[i] \notin S}
<1>1. Len(input) \in Nat /\ low \in Nat
  OBVIOUS
<1>2. \E i : Stops(input, low, S, i)
  <2>1. CASE Others = {}
    <3>1. Stops(input, low, S, Len(input) + 1)
      BY <1>1, <2>1 DEF Stops
    <3> QED
      BY <3>1
  <2>2. CASE Others # {}
    <3>1. Others \in SUBSET Nat
      BY <1>1
    <3>2. PICK m : m \in Others /\ \A x \in Others : m <= x
      BY <2>2, <3>1, Least
    <3>3. Stops(input, low, S, m)
      BY <1>1, <3>2 DEF Stops
    <3> QED
      BY <3>3
  <2> QED
    BY <2>1, <2>2
<1>3. ASSUME NEW i, NEW j, Stops(input, low, S, i), Stops(input, low, S, j)
      PROVE  i = j
  <2>1. i \in Nat /\ j \in Nat
    BY <1>1, <1>3 DEF Stops
  <2>2. ~(i < j) /\ ~(j < i)
    BY <1>1, <1>3, <2>1 DEF Stops
  <2> QED
    BY <2>1, <2>2
<1> QED
  BY <1>2, <1>3

\* The parts that are read: blanks up to begin, perhaps a sign, and digits from
\* first up to end.
IsBegin(input, begin) == Stops(input, 1, Blank, begin)

First(input, begin) == IF Signed(input, begin) THEN begin + 1 ELSE begin

IsReadUpTo(input, begin, end) ==
  IsBegin(input, begin) /\ Stops(input, First(input, begin), Digit, end)

SignedNumber(input, begin, number) ==
  IF Signed(input, begin) /\ input[begin] = Minus THEN -number ELSE number

\* Stoll is what these parts give.
LEMMA StollReads ==
  ASSUME NEW input \in Seq(Nat)
  PROVE  /\ \E begin, end : IsReadUpTo(input, begin, end)
         /\ \A begin, end : IsReadUpTo(input, begin, end) =>
              /\ Stoll(input).digits = end - First(input, begin)
              /\ Stoll(input).pos = end - 1
              /\ Stoll(input).value =
                   SignedNumber(input, begin, NumberOf(SubSeq(input, First(input, begin), end - 1)))
<1> DEFINE begins(i) == i \in 1..(Len(input) + 1) /\
                          (/\ \A j \in 1..(i - 1) : input[j] \in Blank
                           /\ i <= Len(input) => input[i] \notin Blank)
           ends(low, i) == i \in low..(Len(input) + 1) /\
                             (/\ \A j \in low..(i - 1) : IsDigit(input[j])
                              /\ i <= Len(input) => ~IsDigit(input[i]))
           begin0 == CHOOSE i : begins(i)
           first0 == First(input, begin0)
           end0 == CHOOSE i : ends(first0, i)
<1>1. Len(input) \in Nat /\ 1 \in 1..(Len(input) + 1)
  OBVIOUS
<1>2. \A i : begins(i) <=> IsBegin(input, i)
  BY DEF IsBegin, Stops
<1>3. IsBegin(input, begin0)
  <2>1. \E i : IsBegin(input, i)
    BY <1>1, StopsOnce DEF IsBegin
  <2>2. \E i : begins(i)
    BY <1>2, <2>1
  <2>3. begins(begin0)
    <3> HIDE DEF begins
    <3> QED
      BY <2>2
  <2> HIDE DEF begins, begin0
  <2> QED
    BY <1>2, <2>3
<1>4. \A low, i : ends(low, i) <=> Stops(input, low, Digit, i)
  BY DEF Stops, IsDigit, Digit
<1>5. \A begin : IsBegin(input, begin) => First(input, begin) \in 1..(Len(input) + 1)
  BY <1>1 DEF IsBegin, Stops, First, Signed
<1>6. Stops(input, first0, Digit, end0)
  <2>1. first0 \in 1..(Len(input) + 1)
    <3> HIDE DEF begin0
    <3> QED
      BY <1>3, <1>5
  <2> HIDE DEF first0
  <2>2. \E i : Stops(input, first0, Digit, i)
    BY <2>1, StopsOnce
  <2>3. \E i : ends(first0, i)
    <3> HIDE DEF ends
    <3> QED
      BY <1>4, <2>2
  <2>4. ends(first0, end0)
    <3> HIDE DEF ends
    <3> QED
      BY <2>3
  <2> HIDE DEF ends, end0
  <2> QED
    BY <1>4, <2>4
<1>7. Stoll(input) =
        [digits |-> end0 - first0, pos |-> end0 - 1,
         value |-> SignedNumber(input, begin0, NumberOf(SubSeq(input, first0, end0 - 1)))]
  BY DEF Stoll, First, SignedNumber
<1> HIDE DEF begin0, end0
<1>8. IsReadUpTo(input, begin0, end0)
  BY <1>3, <1>6 DEF IsReadUpTo
<1>9. ASSUME NEW begin, NEW end, IsReadUpTo(input, begin, end)
      PROVE  begin = begin0 /\ end = end0
  <2>1. begin = begin0
    BY <1>1, <1>3, <1>9, StopsOnce DEF IsReadUpTo, IsBegin
  <2>2. first0 \in 1..(Len(input) + 1)
    BY <1>3, <1>5
  <2>3. Stops(input, first0, Digit, end)
    BY <1>9, <2>1 DEF IsReadUpTo
  <2> HIDE DEF first0
  <2> QED
    BY <1>6, <2>1, <2>2, <2>3, StopsOnce
<1> QED
  BY <1>7, <1>8, <1>9

-----------------------------------------------------------------------------
(***************************************************************************)
(* What is read is what is written.                                        *)
(***************************************************************************)

SomeSigns == {<<>>, <<Plus>>, <<Minus>>}

\* Blanks, perhaps a sign, zeros, and digits, place by place.
Laid(input, b, sign, z, d) ==
  /\ Len(input) = b + Len(sign) + z + Len(d)
  /\ \A i \in 1..b : input[i] \in Blank
  /\ Len(sign) = 1 => input[b + 1] = sign[1]
  /\ \A i \in 1..z : input[b + Len(sign) + i] = Zero
  /\ \A i \in 1..Len(d) : input[b + Len(sign) + z + i] = d[i]

\* One text and then another.
Joins(w, s, t) ==
  /\ w \in Seq(Nat) /\ Len(w) = Len(s) + Len(t)
  /\ \A i \in 1..Len(s) : w[i] = s[i]
  /\ \A i \in 1..Len(t) : w[Len(s) + i] = t[i]

LEMMA Joined ==
  ASSUME NEW s \in Seq(Nat), NEW t \in Seq(Nat)
  PROVE  Joins(s \o t, s, t)
<1>1. s \o t \in Seq(Nat) /\ Len(s \o t) = Len(s) + Len(t)
  OBVIOUS
<1>2. \A i \in 1..Len(s) : (s \o t)[i] = s[i]
  OBVIOUS
<1>3. \A i \in 1..Len(t) : (s \o t)[Len(s) + i] = t[i]
  OBVIOUS
<1> QED
  BY <1>1, <1>2, <1>3 DEF Joins

\* That is their concatenation.
LEMMA ConcatenationLaid ==
  ASSUME NEW bs \in Seq(Blank), NEW b, b = Len(bs),
         NEW zs \in Seq({Zero}), NEW z, z = Len(zs), NEW sign \in SomeSigns,
         NEW d, d \in Seq(Digit)
  PROVE  LET text == bs \o sign \o zs \o d
         IN  /\ text \in Seq(Nat) /\ Laid(text, b, sign, z, d)
             /\ \A i \in 1..b : text[i] = bs[i]
<1>1. b \in Nat /\ bs \in Seq(Nat) /\ Len(bs) = b /\ \A i \in 1..b : bs[i] \in Blank
  <2>1. b \in Nat /\ bs \in [1..b -> Blank]
    OBVIOUS
  <2>2. Blank \subseteq Nat
    BY DEF Blank
  <2>3. bs \in [1..b -> Nat]
    BY ONLY <2>1, <2>2
  <2> QED
    BY ONLY <2>1, <2>3
<1>2. z \in Nat /\ zs \in Seq(Nat) /\ Len(zs) = z /\ \A i \in 1..z : zs[i] = Zero
  <2>1. z \in Nat /\ zs \in [1..z -> {Zero}]
    OBVIOUS
  <2>2. Zero \in Nat
    BY DEF Zero
  <2>3. zs \in [1..z -> Nat]
    BY ONLY <2>1, <2>2
  <2> QED
    BY ONLY <2>1, <2>3
<1>3. sign \in Seq(Nat) /\ Len(sign) \in 0..1
  <2>1. <<Plus>> \in Seq(Nat) /\ <<Minus>> \in Seq(Nat) /\ <<>> \in Seq(Nat)
    BY DEF Plus, Minus
  <2>2. Len(<<Plus>>) = 1 /\ Len(<<Minus>>) = 1 /\ Len(<<>>) = 0
    OBVIOUS
  <2>3. sign = <<>> \/ sign = <<Plus>> \/ sign = <<Minus>>
    BY DEF SomeSigns
  <2>4. sign \in Seq(Nat)
    BY <2>1, <2>3, Zenon
  <2>5. Len(sign) = 0 \/ Len(sign) = 1
    BY <2>2, <2>3, Zenon
  <2> QED
    BY <2>4, <2>5
<1>4. d \in Seq(Nat) /\ Len(d) \in Nat
  <2>1. Digit \subseteq Nat
    BY DEF Digit, Zero
  <2>2. d \in Seq(Digit)
    OBVIOUS
  <2>3. Len(d) \in Nat /\ d \in [1..Len(d) -> Digit]
    BY ONLY <2>2
  <2>4. d \in [1..Len(d) -> Nat]
    BY ONLY <2>1, <2>3
  <2> QED
    BY ONLY <2>3, <2>4
<1>5. PICK l : l = Len(sign)
  OBVIOUS
<1>6. PICK s : s = bs \o sign /\ Joins(s, bs, sign)
  BY <1>1, <1>3, Joined
<1>7. /\ s \in Seq(Nat) /\ Len(s) = b + l
      /\ \A i \in 1..b : s[i] = bs[i]
      /\ l = 1 => s[b + 1] = sign[1]
  <2>1. Len(bs) = b /\ Len(sign) = l /\ l \in 0..1
    BY <1>1, <1>3, <1>5
  <2>2. s \in Seq(Nat) /\ Len(s) = b + l
    BY <1>6, <2>1 DEF Joins
  <2>3. \A i \in 1..b : s[i] = bs[i]
    BY <1>1, <1>6, <2>1 DEF Joins
  <2>4. l = 1 => s[b + 1] = sign[1]
    BY <1>6, <2>1 DEF Joins
  <2> QED
    BY <2>2, <2>3, <2>4
<1>8. PICK t : t = s \o zs /\ Joins(t, s, zs)
  BY <1>2, <1>7, Joined
<1>9. /\ t \in Seq(Nat) /\ Len(t) = b + l + z
      /\ \A i \in 1..(b + l) : t[i] = s[i]
      /\ \A i \in 1..z : t[b + l + i] = Zero
  BY <1>2, <1>3, <1>5, <1>7, <1>8 DEF Joins
<1>10. PICK w : w = t \o d /\ Joins(w, t, d)
  BY <1>4, <1>9, Joined
<1>11. /\ w \in Seq(Nat) /\ Len(w) = b + l + z + Len(d)
       /\ \A i \in 1..(b + l + z) : w[i] = t[i]
       /\ \A i \in 1..Len(d) : w[b + l + z + i] = d[i]
  BY <1>3, <1>4, <1>5, <1>9, <1>10 DEF Joins
<1>12. \A i \in 1..b : w[i] = bs[i]
  <2> SUFFICES ASSUME NEW i \in 1..b
               PROVE  w[i] = bs[i]
    OBVIOUS
  <2>1. i \in 1..(b + l) /\ i \in 1..(b + l + z)
    BY <1>3, <1>5
  <2>2. w[i] = t[i] /\ t[i] = s[i] /\ s[i] = bs[i]
    BY <1>7, <1>9, <1>11, <2>1
  <2> QED
    BY <2>2
<1>13. l = 1 => w[b + 1] = sign[1]
  <2> SUFFICES ASSUME l = 1
               PROVE  w[b + 1] = sign[1]
    OBVIOUS
  <2>1. b + 1 \in 1..(b + l) /\ b + 1 \in 1..(b + l + z)
    OBVIOUS
  <2>2. w[b + 1] = t[b + 1] /\ t[b + 1] = s[b + 1] /\ s[b + 1] = sign[1]
    BY <1>7, <1>9, <1>11, <2>1
  <2> QED
    BY <2>2
<1>14. \A i \in 1..z : w[b + l + i] = Zero
  <2> SUFFICES ASSUME NEW i \in 1..z
               PROVE  w[b + l + i] = Zero
    OBVIOUS
  <2>1. b + l + i \in 1..(b + l + z)
    BY <1>3, <1>5
  <2>2. w[b + l + i] = t[b + l + i] /\ t[b + l + i] = Zero
    BY <1>9, <1>11, <2>1
  <2> QED
    BY <2>2
<1>15. Laid(w, b, sign, z, d)
  BY <1>1, <1>5, <1>11, <1>12, <1>13, <1>14 DEF Laid
<1> QED
  BY <1>6, <1>8, <1>10, <1>11, <1>12, <1>15

\* And it determines the text, but for the blanks.
LEMMA LaidSame ==
  ASSUME NEW s \in Seq(Nat), NEW t \in Seq(Nat), NEW b \in Nat, NEW z \in Nat,
         NEW sign \in SomeSigns, NEW d, d \in Seq(Digit),
         Laid(s, b, sign, z, d), Laid(t, b, sign, z, d),
         \A i \in 1..b : s[i] = t[i]
  PROVE  s = t
<1>1. PICK l, c : l = Len(sign) /\ c = Len(d)
  OBVIOUS
<1>2. l \in 0..1 /\ c \in Nat
  BY <1>1 DEF SomeSigns
<1>3. /\ Len(s) = b + l + z + c /\ Len(t) = b + l + z + c
      /\ \A i \in 1..b : s[i] = t[i]
      /\ l = 1 => s[b + 1] = t[b + 1]
      /\ \A i \in 1..z : s[b + l + i] = t[b + l + i]
      /\ \A i \in 1..c : s[b + l + z + i] = t[b + l + z + i]
  BY <1>1 DEF Laid
<1>4. ASSUME NEW k \in 1..(b + l + z + c)
      PROVE  s[k] = t[k]
  <2>1. CASE k <= b
    BY <1>3, <2>1
  <2>2. CASE k = b + 1 /\ l = 1
    BY <1>3, <2>2
  <2>3. CASE k > b + l /\ k <= b + l + z
    <3>1. PICK i : i = k - (b + l)
      OBVIOUS
    <3>2. i \in 1..z /\ k = b + l + i
      BY <1>2, <2>3, <3>1
    <3> QED
      BY <1>3, <3>2
  <2>4. CASE k > b + l + z
    <3>1. PICK i : i = k - (b + l + z)
      OBVIOUS
    <3>2. i \in 1..c /\ k = b + l + z + i
      BY <1>2, <2>4, <3>1
    <3> QED
      BY <1>3, <3>2
  <2> QED
    BY <1>2, <2>1, <2>2, <2>3, <2>4
<1> QED
  BY <1>3, <1>4, SeqEqual

\* The signs a number may be written with.
SignOf(sign, v) ==
  \/ v < 0 /\ sign = <<Minus>>
  \/ v >= 0 /\ (sign = <<>> \/ sign = <<Plus>>)
  \/ v = 0 /\ sign = <<Minus>>

\* So a text writes a number if it is laid out with its digits.
LEMMA WritesLaid ==
  ASSUME NEW input \in Seq(Nat), NEW v \in Int
  PROVE  Writes(input, v) <=>
           \E b, z \in 0..Len(input) : \E sign \in SomeSigns :
             SignOf(sign, v) /\ Laid(input, b, sign, z, Decimal[Abs(v)])
<1> DEFINE blank(b) == \A i \in 1..b : input[i] \in Blank
           whole(b, sign, z) ==
             SubSeq(input, 1, b) \o sign \o [i \in 1..z |-> Zero] \o Decimal[Abs(v)]
           signs == IF v < 0 THEN {<<Minus>>}
                    ELSE {<<>>, <<Plus>>} \cup (IF v = 0 THEN {<<Minus>>} ELSE {})
<1>1. Abs(v) \in Nat
  BY DEF Abs
<1>2. Decimal[Abs(v)] \in Seq(Digit)
  BY <1>1, DecimalSteps
<1>3. \A sign : sign \in signs <=> sign \in SomeSigns /\ SignOf(sign, v)
  <2>1. CASE v < 0
    <3>1. ~(v >= 0) /\ v # 0
      BY <2>1
    <3> QED
      BY <2>1, <3>1, Zenon DEF SomeSigns, SignOf
  <2>2. CASE v = 0
    <3>1. ~(v < 0) /\ v >= 0
      BY <2>2
    <3> QED
      BY <2>2, <3>1, Zenon DEF SomeSigns, SignOf
  <2>3. CASE v > 0
    <3>1. ~(v < 0) /\ v # 0 /\ v >= 0
      BY <2>3
    <3> QED
      BY <3>1, Zenon DEF SomeSigns, SignOf
  <2> QED
    BY <2>1, <2>2, <2>3
<1>4. Writes(input, v) <=>
        \E b, z \in 0..Len(input) : \E sign \in signs : blank(b) /\ input = whole(b, sign, z)
  BY Zenon DEF Writes
<1>5. ASSUME NEW b \in 0..Len(input), NEW z \in 0..Len(input), NEW sign \in SomeSigns
      PROVE  blank(b) /\ input = whole(b, sign, z) <=> Laid(input, b, sign, z, Decimal[Abs(v)])
  <2>1. Laid(input, b, sign, z, Decimal[Abs(v)]) => blank(b)
    BY DEF Laid
  <2>2. ASSUME blank(b)
        PROVE  input = whole(b, sign, z) <=> Laid(input, b, sign, z, Decimal[Abs(v)])
    <3>1. PICK bs : bs = SubSeq(input, 1, b)
      OBVIOUS
    <3>2. /\ bs \in Seq(Nat) /\ Len(bs) = b /\ b \in Nat /\ z \in Nat
          /\ \A i \in 1..b : bs[i] = input[i]
      BY <3>1
    <3>3. bs \in Seq(Blank) /\ b = Len(bs)
      <4>1. bs \in [1..b -> Blank]
        BY <2>2, <3>2
      <4> QED
        BY <3>2, <4>1
    <3>4. PICK d : d = Decimal[Abs(v)]
      OBVIOUS
    <3>5. PICK w : w = whole(b, sign, z)
      OBVIOUS
    <3>6. PICK zs : zs = [i \in 1..z |-> Zero]
      OBVIOUS
    <3>7. zs \in Seq({Zero}) /\ z = Len(zs)
      BY <3>2, <3>6
    <3>8. w = bs \o sign \o zs \o d
      BY <3>1, <3>4, <3>5, <3>6
    <3>9. d \in Seq(Digit)
      BY <1>2, <3>4
    <3>10. w \in Seq(Nat) /\ Laid(w, b, sign, z, d) /\ \A i \in 1..b : w[i] = bs[i]
      <4>1. bs \o sign \o zs \o d \in Seq(Nat)
        BY ONLY <3>3, <3>7, <3>9, sign \in SomeSigns, ConcatenationLaid
      <4>2. Laid(bs \o sign \o zs \o d, b, sign, z, d)
        BY ONLY <3>3, <3>7, <3>9, sign \in SomeSigns, ConcatenationLaid
      <4>3. \A i \in 1..b : (bs \o sign \o zs \o d)[i] = bs[i]
        BY ONLY <3>3, <3>7, <3>9, sign \in SomeSigns, ConcatenationLaid
      <4> QED
        BY ONLY <3>8, <4>1, <4>2, <4>3, Zenon
    <3>11. \A i \in 1..b : input[i] = w[i]
      BY <3>2, <3>10
    <3>12. Laid(input, b, sign, z, d) => input = w
      BY ONLY <3>2, <3>9, <3>10, <3>11, input \in Seq(Nat), sign \in SomeSigns, LaidSame
    <3> QED
      BY <3>4, <3>5, <3>10, <3>12
  <2> QED
    BY <2>1, <2>2
<1> HIDE DEF blank, whole, signs
<1>6. ASSUME Writes(input, v)
      PROVE  \E b, z \in 0..Len(input) : \E sign \in SomeSigns :
               SignOf(sign, v) /\ Laid(input, b, sign, z, Decimal[Abs(v)])
  <2>1. PICK b \in 0..Len(input), z \in 0..Len(input), sign \in signs :
          blank(b) /\ input = whole(b, sign, z)
    BY <1>4, <1>6
  <2>2. sign \in SomeSigns /\ SignOf(sign, v)
    BY <1>3
  <2>3. Laid(input, b, sign, z, Decimal[Abs(v)])
    BY <1>5, <2>1, <2>2
  <2> QED
    BY <2>2, <2>3
<1>7. ASSUME NEW b \in 0..Len(input), NEW z \in 0..Len(input), NEW sign \in SomeSigns,
             SignOf(sign, v), Laid(input, b, sign, z, Decimal[Abs(v)])
      PROVE  Writes(input, v)
  <2>1. sign \in signs /\ blank(b) /\ input = whole(b, sign, z)
    BY <1>3, <1>5, <1>7
  <2> QED
    BY <1>4, <2>1
<1> QED
  BY <1>6, <1>7

\* A text that writes a number is read to its end, and as that number.
LEMMA WrittenIsRead ==
  ASSUME NEW input \in Seq(Nat), NEW v \in Int, Writes(input, v)
  PROVE  Stoll(input).digits # 0 /\ Stoll(input).pos = Len(input) /\ Stoll(input).value = v
<1>1. PICK b \in 0..Len(input), z \in 0..Len(input), sign \in SomeSigns :
        SignOf(sign, v) /\ Laid(input, b, sign, z, Decimal[Abs(v)])
  BY WritesLaid
<1>2. PICK n, l, c, L : n = Abs(v) /\ l = Len(sign) /\ c = Len(Decimal[n]) /\ L = Len(input)
  OBVIOUS
<1>3. n \in Nat /\ b \in Nat /\ z \in Nat /\ L \in Nat
  BY <1>2 DEF Abs
<1>4. Decimal[n] \in Seq(Digit) /\ c \in Nat /\ c > 0 /\ \A i \in 1..c : Decimal[n][i] \in Digit
  BY <1>2, <1>3, DecimalSteps
<1>5. /\ \/ l = 0 /\ sign = <<>>
         \/ l = 1 /\ sign[1] = Plus /\ sign = <<Plus>>
         \/ l = 1 /\ sign[1] = Minus /\ sign = <<Minus>>
      /\ l \in 0..1
  <2>1. Len(<<Plus>>) = 1 /\ Len(<<Minus>>) = 1 /\ Len(<<>>) = 0
    OBVIOUS
  <2>2. <<Plus>>[1] = Plus /\ <<Minus>>[1] = Minus
    OBVIOUS
  <2>3. \/ l = 0 /\ sign = <<>>
        \/ l = 1 /\ sign[1] = Plus /\ sign = <<Plus>>
        \/ l = 1 /\ sign[1] = Minus /\ sign = <<Minus>>
    BY <1>2, <2>1, <2>2, Zenon DEF SomeSigns
  <2> QED
    BY <2>3
<1>6. /\ L = b + l + z + c
      /\ \A i \in 1..b : input[i] \in Blank
      /\ l = 1 => input[b + 1] = sign[1]
      /\ \A i \in 1..z : input[b + l + i] = Zero
      /\ \A i \in 1..c : input[b + l + z + i] = Decimal[n][i]
  BY <1>1, <1>2 DEF Laid
<1>7. PICK first : first = b + 1 + l
  OBVIOUS
\* After the sign there are digits only, ...
<1>8. \A j \in first..L : input[j] \in Digit
  <2> SUFFICES ASSUME NEW j \in first..L
               PROVE  input[j] \in Digit
    OBVIOUS
  <2>1. CASE j <= b + l + z
    <3>1. PICK i : i = j - (b + l)
      OBVIOUS
    <3>2. i \in 1..z /\ j = b + l + i
      BY <1>3, <1>5, <1>7, <2>1, <3>1
    <3> QED
      BY <1>6, <3>2 DEF Digit, Zero
  <2>2. CASE j > b + l + z
    <3>1. PICK i : i = j - (b + l + z)
      OBVIOUS
    <3>2. i \in 1..c /\ j = b + l + z + i
      BY <1>3, <1>4, <1>5, <1>6, <1>7, <2>2, <3>1
    <3> QED
      BY <1>4, <1>6, <3>2
  <2> QED
    BY <1>3, <1>5, <1>7, <2>1, <2>2
<1>9. first \in 1..L /\ b + 1 \in 1..L
  BY <1>3, <1>4, <1>5, <1>6, <1>7
\* ... and it is read in these parts.
<1>10. IsBegin(input, b + 1)
  <2>1. input[b + 1] \notin Blank
    <3>1. CASE l = 0
      <4>1. b + 1 \in first..L
        BY <1>3, <1>7, <1>9, <3>1
      <4>2. input[b + 1] \in Digit
        BY <1>8, <4>1
      <4> QED
        <5>1. input[b + 1] \in 48..57
          BY <4>2 DEF Digit, Zero
        <5>2. \A x \in 48..57 : x \notin 9..13 /\ x # 32
          OBVIOUS
        <5> QED
          BY <5>1, <5>2, Zenon DEF Blank
    <3>2. CASE l = 1
      BY <1>5, <1>6, <3>2 DEF Plus, Minus, Blank
    <3> QED
      BY <1>5, <3>1, <3>2
  <2>2. b + 1 \in 1..(Len(input) + 1) /\ \A i \in 1..((b + 1) - 1) : input[i] \in Blank
    <3>1. b + 1 \in 1..(Len(input) + 1) /\ (b + 1) - 1 = b
      BY <1>2, <1>3, <1>9
    <3>2. \A i \in 1..b : input[i] \in Blank
      BY <1>6
    <3> QED
      BY <3>1, <3>2
  <2> QED
    BY <2>1, <2>2 DEF IsBegin, Stops
<1>11. Signed(input, b + 1) <=> l = 1
  <2>1. CASE l = 0
    <3>1. input[b + 1] \in Digit
      BY <1>3, <1>7, <1>8, <1>9, <2>1
    <3> QED
      BY <2>1, <3>1 DEF Signed, Digit, Zero, Plus, Minus
  <2>2. CASE l = 1
    <3>1. input[b + 1] = Plus \/ input[b + 1] = Minus
      BY <1>5, <1>6, <2>2
    <3>2. b + 1 <= Len(input)
      BY <1>2, <1>9
    <3> QED
      BY <2>2, <3>1, <3>2 DEF Signed
  <2> QED
    BY <1>5, <2>1, <2>2
<1>12. First(input, b + 1) = first
  BY <1>3, <1>5, <1>7, <1>11 DEF First
<1>13. IsReadUpTo(input, b + 1, L + 1)
  <2>1. Stops(input, first, Digit, L + 1)
    BY <1>2, <1>3, <1>8, <1>9 DEF Stops
  <2> QED
    BY <1>10, <1>12, <2>1 DEF IsReadUpTo
<1>14. PICK row : row = SubSeq(input, first, L)
  OBVIOUS
<1>15. /\ row \in Seq(Int) /\ Len(row) = z + c
       /\ \A k \in 1..(z + c) : row[k] = input[b + l + k]
  <2>1. first \in Int /\ L \in Int /\ first <= L /\ L - first + 1 = z + c
    BY <1>3, <1>4, <1>5, <1>6, <1>7, <1>9
  <2>2. \A k \in first..L : input[k] \in Int
    BY <1>2, <1>9
  <2>3. /\ row \in Seq(Int) /\ Len(row) = L - first + 1
        /\ \A k \in 1..(L - first + 1) : row[k] = input[first + k - 1]
    BY <1>14, <2>1, <2>2, SubSeqProperties
  <2>4. \A k \in 1..(z + c) : first + k - 1 = b + l + k
    BY <1>3, <1>4, <1>5, <1>7
  <2> QED
    BY <2>1, <2>3, <2>4
<1>16. Padded(row, z, n)
  <2>1. \A k \in 1..z : row[k] = Zero
    <3>1. \A k \in 1..z : k \in 1..(z + c)
      BY <1>3, <1>4
    <3> QED
      BY <1>6, <1>15, <3>1
  <2>2. \A k \in 1..c : row[z + k] = Decimal[n][k]
    <3> SUFFICES ASSUME NEW k \in 1..c
                 PROVE  row[z + k] = Decimal[n][k]
      OBVIOUS
    <3>1. z + k \in 1..(z + c) /\ b + l + (z + k) = b + l + z + k
      BY <1>3, <1>4, <1>5
    <3> QED
      BY <1>6, <1>15, <3>1
  <2> QED
    BY <1>2, <1>15, <2>1, <2>2 DEF Padded
<1>17. NumberOf(row) = n
  BY <1>3, <1>15, <1>16, NumberOfPadded
<1>18. /\ Stoll(input).digits = (L + 1) - first /\ Stoll(input).pos = (L + 1) - 1
       /\ Stoll(input).value = SignedNumber(input, b + 1, NumberOf(SubSeq(input, first, (L + 1) - 1)))
  BY <1>12, <1>13, StollReads
<1>19. Stoll(input).value = SignedNumber(input, b + 1, n)
  <2>1. (L + 1) - 1 = L
    BY <1>3
  <2> QED
    BY <1>14, <1>17, <1>18, <2>1
<1>20. SignedNumber(input, b + 1, n) = v
  <2>1. (Signed(input, b + 1) /\ input[b + 1] = Minus) <=> sign = <<Minus>>
    <3>1. <<Plus>> # <<Minus>> /\ <<>> # <<Minus>>
      BY DEF Plus, Minus
    <3>2. Plus # Minus
      BY DEF Plus, Minus
    <3>3. CASE l = 0
      <4>1. ~Signed(input, b + 1) /\ sign = <<>>
        BY <1>5, <1>11, <3>3
      <4> QED
        BY <3>1, <4>1
    <3>4. CASE l = 1
      <4>1. Signed(input, b + 1) /\ input[b + 1] = sign[1] /\ sign # <<>>
        BY <1>5, <1>6, <1>11, <3>4
      <4>2. (sign[1] = Minus) <=> (sign = <<Minus>>)
        <5>1. \/ sign[1] = Plus /\ sign = <<Plus>>
              \/ sign[1] = Minus /\ sign = <<Minus>>
          BY <1>5, <3>4
        <5> QED
          BY <3>1, <3>2, <5>1, Zenon
      <4> QED
        BY <4>1, <4>2
    <3> QED
      BY <1>5, <3>3, <3>4
  <2>2. CASE v < 0
    <3>1. sign = <<Minus>> /\ n = -v
      BY <1>1, <1>2, <2>2 DEF SignOf, Abs
    <3> QED
      BY <2>1, <3>1 DEF SignedNumber
  <2>3. CASE v = 0
    <3>1. n = 0
      BY <1>2, <2>3 DEF Abs
    <3>2. SignedNumber(input, b + 1, n) = -n \/ SignedNumber(input, b + 1, n) = n
      BY DEF SignedNumber
    <3> QED
      BY <2>3, <3>1, <3>2
  <2>4. CASE v > 0
    <3>1. n = v /\ v >= 0 /\ ~(v < 0) /\ v # 0
      BY <1>2, <2>4 DEF Abs
    <3>2. sign = <<>> \/ sign = <<Plus>>
      BY <1>1, <3>1 DEF SignOf
    <3>3. <<Plus>> # <<Minus>> /\ <<>> # <<Minus>>
      BY DEF Plus, Minus
    <3>4. sign # <<Minus>>
      BY <3>2, <3>3
    <3> QED
      BY <2>1, <3>1, <3>4 DEF SignedNumber
  <2> QED
    BY <2>2, <2>3, <2>4
<1> QED
  BY <1>2, <1>3, <1>9, <1>18, <1>19, <1>20

\* A text that is read to its end, and has digits, writes the number that was read.
LEMMA ReadIsWritten ==
  ASSUME NEW input \in Seq(Nat), Stoll(input).digits # 0, Stoll(input).pos = Len(input)
  PROVE  Stoll(input).value \in Int /\ Writes(input, Stoll(input).value)
<1>1. PICK begin, end : IsReadUpTo(input, begin, end)
  BY StollReads
<1>2. PICK first, row, L : first = First(input, begin) /\ row = SubSeq(input, first, end - 1)
                           /\ L = Len(input)
  OBVIOUS
<1>3. /\ Stoll(input).digits = end - first /\ Stoll(input).pos = end - 1
      /\ Stoll(input).value = SignedNumber(input, begin, NumberOf(row))
  BY <1>1, <1>2, StollReads
<1>4. IsBegin(input, begin) /\ Stops(input, first, Digit, end)
  BY <1>1, <1>2 DEF IsReadUpTo
<1>5. L \in Nat /\ begin \in 1..(L + 1) /\ (first = begin \/ first = begin + 1) /\ end \in first..(L + 1)
  BY <1>2, <1>4 DEF IsBegin, Stops, First
<1>6. end = L + 1 /\ first <= L
  <2>1. end - first # 0 /\ end - 1 = L
    BY <1>2, <1>3
  <2> QED
    BY <1>5, <2>1
<1>7. \A j \in first..L : input[j] \in Digit
  BY <1>4, <1>5, <1>6 DEF Stops
<1>8. PICK c : c = L - first
  OBVIOUS
<1>9. c \in Nat /\ first + c = L
  BY <1>5, <1>6, <1>8
<1>10. /\ row \in Seq(Digit) /\ Len(row) = c + 1
       /\ \A k \in 1..(c + 1) : row[k] = input[first + k - 1]
  <2>1. first \in Int /\ L \in Int /\ first <= L /\ L - first + 1 = c + 1 /\ end - 1 = L
    BY <1>5, <1>6, <1>8
  <2>2. row = SubSeq(input, first, L)
    BY <1>2, <2>1
  <2>3. /\ row \in Seq(Digit) /\ Len(row) = L - first + 1
        /\ \A k \in 1..(L - first + 1) : row[k] = input[first + k - 1]
    BY <1>7, <2>1, <2>2, SubSeqProperties
  <2> QED
    BY <2>1, <2>3
<1>11. IsPadded(row)
  BY <1>9, <1>10, PaddedByNumber
<1>12. PICK n : n = NumberOf(row)
  OBVIOUS
<1>13. n \in Nat /\ \E z \in Nat : Padded(row, z, n)
  BY <1>11, <1>12 DEF IsPadded
<1>14. PICK z \in Nat : Padded(row, z, n)
  BY <1>13
<1>15. PICK v, minus : /\ v = SignedNumber(input, begin, n)
                       /\ minus = (Signed(input, begin) /\ input[begin] = Minus)
  OBVIOUS
<1>16. v \in Int /\ Abs(v) = n /\ (v < 0 => minus) /\ (minus => v <= 0)
  <2>1. CASE minus
    <3>1. v = -n
      BY <1>15, <2>1 DEF SignedNumber
    <3> QED
      BY <1>13, <2>1, <3>1 DEF Abs
  <2>2. CASE ~minus
    <3>1. v = n
      BY <1>15, <2>2 DEF SignedNumber
    <3> QED
      BY <1>13, <2>2, <3>1 DEF Abs
  <2> QED
    BY <2>1, <2>2
<1> DEFINE sign == IF Signed(input, begin) THEN <<input[begin]>> ELSE <<>>
<1>17. sign \in SomeSigns /\ SignOf(sign, v)
  <2>1. CASE ~Signed(input, begin)
    <3>1. sign = <<>> /\ ~minus
      BY <1>15, <2>1
    <3>2. v >= 0
      BY <1>16, <3>1
    <3> QED
      BY <3>1, <3>2, Zenon DEF SomeSigns, SignOf
  <2>2. CASE Signed(input, begin) /\ input[begin] = Minus
    <3>1. sign = <<Minus>> /\ minus
      BY <1>15, <2>2
    <3>2. v < 0 \/ v = 0
      BY <1>16, <3>1
    <3> QED
      BY <3>1, <3>2, Zenon DEF SomeSigns, SignOf
  <2>3. CASE Signed(input, begin) /\ input[begin] # Minus
    <3>1. sign = <<Plus>> /\ ~minus
      BY <1>15, <2>3 DEF Signed
    <3>2. v >= 0
      BY <1>16, <3>1
    <3> QED
      BY <3>1, <3>2, Zenon DEF SomeSigns, SignOf
  <2> QED
    BY <2>1, <2>2, <2>3
<1>18. PICK b, l : b = begin - 1 /\ l = Len(sign)
  OBVIOUS
<1>19. /\ b \in Nat /\ l \in 0..1 /\ first = b + 1 + l
       /\ l = 1 => sign[1] = input[b + 1]
  <2>1. CASE Signed(input, begin)
    <3>1. sign = <<input[begin]>> /\ first = begin + 1
      BY <1>2, <2>1 DEF First
    <3>2. l = 1 /\ sign[1] = input[begin]
      BY <1>18, <3>1
    <3>3. b \in Nat /\ b + 1 = begin
      BY <1>5, <1>18
    <3> QED
      BY <3>1, <3>2, <3>3
  <2>2. CASE ~Signed(input, begin)
    <3>1. sign = <<>> /\ first = begin
      BY <1>2, <2>2 DEF First
    <3>2. l = 0
      BY <1>18, <3>1
    <3>3. b \in Nat /\ b + 1 = begin
      BY <1>5, <1>18
    <3> QED
      BY <3>1, <3>2, <3>3
  <2> QED
    BY <2>1, <2>2
<1> HIDE DEF sign
<1>20. PICK d : d = Len(Decimal[n])
  OBVIOUS
<1>21. /\ d \in Nat /\ c + 1 = z + d
       /\ \A k \in 1..z : row[k] = Zero
       /\ \A k \in 1..d : row[z + k] = Decimal[n][k]
  <2>1. d \in Nat
    BY <1>13, <1>20, DecimalSteps
  <2> QED
    BY <1>10, <1>14, <1>20, <2>1 DEF Padded
<1>22. \A k \in 1..(z + d) : input[b + l + k] = row[k]
  <2>1. \A k \in 1..(z + d) : first + k - 1 = b + l + k
    BY <1>19, <1>21
  <2> QED
    BY <1>10, <1>21, <2>1
<1>23. Laid(input, b, sign, z, Decimal[n])
  <2>1. Len(input) = b + l + z + d
    <3>1. L = b + 1 + l + c /\ c + 1 = z + d /\ b \in Nat /\ l \in Nat /\ c \in Nat
      BY <1>9, <1>19, <1>21
    <3>2. L = b + l + z + d
      BY <1>21, <3>1
    <3> QED
      BY <1>2, <3>2
  <2>2. \A i \in 1..b : input[i] \in Blank
    BY <1>4, <1>18 DEF IsBegin, Stops
  <2>3. \A i \in 1..z : input[b + l + i] = Zero
    <3>1. \A i \in 1..z : i \in 1..(z + d)
      BY <1>21
    <3> QED
      BY <1>21, <1>22, <3>1
  <2>4. \A i \in 1..d : input[b + l + z + i] = Decimal[n][i]
    <3> SUFFICES ASSUME NEW i \in 1..d
                 PROVE  input[b + l + z + i] = Decimal[n][i]
      OBVIOUS
    <3>1. z + i \in 1..(z + d) /\ b + l + (z + i) = b + l + z + i
      BY <1>19, <1>21
    <3> QED
      BY <1>21, <1>22, <3>1
  <2> QED
    BY <1>18, <1>19, <1>20, <2>1, <2>2, <2>3, <2>4 DEF Laid
<1>24. b \in 0..Len(input) /\ z \in 0..Len(input)
  BY <1>2, <1>9, <1>19, <1>21
<1>25. Writes(input, v)
  <2>1. Laid(input, b, sign, z, Decimal[Abs(v)])
    BY <1>16, <1>23
  <2> QED
    BY <1>16, <1>17, <1>24, <2>1, WritesLaid
<1> QED
  BY <1>3, <1>12, <1>15, <1>16, <1>25

-----------------------------------------------------------------------------
(***************************************************************************)
(* The theorem.                                                            *)
(***************************************************************************)

\* An integer argument is the number its path parameter writes, where T can hold
\* it, and congruent to it where it cannot, and the extraction throws only for what
\* writes no number of long long, whatever the widths (parameter.h:64-71).
THEOREM AsWritten == Spec => []IntegersAsWritten
<1>1. DispatchInv => IntegersAsWritten
  <2> SUFFICES ASSUME DispatchInv
               PROVE  IntegersAsWritten
    OBVIOUS
  <2>1. handler \in Seq(Kind) /\ params \in Seq(Seq(Nat))
    BY DEF DispatchInv
  <2>2. ASSUME outcome = "invoked", NEW n \in DOMAIN PathArgs, handler[PathArgs[n]] = "int"
        PROVE  \E v \in LongLong :
                 /\ Writes(params[n], v)
                 /\ (args[PathArgs[n]][1] - v) % TwoTo[IntBits] = 0
                 /\ args[PathArgs[n]][1] \in ValuesOf(IntBits)
    <3>1. PICK i, p : i = PathArgs[n] /\ p = params[n]
      OBVIOUS
    <3>2. i \in Places /\ Index(i) = n /\ n \in 1..Cardinality(Places)
      BY <2>1, <3>1, PathArgsByIndex
    <3>3. Extracted(i) /\ handler[i] = "int" /\ handler[i] \in PathKind
      <4>1. i \in DOMAIN handler
        BY <3>2 DEF Places
      <4> QED
        BY <2>2, <3>1, <4>1 DEF DispatchInv, PathKind
    <3>4. n <= Len(params) /\ ~ParseThrows(p) /\ args[i] = <<Parse(p)>>
      BY <3>1, <3>2, <3>3 DEF Extracted, InBounds
    <3>5. n \in DOMAIN params /\ p \in Seq(Nat)
      BY <2>1, <3>1, <3>2, <3>4, IndicesCount
    <3>6. PICK v : v = Stoll(p).value
      OBVIOUS
    <3>7. v \in LongLong /\ Stoll(p).digits # 0 /\ Stoll(p).pos = Len(p)
      BY <3>4, <3>6 DEF ParseThrows
    <3>8. v \in Int /\ Writes(p, v)
      BY <3>5, <3>6, <3>7, ReadIsWritten
    <3>9. args[i][1] = Narrow(v)
      BY <3>4, <3>6 DEF Parse
    <3>10. (args[i][1] - v) % TwoTo[IntBits] = 0 /\ args[i][1] \in ValuesOf(IntBits)
      BY <3>8, <3>9, Narrowed
    <3> QED
      BY <3>1, <3>7, <3>8, <3>10
  <2>3. ASSUME outcome = "threw"
        PROVE  \E n \in DOMAIN PathArgs :
                 /\ handler[PathArgs[n]] = "int"
                 /\ \A v \in LongLong : ~Writes(params[n], v)
    <3>1. PICK i \in Places : handler[i] = "int" /\ InBounds(i) /\ ParseThrows(params[Index(i)])
      BY <2>3 DEF DispatchInv
    <3>2. PICK n, p : n = Index(i) /\ p = params[n]
      OBVIOUS
    <3>3. n \in DOMAIN PathArgs /\ PathArgs[n] = i
      BY <2>1, <3>2, PathArgsByIndex
    <3>4. n \in DOMAIN params /\ p \in Seq(Nat)
      <4>1. n \in 1..Cardinality(Places) /\ Cardinality(Places) \in Nat
        BY <2>1, <3>2, IndicesCount
      <4> QED
        BY <2>1, <3>1, <3>2, <4>1 DEF InBounds
    <3>5. ASSUME NEW v \in LongLong, Writes(p, v)
          PROVE  FALSE
      <4>1. v \in Int
        BY LongLongNumbers
      <4>2. Stoll(p).digits # 0 /\ Stoll(p).pos = Len(p) /\ Stoll(p).value = v
        BY <3>4, <3>5, <4>1, WrittenIsRead
      <4> QED
        BY <3>1, <3>2, <4>2 DEF ParseThrows
    <3> QED
      BY <3>1, <3>2, <3>3, <3>5
  <2> QED
    BY <2>2, <2>3 DEF IntegersAsWritten
<1> QED
  BY <1>1, DispatchInvariant, PTL
=============================================================================

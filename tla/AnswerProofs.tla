---------------------------- MODULE AnswerProofs ----------------------------
(***************************************************************************)
(* A request is answered what it is owed: HelloSpec => AnswersWhatIsAsked, *)
(* for any request.  Every step of HelloServer is one of Exchange's or     *)
(* leaves the request and its response as they are.                        *)
(*                                                                         *)
(* It takes what is known of a request at each of its stages: which of its *)
(* texts is read, that what its query and form have for "query" is written *)
(* there, that its path is what is looked for, and that the arguments are  *)
(* the path parameters in order.  At most one of a server's resources fits *)
(* a path, and it is the one that is owed.                                 *)
(***************************************************************************)
EXTENDS HelloProofs

-----------------------------------------------------------------------------
(***************************************************************************)
(* The resource that fits a path, and the values that are written.         *)
(***************************************************************************)

\* What paths a resource's template fits.
LEMMA WhatFits ==
  ASSUME NEW path, path \in Seq(Component)
  PROVE  /\ Proved!Fits(TemplateOf(HelloResource), path) <=> Len(path) = 1 /\ path[1] = <<>>
         /\ Proved!Fits(TemplateOf(HelloParamResource), path) <=> Len(path) = 2 /\ path[1] = <<>>
         /\ Proved!Fits(TemplateOf(HelloDoubleParamResource), path)
              <=> Len(path) = 3 /\ path[1] = <<>>
         /\ Proved!Fits(TemplateOf(HelloQueryParamResource), path)
              <=> Len(path) = 4 /\ path[1] = <<>> /\ path[3] = D /\ path[4] = G
         /\ Proved!Fits(TemplateOf(HelloPostParamResource), path)
              <=> Len(path) = 4 /\ path[1] = <<>> /\ path[3] = D /\ path[4] = P
         /\ Proved!Fits(TemplateOf(PingResource), path)
              <=> Len(path) = 2 /\ path[1] = <<>> /\ path[2] = P
         /\ Proved!Fits(TemplateOf(MetricsResource), path)
              <=> Len(path) = 2 /\ path[1] = <<>> /\ path[2] = M
<1>1. <<>> # Variable /\ D # Variable /\ G # Variable /\ P # Variable /\ M # Variable
  <2>1. /\ <<>> \in Seq(Letter) /\ D \in Seq(Letter) /\ G \in Seq(Letter) /\ P \in Seq(Letter)
        /\ M \in Seq(Letter)
    BY LettersAssumption DEF D, G, P, M
  <2> QED
    BY <2>1, LettersAssumption
<1>2. DOMAIN path = 1..Len(path) /\ Len(path) \in Nat
  OBVIOUS
<1>3. ASSUME NEW t, NEW n \in Nat, DOMAIN t = 1..n
      PROVE  Proved!Fits(t, path) <=> Len(path) = n /\ \A i \in 1..n : t[i] \in {path[i], Variable}
  <2>1. Len(t) = n
    BY <1>3
  <2> QED
    BY <1>2, <2>1 DEF Proved!Fits
<1>4. ASSUME NEW t, DOMAIN t = 1..1, t[1] = <<>>
      PROVE  Proved!Fits(t, path) <=> Len(path) = 1 /\ path[1] = <<>>
  BY <1>1, <1>3, <1>4
<1>5. ASSUME NEW t, DOMAIN t = 1..2, t[1] = <<>>
      PROVE  Proved!Fits(t, path)
               <=> Len(path) = 2 /\ path[1] = <<>> /\ t[2] \in {path[2], Variable}
  BY <1>1, <1>3, <1>5
<1>6. ASSUME NEW t, DOMAIN t = 1..3, t[1] = <<>>, t[2] = Variable, t[3] = Variable
      PROVE  Proved!Fits(t, path) <=> Len(path) = 3 /\ path[1] = <<>>
  <2>1. 1..3 = {1, 2, 3}
    OBVIOUS
  <2>2. (\A i \in 1..3 : t[i] \in {path[i], Variable}) <=> path[1] = <<>>
    BY <1>1, <1>6, <2>1
  <2>3. Proved!Fits(t, path) <=> Len(path) = 3 /\ \A i \in 1..3 : t[i] \in {path[i], Variable}
    BY <1>3, <1>6
  <2> QED
    BY <2>2, <2>3
<1>7. ASSUME NEW t, DOMAIN t = 1..4, t[1] = <<>>, t[2] = Variable, t[3] = D, t[4] # Variable
      PROVE  Proved!Fits(t, path)
               <=> Len(path) = 4 /\ path[1] = <<>> /\ path[3] = D /\ path[4] = t[4]
  BY <1>1, <1>3, <1>7
<1>8. /\ Proved!Fits(TemplateOf(HelloResource), path) <=> Len(path) = 1 /\ path[1] = <<>>
      /\ Proved!Fits(TemplateOf(HelloDoubleParamResource), path)
           <=> Len(path) = 3 /\ path[1] = <<>>
  BY <1>4, <1>6, TemplatesSpelled
<1>9. Proved!Fits(TemplateOf(HelloParamResource), path) <=> Len(path) = 2 /\ path[1] = <<>>
  BY <1>5, TemplatesSpelled
<1>10. /\ Proved!Fits(TemplateOf(HelloQueryParamResource), path)
            <=> Len(path) = 4 /\ path[1] = <<>> /\ path[3] = D /\ path[4] = G
       /\ Proved!Fits(TemplateOf(HelloPostParamResource), path)
            <=> Len(path) = 4 /\ path[1] = <<>> /\ path[3] = D /\ path[4] = P
  BY <1>1, <1>7, TemplatesSpelled
<1>11. /\ Proved!Fits(TemplateOf(PingResource), path)
            <=> Len(path) = 2 /\ path[1] = <<>> /\ path[2] = P
       /\ Proved!Fits(TemplateOf(MetricsResource), path)
            <=> Len(path) = 2 /\ path[1] = <<>> /\ path[2] = M
  BY <1>1, <1>5, TemplatesSpelled
<1> QED
  BY <1>8, <1>9, <1>10, <1>11

\* So at most one of a server's resources fits a path, and it is the one by its number.
LEMMA ResourceOfPath ==
  ASSUME NEW s, NEW path, path \in Seq(Component), s \in Server
  PROVE  /\ \A n \in DOMAIN ResourcesOf(s) :
              Proved!Fits(TemplateOf(ResourcesOf(s)[n]), path) <=> ResourceFor(s, path) = n
         /\ ResourceFor(s, path) \in {0} \cup DOMAIN ResourcesOf(s)
<1>1. P # G /\ P # M
  BY DEF P, G, M
<1>2. Len(path) \in Nat
  OBVIOUS
<1>3. CASE s = "hello"
  <2>1. DOMAIN ResourcesOf(s) = {1, 2, 3, 4, 5} /\ ResourcesOf(s) =
          <<HelloResource, HelloParamResource, HelloDoubleParamResource,
            HelloQueryParamResource, HelloPostParamResource>>
    BY <1>3 DEF ResourcesOf, HelloResources
  <2>2. /\ ResourceFor(s, path) = 1 <=> Len(path) = 1 /\ path[1] = <<>>
        /\ ResourceFor(s, path) = 2 <=> Len(path) = 2 /\ path[1] = <<>>
        /\ ResourceFor(s, path) = 3 <=> Len(path) = 3 /\ path[1] = <<>>
        /\ ResourceFor(s, path) = 4
             <=> Len(path) = 4 /\ path[1] = <<>> /\ path[3] = D /\ path[4] = G
        /\ ResourceFor(s, path) = 5
             <=> Len(path) = 4 /\ path[1] = <<>> /\ path[3] = D /\ path[4] = P
        /\ ResourceFor(s, path) \in {0, 1, 2, 3, 4, 5}
    <3>1. ASSUME NEW n \in Nat, NEW r, NEW a \in BOOLEAN, NEW g \in BOOLEAN, NEW q \in BOOLEAN,
                 ~(g /\ q),
                 r = IF n = 0 \/ ~a THEN 0 ELSE IF n <= 3 THEN n ELSE IF n = 4 /\ g THEN 4
                     ELSE IF n = 4 /\ q THEN 5 ELSE 0
          PROVE  /\ r = 1 <=> n = 1 /\ a
                 /\ r = 2 <=> n = 2 /\ a
                 /\ r = 3 <=> n = 3 /\ a
                 /\ r = 4 <=> n = 4 /\ a /\ g
                 /\ r = 5 <=> n = 4 /\ a /\ q
                 /\ r \in {0, 1, 2, 3, 4, 5}
      BY <3>1
    <3>2. PICK n, r, a, g, q :
            /\ n = Len(path) /\ r = ResourceFor(s, path)
            /\ a = (path[1] = <<>>) /\ g = (path[3] = D /\ path[4] = G)
            /\ q = (path[3] = D /\ path[4] = P)
      OBVIOUS
    <3>3. r = IF n = 0 \/ ~a THEN 0 ELSE IF n <= 3 THEN n ELSE IF n = 4 /\ g THEN 4
              ELSE IF n = 4 /\ q THEN 5 ELSE 0
      BY <1>3, <3>2, Zenon DEF ResourceFor
    <3>4. n \in Nat /\ a \in BOOLEAN /\ g \in BOOLEAN /\ q \in BOOLEAN /\ ~(g /\ q)
      BY <1>1, <1>2, <3>2, Zenon
    <3>5. /\ r = 1 <=> n = 1 /\ a
          /\ r = 2 <=> n = 2 /\ a
          /\ r = 3 <=> n = 3 /\ a
          /\ r = 4 <=> n = 4 /\ a /\ g
          /\ r = 5 <=> n = 4 /\ a /\ q
          /\ r \in {0, 1, 2, 3, 4, 5}
      BY <3>1, <3>3, <3>4, Zenon
    <3> QED
      BY <3>2, <3>5, Zenon
  <2> QED
    BY <2>1, <2>2, WhatFits
<1>4. CASE s = "admin"
  <2>1. DOMAIN ResourcesOf(s) = {1, 2} /\ ResourcesOf(s) = <<PingResource, MetricsResource>>
    BY <1>4 DEF ResourcesOf, AdminResources
  <2>2. /\ ResourceFor(s, path) = 1 <=> Len(path) = 2 /\ path[1] = <<>> /\ path[2] = P
        /\ ResourceFor(s, path) = 2 <=> Len(path) = 2 /\ path[1] = <<>> /\ path[2] = M
        /\ ResourceFor(s, path) \in {0, 1, 2}
    BY <1>1, <1>2, <1>4 DEF ResourceFor
  <2> QED
    BY <2>1, <2>2, WhatFits
<1> QED
  BY <1>3, <1>4 DEF Server

-----------------------------------------------------------------------------
\* What begins with the key and an equals sign.
LEMMA KeyThenEquals ==
  ASSUME NEW t, t \in Seq(Letter)
  PROVE  IsPrefix(Q \o <<Equals>>, t) <=> Len(t) >= 2 /\ t[1] = 113 /\ t[2] = Equals
<1>1. Q \in Word /\ Len(Q) = 1 /\ Q[1] = 113 /\ Equals \in Letter
  BY LettersAssumption, EqualsAssumption DEF Q, Word
<1>2. PICK e : e = Q \o <<Equals>>
  OBVIOUS
<1>3. e \in Seq(Letter) /\ Len(e) = 2 /\ e[1] = 113 /\ e[2] = Equals
  <2>1. PICK q, x, A : q = Q /\ x = <<Equals>> /\ A = Letter
    OBVIOUS
  <2>6. q \in Seq(A) /\ x \in Seq(A)
    BY <1>1, <2>1 DEF Word
  <2>2. /\ q \in Seq(Letter) /\ Len(q) = 1 /\ q[1] = 113
        /\ x \in Seq(Letter) /\ Len(x) = 1 /\ x[1] = Equals
    BY <1>1, <2>1 DEF Word
  <2>3. /\ q \o x \in Seq(A) /\ Len(q \o x) = Len(q) + Len(x)
        /\ \A i \in 1..(Len(q) + Len(x)) :
             (q \o x)[i] = IF i <= Len(q) THEN q[i] ELSE x[i - Len(q)]
    BY <2>6, ConcatProperties, Zenon
  <2>4. e = q \o x
    BY <1>2, <2>1
  <2>5. /\ e \in Seq(Letter) /\ Len(e) = 2
        /\ \A i \in 1..2 : e[i] = IF i <= 1 THEN q[i] ELSE x[i - 1]
    BY <2>1, <2>2, <2>3, <2>4
  <2> QED
    BY <2>2, <2>5
<1>4. ASSUME NEW s, s \in Seq(Letter)
      PROVE  IsPrefix(e, s) <=> Len(s) >= 2 /\ s[1] = 113 /\ s[2] = Equals
  <2>1. Len(s) \in Nat
    BY <1>4
  <2>2. SubSeq(e, 1, 2) = e
    BY <1>3
  <2>3. ASSUME Len(s) >= 2
        PROVE  SubSeq(s, 1, 2) = e <=> s[1] = 113 /\ s[2] = Equals
    <3>1. PICK b : b = SubSeq(s, 1, 2)
      OBVIOUS
    <3>2. b \in Seq(Letter) /\ Len(b) = 2 /\ b[1] = s[1] /\ b[2] = s[2]
      BY <1>4, <2>1, <2>3, <3>1
    <3>3. b = e <=> b[1] = e[1] /\ b[2] = e[2]
      <4>1. ASSUME b[1] = e[1], b[2] = e[2]
            PROVE  b = e
        <5>1. \A i \in 1..Len(b) : b[i] = e[i]
          BY <3>2, <4>1
        <5> QED
          BY <1>3, <3>2, <5>1, SeqEqual
      <4> QED
        BY <4>1
    <3> QED
      BY <1>3, <3>1, <3>2, <3>3
  <2> QED
    BY <1>3, <2>1, <2>2, <2>3 DEF IsPrefix
<1> QED
  BY <1>2, <1>4

\* A part reads as a key and a value: with an equals sign between them, or without.
IsPairOf(part, key, value) ==
  /\ \A j \in DOMAIN key : key[j] # Equals
  /\ \/ part = key \o <<Equals>> \o value
     \/ part = key /\ value = <<>>

\* What is after the key of a part for the key of "query", and that no other part is one.
KeyTells(part, key, value) ==
  /\ key = Q => \/ part = Q /\ value = <<>>
                \/ /\ IsPrefix(Q \o <<Equals>>, part)
                   /\ SubSeq(part, Len(Q) + 2, Len(part)) = value
  /\ key # Q => part # Q /\ ~IsPrefix(Q \o <<Equals>>, part)

\* A part that begins with a letter other than the equals sign has that letter for its
\* key's first, and the key is that letter alone if an equals sign comes next, or nothing.
LEMMA KeyOfPart ==
  ASSUME NEW part, NEW key, NEW value, part \in Word, key \in Word, value \in Word,
         IsPairOf(part, key, value)
  PROVE  KeyTells(part, key, value)
<1> USE DEF IsPairOf, KeyTells
<1>1. Q \in Word /\ Len(Q) = 1 /\ Q[1] = 113 /\ Equals \in Letter /\ 113 \in Letter /\ Equals # 113
  BY LettersAssumption, EqualsAssumption DEF Q, Word
<1>2. PICK e : e = Q \o <<Equals>>
  OBVIOUS
<1>4. ASSUME NEW s, s \in Seq(Letter)
      PROVE  IsPrefix(e, s) <=> Len(s) >= 2 /\ s[1] = 113 /\ s[2] = Equals
  BY <1>2, <1>4, KeyThenEquals
<1>5. /\ Len(part) \in Nat /\ Len(key) \in Nat /\ Len(value) \in Nat
      /\ DOMAIN key = 1..Len(key) /\ key \in Seq(Letter) /\ part \in Seq(Letter)
      /\ value \in Seq(Letter)
  BY DEF Word
<1>6. CASE part = key \o <<Equals>> \o value
  <2>1. /\ Len(part) = Len(key) + 1 + Len(value)
        /\ \A j \in 1..Len(key) : part[j] = key[j]
        /\ part[Len(key) + 1] = Equals
        /\ \A j \in 1..Len(value) : part[Len(key) + 1 + j] = value[j]
    BY <1>1, <1>5, <1>6, ThreeParts
  <2>2. ASSUME key = Q
        PROVE  /\ IsPrefix(e, part)
               /\ SubSeq(part, Len(Q) + 2, Len(part)) = value
    <3>1. Len(part) = 2 + Len(value) /\ part[1] = 113 /\ part[2] = Equals
          /\ \A j \in 1..Len(value) : part[2 + j] = value[j]
      <4>1. Len(key) = 1 /\ key[1] = 113
        BY <1>1, <2>2
      <4> QED
        BY <1>5, <2>1, <4>1
    <3>2. PICK v : v = SubSeq(part, 3, Len(part))
      OBVIOUS
    <3>3. /\ v \in Seq(Letter) /\ Len(v) = Len(value)
          /\ \A j \in 1..Len(v) : v[j] = part[2 + j]
      BY <1>5, <3>1, <3>2
    <3>4. \A j \in 1..Len(v) : v[j] = value[j]
      BY <3>1, <3>3
    <3>5. v = value
      BY <1>5, <3>3, <3>4, SeqEqual
    <3>6. IsPrefix(e, part)
      BY <1>4, <1>5, <3>1
    <3>7. Len(Q) + 2 = 3
      BY <1>1
    <3> QED
      BY <3>2, <3>5, <3>6, <3>7
  <2>3. ASSUME key # Q
        PROVE  part # Q /\ ~IsPrefix(e, part)
    <3>1. CASE Len(key) = 0
      <4>1. part[1] = Equals
        BY <2>1, <3>1
      <4> QED
        BY <1>1, <1>4, <1>5, <4>1
    <3>2. CASE Len(key) = 1
      <4>1. key[1] # 113
        <5>1. SUFFICES ASSUME key[1] = 113
                       PROVE  FALSE
          OBVIOUS
        <5>2. \A i \in 1..Len(key) : key[i] = Q[i]
          BY <1>1, <3>2, <5>1
        <5>3. key = Q
          BY <1>1, <1>5, <3>2, <5>2, SeqEqual DEF Word
        <5> QED
          BY <2>3, <5>3
      <4>2. part[1] # 113
        BY <2>1, <3>2, <4>1
      <4> QED
        BY <1>1, <1>4, <1>5, <4>2
    <3>3. CASE Len(key) >= 2
      <4>1. part[2] # Equals /\ Len(part) # 1
        BY <1>5, <2>1, <3>3
      <4> QED
        BY <1>1, <1>4, <1>5, <4>1
    <3> QED
      BY <1>5, <3>1, <3>2, <3>3
  <2> QED
    BY <1>2, <2>2, <2>3
<1>7. CASE part = key /\ value = <<>>
  <2>1. ~IsPrefix(e, part)
    <3>1. Len(part) >= 2 => part[2] # Equals
      BY <1>5, <1>7
    <3> QED
      BY <1>4, <1>5, <3>1
  <2> QED
    BY <1>2, <1>7, <2>1
<1> QED
  BY <1>6, <1>7

\* The first value of a multimap for the key, whichever it is, is one of those the text
\* has for it, and there is none where the text has none.
LEMMA FirstIsWritten ==
  ASSUME CountsKept(pairs, params), PairsAreParts, parts \in Seq(Word),
         parts = PartsAt(Delimiters, text)
  PROVE  FrontOrEmpty(Get(params, Q)) \in Values(text)
<1>1. /\ pairs \in Seq(Word \X Word) /\ DOMAIN pairs = DOMAIN parts
      /\ DOMAIN pairs = 1..Len(pairs) /\ Len(pairs) \in Nat
  BY DEF CountsKept, PairsAreParts
<1>2. Q \in Word
  BY LettersAssumption DEF Q, Word
<1>3. ASSUME NEW i \in DOMAIN pairs
      PROVE  KeyTells(parts[i], pairs[i][1], pairs[i][2])
  <2>1. pairs[i] \in Word \X Word /\ parts[i] \in Word
    <3>1. PICK T : T = Word \X Word
      OBVIOUS
    <3>2. pairs \in Seq(T) /\ i \in DOMAIN pairs /\ i \in DOMAIN parts
      BY <1>1, <3>1
    <3>3. pairs[i] \in T /\ parts[i] \in Word
      BY <3>2
    <3> QED
      BY <3>1, <3>3
  <2>2. PICK part, key, value : part = parts[i] /\ key = pairs[i][1] /\ value = pairs[i][2]
    OBVIOUS
  <2>3. part \in Word /\ key \in Word /\ value \in Word
    BY <2>1, <2>2
  <2>4. IsPairOf(part, key, value)
    BY <2>2, Zenon DEF PairsAreParts, IsPairOf
  <2>5. KeyTells(part, key, value)
    BY <2>3, <2>4, KeyOfPart, Zenon
  <2> QED
    BY <2>2, <2>5, Zenon
<1>4. PICK values : values = Get(params, Q)
  OBVIOUS
<1>5. /\ values \in Seq(Word) /\ Len(values) = Cardinality(WithKey(pairs, Q))
      /\ \A v \in Word :
           Cardinality(Where(pairs, <<Q, v>>)) = Cardinality(Where(values, v))
  BY <1>2, <1>4 DEF CountsKept, Get
<1>6. PICK all : all = ToSet(PartsAt(Delimiters, text))
  OBVIOUS
<1>7. all = {parts[i] : i \in DOMAIN parts}
  BY <1>6 DEF ToSet
<1> DEFINE written == {part \in all : part = Q \/ IsPrefix(Q \o <<Equals>>, part)}
<1>8. Values(text) = IF written = {} THEN {<<>>}
                     ELSE {SubSeq(part, Len(Q) + 2, Len(part)) : part \in written}
  BY <1>6 DEF Values
<1>9. CASE values = <<>>
  <2>1. Cardinality(WithKey(pairs, Q)) = 0
    BY <1>5, <1>9
  <2>2. WithKey(pairs, Q) = {}
    <3>1. WithKey(pairs, Q) \in SUBSET (1..Len(pairs))
      BY <1>1 DEF WithKey
    <3>2. IsFiniteSet(WithKey(pairs, Q))
      <4>1. IsFiniteSet(1..Len(pairs))
        BY <1>1, FS_Interval
      <4>2. WithKey(pairs, Q) \subseteq 1..Len(pairs)
        BY <3>1
      <4> QED
        BY <4>1, <4>2, FS_Subset
    <3> QED
      BY <2>1, <3>2, FS_EmptySet
  <2>3. \A i \in DOMAIN pairs : pairs[i][1] # Q
    BY <2>2 DEF WithKey
  <2>4. written = {}
    <3>1. \A i \in DOMAIN pairs : parts[i] # Q /\ ~IsPrefix(Q \o <<Equals>>, parts[i])
      BY <1>3, <2>3, Zenon DEF KeyTells
    <3> QED
      BY <1>1, <1>7, <3>1
  <2>5. FrontOrEmpty(values) = <<>>
    BY <1>9 DEF FrontOrEmpty
  <2> QED
    BY <1>4, <1>8, <2>4, <2>5
<1>10. CASE values # <<>>
  <2>1. PICK v : v = values[1]
    OBVIOUS
  <2>2. v \in Word /\ 1 \in DOMAIN values /\ FrontOrEmpty(values) = v
    BY <1>5, <1>10, <2>1 DEF FrontOrEmpty
  <2>3. Cardinality(Where(values, v)) # 0
    <3>1. 1 \in Where(values, v)
      BY <2>1, <2>2 DEF Where
    <3>2. IsFiniteSet(Where(values, v))
      BY <1>5, WhereFinite
    <3> QED
      BY <3>1, <3>2, FS_EmptySet
  <2>4. Where(pairs, <<Q, v>>) # {}
    BY <1>5, <2>2, <2>3, FS_EmptySet
  <2>5. PICK i \in DOMAIN pairs : pairs[i] = <<Q, v>>
    BY <2>4 DEF Where
  <2>6. PICK part : part = parts[i]
    OBVIOUS
  <2>7. pairs[i][1] = Q /\ pairs[i][2] = v
    BY <2>5
  <2>8. \/ part = Q /\ v = <<>>
        \/ /\ IsPrefix(Q \o <<Equals>>, part)
           /\ SubSeq(part, Len(Q) + 2, Len(part)) = v
    <3>1. KeyTells(part, Q, v)
      BY <1>3, <2>6, <2>7, Zenon
    <3> QED
      BY <3>1, Zenon DEF KeyTells
  <2>9. part \in written
    BY <1>1, <1>7, <2>6, <2>8
  <2>10. SubSeq(Q, Len(Q) + 2, Len(Q)) = <<>>
    <3>1. Len(Q) = 1
      BY DEF Q
    <3> QED
      BY <1>2, <3>1 DEF Word
  <2>11. SubSeq(part, Len(Q) + 2, Len(part)) = v
    BY <2>8, <2>10
  <2> HIDE DEF written
  <2>12. Values(text) = {SubSeq(q, Len(Q) + 2, Len(q)) : q \in written}
    BY <1>8, <2>9
  <2>13. v \in Values(text)
    BY <2>9, <2>11, <2>12
  <2> QED
    BY <1>4, <2>2, <2>13
<1> QED
  BY <1>9, <1>10

\* The parameters of a path whose second component a variable stands for, and of one
\* whose third is another's.
LEMMA ParametersInOrder ==
  ASSUME NEW parameters, NEW template, NEW path, parameters \in Seq(Component),
         path \in Seq(Component), Proved!StandFor(parameters, template, path)
  PROVE  LET variables == {i \in DOMAIN path : template[i] = Variable}
         IN  /\ variables = {2} => parameters[1] = path[2]
             /\ variables = {2, 3} => parameters[1] = path[2] /\ parameters[2] = path[3]
<1> DEFINE variables == {i \in DOMAIN path : template[i] = Variable}
<1>1. PICK place \in [DOMAIN parameters -> DOMAIN path] :
        /\ {place[k] : k \in DOMAIN parameters} = variables
        /\ \A j, k \in DOMAIN parameters : j < k => place[j] < place[k]
        /\ \A k \in DOMAIN parameters : parameters[k] = path[place[k]]
  BY DEF Proved!StandFor
<1>2. DOMAIN parameters = 1..Len(parameters) /\ Len(parameters) \in Nat
  OBVIOUS
<1> HIDE DEF variables
<1>5. /\ \A k \in DOMAIN parameters : place[k] \in variables
      /\ \A i \in variables : \E k \in DOMAIN parameters : place[k] = i
  BY <1>1, Zenon
<1>3. ASSUME variables = {2}
      PROVE  parameters[1] = path[2]
  <2>1. PICK k \in DOMAIN parameters : place[k] = 2
    BY <1>3, <1>5
  <2>2. 1 \in DOMAIN parameters
    BY <1>2, <2>1
  <2>3. place[1] = 2
    BY <1>3, <1>5, <2>2
  <2> QED
    BY <1>1, <2>2, <2>3
<1>4. ASSUME variables = {2, 3}
      PROVE  parameters[1] = path[2] /\ parameters[2] = path[3]
  <2>1. PICK k, l \in DOMAIN parameters : place[k] = 2 /\ place[l] = 3
    BY <1>4, <1>5
  <2>2. 1 \in DOMAIN parameters /\ 2 \in DOMAIN parameters
    BY <1>2, <2>1
  <2>3. place[1] < place[2] /\ place[1] \in {2, 3} /\ place[2] \in {2, 3}
    BY <1>1, <1>4, <1>5, <2>2
  <2>4. place[1] = 2 /\ place[2] = 3
    BY <2>3
  <2> QED
    BY <1>1, <2>2, <2>4
<1> QED
  BY <1>3, <1>4 DEF variables

\* The index of an argument is its place while only strings come before it.
LEMMA IndexIsPlace ==
  /\ Call!Index(1) = 1
  /\ Handler[1] = "string" => Call!Index(2) = 2
<1>1. Cardinality({}) = 0 /\ Cardinality({1}) = 1
  BY FS_EmptySet, FS_Singleton
<1>2. {j \in 1..(1 - 1) : Call!Advances(Handler[j])} = {}
  OBVIOUS
<1>3. ASSUME Handler[1] = "string"
      PROVE  {j \in 1..(2 - 1) : Call!Advances(Handler[j])} = {1}
  <2>1. Call!Advances(Handler[1])
    BY <1>3 DEF Call!Advances, Call!PathKind
  <2>2. 1..(2 - 1) = {1}
    OBVIOUS
  <2> QED
    BY <2>1, <2>2
<1>4. ASSUME NEW i
      PROVE  Call!Index(i) = 1 + Cardinality({j \in 1..(i - 1) : Call!Advances(Handler[j])})
  BY DEF Call!Index, Call!Cardinality, Cardinality
<1>5. Call!Index(1) = 1
  <2>1. Call!Index(1) = 1 + Cardinality({})
    BY <1>2, <1>4, Zenon
  <2> QED
    BY <1>1, <2>1
<1>6. ASSUME Handler[1] = "string"
      PROVE  Call!Index(2) = 2
  <2>1. Call!Index(2) = 1 + Cardinality({1})
    BY <1>3, <1>4, <1>6, Zenon
  <2> QED
    BY <1>1, <2>1
<1> QED
  BY <1>5, <1>6

-----------------------------------------------------------------------------
(***************************************************************************)
(* What is known of a request at every stage, and its answer.              *)
(***************************************************************************)

\* A request is there from when it is asked to when its response is written, and only
\* once all resources are registered.
RequestInv ==
  /\ stage \in {"main", "template", "adding"} => request = <<>>
  /\ stage \notin {"main", "template", "adding"} =>
       /\ \E r \in Asked : request = <<r>> /\ r.server = server
       /\ Len(resources) = Len(Registered)
  /\ response # <<>> <=> stage = "answered"

\* It holds at first.
LEMMA RequestInvInit == HelloInit => RequestInv
BY DEF HelloInit, RequestInv

\* A step within the stages of a request, or within the others.
LEMMA SameRequest ==
  ASSUME RequestInv, UNCHANGED <<server, request, response>>,
         stage # "answered", stage' # "answered",
         \/ /\ stage \in {"main", "template", "adding"}
            /\ stage' \in {"main", "template", "adding"}
         \/ /\ stage \notin {"main", "template", "adding"}
            /\ stage' \notin {"main", "template", "adding"}
            /\ UNCHANGED resources
  PROVE  RequestInv'
<1>1. server' = server /\ request' = request /\ response' = response /\ Registered' = Registered
  BY DEF Registered
<1> QED
  BY <1>1 DEF RequestInv

\* A response to it.
LEMMA SameAnswered ==
  ASSUME RequestInv, stage \notin {"main", "template", "adding", "answered"}, NEW r, Respond(r)
  PROVE  RequestInv'
<1>1. /\ server' = server /\ request' = request /\ resources' = resources
      /\ Registered' = Registered /\ stage' = "answered" /\ response' # <<>>
  BY DEF Respond, matcher, Registered
<1> QED
  BY <1>1 DEF RequestInv

\* Every step keeps a request and its response at their stages.
LEMMA RequestInvNext == RequestInv /\ [HelloNext]_helloVars => RequestInv'
<1> SUFFICES ASSUME RequestInv, [HelloNext]_helloVars
             PROVE  RequestInv'
  OBVIOUS
<1>1. CASE RegisterResource \/ AddResource \/ EnterResource
  <2>1. /\ UNCHANGED <<server, request, response>>
        /\ stage \in {"main", "template", "adding"} /\ stage' \in {"main", "template", "adding"}
    BY <1>1 DEF RegisterResource, AddResource, EnterResource, exchange
  <2> QED
    BY <2>1, SameRequest
<1>2. CASE SplitPath
  <2>1. UNCHANGED <<server, request, response, resources, stage>> /\ stage \in {"template", "path"}
    BY <1>2 DEF SplitPath, matcher, exchange
  <2> QED
    BY <2>1, SameRequest
<1>3. CASE Ask
  <2>1. PICK r \in Asked : r.server = server /\ request' = <<r>>
    BY <1>3 DEF Ask
  <2>2. /\ Len(resources) = Len(Registered) /\ resources' = resources /\ server' = server
        /\ Registered' = Registered /\ stage = "main" /\ stage' = "query" /\ response' = response
    BY <1>3 DEF Ask, matcher, Registered
  <2> QED
    BY <2>1, <2>2 DEF RequestInv
<1>4. CASE ReadParameters \/ QueryRead \/ FormRead
  <2>1. /\ UNCHANGED <<server, request, response, resources>>
        /\ stage \in {"query", "post"} /\ stage' \in {"query", "post", "path"}
    BY <1>4 DEF ReadParameters, QueryRead, FormRead, matcher, exchange
  <2> QED
    BY <2>1, SameRequest
<1>5. CASE Match \/ Search
  <2>1. /\ UNCHANGED <<server, request, response, resources>>
        /\ stage \in {"path", "matching"} /\ stage' = "matching"
    BY <1>5 DEF Match, Search, matcher, exchange, Matcher!Match, Matcher!Looking,
                Matcher!MatchComponent, Matcher!Matches, Matcher!NoMatch, Matcher!MatchRaces,
                Matcher!nodes
  <2> QED
    BY <2>1, SameRequest
<1>6. CASE DispatchBegin \/ Extract
  <2>1. /\ UNCHANGED <<server, request, response, resources>>
        /\ stage \in {"matching", "dispatching"} /\ stage' = "dispatching"
    BY <1>6 DEF DispatchBegin, Extract, matcher, exchange
  <2> QED
    BY <2>1, SameRequest
<1>7. CASE BuildThrows \/ Unmatched \/ HandlerReturns
  <2>1. /\ stage \in {"query", "matching", "dispatching"}
        /\ \E r : Respond(r)
    BY <1>7 DEF BuildThrows, Unmatched, HandlerReturns
  <2> QED
    BY <2>1, SameAnswered
<1>8. CASE Written
  <2>1. stage' = "main" /\ request' = <<>> /\ response' = <<>>
    BY <1>8 DEF Written
  <2> QED
    BY <2>1 DEF RequestInv
<1>9. CASE UNCHANGED helloVars
  <2>1. UNCHANGED <<server, request, response, resources, stage>>
    BY <1>9 DEF helloVars, matcher, exchange
  <2>2. Registered' = Registered
    BY <2>1 DEF Registered
  <2> QED
    BY <2>1, <2>2 DEF RequestInv
<1> QED
  BY <1>1, <1>2, <1>3, <1>4, <1>5, <1>6, <1>7, <1>8, <1>9 DEF HelloNext, Register, Serve

\* What is read at a stage is a text of the request, and what has been read of its
\* query and its form has the values they have for "query".
UriInv ==
  /\ uri = [query |-> uri.query, post |-> uri.post]
  /\ stage = "query" => text = request[1].query
  /\ stage = "post" => text = request[1].body /\ request[1].method = "POST"
  /\ stage = "path" => text = request[1].path
  /\ stage \in {"post", "path", "matching", "dispatching"} =>
       Supported /\ FrontOrEmpty(Get(uri.query, Q)) \in Values(request[1].query)
  /\ stage \in {"path", "matching", "dispatching"} /\ request[1].method = "POST" =>
       FrontOrEmpty(Get(uri.post, Q)) \in Values(request[1].body)

\* It holds at first.
LEMMA UriInvInit == HelloInit => UriInv
BY DEF HelloInit, UriInv, NoUri

\* A query or a form that has been read.
LEMMA TextRead ==
  ASSUME HelloInv, GivenInv, stage \in {"query", "post"}, AtEnd
  PROVE  FrontOrEmpty(Get(params, Q)) \in Values(text)
<1>1. PICK A, f : Given(Delimiters, A, f)
  BY DEF GivenInv, GivenUpTo
<1>2. parts = PartsAt(Delimiters, text)
  BY <1>1, GivenParts DEF AtEnd, Npos
<1>3. CountsKept(pairs, params) /\ PairsAreParts /\ parts \in Seq(Word)
  BY DEF HelloInv, Reading
<1> QED
  BY <1>2, <1>3, FirstIsWritten

\* A step that reads nothing and stays with the request, or ends with it.
LEMMA SameUri ==
  ASSUME UriInv, UNCHANGED <<request, uri>>,
         \/ UNCHANGED <<stage, text>>
         \/ stage' \in {"main", "template", "adding", "answered"}
         \/ /\ stage \in {"path", "matching", "dispatching"}
            /\ stage' \in {"matching", "dispatching"}
  PROVE  UriInv'
<1>1. request' = request /\ uri' = uri /\ Supported' = Supported
      /\ Values(request[1].query)' = Values(request[1].query)
      /\ Values(request[1].body)' = Values(request[1].body)
  BY DEF Supported, Values
<1> QED
  BY <1>1 DEF UriInv

\* Every step keeps it.
LEMMA UriInvNext ==
  HelloInv /\ GivenInv /\ UriInv /\ [HelloNext]_helloVars => UriInv'
<1> SUFFICES ASSUME HelloInv, GivenInv, UriInv, [HelloNext]_helloVars
             PROVE  UriInv'
  OBVIOUS
<1>1. CASE RegisterResource \/ AddResource \/ EnterResource \/ BuildThrows \/ Unmatched
           \/ HandlerReturns
  <2>1. UNCHANGED <<request, uri>> /\ stage' \in {"main", "template", "adding", "answered"}
    BY <1>1 DEF RegisterResource, AddResource, EnterResource, BuildThrows, Unmatched,
                HandlerReturns, Respond, exchange
  <2> QED
    BY <2>1, SameUri
<1>2. CASE SplitPath \/ ReadParameters \/ UNCHANGED helloVars
  <2>1. UNCHANGED <<request, uri, stage, text>>
    BY <1>2, PathRound, QueryRound DEF SplitPath, ReadParameters, helloVars, reading, exchange
  <2> QED
    BY <2>1, SameUri
<1>3. CASE Match \/ Search \/ DispatchBegin \/ Extract
  <2>1. /\ UNCHANGED <<request, uri>> /\ stage \in {"path", "matching", "dispatching"}
        /\ stage' \in {"matching", "dispatching"}
    BY <1>3 DEF Match, Search, DispatchBegin, Extract, exchange
  <2> QED
    BY <2>1, SameUri
<1>4. CASE Ask
  <2>1. PICK r \in Asked : request' = <<r>> /\ Iterate(r.query)
    BY <1>4 DEF Ask
  <2>2. stage' = "query" /\ uri' = uri /\ text' = request'[1].query
    BY <1>4, <2>1 DEF Ask, Iterate
  <2> QED
    BY <2>2 DEF UriInv
<1>5. CASE QueryRead
  <2>1. stage = "query" /\ AtEnd /\ Supported /\ request' = request
        /\ uri' = [uri EXCEPT !.query = params]
        /\ \/ request[1].method = "POST" /\ text' = request[1].body /\ stage' = "post"
           \/ request[1].method # "POST" /\ text' = request[1].path /\ stage' = "path"
    BY <1>5 DEF QueryRead, Iterate
  <2>2. FrontOrEmpty(Get(params, Q)) \in Values(request[1].query)
    BY <2>1, TextRead DEF UriInv
  <2>3. uri'.query = params /\ uri' = [query |-> uri'.query, post |-> uri'.post]
    BY <2>1 DEF UriInv
  <2>4. Supported' = Supported
    BY <2>1 DEF Supported
  <2> QED
    BY <2>1, <2>2, <2>3, <2>4 DEF UriInv
<1>6. CASE FormRead
  <2>1. stage = "post" /\ AtEnd /\ request' = request /\ stage' = "path"
        /\ uri' = [uri EXCEPT !.post = params] /\ text' = request[1].path
    BY <1>6 DEF FormRead, Iterate
  <2>2. FrontOrEmpty(Get(params, Q)) \in Values(request[1].body)
    BY <2>1, TextRead DEF UriInv
  <2>3. uri'.post = params /\ uri'.query = uri.query
        /\ uri' = [query |-> uri'.query, post |-> uri'.post]
    BY <2>1 DEF UriInv
  <2>4. Supported' = Supported
    BY <2>1 DEF Supported
  <2> QED
    BY <2>1, <2>2, <2>3, <2>4 DEF UriInv
<1>7. CASE Written
  <2>1. stage' = "main" /\ uri' = NoUri
    BY <1>7 DEF Written
  <2> QED
    BY <2>1 DEF UriInv, NoUri
<1> QED
  BY <1>1, <1>2, <1>3, <1>4, <1>5, <1>6, <1>7 DEF HelloNext, Register, Serve

\* What is looked for is the path of the request, among all resources.
PathInv ==
  stage \in {"matching", "dispatching"} =>
    /\ search.path = PartsAt({Slash}, request[1].path)
    /\ search.known = Matcher!ToSet(resources)

\* The search keeps the path it is given, and nothing is registered during it.
LEMMA PathKept ==
  ASSUME search \in Proved!Call, RegistrationInv, stage = "matching", Matcher!Looking
  PROVE  /\ search'.path = search.path /\ search'.known = search.known
         /\ UNCHANGED resources
<1>1. registrar = Matcher!Idle
  BY DEF RegistrationInv
<1>2. ~Matcher!MatchRaces
  BY <1>1 DEF Matcher!MatchRaces, Matcher!Idle, Matcher!Walking, Matcher!Binding
<1>3. Matcher!MatchComponent \/ Matcher!Matches \/ Matcher!NoMatch
  BY <1>2 DEF Matcher!Looking
<1>4. UNCHANGED resources
  BY <1>3 DEF Matcher!MatchComponent, Matcher!Matches, Matcher!NoMatch, Matcher!nodes
<1>5. search'.path = search.path /\ search'.known = search.known
  BY <1>3 DEF Matcher!MatchComponent, Matcher!Matches, Matcher!NoMatch, Matcher!Advance, Proved!Call
<1> QED
  BY <1>4, <1>5

\* It holds at first.
LEMMA PathInvInit == HelloInit => PathInv
BY DEF HelloInit, PathInv

\* Every step keeps it.
LEMMA PathInvNext ==
  UsedInv /\ Proved!SearchInv /\ UriInv /\ PathInv /\ [HelloNext]_helloVars => PathInv'
<1> SUFFICES ASSUME UsedInv, Proved!SearchInv, UriInv, PathInv, [HelloNext]_helloVars
             PROVE  PathInv'
  OBVIOUS
<1>1. CASE \/ RegisterResource \/ AddResource \/ EnterResource \/ SplitPath \/ Ask
           \/ ReadParameters \/ QueryRead \/ FormRead \/ BuildThrows \/ Unmatched
           \/ HandlerReturns \/ Written
  <2>1. stage' \notin {"matching", "dispatching"}
    BY <1>1 DEF RegisterResource, AddResource, EnterResource, SplitPath, Ask, ReadParameters,
                QueryRead, FormRead, BuildThrows, Unmatched, HandlerReturns, Respond, Written
  <2> QED
    BY <2>1 DEF PathInv
<1>2. CASE Match
  <2>1. /\ stage = "path" /\ Path!AtEnd /\ Matcher!Match(parts) /\ request' = request
    BY <1>2 DEF Match, exchange
  <2>2. search'.path = parts /\ search'.known = Matcher!ToSet(resources) /\ resources' = resources
    BY <2>1 DEF Matcher!Match, Matcher!NotMatching, Matcher!nodes
  <2>3. PICK A, f : Given({Slash}, A, f)
    BY <2>1 DEF UsedInv, GivenInv, GivenUpTo
  <2>4. parts = PartsAt({Slash}, text)
    BY <2>1, <2>3, GivenParts DEF Path!AtEnd, Path!Npos, Npos
  <2>5. parts = PartsAt({Slash}, request[1].path)
    BY <2>1, <2>4 DEF UriInv
  <2>6. Matcher!ToSet(resources)' = Matcher!ToSet(resources)
    BY <2>2 DEF Matcher!ToSet
  <2> QED
    BY <2>1, <2>2, <2>5, <2>6 DEF PathInv
<1>3. CASE Search
  <2>1. stage = "matching" /\ Matcher!Looking /\ request' = request
    BY <1>3 DEF Search, exchange
  <2>2. search'.path = search.path /\ search'.known = search.known /\ UNCHANGED resources
    BY <2>1, PathKept DEF UsedInv, Proved!SearchInv
  <2>3. Matcher!ToSet(resources)' = Matcher!ToSet(resources)
    BY <2>2 DEF Matcher!ToSet
  <2> QED
    BY <2>1, <2>2, <2>3 DEF PathInv
<1>4. CASE DispatchBegin \/ Extract \/ UNCHANGED helloVars
  <2>1. /\ stage' \in {"matching", "dispatching"} => stage \in {"matching", "dispatching"}
        /\ search' = search /\ resources' = resources /\ request' = request
    BY <1>4 DEF DispatchBegin, Extract, helloVars, matcher, exchange
  <2>2. Matcher!ToSet(resources)' = Matcher!ToSet(resources)
    BY <2>1 DEF Matcher!ToSet
  <2> QED
    BY <2>1, <2>2 DEF PathInv
<1> QED
  BY <1>1, <1>2, <1>3, <1>4 DEF HelloNext, Register, Serve

\* An argument that has been extracted and is a string is the path parameter by its index.
ArgsInv ==
  /\ stage \notin {"dispatching", "answered"} => outcome = "compiling"
  /\ stage = "dispatching" /\ outcome # "compiling" =>
       /\ DOMAIN args = DOMAIN Handler
       /\ \A i \in DOMAIN Handler :
            Handler[i] = "string" /\ args[i] # <<>> =>
              args[i] = <<search.parameters[Call!Index(i)]>>
  /\ stage = "dispatching" /\ outcome = "invoked" =>
       \A i \in DOMAIN Handler : args[i] # <<>>

\* It holds at first.
LEMMA ArgsInvInit == HelloInit => ArgsInv
BY DEF HelloInit, ArgsInv

\* The handler stays the same while its arguments are extracted.
LEMMA HandlerKept ==
  ASSUME UNCHANGED <<server, resources, search, request>>
  PROVE  /\ Handler' = Handler /\ Found' = Found
         /\ \A i : Call!Index(i)' = Call!Index(i)
<1>1. server' = server /\ resources' = resources /\ search' = search /\ request' = request
  OBVIOUS
<1>2. Registered' = Registered
  BY <1>1 DEF Registered
<1>3. Found' = Found
  BY <1>1, <1>2 DEF Found
<1>4. Overridden' = Overridden
  BY <1>1, <1>3 DEF Overridden
<1>5. Handler' = Handler
  BY <1>1, <1>3, <1>4 DEF Handler
<1>6. \A i : Call!Index(i)' = Call!Index(i)
  BY <1>5 DEF Call!Index, Call!Cardinality, Call!Advances
<1> QED
  BY <1>3, <1>5, <1>6

\* Every step keeps it.
LEMMA ArgsInvNext ==
  UsedInv /\ Proved!RegistryInv /\ Proved!SearchInv /\ ArgsInv /\ [HelloNext]_helloVars => ArgsInv'
<1> SUFFICES ASSUME UsedInv, Proved!RegistryInv, Proved!SearchInv, ArgsInv, [HelloNext]_helloVars
             PROVE  ArgsInv'
  OBVIOUS
<1>1. CASE Extract
  <2>1. stage = "dispatching" /\ stage' = "dispatching" /\ Call!Next
    BY <1>1 DEF Extract
  <2>2. UNCHANGED <<server, resources, search, request>>
    BY <1>1 DEF Extract, matcher, exchange
  <2>3. Handler' = Handler /\ search' = search /\ \A i : Call!Index(i)' = Call!Index(i)
    BY <2>2, HandlerKept
  <2>4. \A i \in DOMAIN Handler : Handler[i] # "int"
    BY <2>1, InBoundsHere
  <2>5. CASE Call!Bind
    <3>1. outcome' = "extracting" /\ args' = [i \in DOMAIN Handler |-> <<>>]
      BY <2>5 DEF Call!Bind
    <3> QED
      BY <2>1, <2>3, <3>1 DEF ArgsInv
  <2>6. CASE Call!Invoke
    <3>1. /\ outcome = "extracting" /\ outcome' = "invoked" /\ args' = args
          /\ \A i \in DOMAIN Handler : args[i] # <<>>
      BY <2>6 DEF Call!Invoke, Call!Ends
    <3> QED
      BY <2>1, <2>3, <3>1 DEF ArgsInv
  <2>7. ASSUME NEW i \in DOMAIN Handler, Call!GetUriInfo(i) \/ Call!GetString(i)
        PROVE  ArgsInv'
    <3>1. /\ outcome = "extracting" /\ outcome' = "extracting"
          /\ \E value : /\ args' = [args EXCEPT ![i] = <<value>>]
                        /\ Handler[i] = "string" => value = search.parameters[Call!Index(i)]
      BY <2>7 DEF Call!GetUriInfo, Call!GetString, Call!Pending, Call!Extract, Call!PathKind
    <3>2. PICK value : /\ args' = [args EXCEPT ![i] = <<value>>]
                       /\ Handler[i] = "string" => value = search.parameters[Call!Index(i)]
      BY <3>1
    <3>3. DOMAIN args = DOMAIN Handler
      BY <2>1, <3>1 DEF ArgsInv
    <3>4. /\ DOMAIN args' = DOMAIN Handler /\ args'[i] = <<value>>
          /\ \A j \in DOMAIN Handler : j # i => args'[j] = args[j]
      BY <3>2, <3>3
    <3> QED
      BY <2>1, <2>3, <3>1, <3>2, <3>4 DEF ArgsInv
  <2>8. /\ ~Call!RefuseToCompile
        /\ \A i \in DOMAIN Handler : ~Call!GetInt(i) /\ ~Call!GetIntThrows(i) /\ ~Call!GetBeyond(i)
    <3>1. \A i \in DOMAIN Handler : Handler[i] = "string" => Call!InBounds(i)
      BY <2>1, InBoundsHere
    <3> QED
      BY <2>4, <3>1 DEF Call!RefuseToCompile, Call!Compiles, Call!GetInt, Call!GetIntThrows,
                        Call!GetBeyond, Call!PathKind
  <2> QED
    BY <2>1, <2>5, <2>6, <2>7, <2>8 DEF Call!Next
<1>2. CASE BuildThrows \/ Unmatched \/ HandlerReturns
  <2>1. stage' = "answered"
    BY <1>2 DEF BuildThrows, Unmatched, HandlerReturns, Respond
  <2> QED
    BY <2>1 DEF ArgsInv
<1>3. CASE Written
  <2>1. stage' = "main" /\ outcome' = "compiling"
    BY <1>3 DEF Written
  <2> QED
    BY <2>1 DEF ArgsInv
<1>4. CASE \/ RegisterResource \/ AddResource \/ EnterResource \/ SplitPath \/ Ask
           \/ ReadParameters \/ QueryRead \/ FormRead \/ Match \/ Search \/ DispatchBegin
  <2>1. stage \notin {"dispatching", "answered"} /\ outcome' = outcome
    BY <1>4 DEF RegisterResource, AddResource, EnterResource, SplitPath, Ask, ReadParameters,
                QueryRead, FormRead, Match, Search, DispatchBegin, calling
  <2>2. outcome' = "compiling"
    BY <2>1 DEF ArgsInv
  <2> QED
    BY <2>2 DEF ArgsInv
<1>5. CASE UNCHANGED helloVars
  <2>1. UNCHANGED <<server, resources, search, request, stage, args, outcome>>
    BY <1>5 DEF helloVars, matcher, exchange, calling
  <2> QED
    BY <2>1, HandlerKept DEF ArgsInv
<1> QED
  BY <1>1, <1>2, <1>3, <1>4, <1>5 DEF HelloNext, Register, Serve

-----------------------------------------------------------------------------
\* What is read in the text of each response.
LEMMA TextsOfResponses ==
  /\ ToText(NotFound) = Fails(404)
  /\ ToText(NotAllowed) = Fails(405)
  /\ ToText(Caught) = [Fails(500) EXCEPT !.body.said = "what"]
  /\ \A said, values :
       /\ ToText(Response("OK", "TEXT_PLAIN", [said |-> said, values |-> values]))
            = Ok("text/plain", said, values)
       /\ ToText(Response("OK", "APPLICATION_JSON", [said |-> said, values |-> values]))
            = Ok("application/json", said, values)
<1>1. /\ CodeToInt("OK") = 200 /\ CodeToInt("NOT_FOUND") = 404
      /\ CodeToInt("NOT_ALLOWED") = 405 /\ CodeToInt("INTERNAL_ERROR") = 500
  BY DEF CodeToInt
<1>2. /\ MediaTypeToString("TEXT_PLAIN") = "text/plain"
      /\ MediaTypeToString("APPLICATION_JSON") = "application/json"
  BY DEF MediaTypeToString
<1> QED
  BY <1>1, <1>2 DEF ToText, NotFound, NotAllowed, Plain, Caught, Response, NoContent, Fails, Ok

\* What is owed to a request whose method is not supported, whose path no resource is
\* for, and whose resource has no such method.
LEMMA FailureOwed ==
  ASSUME NEW r, NEW n, n = ResourceFor(r.server, PartsAt({Slash}, r.path)), r.server \in Server
  PROVE  /\ r.method \notin SupportedMethod => ToText(Caught) \in Owed(r)
         /\ r.method \in SupportedMethod /\ n = 0 => ToText(NotFound) \in Owed(r)
         /\ r.method \in SupportedMethod /\ n \in DOMAIN ResourcesOf(r.server) =>
              \/ r.method \in DOMAIN ResourcesOf(r.server)[n].on
              \/ ToText(NotAllowed) \in Owed(r)
<1>1. ASSUME r.method \notin SupportedMethod
      PROVE  ToText(Caught) \in Owed(r)
  BY <1>1, TextsOfResponses DEF Owed, SupportedMethod
<1>2. ASSUME r.method \in SupportedMethod, n = 0
      PROVE  ToText(NotFound) \in Owed(r)
  BY <1>2, TextsOfResponses DEF Owed
<1>3. ASSUME r.method \in SupportedMethod, n \in DOMAIN ResourcesOf(r.server),
             r.method \notin DOMAIN ResourcesOf(r.server)[n].on
      PROVE  ToText(NotAllowed) \in Owed(r)
  <2>1. n # 0
    BY <1>3, ResourcesInOrder
  <2>2. CASE r.server = "admin"
    <3>1. ~(n = 1 /\ r.method = "GET") /\ ~(n = 2 /\ r.method = "GET")
      BY <1>3, <2>2 DEF ResourcesOf, AdminResources, PingResource, MetricsResource, Takes
    <3> QED
      BY <1>3, <2>1, <2>2, <3>1, TextsOfResponses DEF Owed
  <2>3. CASE r.server = "hello"
    <3>1. /\ ~(n = 1 /\ r.method = "GET") /\ ~(n = 2 /\ r.method = "GET")
          /\ ~(n = 3 /\ r.method = "GET") /\ ~(n = 3 /\ r.method = "PUT")
          /\ ~(n = 4 /\ r.method = "GET") /\ ~(n = 5 /\ r.method = "POST")
      BY <1>3, <2>3 DEF ResourcesOf, HelloResources, HelloResource, HelloParamResource,
                        HelloDoubleParamResource, HelloQueryParamResource,
                        HelloPostParamResource, Takes
    <3> QED
      BY <1>3, <2>1, <2>3, <3>1, TextsOfResponses DEF Owed
  <2> QED
    BY <2>2, <2>3 DEF Server
<1> QED
  BY <1>1, <1>2, <1>3

\* What is owed to a request a handler is for.
LEMMA SuccessOwed ==
  ASSUME NEW r, NEW n, NEW components, NEW said, components = PartsAt({Slash}, r.path),
         n = ResourceFor(r.server, components), said = ResourcesOf(r.server)[n].path
  PROVE  /\ r.server = "admin" /\ n = 1 /\ r.method = "GET" =>
              Ok("text/plain", said, <<>>) \in Owed(r)
         /\ r.server = "admin" /\ n = 2 /\ r.method = "GET" =>
              Ok("application/json", said, <<>>) \in Owed(r)
         /\ r.server = "hello" /\ n = 1 /\ r.method = "GET" =>
              Ok("text/plain", said, <<>>) \in Owed(r)
         /\ r.server = "hello" /\ n = 2 /\ r.method = "GET" =>
              Ok("text/plain", said, <<components[2]>>) \in Owed(r)
         /\ r.server = "hello" /\ n = 3 /\ r.method = "GET" =>
              Ok("text/plain", said, <<components[2], components[3]>>) \in Owed(r)
         /\ r.server = "hello" /\ n = 3 /\ r.method = "PUT" =>
              Ok("text/plain", said, <<components[2], components[3], r.body>>) \in Owed(r)
         /\ r.server = "hello" /\ n = 4 /\ r.method = "GET" =>
              \A value \in Values(r.query) :
                Ok("text/plain", said, <<components[2], value>>) \in Owed(r)
         /\ r.server = "hello" /\ n = 5 /\ r.method = "POST" =>
              \A value \in Values(r.body) :
                Ok("text/plain", said, <<components[2], value>>) \in Owed(r)
<1> DEFINE C == PartsAt({Slash}, r.path)
           N == ResourceFor(r.server, C)
           S == ResourcesOf(r.server)[N].path
           unsupported == {[Fails(500) EXCEPT !.body.said = "what"]}
           unfound == {Fails(404)}
           ping == {Ok("text/plain", S, <<>>)}
           metrics == {Ok("application/json", S, <<>>)}
           root == {Ok("text/plain", S, <<>>)}
           user == {Ok("text/plain", S, <<C[2]>>)}
           both == {Ok("text/plain", S, <<C[2], C[3]>>)}
           put == {Ok("text/plain", S, <<C[2], C[3], r.body>>)}
           query == {Ok("text/plain", S, <<C[2], value>>) : value \in Values(r.query)}
           post == {Ok("text/plain", S, <<C[2], value>>) : value \in Values(r.body)}
<1>1. Owed(r) =
        CASE r.method \notin SupportedMethod -> unsupported
          [] r.method \in SupportedMethod /\ N = 0 -> unfound
          [] r.server = "admin" /\ (N = 1 /\ r.method = "GET") -> ping
          [] r.server = "admin" /\ (N = 2 /\ r.method = "GET") -> metrics
          [] r.server = "hello" /\ (N = 1 /\ r.method = "GET") -> root
          [] r.server = "hello" /\ (N = 2 /\ r.method = "GET") -> user
          [] r.server = "hello" /\ (N = 3 /\ r.method = "GET") -> both
          [] r.server = "hello" /\ (N = 3 /\ r.method = "PUT") -> put
          [] r.server = "hello" /\ (N = 4 /\ r.method = "GET") -> query
          [] r.server = "hello" /\ (N = 5 /\ r.method = "POST") -> post
          [] OTHER -> {Fails(405)}
  BY DEF Owed
<1> HIDE DEF unsupported, unfound, ping, metrics, root, user, both, put, query, post
<1>0. C = components /\ N = n /\ S = said
  BY Zenon
<1> HIDE DEF C, N, S
<1>2. "GET" \in SupportedMethod /\ "PUT" \in SupportedMethod /\ "POST" \in SupportedMethod
  BY DEF SupportedMethod
<1>3. r.server = "admin" /\ n = 1 /\ r.method = "GET" => Owed(r) = ping
  BY <1>0, <1>1, <1>2
<1>4. r.server = "admin" /\ n = 2 /\ r.method = "GET" => Owed(r) = metrics
  BY <1>0, <1>1, <1>2
<1>5. r.server = "hello" /\ n = 1 /\ r.method = "GET" => Owed(r) = root
  BY <1>0, <1>1, <1>2
<1>6. r.server = "hello" /\ n = 2 /\ r.method = "GET" => Owed(r) = user
  BY <1>0, <1>1, <1>2
<1>7. r.server = "hello" /\ n = 3 /\ r.method = "GET" => Owed(r) = both
  BY <1>0, <1>1, <1>2
<1>8. r.server = "hello" /\ n = 3 /\ r.method = "PUT" => Owed(r) = put
  BY <1>0, <1>1, <1>2
<1>9. r.server = "hello" /\ n = 4 /\ r.method = "GET" => Owed(r) = query
  BY <1>0, <1>1, <1>2
<1>10. r.server = "hello" /\ n = 5 /\ r.method = "POST" => Owed(r) = post
  BY <1>0, <1>1, <1>2
<1> QED
  BY <1>0, <1>3, <1>4, <1>5, <1>6, <1>7, <1>8, <1>9, <1>10
     DEF ping, metrics, root, user, both, put, query, post

\* A path that no resource is found for is one that there is none for.
LEMMA NoneFound ==
  ASSUME UsedInv, Proved!SearchInv, RequestInv, PathInv, stage = "matching",
         search.phase = "unmatched"
  PROVE  ResourceFor(server, search.path) = 0
<1>1. search.path \in Seq(Component) /\ server \in Server
  BY DEF Proved!SearchInv, Proved!Call, UsedInv, RegistrationInv
<1>2. PICK n : n = ResourceFor(server, search.path)
  OBVIOUS
<1>3. ASSUME n \in DOMAIN ResourcesOf(server)
      PROVE  n = 0
  <2>1. PICK t : t = TemplateOf(ResourcesOf(server)[n])
    OBVIOUS
  <2>2. Proved!Fits(t, search.path)
    BY <1>1, <1>2, <1>3, <2>1, ResourceOfPath
  <2>3. n \in DOMAIN resources /\ resources[n] = t
    <3>1. Len(resources) = Len(ResourcesOf(server)) /\ resources \in Seq(ResourceTemplates)
      BY DEF RequestInv, UsedInv, RegistrationInv, Registered
    <3>2. n \in DOMAIN resources
      BY <1>1, <1>3, <3>1, ResourcesInOrder
    <3> QED
      BY <2>1, <3>2 DEF UsedInv, RegistrationInv, Registered
  <2>4. t \in search.known
    BY <2>3 DEF PathInv, Matcher!ToSet
  <2>5. t = Proved!Head_
    BY <2>2, <2>4 DEF Proved!SearchInv, Proved!MatchedFits
  <2>6. Len(search.path) = 0
    BY <2>2, <2>5 DEF Proved!Fits, Proved!Head_
  <2> QED
    BY <1>2, <2>6 DEF ResourceFor
<1> QED
  BY <1>1, <1>2, <1>3, ResourceOfPath

\* What a handler makes of its arguments.
LEMMA ValuesGiven ==
  ASSUME ArgsInv, stage = "dispatching", outcome = "invoked", NEW i \in DOMAIN Handler
  PROVE  /\ Handler[i] = "string" => ValueOf(i) = search.parameters[Call!Index(i)]
         /\ Handler[i] = "entity" => ValueOf(i) = request[1].body
         /\ Handler[i] = "query" => ValueOf(i) = FrontOrEmpty(Get(uri.query, Q))
         /\ Handler[i] = "post" => ValueOf(i) = FrontOrEmpty(Get(uri.post, Q))
<1>1. ASSUME Handler[i] = "string"
      PROVE  ValueOf(i) = search.parameters[Call!Index(i)]
  <2>1. args[i] = <<search.parameters[Call!Index(i)]>>
    BY <1>1 DEF ArgsInv
  <2>2. ValueOf(i) = args[i][1]
    BY <1>1 DEF ValueOf
  <2> QED
    BY <2>1, <2>2
<1>2. ASSUME Handler[i] = "entity"
      PROVE  ValueOf(i) = request[1].body
  BY <1>2 DEF ValueOf
<1>3. ASSUME Handler[i] = "query"
      PROVE  ValueOf(i) = FrontOrEmpty(Get(uri.query, Q))
  BY <1>3 DEF ValueOf
<1>4. ASSUME Handler[i] = "post"
      PROVE  ValueOf(i) = FrontOrEmpty(Get(uri.post, Q))
  BY <1>4 DEF ValueOf
<1> QED
  BY <1>1, <1>2, <1>3, <1>4

\* Functions on the first numbers are tuples.
LEMMA FunctionsAreTuples ==
  ASSUME NEW h, NEW f, f = [i \in DOMAIN h |-> f[i]]
  PROVE  /\ h = <<>> => f = <<>>
         /\ \A a : h = <<a>> => f = <<f[1]>>
         /\ \A a, b : h = <<a, b>> => f = <<f[1], f[2]>>
         /\ \A a, b, c : h = <<a, b, c>> => f = <<f[1], f[2], f[3]>>
OBVIOUS

\* What the path parameters are of a path that a resource's template fits.
LEMMA ParametersAre ==
  ASSUME NEW parameters, NEW r, NEW path, parameters \in Seq(Component),
         path \in Seq(Component), Proved!Fits(TemplateOf(r), path),
         Proved!StandFor(parameters, TemplateOf(r), path)
  PROVE  /\ r \in {HelloParamResource, HelloQueryParamResource, HelloPostParamResource} =>
              parameters[1] = path[2]
         /\ r = HelloDoubleParamResource => parameters[1] = path[2] /\ parameters[2] = path[3]
<1>1. <<>> # Variable /\ D # Variable /\ G # Variable /\ P # Variable
  <2>1. <<>> \in Seq(Letter) /\ D \in Seq(Letter) /\ G \in Seq(Letter) /\ P \in Seq(Letter)
    BY LettersAssumption DEF D, G, P
  <2> QED
    BY <2>1, LettersAssumption
<1>2. PICK t : t = TemplateOf(r)
  OBVIOUS
<1>3. DOMAIN path = 1..Len(path) /\ Len(path) \in Nat
  OBVIOUS
<1> DEFINE variables == {i \in DOMAIN path : t[i] = Variable}
<1>4. /\ variables = {2} => parameters[1] = path[2]
      /\ variables = {2, 3} => parameters[1] = path[2] /\ parameters[2] = path[3]
  BY <1>2, ParametersInOrder
<1>5. ASSUME r = HelloParamResource
      PROVE  variables = {2}
  <2>1. Len(path) = 2 /\ t[1] = <<>> /\ t[2] = Variable
    BY <1>2, <1>5, TemplatesSpelled, WhatFits
  <2> QED
    BY <1>1, <1>3, <2>1
<1>6. ASSUME r = HelloQueryParamResource
      PROVE  variables = {2}
  <2>1. Len(path) = 4 /\ t[1] = <<>> /\ t[2] = Variable /\ t[3] = D /\ t[4] = G
    BY <1>2, <1>6, TemplatesSpelled, WhatFits
  <2> QED
    BY <1>1, <1>3, <2>1
<1>7. ASSUME r = HelloPostParamResource
      PROVE  variables = {2}
  <2>1. Len(path) = 4 /\ t[1] = <<>> /\ t[2] = Variable /\ t[3] = D /\ t[4] = P
    BY <1>2, <1>7, TemplatesSpelled, WhatFits
  <2> QED
    BY <1>1, <1>3, <2>1
<1>8. ASSUME r = HelloDoubleParamResource
      PROVE  variables = {2, 3}
  <2>1. Len(path) = 3 /\ t[1] = <<>> /\ t[2] = Variable /\ t[3] = Variable
    BY <1>2, <1>8, TemplatesSpelled, WhatFits
  <2> QED
    BY <1>1, <1>3, <2>1
<1> HIDE DEF variables
<1> QED
  BY <1>4, <1>5, <1>6, <1>7, <1>8

\* What is answered once a handler has returned is owed.
LEMMA HandlerAnswers ==
  ASSUME UsedInv, Proved!RegistryInv, Proved!SearchInv, RequestInv, UriInv, PathInv, ArgsInv,
         stage = "dispatching", outcome = "invoked"
  PROVE  IF Overridden
         THEN ToText(Response("OK", Found.type, [said |-> Found.path,
                                                 values |-> [i \in DOMAIN Handler |-> ValueOf(i)]]))
                \in Owed(request[1])
         ELSE ToText(NotAllowed) \in Owed(request[1])
<1>1. PICK r \in Asked : request = <<r>> /\ r.server = server
  BY DEF RequestInv
<1>2. request[1] = r /\ r.method \in SupportedMethod
  BY <1>1 DEF UriInv, Supported
<1>3. PICK n \in DOMAIN ResourcesOf(server) :
        Found = ResourcesOf(server)[n] /\ search.resource = TemplateOf(Found)
  BY ResourceFound
<1>4. PICK path : path = search.path
  OBVIOUS
<1>5. /\ path \in Seq(Component) /\ path = PartsAt({Slash}, r.path) /\ server \in Server
      /\ search.parameters \in Seq(Component)
      /\ Proved!StandFor(search.parameters, TemplateOf(Found), path)
  BY <1>2, <1>3, <1>4, ResourceFound DEF PathInv
<1>6. Proved!Fits(TemplateOf(Found), path)
  BY <1>3, <1>4 DEF Proved!SearchInv, Proved!MatchedFits, UsedInv, SearchStage
<1>7. ResourceFor(server, path) = n
  BY <1>3, <1>5, <1>6, ResourceOfPath
<1>8. CASE ~Overridden
  <2>1. r.method \notin DOMAIN ResourcesOf(r.server)[n].on
    BY <1>1, <1>2, <1>3, <1>8 DEF Overridden
  <2>2. ToText(NotAllowed) \in Owed(r)
    BY <1>1, <1>2, <1>5, <1>7, <2>1, FailureOwed
  <2> QED
    BY <1>2, <1>8, <2>2
<1>9. CASE Overridden
  <2>1. r.method \in DOMAIN Found.on /\ Handler = Found.on[r.method]
    BY <1>2, <1>9 DEF Overridden, Handler
  <2>2. PICK values : values = [i \in DOMAIN Handler |-> ValueOf(i)]
    OBVIOUS
  <2>3. values = [i \in DOMAIN Handler |-> values[i]]
    BY <2>2
  <2>4. /\ Handler = <<>> => values = <<>>
        /\ \A a : Handler = <<a>> => values = <<values[1]>>
        /\ \A a, b : Handler = <<a, b>> => values = <<values[1], values[2]>>
        /\ \A a, b, c : Handler = <<a, b, c>> => values = <<values[1], values[2], values[3]>>
    BY <2>3, FunctionsAreTuples
  <2>5. \A i \in DOMAIN Handler :
          /\ Handler[i] = "string" => values[i] = search.parameters[Call!Index(i)]
          /\ Handler[i] = "entity" => values[i] = r.body
          /\ Handler[i] = "query" => values[i] = FrontOrEmpty(Get(uri.query, Q))
          /\ Handler[i] = "post" => values[i] = FrontOrEmpty(Get(uri.post, Q))
    BY <1>2, <2>2, ValuesGiven
  <2>6. PICK said : said = Found.path
    OBVIOUS
  <2>7. ToText(Response("OK", Found.type, [said |-> said, values |-> values])) \in Owed(r)
    <3>1. CASE server = "hello"
      <4>1. ResourcesOf(server) = <<HelloResource, HelloParamResource, HelloDoubleParamResource,
                                    HelloQueryParamResource, HelloPostParamResource>>
        BY <3>1 DEF ResourcesOf, HelloResources
      <4>2. CASE n = 1
        <5>1. Found = HelloResource
          BY <1>3, <4>1, <4>2
        <5>2. r.method = "GET" /\ Handler = <<>> /\ Found.type = "TEXT_PLAIN"
          BY <2>1, <5>1 DEF HelloResource, Takes
        <5>3. values = <<>>
          BY <2>4, <5>2
        <5>4. Ok("text/plain", said, values) \in Owed(r)
          BY <1>1, <1>3, <1>5, <1>7, <2>6, <3>1, <4>2, <5>2, <5>3, SuccessOwed
        <5> QED
          BY <5>2, <5>4, TextsOfResponses
      <4>3. CASE n = 2
        <5>1. Found = HelloParamResource
          BY <1>3, <4>1, <4>3
        <5>2. r.method = "GET" /\ Handler = <<"string">> /\ Found.type = "TEXT_PLAIN"
          BY <2>1, <5>1 DEF HelloParamResource, Takes
        <5>3. search.parameters[1] = path[2]
          BY <1>5, <1>6, <5>1, ParametersAre
        <5>4. values[1] = path[2]
          BY <2>5, <5>2, <5>3, IndexIsPlace
        <5>5. values = <<path[2]>>
          BY <2>4, <5>2, <5>4
        <5>6. Ok("text/plain", said, values) \in Owed(r)
          BY <1>1, <1>3, <1>5, <1>7, <2>6, <3>1, <4>3, <5>2, <5>5, SuccessOwed
        <5> QED
          BY <5>2, <5>6, TextsOfResponses
      <4>4. CASE n = 3
        <5>1. Found = HelloDoubleParamResource
          BY <1>3, <4>1, <4>4
        <5>2. /\ \/ r.method = "GET" /\ Handler = <<"string", "string">>
                 \/ r.method = "PUT" /\ Handler = <<"string", "string", "entity">>
              /\ Found.type = "TEXT_PLAIN"
          BY <2>1, <5>1 DEF HelloDoubleParamResource
        <5>3. search.parameters[1] = path[2] /\ search.parameters[2] = path[3]
          BY <1>5, <1>6, <5>1, ParametersAre
        <5>4. Handler[1] = "string" /\ Handler[2] = "string" /\ {1, 2} \subseteq DOMAIN Handler
          BY <5>2
        <5>5. values[1] = path[2] /\ values[2] = path[3]
          BY <2>5, <5>3, <5>4, IndexIsPlace
        <5>6. CASE r.method = "GET" /\ Handler = <<"string", "string">>
          <6>1. values = <<path[2], path[3]>>
            BY <2>4, <5>5, <5>6
          <6>2. Ok("text/plain", said, values) \in Owed(r)
            BY <1>1, <1>3, <1>5, <1>7, <2>6, <3>1, <4>4, <5>6, <6>1, SuccessOwed
          <6> QED
            BY <5>2, <6>2, TextsOfResponses
        <5>7. CASE r.method = "PUT" /\ Handler = <<"string", "string", "entity">>
          <6>1. values[3] = r.body
            BY <2>5, <5>7
          <6>2. values = <<path[2], path[3], r.body>>
            BY <2>4, <5>5, <5>7, <6>1
          <6>3. Ok("text/plain", said, values) \in Owed(r)
            BY <1>1, <1>3, <1>5, <1>7, <2>6, <3>1, <4>4, <5>7, <6>2, SuccessOwed
          <6> QED
            BY <5>2, <6>3, TextsOfResponses
        <5> QED
          BY <5>2, <5>6, <5>7
      <4>5. CASE n = 4
        <5>1. Found = HelloQueryParamResource
          BY <1>3, <4>1, <4>5
        <5>2. r.method = "GET" /\ Handler = <<"string", "query">> /\ Found.type = "TEXT_PLAIN"
          BY <2>1, <5>1 DEF HelloQueryParamResource, Takes
        <5>3. search.parameters[1] = path[2]
          BY <1>5, <1>6, <5>1, ParametersAre
        <5>4. values[1] = path[2] /\ values[2] = FrontOrEmpty(Get(uri.query, Q))
          BY <2>5, <5>2, <5>3, IndexIsPlace
        <5>5. PICK value \in Values(r.query) : value = values[2]
          BY <1>2, <5>4 DEF UriInv
        <5>6. values = <<path[2], value>>
          BY <2>4, <5>2, <5>4, <5>5
        <5>7. Ok("text/plain", said, values) \in Owed(r)
          BY <1>1, <1>3, <1>5, <1>7, <2>6, <3>1, <4>5, <5>2, <5>6, SuccessOwed
        <5> QED
          BY <5>2, <5>7, TextsOfResponses
      <4>6. CASE n = 5
        <5>1. Found = HelloPostParamResource
          BY <1>3, <4>1, <4>6
        <5>2. r.method = "POST" /\ Handler = <<"string", "post">> /\ Found.type = "TEXT_PLAIN"
          BY <2>1, <5>1 DEF HelloPostParamResource, Takes
        <5>3. search.parameters[1] = path[2]
          BY <1>5, <1>6, <5>1, ParametersAre
        <5>4. values[1] = path[2] /\ values[2] = FrontOrEmpty(Get(uri.post, Q))
          BY <2>5, <5>2, <5>3, IndexIsPlace
        <5>5. PICK value \in Values(r.body) : value = values[2]
          BY <1>2, <5>2, <5>4 DEF UriInv
        <5>6. values = <<path[2], value>>
          BY <2>4, <5>2, <5>4, <5>5
        <5>7. Ok("text/plain", said, values) \in Owed(r)
          BY <1>1, <1>3, <1>5, <1>7, <2>6, <3>1, <4>6, <5>2, <5>6, SuccessOwed
        <5> QED
          BY <5>2, <5>7, TextsOfResponses
      <4>7. n \in {1, 2, 3, 4, 5}
        BY <1>3, <4>1
      <4> QED
        BY <4>2, <4>3, <4>4, <4>5, <4>6, <4>7
    <3>2. CASE server = "admin"
      <4>1. ResourcesOf(server) = <<PingResource, MetricsResource>>
        BY <3>2 DEF ResourcesOf, AdminResources
      <4>2. CASE n = 1
        <5>1. Found = PingResource
          BY <1>3, <4>1, <4>2
        <5>2. r.method = "GET" /\ Handler = <<>> /\ Found.type = "TEXT_PLAIN"
          BY <2>1, <5>1 DEF PingResource, Takes
        <5>3. values = <<>>
          BY <2>4, <5>2
        <5>4. Ok("text/plain", said, values) \in Owed(r)
          BY <1>1, <1>3, <1>5, <1>7, <2>6, <3>2, <4>2, <5>2, <5>3, SuccessOwed
        <5> QED
          BY <5>2, <5>4, TextsOfResponses
      <4>3. CASE n = 2
        <5>1. Found = MetricsResource
          BY <1>3, <4>1, <4>3
        <5>2. r.method = "GET" /\ Handler = <<>> /\ Found.type = "APPLICATION_JSON"
          BY <2>1, <5>1 DEF MetricsResource, Takes
        <5>3. values = <<>>
          BY <2>4, <5>2
        <5>4. Ok("application/json", said, values) \in Owed(r)
          BY <1>1, <1>3, <1>5, <1>7, <2>6, <3>2, <4>3, <5>2, <5>3, SuccessOwed
        <5> QED
          BY <5>2, <5>4, TextsOfResponses
      <4>4. n \in {1, 2}
        BY <1>3, <4>1
      <4> QED
        BY <4>2, <4>3, <4>4
    <3> QED
      BY <1>5, <3>1, <3>2 DEF Server
  <2> QED
    BY <1>2, <1>9, <2>2, <2>6, <2>7
<1> QED
  BY <1>8, <1>9

\* All of it.
AskedInv == RequestInv /\ UriInv /\ PathInv /\ ArgsInv

\* Every step is one of the abstract server's, or none.
LEMMA StepOfExchange ==
  UsedInv /\ Proved!RegistryInv /\ Proved!SearchInv /\ AskedInv /\ [HelloNext]_helloVars
    => [Service!Next]_<<request, response>>
<1> SUFFICES ASSUME UsedInv, Proved!RegistryInv, Proved!SearchInv, AskedInv, [HelloNext]_helloVars
             PROVE  [Service!Next]_<<request, response>>
  OBVIOUS
<1>0. RequestInv /\ UriInv /\ PathInv /\ ArgsInv
  BY DEF AskedInv
<1>1. ASSUME NEW r, Respond(r), ToText(r) \in Owed(request[1]),
             stage \notin {"main", "template", "adding", "answered"}
      PROVE  Service!Answer
  <2>1. response' = <<ToText(r)>> /\ request' = request
    BY <1>1 DEF Respond
  <2>2. request # <<>> /\ response = <<>>
    BY <1>0, <1>1 DEF RequestInv
  <2> QED
    BY <1>1, <2>1, <2>2 DEF Service!Answer
<1>2. CASE Ask
  <2>1. PICK r \in Asked : request' = <<r>>
    BY <1>2 DEF Ask
  <2>2. stage = "main" /\ response' = response
    BY <1>2 DEF Ask
  <2>3. request = <<>>
    BY <1>0, <2>2 DEF RequestInv
  <2>4. request' \in [1..1 -> Asked]
    BY <2>1
  <2> QED
    BY <2>2, <2>3, <2>4 DEF Service!Next, Service!Ask
<1>3. CASE BuildThrows
  <2>1. stage = "query" /\ ~Supported /\ Respond(Caught)
    BY <1>3 DEF BuildThrows
  <2>2. PICK r \in Asked : request = <<r>> /\ r.server = server
    BY <1>0, <2>1 DEF RequestInv
  <2>3. r.method \notin SupportedMethod /\ request[1] = r /\ r.server \in Server
    BY <2>1, <2>2 DEF Supported, UsedInv, RegistrationInv
  <2>4. ToText(Caught) \in Owed(request[1])
    BY <2>3, FailureOwed
  <2> QED
    BY <1>1, <2>1, <2>4 DEF Service!Next
<1>4. CASE Unmatched
  <2>1. stage = "matching" /\ search.phase = "unmatched" /\ Respond(NotFound)
    BY <1>4 DEF Unmatched
  <2>2. PICK r \in Asked : request = <<r>> /\ r.server = server
    BY <1>0, <2>1 DEF RequestInv
  <2>3. r.method \in SupportedMethod /\ request[1] = r /\ r.server \in Server
    BY <1>0, <2>1, <2>2 DEF UriInv, Supported, UsedInv, RegistrationInv
  <2>4. ResourceFor(r.server, PartsAt({Slash}, r.path)) = 0
    BY <1>0, <2>1, <2>2, <2>3, NoneFound DEF PathInv
  <2>5. ToText(NotFound) \in Owed(request[1])
    BY <2>3, <2>4, FailureOwed
  <2> QED
    BY <1>1, <2>1, <2>5 DEF Service!Next
<1>5. CASE HandlerReturns
  <2>1. PICK r : r = IF Overridden
                     THEN Response("OK", Found.type,
                                   [said |-> Found.path,
                                    values |-> [i \in DOMAIN Handler |-> ValueOf(i)]])
                     ELSE NotAllowed
    OBVIOUS
  <2>2. stage = "dispatching" /\ outcome = "invoked" /\ Respond(r)
    BY <1>5, <2>1 DEF HandlerReturns
  <2>3. ToText(r) \in Owed(request[1])
    BY <1>0, <2>1, <2>2, HandlerAnswers
  <2> QED
    BY <1>1, <2>2, <2>3 DEF Service!Next
<1>6. CASE Written
  <2>1. stage = "answered" /\ request' = <<>> /\ response' = <<>>
    BY <1>6 DEF Written
  <2>2. response # <<>>
    BY <1>0, <2>1 DEF RequestInv
  <2> QED
    BY <2>1, <2>2 DEF Service!Next, Service!Over
<1>7. CASE \/ RegisterResource \/ AddResource \/ EnterResource \/ SplitPath \/ ReadParameters
           \/ QueryRead \/ FormRead \/ Match \/ Search \/ DispatchBegin \/ Extract
           \/ UNCHANGED helloVars
  <2>1. UNCHANGED <<request, response>>
    BY <1>7 DEF RegisterResource, AddResource, EnterResource, SplitPath, ReadParameters, QueryRead,
                FormRead, Match, Search, DispatchBegin, Extract, exchange, helloVars
  <2> QED
    BY <2>1
<1> QED
  BY <1>2, <1>3, <1>4, <1>5, <1>6, <1>7 DEF HelloNext, Register, Serve

\* Whatever the requests, each is given one response, and one that its texts call for: the
\* server implements Exchange (server_instance.h:126-179, hello_server.cc:34-96).
THEOREM AnswersOwed == HelloSpec => AnswersWhatIsAsked
<1>1. HelloInit => AskedInv
  BY RequestInvInit, UriInvInit, PathInvInit, ArgsInvInit DEF AskedInv
<1>2. UsedInv /\ Proved!RegistryInv /\ Proved!SearchInv /\ AskedInv /\ [HelloNext]_helloVars
        => AskedInv'
  BY RequestInvNext, UriInvNext, PathInvNext, ArgsInvNext DEF AskedInv, UsedInv
<1>3. HelloInit => Service!Init
  BY DEF HelloInit, Service!Init
<1> QED
  BY <1>1, <1>2, <1>3, StepOfExchange, MatcherKept, UsedInvariant, PTL
     DEF HelloSpec, AnswersWhatIsAsked, Service!Safety
=============================================================================

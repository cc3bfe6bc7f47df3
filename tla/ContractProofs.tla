---------------------------- MODULE ContractProofs ----------------------------
(***************************************************************************)
(* What a connection is promised.  The first request on it is dispatched   *)
(* as it was sent (less its last header), however its bytes are cut into   *)
(* callbacks and whatever else is on the connection: for every request,    *)
(* any number of headers, any texts and any resources.                     *)
(*                                                                         *)
(* And a server instance implements ConnectionContract: Spec =>            *)
(* KeepsContract. Every action of ServerInstance is one of the contract's  *)
(* or leaves what the contract speaks of as it is.  The contract           *)
(* dispatches no more requests than were sent, and delivers one response.  *)
(* CountInv is what it takes: the requests that are still to be completed  *)
(* and those that were dispatched are no more than were sent, and nothing  *)
(* was answered on a context that is still there.                          *)
(***************************************************************************)
EXTENDS ServerInstanceProofs, SequenceTheorems

-----------------------------------------------------------------------------
(***************************************************************************)
(* Texts in parts.                                                         *)
(***************************************************************************)

\* What has been reported, with the next part of what is left, is what has been
\* reported then; and what is left then is the rest of what was left.
LEMMA PrefixGrows ==
  ASSUME NEW S, NEW d \in Seq(S), NEW s \in 0..Len(d), NEW n \in 0..(Len(d) - s)
  PROVE  /\ SubSeq(d, 1, s) \o SubSeq(SubSeq(d, s + 1, Len(d)), 1, n) = SubSeq(d, 1, s + n)
         /\ LET rest == SubSeq(d, s + 1, Len(d))
            IN  SubSeq(rest, n + 1, Len(rest)) = SubSeq(d, s + n + 1, Len(d))
<1> DEFINE rest == SubSeq(d, s + 1, Len(d))
<1>1. rest \in Seq(S) /\ Len(rest) = Len(d) - s /\ \A i \in 1..(Len(d) - s) : rest[i] = d[s + i]
  OBVIOUS
<1> HIDE DEF rest
<1>2. SubSeq(d, 1, s) \o SubSeq(rest, 1, n) = SubSeq(d, 1, s + n)
  <2>1. SubSeq(d, 1, s) \in Seq(S) /\ Len(SubSeq(d, 1, s)) = s
        /\ \A i \in 1..s : SubSeq(d, 1, s)[i] = d[i]
    OBVIOUS
  <2>2. SubSeq(rest, 1, n) \in Seq(S) /\ Len(SubSeq(rest, 1, n)) = n
        /\ \A i \in 1..n : SubSeq(rest, 1, n)[i] = d[s + i]
    BY <1>1
  <2>3. SubSeq(d, 1, s + n) \in Seq(S) /\ Len(SubSeq(d, 1, s + n)) = s + n
        /\ \A i \in 1..(s + n) : SubSeq(d, 1, s + n)[i] = d[i]
    OBVIOUS
  <2> DEFINE x == SubSeq(d, 1, s)
             y == SubSeq(rest, 1, n)
             z == SubSeq(d, 1, s + n)
  <2> HIDE DEF x, y, z
  <2>4. x \o y \in Seq(S) /\ Len(x \o y) = s + n
        /\ \A i \in 1..(s + n) : (x \o y)[i] = IF i <= s THEN x[i] ELSE y[i - s]
    BY <2>1, <2>2, ConcatProperties DEF x, y
  <2>5. \A i \in 1..(s + n) : (x \o y)[i] = z[i]
    BY <2>1, <2>2, <2>3, <2>4 DEF x, y, z
  <2> QED
    BY <2>3, <2>4, <2>5, SeqEqual DEF x, y, z
<1>3. SubSeq(rest, n + 1, Len(rest)) = SubSeq(d, s + n + 1, Len(d))
  <2>1. /\ SubSeq(rest, n + 1, Len(rest)) \in Seq(S)
        /\ Len(SubSeq(rest, n + 1, Len(rest))) = Len(d) - s - n
        /\ \A i \in 1..(Len(d) - s - n) : SubSeq(rest, n + 1, Len(rest))[i] = d[s + n + i]
    <3>1. \A i \in (n + 1)..Len(rest) : rest[i] \in S
      BY <1>1
    <3>2. Len(rest) \in Int /\ n + 1 \in Int /\ n \in Int /\ s \in Int /\ Len(d) \in Int
      BY <1>1
    <3>3. /\ SubSeq(rest, n + 1, Len(rest)) \in Seq(S)
          /\ Len(SubSeq(rest, n + 1, Len(rest))) = Len(rest) - n
          /\ \A i \in 1..(Len(rest) - n) : SubSeq(rest, n + 1, Len(rest))[i] = rest[n + i]
      BY <3>1, <3>2, <1>1, SubSeqProperties
    <3>4. Len(rest) - n = Len(d) - s - n /\ \A i \in 1..(Len(rest) - n) : rest[n + i] = d[s + n + i]
      BY <1>1, <3>2
    <3> QED
      BY <3>3, <3>4
  <2>2. /\ SubSeq(d, s + n + 1, Len(d)) \in Seq(S)
        /\ Len(SubSeq(d, s + n + 1, Len(d))) = Len(d) - s - n
        /\ \A i \in 1..(Len(d) - s - n) : SubSeq(d, s + n + 1, Len(d))[i] = d[s + n + i]
    OBVIOUS
  <2> QED
    BY <2>1, <2>2, SeqEqual
<1> QED
  BY <1>2, <1>3 DEF rest

\* A text is all of its parts.
LEMMA WholeText ==
  ASSUME NEW S, NEW d \in Seq(S)
  PROVE  SubSeq(d, 1, Len(d)) = d /\ SubSeq(d, 1, 0) = <<>> /\ <<>> \o d = d /\ d \o <<>> = d
BY SubSeqFull, SubSeqEmpty, ConcatEmptySeq

-----------------------------------------------------------------------------
(***************************************************************************)
(* The elements of a request, by their place on the wire.                  *)
(***************************************************************************)
\* Four sequences in a row, by their places.
LEMMA FourInARow ==
  ASSUME NEW S, NEW a \in Seq(S), NEW b \in Seq(S), NEW c \in Seq(S), NEW d \in Seq(S),
         NEW w, w = a \o b \o c \o d
  PROVE  /\ Len(w) = Len(a) + Len(b) + Len(c) + Len(d)
         /\ \A i \in 1..Len(a) : w[i] = a[i]
         /\ \A i \in 1..Len(b) : w[Len(a) + i] = b[i]
         /\ \A i \in 1..Len(c) : w[Len(a) + Len(b) + i] = c[i]
         /\ \A i \in 1..Len(d) : w[Len(a) + Len(b) + Len(c) + i] = d[i]
<1>1. Len(a) \in Nat /\ Len(b) \in Nat /\ Len(c) \in Nat /\ Len(d) \in Nat
  OBVIOUS
<1> DEFINE ab == a \o b
           abc == ab \o c
<1>2. /\ ab \in Seq(S) /\ Len(ab) = Len(a) + Len(b)
      /\ \A i \in 1..(Len(a) + Len(b)) : ab[i] = IF i <= Len(a) THEN a[i] ELSE b[i - Len(a)]
  BY ConcatProperties
<1> HIDE DEF ab
<1>3. /\ abc \in Seq(S) /\ Len(abc) = Len(ab) + Len(c)
      /\ \A i \in 1..(Len(ab) + Len(c)) : abc[i] = IF i <= Len(ab) THEN ab[i] ELSE c[i - Len(ab)]
  BY <1>2, ConcatProperties
<1> HIDE DEF abc
<1>4. w = abc \o d
  BY DEF ab, abc
<1>5. /\ Len(w) = Len(abc) + Len(d)
      /\ \A i \in 1..(Len(abc) + Len(d)) : w[i] = IF i <= Len(abc) THEN abc[i] ELSE d[i - Len(abc)]
  BY <1>3, <1>4, ConcatProperties
<1>6. \A i \in 1..Len(a) : w[i] = a[i]
  BY <1>1, <1>2, <1>3, <1>5
<1>7. \A i \in 1..Len(b) : w[Len(a) + i] = b[i]
  BY <1>1, <1>2, <1>3, <1>5
<1>8. \A i \in 1..Len(c) : w[Len(a) + Len(b) + i] = c[i]
  BY <1>1, <1>2, <1>3, <1>5
<1>9. \A i \in 1..Len(d) : w[Len(a) + Len(b) + Len(c) + i] = d[i]
  BY <1>1, <1>2, <1>3, <1>5
<1> QED
  BY <1>1, <1>2, <1>3, <1>5, <1>6, <1>7, <1>8, <1>9

\* Where the elements of a request are.
LEMMA WirePlaces ==
  ASSUME NEW r \in WireRequest, NEW h \in Nat, h = Len(r.headers)
  PROVE  /\ Len(Wire(r)) = IF r.body = <<>> THEN 2 * h + 3 ELSE 2 * h + 4
         /\ Wire(r)[1] = Begin /\ Wire(r)[2] = Piece("url", Target(r))
         /\ \A i \in 1..h : /\ Wire(r)[2 * i + 1] = Piece("field", r.headers[i].name)
                            /\ Wire(r)[2 * i + 2] = Piece("value", r.headers[i].value)
         /\ r.body # <<>> => Wire(r)[2 * h + 3] = Piece("body", r.body)
         /\ Wire(r)[Len(Wire(r))] = Complete(r.method)
<1>1. PICK a \in Seq(Element), b \in Seq(Element), c \in Seq(Element), d \in Seq(Element) :
        /\ a = <<Begin, Piece("url", Target(r))>>
        /\ b = HeaderPieces(r.headers)
        /\ c = IF r.body = <<>> THEN <<>> ELSE <<Piece("body", r.body)>>
        /\ d = <<Complete(r.method)>>
  BY WireParts
<1> DEFINE w == Wire(r)
<1>2. w = a \o b \o c \o d
  BY <1>1 DEF Wire
<1>3. Len(a) = 2 /\ a[1] = Begin /\ a[2] = Piece("url", Target(r))
  BY <1>1
<1>4. Len(b) = 2 * h
  <2>1. DOMAIN b = 1..(2 * h)
    BY <1>1 DEF HeaderPieces
  <2> QED
    BY <2>1
<1>5. ASSUME NEW i \in 1..h
      PROVE  /\ 2 * i \in 1..(2 * h) /\ 2 * i - 1 \in 1..(2 * h)
             /\ b[2 * i - 1] = Piece("field", r.headers[i].name)
             /\ b[2 * i] = Piece("value", r.headers[i].value)
  <2>1. /\ 2 * i \in 1..(2 * h) /\ 2 * i - 1 \in 1..(2 * h)
        /\ (2 * i) % 2 = 0 /\ (2 * i - 1) % 2 = 1 /\ (2 * i) \div 2 = i
        /\ (2 * i - 1 + 1) \div 2 = i
    OBVIOUS
  <2> QED
    BY <1>1, <2>1 DEF HeaderPieces
<1>6. Len(c) = IF r.body = <<>> THEN 0 ELSE 1
  BY <1>1
<1>7. r.body # <<>> => c[1] = Piece("body", r.body)
  BY <1>1
<1>8. Len(d) = 1 /\ d[1] = Complete(r.method)
  BY <1>1
<1> HIDE DEF w
<1>9. /\ Len(w) = Len(a) + Len(b) + Len(c) + Len(d)
      /\ \A i \in 1..Len(a) : w[i] = a[i]
      /\ \A i \in 1..Len(b) : w[Len(a) + i] = b[i]
      /\ \A i \in 1..Len(c) : w[Len(a) + Len(b) + i] = c[i]
      /\ \A i \in 1..Len(d) : w[Len(a) + Len(b) + Len(c) + i] = d[i]
  BY <1>2, FourInARow
<1>10. Len(w) = IF r.body = <<>> THEN 2 * h + 3 ELSE 2 * h + 4
  <2>1. CASE r.body = <<>>
    BY <1>3, <1>4, <1>6, <1>8, <1>9, <2>1
  <2>2. CASE r.body # <<>>
    BY <1>3, <1>4, <1>6, <1>8, <1>9, <2>2
  <2> QED
    BY <2>1, <2>2
<1>11. w[1] = Begin /\ w[2] = Piece("url", Target(r))
  BY <1>3, <1>9
<1>12. ASSUME NEW i \in 1..h
       PROVE  /\ w[2 * i + 1] = Piece("field", r.headers[i].name)
              /\ w[2 * i + 2] = Piece("value", r.headers[i].value)
  <2>1. w[2 + (2 * i - 1)] = b[2 * i - 1] /\ w[2 + 2 * i] = b[2 * i]
    BY <1>3, <1>4, <1>5, <1>9
  <2>2. 2 + (2 * i - 1) = 2 * i + 1 /\ 2 + 2 * i = 2 * i + 2
    OBVIOUS
  <2> QED
    BY <1>5, <2>1, <2>2
<1>13. r.body # <<>> => w[2 * h + 3] = Piece("body", r.body)
  <2>1. r.body # <<>> => w[2 + 2 * h + 1] = c[1]
    BY <1>3, <1>4, <1>6, <1>9
  <2> QED
    BY <1>7, <2>1
<1>14. w[Len(w)] = Complete(r.method)
  <2>1. w[2 + 2 * h + Len(c) + 1] = d[1]
    BY <1>3, <1>4, <1>8, <1>9
  <2>2. Len(w) = 2 + 2 * h + Len(c) + 1
    BY <1>3, <1>4, <1>8, <1>9
  <2> QED
    BY <1>8, <2>1, <2>2
<1> QED
  BY <1>10, <1>11, <1>12, <1>13, <1>14 DEF w

\* Every place of the wire is one of these.
LEMMA WireCases ==
  ASSUME NEW r \in WireRequest, NEW h \in Nat, h = Len(r.headers),
         NEW p \in 0..(Len(Wire(r)) - 1)
  PROVE  \/ p = 0 /\ Wire(r)[p + 1] = Begin
         \/ p = 1 /\ Wire(r)[p + 1] = Piece("url", Target(r))
         \/ \E i \in 1..h : p = 2 * i /\ Wire(r)[p + 1] = Piece("field", r.headers[i].name)
         \/ \E i \in 1..h : p = 2 * i + 1 /\ Wire(r)[p + 1] = Piece("value", r.headers[i].value)
         \/ /\ p = 2 * h + 2 /\ r.body # <<>> /\ Len(Wire(r)) = 2 * h + 4
            /\ Wire(r)[p + 1] = Piece("body", r.body)
         \/ /\ p = Len(Wire(r)) - 1 /\ Wire(r)[p + 1] = Complete(r.method)
            /\ p = IF r.body = <<>> THEN 2 * h + 2 ELSE 2 * h + 3
<1> DEFINE w == Wire(r)
<1>1. /\ Len(w) = IF r.body = <<>> THEN 2 * h + 3 ELSE 2 * h + 4
      /\ w[1] = Begin /\ w[2] = Piece("url", Target(r))
      /\ \A i \in 1..h : /\ w[2 * i + 1] = Piece("field", r.headers[i].name)
                         /\ w[2 * i + 2] = Piece("value", r.headers[i].value)
      /\ r.body # <<>> => w[2 * h + 3] = Piece("body", r.body)
      /\ w[Len(w)] = Complete(r.method)
  BY WirePlaces
<1> HIDE DEF w
<1>2. p \in Nat /\ p <= Len(w) - 1 /\ Len(w) = IF r.body = <<>> THEN 2 * h + 3 ELSE 2 * h + 4
  BY <1>1 DEF w
<1>3. CASE p = 0 \/ p = 1
  BY <1>1, <1>3 DEF w
<1>4. CASE \E i \in 1..h : p = 2 * i \/ p = 2 * i + 1
  <2>1. PICK i \in 1..h : p = 2 * i \/ p = 2 * i + 1
    BY <1>4
  <2>2. /\ w[2 * i + 1] = Piece("field", r.headers[i].name)
        /\ w[2 * i + 2] = Piece("value", r.headers[i].value)
        /\ p = 2 * i => p + 1 = 2 * i + 1
        /\ p = 2 * i + 1 => p + 1 = 2 * i + 2
    BY <1>1, <2>1
  <2>3. /\ p = 2 * i => w[p + 1] = Piece("field", r.headers[i].name)
        /\ p = 2 * i + 1 => w[p + 1] = Piece("value", r.headers[i].value)
    BY <2>2
  <2>4. CASE p = 2 * i
    BY <2>3, <2>4 DEF w
  <2>5. CASE p = 2 * i + 1
    BY <2>3, <2>5 DEF w
  <2> QED
    BY <2>1, <2>4, <2>5
<1>5. CASE p >= 2 * h + 2
  <2>1. CASE r.body = <<>>
    <3>1. p = 2 * h + 2 /\ p + 1 = Len(w) /\ p = Len(w) - 1
      BY <1>2, <1>5, <2>1
    <3>2. w[p + 1] = Complete(r.method)
      BY <1>1, <3>1
    <3> QED
      BY <2>1, <3>1, <3>2 DEF w
  <2>2. CASE r.body # <<>> /\ p = 2 * h + 2
    <3>1. Len(w) = 2 * h + 4 /\ p + 1 = 2 * h + 3
      BY <1>1, <2>2
    <3>2. w[p + 1] = Piece("body", r.body)
      BY <1>1, <2>2, <3>1
    <3> QED
      BY <2>2, <3>1, <3>2 DEF w
  <2>3. CASE r.body # <<>> /\ p # 2 * h + 2
    <3>1. p = 2 * h + 3 /\ p + 1 = Len(w) /\ p = Len(w) - 1
      BY <1>2, <1>5, <2>3
    <3>2. w[p + 1] = Complete(r.method) /\ p = 2 * h + 3
      BY <1>1, <3>1
    <3> QED
      BY <2>3, <3>1, <3>2 DEF w
  <2> QED
    BY <2>1, <2>2, <2>3
<1>6. (p = 0 \/ p = 1) \/ (\E i \in 1..h : p = 2 * i \/ p = 2 * i + 1) \/ p >= 2 * h + 2
  <2> SUFFICES ASSUME p >= 2, p < 2 * h + 2
               PROVE  \E i \in 1..h : p = 2 * i \/ p = 2 * i + 1
    BY <1>2
  <2>1. p \div 2 \in 1..h /\ (p = 2 * (p \div 2) \/ p = 2 * (p \div 2) + 1)
    BY <1>2
  <2> QED
    BY <2>1
<1> QED
  BY <1>3, <1>4, <1>5, <1>6

-----------------------------------------------------------------------------
(***************************************************************************)
(* What the builder holds of request r when p elements of it have been     *)
(* reported, and s tokens of the next.                                     *)
(***************************************************************************)
Fresh(b) ==
  b.hstate = "INIT" /\ b.hname = <<>> /\ b.hvalue = <<>> /\ b.headers = {}

\* In the middle of the name, or of the value, of the i-th header of hs.
InField(b, hs, i, text) ==
  /\ b.hstate = "FIELD" /\ b.hname = text /\ b.hvalue = <<>>
  /\ b.headers = HeaderMap(SubSeq(hs, 1, i - 1))

InValue(b, hs, i, text) ==
  /\ b.hstate = "VALUE" /\ b.hname = hs[i].name /\ b.hvalue = text
  /\ b.headers = HeaderMap(SubSeq(hs, 1, i - 1))

HeadersRead(b, hs, p, s) ==
  /\ Len(hs) = 0 \/ p < 2 \/ (p = 2 /\ s = 0) => Fresh(b)
  /\ \A i \in 1..Len(hs) :
       /\ p = 2 * i /\ s > 0 => InField(b, hs, i, SubSeq(hs[i].name, 1, s))
       /\ p = 2 * i + 1 /\ s = 0 => InField(b, hs, i, hs[i].name)
       /\ p = 2 * i + 1 /\ s > 0 => InValue(b, hs, i, SubSeq(hs[i].value, 1, s))
       /\ p = 2 * i + 2 /\ s = 0 => InValue(b, hs, i, hs[i].value)
       /\ i = Len(hs) /\ p >= 2 * i + 2 => InValue(b, hs, i, hs[i].value)

UrlRead(r, p, s) ==
  IF p = 0 THEN <<>> ELSE IF p = 1 THEN SubSeq(Target(r), 1, s) ELSE Target(r)

BodyRead(r, p, s) ==
  LET last == 2 * Len(r.headers) + 2
  IN  IF p < last THEN <<>> ELSE IF p = last THEN SubSeq(r.body, 1, s) ELSE r.body

Built(b, r, p, s) ==
  b.url = UrlRead(r, p, s) /\ b.body = BodyRead(r, p, s) /\ HeadersRead(b, r.headers, p, s)

\* The headers of a map are those no later one replaces.
LEMMA MapMembers ==
  \A hs, x : x \in HeaderMap(hs) <=>
    \E k \in 1..Len(hs) : x = hs[k] /\ \A j \in (k + 1)..Len(hs) : hs[j].name # hs[k].name
BY DEF HeaderMap

\* Storing a header after those before it.
LEMMA StoreMap ==
  ASSUME NEW hs \in Seq(Header), NEW i \in 1..Len(hs)
  PROVE  Store(HeaderMap(SubSeq(hs, 1, i - 1)), hs[i].name, hs[i].value)
           = HeaderMap(SubSeq(hs, 1, i))
<1>0. \A k \in 1..Len(hs) : hs[k] \in Header
  OBVIOUS
<1>1. PICK f : f = SubSeq(hs, 1, i - 1)
  OBVIOUS
<1>2. PICK g : g = SubSeq(hs, 1, i)
  OBVIOUS
<1>3. i \in Nat /\ i >= 1 /\ Len(f) = i - 1 /\ Len(g) = i
  BY <1>1, <1>2
<1>4. (\A k \in 1..(i - 1) : f[k] = hs[k]) /\ (\A k \in 1..i : g[k] = hs[k])
  BY <1>1, <1>2
<1>5. hs[i] = [name |-> hs[i].name, value |-> hs[i].value]
  <2>1. hs[i] \in Header
    BY <1>0
  <2> QED
    BY <2>1 DEF Header
<1>6. \A x : x \in HeaderMap(f) <=>
              \E k \in 1..(i - 1) : /\ x = hs[k]
                                   /\ \A j \in (k + 1)..(i - 1) : hs[j].name # hs[k].name
  <2>1. \A k \in 1..(i - 1) : \A j \in (k + 1)..(i - 1) : f[j] = hs[j]
    BY <1>3, <1>4
  <2> QED
    BY <1>3, <1>4, <2>1, MapMembers
<1>7. \A x : x \in HeaderMap(g) <=>
              \E k \in 1..i : x = hs[k] /\ \A j \in (k + 1)..i : hs[j].name # hs[k].name
  <2>1. \A k \in 1..i : \A j \in (k + 1)..i : g[j] = hs[j]
    BY <1>3, <1>4
  <2> QED
    BY <1>3, <1>4, <2>1, MapMembers
<1>8. ASSUME NEW x \in HeaderMap(f), x.name # hs[i].name
      PROVE  x \in HeaderMap(g)
  <2>1. PICK k \in 1..(i - 1) : x = hs[k] /\ \A j \in (k + 1)..(i - 1) : hs[j].name # hs[k].name
    BY <1>6, <1>8
  <2>2. \A j \in (k + 1)..i : hs[j].name # hs[k].name
    BY <1>3, <1>8, <2>1
  <2>3. k \in 1..i
    BY <1>3
  <2> QED
    BY <1>7, <2>1, <2>2, <2>3
<1>9. hs[i] \in HeaderMap(g)
  <2>1. i \in 1..i /\ \A j \in (i + 1)..i : hs[j].name # hs[i].name
    BY <1>3
  <2> QED
    BY <1>7, <2>1
<1>10. ASSUME NEW x \in HeaderMap(g), x # hs[i]
       PROVE  x \in HeaderMap(f) /\ x.name # hs[i].name
  <2>1. PICK k \in 1..i : x = hs[k] /\ \A j \in (k + 1)..i : hs[j].name # hs[k].name
    BY <1>7, <1>10
  <2>2. k # i
    BY <1>10, <2>1
  <2>3. k \in 1..(i - 1) /\ i \in (k + 1)..i
    BY <1>3, <2>2
  <2>4. \A j \in (k + 1)..(i - 1) : j \in (k + 1)..i
    BY <1>3
  <2>5. hs[i].name # x.name
    BY <2>1, <2>3
  <2>6. \A j \in (k + 1)..(i - 1) : hs[j].name # hs[k].name
    BY <2>1, <2>4
  <2> QED
    BY <1>6, <2>1, <2>3, <2>5, <2>6
<1>11. Store(HeaderMap(f), hs[i].name, hs[i].value)
         = {x \in HeaderMap(f) : x.name # hs[i].name} \cup {hs[i]}
  BY <1>5 DEF Store
<1>12. Store(HeaderMap(f), hs[i].name, hs[i].value) = HeaderMap(g)
  BY <1>8, <1>9, <1>10, <1>11
<1> QED
  BY <1>1, <1>2, <1>12

\* The types of a request's parts.
LEMMA WireRequestParts ==
  ASSUME NEW r \in WireRequest
  PROVE  /\ r.headers \in Seq(Header) /\ Len(r.headers) \in Nat
         /\ r.body \in Seq(Token) /\ Target(r) \in Seq(Token)
         /\ r.path \in Seq(Token) /\ r.query \in Seq(Token)
         /\ \A i \in 1..Len(r.headers) :
              r.headers[i].name \in Seq(Token) /\ r.headers[i].value \in Seq(Token)
<1>1. r.headers \in Seq(Header) /\ r.body \in Seq(Token) /\ r.path \in Seq(Token)
      /\ r.query \in Seq(Token)
  BY DEF WireRequest, Text, PathText
<1>2. \A i \in 1..Len(r.headers) : r.headers[i] \in Header
  BY <1>1
<1>3. \A i \in 1..Len(r.headers) :
        r.headers[i].name \in Seq(Token) /\ r.headers[i].value \in Seq(Token)
  BY <1>2 DEF Header, Text
<1>4. Target(r) \in Seq(Token)
  BY WireParts DEF Text
<1> QED
  BY <1>1, <1>3, <1>4

\* on_url: the URL grows by the part of it that is reported.
LEMMA UrlCallback ==
  ASSUME NEW r \in WireRequest, NEW b \in Builder, NEW s \in 0..Len(Target(r)),
         NEW n \in 0..(Len(Target(r)) - s), Built(b, r, 1, s),
         NEW text, text = SubSeq(SubSeq(Target(r), s + 1, Len(Target(r))), 1, n)
  PROVE  /\ Built(OnUrl(b, text), r, 1, s + n)
         /\ s + n = Len(Target(r)) => Built(OnUrl(b, text), r, 2, 0)
<1> DEFINE b2 == OnUrl(b, text)
<1>1. Target(r) \in Seq(Token) /\ Len(r.headers) \in Nat
  BY WireRequestParts
<1>2. b.url = SubSeq(Target(r), 1, s) /\ b.body = <<>> /\ Fresh(b)
  BY <1>1 DEF Built, UrlRead, BodyRead, HeadersRead
<1>3. b2.url = SubSeq(Target(r), 1, s + n) /\ b2.body = <<>> /\ Fresh(b2)
  <2>1. b2 = [b EXCEPT !.url = b.url \o text]
    BY DEF OnUrl
  <2>2. b.url \o text = SubSeq(Target(r), 1, s + n)
    BY <1>1, <1>2, PrefixGrows
  <2> QED
    BY <1>2, <2>1, <2>2 DEF Builder, Fresh
<1>4. SubSeq(Target(r), 1, Len(Target(r))) = Target(r)
  BY <1>1, WholeText
<1>5. HeadersRead(b2, r.headers, 1, s + n) /\ HeadersRead(b2, r.headers, 2, 0)
  BY <1>1, <1>3 DEF HeadersRead
<1>6. SubSeq(r.body, 1, 0) = <<>>
  BY WireRequestParts, WholeText
<1>7. BodyRead(r, 1, s + n) = <<>> /\ BodyRead(r, 2, 0) = <<>>
  BY <1>1, <1>6 DEF BodyRead
<1> HIDE DEF b2
<1>8. Built(b2, r, 1, s + n)
  BY <1>3, <1>5, <1>7 DEF Built, UrlRead
<1>9. s + n = Len(Target(r)) => Built(b2, r, 2, 0)
  BY <1>3, <1>4, <1>5, <1>7 DEF Built, UrlRead
<1> QED
  BY <1>8, <1>9 DEF b2

\* on_header_field: a name begins, with the header before it stored, or goes on.
LEMMA FieldCallback ==
  ASSUME NEW r \in WireRequest, NEW b \in Builder, NEW i \in 1..Len(r.headers),
         NEW d, d = r.headers[i].name,
         NEW s \in 0..Len(d), NEW n \in 0..(Len(d) - s), Built(b, r, 2 * i, s),
         NEW text, text = SubSeq(SubSeq(d, s + 1, Len(d)), 1, n)
  PROVE  /\ s + n > 0 => Built(OnHeaderField(b, text), r, 2 * i, s + n)
         /\ s + n = Len(d) => Built(OnHeaderField(b, text), r, 2 * i + 1, 0)
<1> DEFINE b2 == OnHeaderField(b, text)
           hs == r.headers
<1>1. hs \in Seq(Header) /\ Len(hs) \in Nat /\ d \in Seq(Token) /\ r.body \in Seq(Token)
  BY WireRequestParts
<1> HIDE DEF hs
<1>2. i \in 1..Len(hs) /\ i \in Nat /\ i >= 1 /\ i <= Len(hs)
  BY <1>1 DEF hs
<1>3. b.url = Target(r) /\ b.body = <<>> /\ HeadersRead(b, hs, 2 * i, s)
  BY <1>1, <1>2 DEF Built, UrlRead, BodyRead, hs
<1>4. SubSeq(d, 1, s) \o text = SubSeq(d, 1, s + n)
  BY <1>1, PrefixGrows
<1>5. SubSeq(d, 1, Len(d)) = d /\ SubSeq(d, 1, 0) = <<>>
  BY <1>1, WholeText
<1>6. b2.url = b.url /\ b2.body = b.body
  BY DEF OnHeaderField, Builder
<1>7. InField(b2, hs, i, SubSeq(d, 1, s + n))
  <2>1. CASE s > 0
    <3>1. InField(b, hs, i, SubSeq(d, 1, s))
      BY <1>2, <1>3, <2>1 DEF HeadersRead, hs
    <3>2. b2 = [b EXCEPT !.hstate = "FIELD", !.hname = b.hname \o text]
      BY <3>1 DEF InField, OnHeaderField
    <3>3. /\ b2.hstate = "FIELD" /\ b2.hname = b.hname \o text
          /\ b2.hvalue = b.hvalue /\ b2.headers = b.headers
      BY <3>2 DEF Builder
    <3> QED
      BY <1>4, <3>1, <3>3 DEF InField
  <2>2. CASE s = 0 /\ i = 1
    <3>1. Fresh(b)
      BY <1>1, <1>2, <1>3, <2>2 DEF HeadersRead
    <3>2. b2 = [b EXCEPT !.hstate = "FIELD", !.hname = b.hname \o text]
      BY <3>1 DEF Fresh, OnHeaderField
    <3>3. b.hname \o text = SubSeq(d, 1, s + n)
      BY <1>4, <1>5, <2>2, <3>1 DEF Fresh
    <3>4. SubSeq(hs, 1, i - 1) = <<>> /\ HeaderMap(<<>>) = {}
      BY <1>1, <2>2, WholeText DEF HeaderMap
    <3> QED
      BY <3>1, <3>2, <3>3, <3>4 DEF InField, Builder, Fresh
  <2>3. CASE s = 0 /\ i > 1
    <3>1. i - 1 \in 1..Len(hs) /\ 2 * i = 2 * (i - 1) + 2
      BY <1>2, <2>3
    <3>2. InValue(b, hs, i - 1, hs[i - 1].value)
      BY <1>3, <2>3, <3>1 DEF HeadersRead
    <3>3. b2 = [b EXCEPT !.hstate = "FIELD", !.hname = text, !.hvalue = <<>>,
                         !.headers = Store(b.headers, b.hname, b.hvalue)]
      BY <3>2 DEF InValue, OnHeaderField
    <3>4. Store(b.headers, b.hname, b.hvalue) = HeaderMap(SubSeq(hs, 1, i - 1))
      BY <1>1, <3>1, <3>2, StoreMap DEF InValue
    <3>5. text = SubSeq(d, 1, s + n)
      <4>1. text \in Seq(Token)
        BY <1>1, <2>3
      <4> QED
        BY <1>4, <1>5, <2>3, <4>1, WholeText
    <3> QED
      BY <3>3, <3>4, <3>5 DEF InField, Builder
  <2> QED
    BY <1>2, <2>1, <2>2, <2>3
<1> HIDE DEF b2
<1>8. s + n > 0 => HeadersRead(b2, hs, 2 * i, s + n)
  <2> SUFFICES ASSUME s + n > 0 PROVE HeadersRead(b2, hs, 2 * i, s + n)
    OBVIOUS
  <2>1. ~(Len(hs) = 0 \/ 2 * i < 2 \/ (2 * i = 2 /\ s + n = 0))
    BY <1>2
  <2>2. ASSUME NEW j \in 1..Len(hs)
        PROVE  /\ 2 * i = 2 * j => j = i
               /\ 2 * i # 2 * j + 1
               /\ s + n # 0
               /\ ~(j = Len(hs) /\ 2 * i >= 2 * j + 2)
    <3>1. PICK l : l = Len(hs)
      OBVIOUS
    <3>2. l \in Nat /\ i \in 1..l /\ j \in 1..l
      BY <1>1, <1>2, <3>1
    <3>3. s + n # 0
      BY <1>1, <1>2
    <3> QED
      BY ONLY <3>1, <3>2, <3>3
  <2> QED
    BY <1>7, <2>1, <2>2 DEF HeadersRead, hs
<1>9. s + n = Len(d) => HeadersRead(b2, hs, 2 * i + 1, 0)
  <2> SUFFICES ASSUME s + n = Len(d) PROVE HeadersRead(b2, hs, 2 * i + 1, 0)
    OBVIOUS
  <2>1. ~(Len(hs) = 0 \/ 2 * i + 1 < 2 \/ (2 * i + 1 = 2 /\ 0 = 0))
    BY <1>2
  <2>2. ASSUME NEW j \in 1..Len(hs)
        PROVE  /\ 2 * i + 1 # 2 * j
               /\ 2 * i + 1 = 2 * j + 1 => j = i
               /\ 2 * i + 1 # 2 * j + 2
               /\ ~(j = Len(hs) /\ 2 * i + 1 >= 2 * j + 2)
               /\ ~(0 > 0)
    <3>1. PICK l : l = Len(hs)
      OBVIOUS
    <3>2. l \in Nat /\ i \in 1..l /\ j \in 1..l
      BY <1>1, <1>2, <3>1
    <3> QED
      BY ONLY <3>1, <3>2
  <2>3. InField(b2, hs, i, hs[i].name)
    BY <1>5, <1>7 DEF hs
  <2> QED
    BY <2>1, <2>2, <2>3 DEF HeadersRead
<1>10. UrlRead(r, 2 * i, s + n) = Target(r) /\ UrlRead(r, 2 * i + 1, 0) = Target(r)
  BY <1>2 DEF UrlRead
<1>11. BodyRead(r, 2 * i, s + n) = <<>> /\ BodyRead(r, 2 * i + 1, 0) = <<>>
  BY <1>1, <1>2 DEF BodyRead, hs
<1>12. s + n > 0 => Built(b2, r, 2 * i, s + n)
  BY <1>3, <1>6, <1>8, <1>10, <1>11 DEF Built, hs
<1>13. s + n = Len(d) => Built(b2, r, 2 * i + 1, 0)
  BY <1>3, <1>6, <1>9, <1>10, <1>11 DEF Built, hs
<1> QED
  BY <1>12, <1>13 DEF b2

\* on_header_value: a value begins or goes on.
LEMMA ValueCallback ==
  ASSUME NEW r \in WireRequest, NEW b \in Builder, NEW i \in 1..Len(r.headers),
         NEW d, d = r.headers[i].value,
         NEW s \in 0..Len(d), NEW n \in 0..(Len(d) - s), Built(b, r, 2 * i + 1, s),
         NEW text, text = SubSeq(SubSeq(d, s + 1, Len(d)), 1, n)
  PROVE  /\ s + n > 0 => Built(OnHeaderValue(b, text), r, 2 * i + 1, s + n)
         /\ s + n = Len(d) => Built(OnHeaderValue(b, text), r, 2 * i + 2, 0)
<1> DEFINE b2 == OnHeaderValue(b, text)
           hs == r.headers
<1>1. hs \in Seq(Header) /\ Len(hs) \in Nat /\ d \in Seq(Token) /\ r.body \in Seq(Token)
  BY WireRequestParts
<1> HIDE DEF hs
<1>2. i \in 1..Len(hs) /\ i \in Nat /\ i >= 1 /\ i <= Len(hs)
  BY <1>1 DEF hs
<1>3. b.url = Target(r) /\ b.body = <<>> /\ HeadersRead(b, hs, 2 * i + 1, s)
  BY <1>1, <1>2 DEF Built, UrlRead, BodyRead, hs
<1>4. SubSeq(d, 1, s) \o text = SubSeq(d, 1, s + n)
  BY <1>1, PrefixGrows
<1>5. SubSeq(d, 1, Len(d)) = d /\ SubSeq(d, 1, 0) = <<>> /\ SubSeq(r.body, 1, 0) = <<>>
  BY <1>1, WholeText
<1>6. b2.url = b.url /\ b2.body = b.body
  BY DEF OnHeaderValue, Builder
<1>7. \/ InField(b, hs, i, hs[i].name) /\ s = 0
      \/ InValue(b, hs, i, SubSeq(d, 1, s))
  <2>1. CASE s > 0
    BY <1>2, <1>3, <2>1 DEF HeadersRead, hs
  <2>2. CASE s = 0
    BY <1>2, <1>3, <2>2 DEF HeadersRead
  <2> QED
    BY <2>1, <2>2
<1>8. InValue(b2, hs, i, SubSeq(d, 1, s + n))
  <2>1. b2 = [b EXCEPT !.hstate = "VALUE", !.hvalue = b.hvalue \o text]
    BY DEF OnHeaderValue
  <2>2. b.hvalue \o text = SubSeq(d, 1, s + n)
    BY <1>4, <1>5, <1>7 DEF InField, InValue
  <2> QED
    BY <1>7, <2>1, <2>2 DEF InField, InValue, Builder
<1> HIDE DEF b2
<1>10. s + n > 0 => HeadersRead(b2, hs, 2 * i + 1, s + n)
  <2> SUFFICES ASSUME s + n > 0 PROVE HeadersRead(b2, hs, 2 * i + 1, s + n)
    OBVIOUS
  <2>1. ~(Len(hs) = 0 \/ 2 * i + 1 < 2 \/ (2 * i + 1 = 2 /\ s + n = 0))
    BY <1>2
  <2>2. ASSUME NEW j \in 1..Len(hs)
        PROVE  /\ 2 * i + 1 # 2 * j
               /\ s + n # 0
               /\ 2 * i + 1 = 2 * j + 1 => j = i
               /\ ~(j = Len(hs) /\ 2 * i + 1 >= 2 * j + 2)
    BY <1>1, <1>2
  <2> QED
    BY <1>8, <2>1, <2>2 DEF HeadersRead, hs
<1>11. s + n = Len(d) => HeadersRead(b2, hs, 2 * i + 2, 0)
  <2> SUFFICES ASSUME s + n = Len(d) PROVE HeadersRead(b2, hs, 2 * i + 2, 0)
    OBVIOUS
  <2>1. ~(Len(hs) = 0 \/ 2 * i + 2 < 2 \/ (2 * i + 2 = 2 /\ 0 = 0))
    BY <1>2
  <2>2. ASSUME NEW j \in 1..Len(hs)
        PROVE  /\ ~(0 > 0)
               /\ 2 * i + 2 # 2 * j + 1
               /\ 2 * i + 2 = 2 * j + 2 => j = i
               /\ j = Len(hs) /\ 2 * i + 2 >= 2 * j + 2 => j = i
    <3>1. PICK l : l = Len(hs)
      OBVIOUS
    <3>2. l \in Nat /\ i \in 1..l /\ j \in 1..l
      BY <1>1, <1>2, <3>1
    <3> QED
      BY ONLY <3>1, <3>2
  <2>3. InValue(b2, hs, i, hs[i].value)
    BY <1>5, <1>8 DEF hs
  <2> QED
    BY <2>1, <2>2, <2>3 DEF HeadersRead
<1>12. UrlRead(r, 2 * i + 1, s + n) = Target(r) /\ UrlRead(r, 2 * i + 2, 0) = Target(r)
  BY <1>2 DEF UrlRead
<1>13. BodyRead(r, 2 * i + 1, s + n) = <<>> /\ BodyRead(r, 2 * i + 2, 0) = <<>>
  <2>1. PICK h \in Nat : h = Len(r.headers) /\ i <= h
    BY <1>1, <1>2 DEF hs
  <2>2. i = h \/ i < h
    BY <1>2, <2>1
  <2>3. CASE i < h
    <3>1. 2 * i + 1 < 2 * h + 2 /\ 2 * i + 2 < 2 * h + 2
      BY <1>2, <2>1, <2>3
    <3> QED
      BY <2>1, <3>1 DEF BodyRead
  <2>4. CASE i = h
    <3>1. 2 * i + 1 < 2 * h + 2 /\ 2 * i + 2 = 2 * h + 2 /\ ~(2 * i + 2 < 2 * h + 2)
      BY <1>2, <2>1, <2>4
    <3> QED
      BY <1>5, <2>1, <3>1 DEF BodyRead
  <2> QED
    BY <2>2, <2>3, <2>4
<1>14. s + n > 0 => Built(b2, r, 2 * i + 1, s + n)
  BY <1>3, <1>6, <1>10, <1>12, <1>13 DEF Built, hs
<1>15. s + n = Len(d) => Built(b2, r, 2 * i + 2, 0)
  BY <1>3, <1>6, <1>11, <1>12, <1>13 DEF Built, hs
<1> QED
  BY <1>14, <1>15 DEF b2

\* on_body: the headers have been read, and the body grows.
LEMMA BodyCallback ==
  ASSUME NEW r \in WireRequest, NEW b \in Builder, NEW h \in Nat, h = Len(r.headers),
         NEW s \in 0..Len(r.body), NEW n \in 0..(Len(r.body) - s), Built(b, r, 2 * h + 2, s),
         NEW text, text = SubSeq(SubSeq(r.body, s + 1, Len(r.body)), 1, n)
  PROVE  /\ Built(OnBody(b, text), r, 2 * h + 2, s + n)
         /\ s + n = Len(r.body) => Built(OnBody(b, text), r, 2 * h + 3, 0)
<1> DEFINE b2 == OnBody(b, text)
           hs == r.headers
<1>1. r.body \in Seq(Token)
  BY WireRequestParts
<1> HIDE DEF hs
<1>2. b.url = Target(r) /\ b.body = SubSeq(r.body, 1, s) /\ HeadersRead(b, hs, 2 * h + 2, s)
  BY DEF Built, UrlRead, BodyRead, hs
<1>3. b2 = [b EXCEPT !.body = SubSeq(r.body, 1, s + n)]
  BY <1>1, <1>2, PrefixGrows DEF OnBody
<1>4. /\ b2.url = Target(r) /\ b2.body = SubSeq(r.body, 1, s + n) /\ b2.hstate = b.hstate
      /\ b2.hname = b.hname /\ b2.hvalue = b.hvalue /\ b2.headers = b.headers
  BY <1>2, <1>3 DEF Builder
<1> HIDE DEF b2
<1>5. (h = 0 => Fresh(b2)) /\ (h > 0 => InValue(b2, hs, h, hs[h].value))
  <2>1. h = 0 => Fresh(b)
    BY <1>2 DEF HeadersRead, hs
  <2>2. h > 0 => InValue(b, hs, h, hs[h].value)
    <3>1. Len(hs) = h /\ 2 * h + 2 >= 2 * h + 2 /\ (h > 0 => h \in 1..h)
      BY DEF hs
    <3> QED
      BY <1>2, <3>1 DEF HeadersRead
  <2> QED
    BY <1>4, <2>1, <2>2 DEF Fresh, InValue
<1>6. ASSUME NEW q \in {2 * h + 2, 2 * h + 3}, NEW m \in Nat
      PROVE  HeadersRead(b2, hs, q, m)
  <2>1. Len(hs) = h
    BY DEF hs
  <2>2. Len(hs) = 0 \/ q < 2 \/ (q = 2 /\ m = 0) => Fresh(b2)
    BY <1>5, <2>1
  <2>3. ASSUME NEW j \in 1..h
        PROVE  q # 2 * j /\ q # 2 * j + 1 /\ (q = 2 * j + 2 => j = h)
    OBVIOUS
  <2>4. ASSUME NEW j \in 1..h, j = h
        PROVE  InValue(b2, hs, j, hs[j].value)
    BY <1>5, <2>4
  <2> QED
    BY <2>1, <2>2, <2>3, <2>4 DEF HeadersRead
<1>7. UrlRead(r, 2 * h + 2, s + n) = Target(r) /\ UrlRead(r, 2 * h + 3, 0) = Target(r)
  BY DEF UrlRead
<1>8. BodyRead(r, 2 * h + 2, s + n) = SubSeq(r.body, 1, s + n) /\ BodyRead(r, 2 * h + 3, 0) = r.body
  BY DEF BodyRead
<1>9. SubSeq(r.body, 1, Len(r.body)) = r.body
  BY <1>1, WholeText
<1>10. s + n \in Nat /\ 0 \in Nat
  BY <1>1
<1>11. Built(b2, r, 2 * h + 2, s + n)
  BY <1>4, <1>6, <1>7, <1>8, <1>10 DEF Built, hs
<1>12. s + n = Len(r.body) => Built(b2, r, 2 * h + 3, 0)
  BY <1>4, <1>6, <1>7, <1>8, <1>9, <1>10 DEF Built, hs
<1> QED
  BY <1>11, <1>12 DEF b2

\* Before a request, and when it has begun, there is nothing of it.
LEMMA NothingBuilt ==
  ASSUME NEW r \in WireRequest, NEW b \in Builder
  PROVE  /\ Built(NewBuilder, r, 0, 0)
         /\ Built(b, r, 0, 0) => Built(b, r, 1, 0)
<1>1. Len(r.headers) \in Nat /\ SubSeq(Target(r), 1, 0) = <<>> /\ SubSeq(r.body, 1, 0) = <<>>
  BY WireRequestParts, WholeText
<1>2. UrlRead(r, 0, 0) = <<>> /\ UrlRead(r, 1, 0) = <<>>
  BY <1>1 DEF UrlRead
<1>3. BodyRead(r, 0, 0) = <<>> /\ BodyRead(r, 1, 0) = <<>>
  BY <1>1 DEF BodyRead
<1>4. \A x : HeadersRead(x, r.headers, 0, 0) <=> Fresh(x)
  BY <1>1 DEF HeadersRead
<1>5. \A x : HeadersRead(x, r.headers, 1, 0) <=> Fresh(x)
  BY <1>1 DEF HeadersRead
<1>6. Fresh(NewBuilder) /\ NewBuilder.url = <<>> /\ NewBuilder.body = <<>>
  BY DEF NewBuilder, Fresh
<1> QED
  BY <1>2, <1>3, <1>4, <1>5, <1>6 DEF Built

-----------------------------------------------------------------------------
(***************************************************************************)
(* The request that is built from what has been read.                      *)
(***************************************************************************)

\* A path is read back from a text that has a question mark only after it.
LEMMA PathReadBack ==
  ASSUME NEW path \in Seq(Token), NEW rest \in Seq(Token), NEW s, s = path \o rest,
         \A i \in 1..Len(path) : path[i] # QueryMark,
         rest # <<>> => rest[1] = QueryMark
  PROVE  PathLength(s) = Len(path) /\ SubSeq(s, 1, Len(path)) = path
<1> DEFINE before == {i \in 1..Len(s) : \A j \in 1..i : s[j] # QueryMark}
<1>1. Len(path) \in Nat /\ Len(rest) \in Nat
  OBVIOUS
<1>2. /\ s \in Seq(Token) /\ Len(s) = Len(path) + Len(rest)
      /\ \A i \in 1..(Len(path) + Len(rest)) :
           s[i] = IF i <= Len(path) THEN path[i] ELSE rest[i - Len(path)]
  BY ConcatProperties
<1>3. \A i \in 1..Len(path) : s[i] = path[i]
  BY <1>1, <1>2
<1>4. ASSUME NEW i \in 1..Len(s), \A j \in 1..i : s[j] # QueryMark
      PROVE  i \in 1..Len(path)
  <2> SUFFICES ASSUME i > Len(path) PROVE FALSE
    BY <1>1, <1>2
  <2>1. Len(rest) >= 1 /\ rest[1] = QueryMark
    BY <1>1, <1>2
  <2>2. Len(path) + 1 \in 1..i /\ Len(path) + 1 \in 1..(Len(path) + Len(rest))
        /\ ~(Len(path) + 1 <= Len(path)) /\ Len(path) + 1 - Len(path) = 1
    BY <1>1, <1>2, <2>1
  <2>3. s[Len(path) + 1] = rest[1]
    BY <1>2, <2>2
  <2> QED
    BY <1>4, <2>1, <2>2, <2>3
<1>5. ASSUME NEW i \in 1..Len(path)
      PROVE  i \in 1..Len(s) /\ \A j \in 1..i : s[j] # QueryMark
  <2>1. \A j \in 1..i : j \in 1..Len(path)
    BY <1>1
  <2> QED
    BY <1>1, <1>2, <1>3, <2>1
<1>6. before = 1..Len(path)
  BY <1>4, <1>5
<1>7. Cardinality(1..Len(path)) = Len(path)
  <2>1. \A n \in Nat : Cardinality(1..n) = n
    BY FS_Interval
  <2> QED
    BY <1>1, <2>1
<1>8. PathLength(s) = Len(path)
  BY <1>6, <1>7 DEF PathLength
<1>9. SubSeq(s, 1, Len(path)) = path
  <2>1. /\ SubSeq(s, 1, Len(path)) \in Seq(Token) /\ Len(SubSeq(s, 1, Len(path))) = Len(path)
        /\ \A i \in 1..Len(path) : SubSeq(s, 1, Len(path))[i] = s[i]
    BY <1>1, <1>2
  <2> QED
    BY <1>3, <2>1, SeqEqual
<1> QED
  BY <1>8, <1>9

\* What is after a prefix, and after its question mark.
LEMMA RestReadBack ==
  ASSUME NEW a \in Seq(Token), NEW b \in Seq(Token)
  PROVE  SubSeq(a \o b, Len(a) + 1, Len(a \o b)) = b
<1>1. Len(a) \in Nat /\ Len(b) \in Nat
  OBVIOUS
<1>s. PICK s : s = a \o b
  OBVIOUS
<1>2. /\ s \in Seq(Token) /\ Len(s) = Len(a) + Len(b)
      /\ \A i \in 1..(Len(a) + Len(b)) : s[i] = IF i <= Len(a) THEN a[i] ELSE b[i - Len(a)]
  BY <1>s, ConcatProperties
<1>3. \A i \in 1..Len(b) : s[Len(a) + i] = b[i]
  BY <1>1, <1>2
<1>4. \A i \in (Len(a) + 1)..Len(s) : s[i] \in Token
  BY <1>1, <1>2
<1>5. /\ SubSeq(s, Len(a) + 1, Len(s)) \in Seq(Token)
      /\ Len(SubSeq(s, Len(a) + 1, Len(s))) = Len(b)
      /\ \A i \in 1..Len(b) : SubSeq(s, Len(a) + 1, Len(s))[i] = s[Len(a) + i]
  <2>1. Len(s) \in Int /\ Len(a) + 1 \in Int
    BY <1>1, <1>2
  <2> QED
    BY <1>1, <1>2, <1>4, <2>1, SubSeqProperties
<1> QED
  BY <1>s, <1>3, <1>5, SeqEqual

\* The path and the query are read back from the target of a request, unless
\* its authority is refused.
LEMMA TargetReadBack ==
  ASSUME NEW r \in WireRequest
  PROVE  /\ StartsWith(Target(r), BadAuthority) <=> r.authority = "bad"
         /\ r.authority # "bad" =>
              /\ PathOf(Target(r)) = IF r.path = <<>> THEN <<Root>> ELSE r.path
              /\ QueryOf(Target(r)) = r.query
<1>1. r.path \in Seq(Token) /\ r.query \in Seq(Token) /\ r.authority \in {"none", "good", "bad"}
  BY DEF WireRequest, PathText, Text
<1>2. \A i \in 1..Len(r.path) : r.path[i] \notin {QueryMark, Authority, BadAuthority}
  BY <1>1 DEF WireRequest, PathText
<1>3. <<QueryMark>> \in Seq(Token) /\ <<Authority>> \in Seq(Token)
      /\ <<BadAuthority>> \in Seq(Token) /\ <<>> \in Seq(Token)
  BY TokenAssumption
<1>4. PICK q : q = IF r.query = <<>> THEN <<>> ELSE <<QueryMark>> \o r.query
  OBVIOUS
<1>5. PICK a : a = CASE r.authority = "none" -> <<>>
                     [] r.authority = "good" -> <<Authority>>
                     [] r.authority = "bad" -> <<BadAuthority>>
  OBVIOUS
<1>a. q \in Seq(Token)
  BY <1>1, <1>3, <1>4, ConcatProperties
<1>b. a \in Seq(Token)
  BY <1>1, <1>3, <1>5
<1>c. PICK s : s = r.path \o q
  OBVIOUS
<1>d. s \in Seq(Token)
  BY <1>1, <1>a, <1>c
<1>6. Target(r) = a \o s
  <2>1. Target(r) = (a \o r.path) \o q
    BY <1>4, <1>5 DEF Target
  <2>2. \A x, y, z \in Seq(Token) : (x \o y) \o z = x \o (y \o z)
    BY ConcatAssociative
  <2>3. (a \o r.path) \o q = a \o (r.path \o q)
    BY <1>1, <1>a, <1>b, <2>2, Zenon
  <2> QED
    BY <1>c, <2>1, <2>3, Zenon
<1>7. q # <<>> => q[1] = QueryMark
  BY <1>1, <1>3, <1>4
<1>8. s # <<>> => s[1] \notin {Authority, BadAuthority}
  <2>1. CASE r.path # <<>>
    <3>1. 1 \in 1..Len(r.path) /\ s[1] = r.path[1]
      BY <1>1, <1>a, <1>c, <2>1
    <3> QED
      BY <1>2, <3>1
  <2>2. CASE r.path = <<>>
    <3>1. s = q
      BY <1>a, <1>c, <2>2, WholeText
    <3> QED
      BY <1>7, <3>1 DEF QueryMark, Authority, BadAuthority
  <2> QED
    BY <2>1, <2>2
<1>9. r.authority = "none" => Target(r) = s
  BY <1>5, <1>6, <1>d, WholeText
<1>10. r.authority # "none" => Target(r) # <<>> /\ Target(r)[1] = a[1] /\ Tail(Target(r)) = s
  <2> SUFFICES ASSUME r.authority # "none"
               PROVE  Target(r) # <<>> /\ Target(r)[1] = a[1] /\ Tail(Target(r)) = s
    OBVIOUS
  <2>1. PICK x \in Token : a = <<x>>
    BY <1>1, <1>5, TokenAssumption
  <2> QED
    BY <1>6, <1>d, <2>1
<1>11. StartsWith(Target(r), BadAuthority) <=> r.authority = "bad"
  <2>1. CASE r.authority = "none"
    BY <1>8, <1>9, <2>1 DEF StartsWith
  <2>2. CASE r.authority = "good"
    BY <1>5, <1>10, <2>2 DEF StartsWith, Authority, BadAuthority
  <2>3. CASE r.authority = "bad"
    BY <1>5, <1>10, <2>3 DEF StartsWith
  <2> QED
    BY <1>1, <2>1, <2>2, <2>3
<1>12. r.authority # "bad" => AfterAuthority(Target(r)) = s
  <2>1. CASE r.authority = "none"
    BY <1>8, <1>9, <2>1 DEF AfterAuthority, StartsWith
  <2>2. CASE r.authority = "good"
    BY <1>5, <1>10, <2>2 DEF AfterAuthority, StartsWith
  <2> QED
    BY <1>1, <2>1, <2>2
<1>13. PathLength(s) = Len(r.path) /\ SubSeq(s, 1, Len(r.path)) = r.path
  <2>1. \A i \in 1..Len(r.path) : r.path[i] # QueryMark
    BY <1>2
  <2> QED
    BY <1>1, <1>7, <1>a, <1>c, <2>1, PathReadBack
<1>14. SubSeq(s, Len(r.path) + 2, Len(s)) = r.query
  <2>1. CASE r.query = <<>>
    <3>1. s = r.path
      BY <1>1, <1>4, <1>c, <2>1, WholeText
    <3> QED
      BY <1>1, <2>1, <3>1
  <2>2. CASE r.query # <<>>
    <3>1. PICK front : front = r.path \o <<QueryMark>>
      OBVIOUS
    <3>2. front \in Seq(Token) /\ Len(front) = Len(r.path) + 1 /\ Len(r.path) \in Nat
      BY <1>1, <1>3, <3>1
    <3>3. s = front \o r.query
      <4>1. s = r.path \o (<<QueryMark>> \o r.query)
        BY <1>4, <1>c, <2>2
      <4>2. \A x, y, z \in Seq(Token) : (x \o y) \o z = x \o (y \o z)
        BY ConcatAssociative
      <4>3. (r.path \o <<QueryMark>>) \o r.query = r.path \o (<<QueryMark>> \o r.query)
        BY <1>1, <1>3, <4>2, Zenon
      <4> QED
        BY <3>1, <4>1, <4>3, Zenon
    <3>4. SubSeq(front \o r.query, Len(front) + 1, Len(front \o r.query)) = r.query
      BY <1>1, <3>2, RestReadBack
    <3>5. Len(r.path) + 2 = Len(front) + 1
      BY <3>2
    <3> QED
      BY <3>3, <3>4, <3>5
  <2> QED
    BY <2>1, <2>2
<1> QED
  BY <1>11, <1>12, <1>13, <1>14 DEF PathOf, QueryOf

\* get_response owes a request that has been read what it says.
LEMMA AnswerOwed ==
  ASSUME NEW r \in WireRequest, NEW b \in Builder, NEW i \in Instances,
         Built(b, r, Len(Wire(r)) - 1, 0)
  PROVE  GetResponse(i, b, r.method) = OwedInFact(i, r)
<1> DEFINE hs == r.headers
           h == Len(r.headers)
           read == SubSeq(hs, 1, h - 1)
           p == Len(Wire(r)) - 1
<1>1. hs \in Seq(Header) /\ h \in Nat /\ r.body \in Seq(Token)
  BY WireRequestParts
<1>2. p = IF r.body = <<>> THEN 2 * h + 2 ELSE 2 * h + 3
  <2>1. Len(Wire(r)) = IF r.body = <<>> THEN 2 * h + 3 ELSE 2 * h + 4
    BY <1>1, WirePlaces
  <2>2. CASE r.body = <<>>
    BY <1>1, <2>1, <2>2
  <2>3. CASE r.body # <<>>
    BY <1>1, <2>1, <2>3
  <2> QED
    BY <2>2, <2>3
<1> HIDE DEF p
<1>3. p >= 2 * h + 2 /\ p >= 2 /\ p \in Nat
  BY <1>1, <1>2
<1>4. b.url = UrlRead(r, p, 0) /\ b.body = BodyRead(r, p, 0) /\ HeadersRead(b, hs, p, 0)
  BY DEF Built, p
<1>5. b.url = Target(r)
  BY <1>3, <1>4 DEF UrlRead
<1>6. b.body = r.body
  <2>1. CASE r.body = <<>>
    <3>1. BodyRead(r, p, 0) = SubSeq(r.body, 1, 0)
      BY <1>1, <1>2, <2>1 DEF BodyRead
    <3> QED
      BY <1>1, <1>4, <2>1, <3>1, WholeText
  <2>2. CASE r.body # <<>>
    BY <1>1, <1>2, <1>4, <2>2 DEF BodyRead
  <2> QED
    BY <2>1, <2>2
<1>7. b.headers = HeaderMap(read)
  <2>1. CASE h = 0
    <3>1. b.headers = {}
      BY <1>4, <2>1 DEF HeadersRead, Fresh
    <3>2. read = <<>>
      BY <1>1, <2>1, SubSeqEmpty
    <3>3. HeaderMap(<<>>) = {}
      BY DEF HeaderMap
    <3> QED
      BY <3>1, <3>2, <3>3
  <2>2. CASE h > 0
    <3>1. h \in 1..Len(hs)
      BY <1>1, <2>2
    <3>2. InValue(b, hs, h, hs[h].value)
      BY <1>3, <1>4, <3>1 DEF HeadersRead
    <3> QED
      BY <3>2 DEF InValue
  <2> QED
    BY <1>1, <2>1, <2>2
<1>8. BuildThrows(b, r.method) <=> r.method \notin SupportedMethod \/ r.authority = "bad"
  BY <1>5, TargetReadBack DEF BuildThrows
<1>9. r.authority # "bad" => Build(b, r.method) = Intended(r, read)
  BY <1>5, <1>6, <1>7, TargetReadBack DEF Build, Intended
<1>10. CASE BuildThrows(b, r.method)
  BY <1>8, <1>10 DEF GetResponse, OwedInFact, Owed
<1>11. CASE ~BuildThrows(b, r.method)
  <2> DEFINE request == Intended(r, read)
             found == Matches(i, request.path)
             handlers == {x.on[r.method] : x \in found}
  <2>1. Build(b, r.method) = request
    BY <1>8, <1>9, <1>11
  <2> HIDE DEF request
  <2>2. CASE found = {}
    <3>1. \A x \in Resources : x.server = i => request.path \notin x.serves
      BY <2>2 DEF Matches
    <3>2. GetResponse(i, b, r.method) = [code |-> "NOT_FOUND", request |-> {}]
      BY <1>11, <2>1, <2>2 DEF GetResponse
    <3>3. OwedInFact(i, r) = [code |-> "NOT_FOUND", request |-> {}]
      BY <1>8, <1>11, <3>1 DEF OwedInFact, Owed, request
    <3> QED
      BY <3>2, <3>3
  <2>3. CASE found # {}
    <3>1. PICK x : x \in Resources /\ x.server = i /\ request.path \in x.serves /\ found = {x}
      BY <2>3, ResourcesAssumption DEF Matches
    <3>2. x = CHOOSE y \in Resources : y.server = i /\ request.path \in y.serves
      BY <3>1 DEF Matches
    <3>3. handlers = {x.on[r.method]}
      BY <3>1
    <3>4. GetResponse(i, b, r.method) =
            [code |-> IF "throws" \in handlers THEN "INTERNAL_ERROR"
                      ELSE CHOOSE code \in handlers : TRUE,
             request |-> {request}]
      BY <1>11, <2>1, <2>3 DEF GetResponse
    <3>5. GetResponse(i, b, r.method) =
            [code |-> IF x.on[r.method] = "throws" THEN "INTERNAL_ERROR" ELSE x.on[r.method],
             request |-> {request}]
      BY <3>3, <3>4
    <3>6. OwedInFact(i, r) =
            [code |-> IF x.on[r.method] = "throws" THEN "INTERNAL_ERROR" ELSE x.on[r.method],
             request |-> {request}]
      BY <1>8, <1>11, <3>1, <3>2 DEF OwedInFact, Owed, request
    <3> QED
      BY <3>5, <3>6
  <2> QED
    BY <2>2, <2>3
<1> QED
  BY <1>10, <1>11

-----------------------------------------------------------------------------
(***************************************************************************)
(* What is unread of the first request.                                    *)
(***************************************************************************)

\* Nothing among the first k elements of u was replaced by something that is not
\* HTTP.
Sound(u, k) == \A j \in 1..k : u[j] # Bad

\* The k-th element that is left of w when p elements of it have been reported,
\* and s tokens of the next.
Left(w, p, s, k) ==
  IF k = 1 THEN [w[p + 1] EXCEPT !.data = SubSeq(@, s + 1, Len(@))] ELSE w[p + k]

AsSent(u, w, p, s) ==
  \A k \in 1..Len(u) : p + k <= Len(w) /\ Sound(u, k) => u[k] = Left(w, p, s, k)

\* An element that has only begun is left whole.
LEMMA LeftWhole ==
  ASSUME NEW w \in Seq(Element), NEW p \in 0..(Len(w) - 1), NEW k \in Nat \ {0},
         p + k <= Len(w)
  PROVE  Left(w, p, 0, k) = w[p + k]
<1>1. CASE k = 1
  <2>1. w[p + 1] \in Element
    BY <1>1
  <2>2. w[p + 1].data \in Seq(Token)
    BY <2>1 DEF Element, Text
  <2>3. SubSeq(w[p + 1].data, 1, Len(w[p + 1].data)) = w[p + 1].data
    BY <2>2, WholeText
  <2> QED
    BY <1>1, <2>1, <2>3 DEF Left, Element
<1>2. CASE k # 1
  BY <1>2 DEF Left
<1> QED
  BY <1>1, <1>2

\* When an element is over, what is left is left of the next one.
LEMMA NextElement ==
  ASSUME NEW w \in Seq(Element), NEW p \in Nat, NEW s \in Nat, p + 1 < Len(w),
         NEW u \in Seq(Element), u # <<>>, u[1] # Bad, AsSent(u, w, p, s)
  PROVE  /\ AsSent(Tail(u), w, p + 1, 0)
         /\ Sound(Tail(u), Len(Tail(u))) => Sound(u, Len(u))
<1>1. /\ Tail(u) \in Seq(Element) /\ Len(u) \in Nat /\ Len(Tail(u)) = Len(u) - 1 /\ Len(u) >= 1
      /\ \A k \in 1..(Len(u) - 1) : Tail(u)[k] = u[k + 1]
  OBVIOUS
<1>2. ASSUME NEW k \in 0..(Len(u) - 1), Sound(Tail(u), k)
      PROVE  Sound(u, k + 1)
  <2> SUFFICES ASSUME NEW j \in 1..(k + 1) PROVE u[j] # Bad
    BY DEF Sound
  <2>1. CASE j = 1
    BY <2>1
  <2>2. CASE j # 1
    <3>1. j - 1 \in 1..k /\ j - 1 \in 1..(Len(u) - 1) /\ (j - 1) + 1 = j
      BY <1>1, <2>2
    <3> QED
      BY <1>1, <1>2, <3>1 DEF Sound
  <2> QED
    BY <2>1, <2>2
<1>3. ASSUME NEW k \in 1..Len(Tail(u)), p + 1 + k <= Len(w), Sound(Tail(u), k)
      PROVE  Tail(u)[k] = Left(w, p + 1, 0, k)
  <2>1. k + 1 \in 1..Len(u) /\ p + (k + 1) <= Len(w) /\ k + 1 # 1 /\ Len(w) \in Nat
    BY <1>1, <1>3
  <2>2. Sound(u, k + 1)
    BY <1>1, <1>2, <1>3
  <2>3. u[k + 1] = w[p + (k + 1)]
    BY <2>1, <2>2 DEF AsSent, Left
  <2>4. Left(w, p + 1, 0, k) = w[(p + 1) + k]
    <3>1. p + 1 \in 0..(Len(w) - 1) /\ k \in Nat \ {0} /\ p + 1 + k <= Len(w)
      BY <1>3, <2>1
    <3> QED
      BY <3>1, LeftWhole
  <2>5. (p + 1) + k = p + (k + 1) /\ Tail(u)[k] = u[k + 1]
    BY <1>1
  <2> QED
    BY <2>3, <2>4, <2>5
<1>4. AsSent(Tail(u), w, p + 1, 0)
  BY <1>3 DEF AsSent
<1>5. Sound(Tail(u), Len(Tail(u))) => Sound(u, Len(u))
  <2>1. Len(Tail(u)) \in 0..(Len(u) - 1) /\ Len(Tail(u)) + 1 = Len(u)
    BY <1>1
  <2> QED
    BY <1>2, <2>1
<1> QED
  BY <1>4, <1>5

\* A callback within an element leaves less of it: of u, v is left.
SameSent(u, v, w, p, s) == AsSent(v, w, p, s) /\ (Sound(v, Len(v)) => Sound(u, Len(u)))

LEMMA SameElement ==
  ASSUME NEW w \in Seq(Element), NEW p \in Nat, p + 1 <= Len(w),
         NEW s \in 0..Len(w[p + 1].data), NEW n \in 0..(Len(w[p + 1].data) - s),
         NEW u \in Seq(Element), u # <<>>, u[1] # Bad, AsSent(u, w, p, s),
         NEW v \in Seq(Element), Len(v) = Len(u), \A j \in 2..Len(u) : v[j] = u[j],
         v[1] = [u[1] EXCEPT !.data = SubSeq(@, n + 1, Len(@))]
  PROVE  SameSent(u, v, w, p, s + n)
<1> DEFINE d == w[p + 1].data
<1>1. w[p + 1] \in Element /\ 1 \in 1..Len(u) /\ Len(u) \in Nat
  <2>1. p + 1 \in 1..Len(w)
    OBVIOUS
  <2> QED
    BY <2>1
<1>2. d \in Seq(Token)
  BY <1>1 DEF Element, Text
<1>3. u[1] = [w[p + 1] EXCEPT !.data = SubSeq(d, s + 1, Len(d))]
  <2>1. Sound(u, 1)
    BY DEF Sound
  <2> QED
    BY <1>1, <2>1 DEF AsSent, Left
<1>5. \A j \in 1..Len(u) : j # 1 => v[j] = u[j]
  <2>1. \A j \in 1..Len(u) : j # 1 => j \in 2..Len(u)
    BY <1>1
  <2> QED
    BY <2>1
<1>6. v[1] = [w[p + 1] EXCEPT !.data = SubSeq(d, s + n + 1, Len(d))]
  <2>1. u[1].data = SubSeq(d, s + 1, Len(d))
    BY <1>1, <1>3 DEF Element
  <2>2. SubSeq(u[1].data, n + 1, Len(u[1].data)) = SubSeq(d, s + n + 1, Len(d))
    <3>1. SubSeq(SubSeq(d, s + 1, Len(d)), n + 1, Len(SubSeq(d, s + 1, Len(d))))
            = SubSeq(d, s + n + 1, Len(d))
      BY <1>2, PrefixGrows
    <3> QED
      BY <2>1, <3>1
  <2>3. v[1] = [u[1] EXCEPT !.data = SubSeq(d, s + n + 1, Len(d))]
    BY <2>2
  <2> QED
    BY <1>1, <1>3, <2>3 DEF Element
<1>7. ASSUME NEW k \in 1..Len(u), Sound(v, k)
      PROVE  Sound(u, k)
  BY <1>1, <1>5, <1>7 DEF Sound
<1>8. ASSUME NEW k \in 1..Len(v), p + k <= Len(w), Sound(v, k)
      PROVE  v[k] = Left(w, p, s + n, k)
  <2>1. CASE k = 1
    BY <1>6, <2>1 DEF Left
  <2>2. CASE k # 1
    <3>1. u[k] = w[p + k]
      BY <1>5, <1>7, <1>8, <2>2 DEF AsSent, Left
    <3> QED
      BY <1>5, <1>8, <2>2, <3>1 DEF Left
  <2> QED
    BY <2>1, <2>2
<1>9. AsSent(v, w, p, s + n)
  BY <1>8 DEF AsSent
<1>10. Sound(v, Len(v)) => Sound(u, Len(u))
  <2>1. Len(u) \in 1..Len(u) /\ Len(v) = Len(u)
    BY <1>1, <1>5
  <2> QED
    BY <1>7, <2>1
<1> QED
  BY <1>9, <1>10 DEF SameSent

\* What is added to what is unread, and what is cut off it, leaves the rest.
LEMMA CommonPrefix ==
  ASSUME NEW w, NEW p \in Nat, NEW s \in Nat, NEW n \in Nat,
         NEW u \in Seq(Element), NEW v \in Seq(Element), AsSent(u, w, p, s),
         n <= Len(u), n <= Len(v), \A j \in 1..n : v[j] = u[j],
         \A k \in (n + 1)..Len(v) : Sound(v, k) => p + k > Len(w),
         Len(w) \in Nat
  PROVE  AsSent(v, w, p, s)
<1> SUFFICES ASSUME NEW k \in 1..Len(v), p + k <= Len(w), Sound(v, k)
             PROVE  v[k] = Left(w, p, s, k)
  BY DEF AsSent
<1>1. k <= n
  <2>1. k \notin (n + 1)..Len(v)
    OBVIOUS
  <2> QED
    BY <2>1
<1>2. k \in 1..Len(u) /\ k \in 1..n
  BY <1>1
<1>3. Sound(u, k)
  <2>1. \A j \in 1..k : j \in 1..n
    BY <1>1
  <2> QED
    BY <2>1 DEF Sound
<1> QED
  BY <1>2, <1>3 DEF AsSent

\* Text is never the last element of a request.
LEMMA TextNotLast ==
  ASSUME NEW r \in WireRequest, NEW p \in 0..(Len(Wire(r)) - 1), Wire(r)[p + 1].kind \in TextKind
  PROVE  p + 1 < Len(Wire(r))
<1>1. Len(Wire(r)) \in Nat
  BY WireElements
<1>2. Wire(r)[Len(Wire(r))] = Complete(r.method)
  BY WirePlaces, WireRequestParts
<1>3. p + 1 # Len(Wire(r))
  BY <1>2 DEF Complete, TextKind
<1> QED
  BY <1>1, <1>3

\* A callback with text takes what is built of a request to what is built of it then.
LEMMA TextCallback ==
  ASSUME NEW r \in WireRequest, NEW b \in Builder, NEW p \in 0..(Len(Wire(r)) - 1),
         NEW e, e = Wire(r)[p + 1], e.kind \in TextKind, NEW s \in 0..Len(e.data),
         NEW n \in 0..(Len(e.data) - s), Built(b, r, p, s),
         NEW text, text = SubSeq(SubSeq(e.data, s + 1, Len(e.data)), 1, n)
  PROVE  /\ s + n > 0 => Built(OnText(b, e.kind, text), r, p, s + n)
         /\ s + n = Len(e.data) => Built(OnText(b, e.kind, text), r, p + 1, 0)
<1>1. PICK h : h = Len(r.headers)
  OBVIOUS
<1>2. h \in Nat
  BY <1>1, WireRequestParts
<1>3. CASE p = 0 /\ e = Begin
  BY <1>3 DEF Begin, Piece, TextKind
<1>4. CASE p = 1 /\ e = Piece("url", Target(r))
  <2>1. e.data = Target(r) /\ OnText(b, e.kind, text) = OnUrl(b, text)
    BY <1>4 DEF Piece, OnText
  <2>2. p + 1 = 2 /\ p = 1
    BY <1>4
  <2> QED
    BY <2>1, <2>2, UrlCallback
<1>5. CASE \E i \in 1..h : p = 2 * i /\ e = Piece("field", r.headers[i].name)
  <2>1. PICK i \in 1..h : p = 2 * i /\ e = Piece("field", r.headers[i].name)
    BY <1>5
  <2>2. e.data = r.headers[i].name /\ OnText(b, e.kind, text) = OnHeaderField(b, text)
    <3>1. e.kind = "field" /\ e.data = r.headers[i].name
      BY <2>1 DEF Piece
    <3> QED
      BY <3>1 DEF OnText
  <2>3. p + 1 = 2 * i + 1
    BY <2>1
  <2> QED
    BY <1>1, <2>1, <2>2, <2>3, FieldCallback
<1>6. CASE \E i \in 1..h : p = 2 * i + 1 /\ e = Piece("value", r.headers[i].value)
  <2>1. PICK i \in 1..h : p = 2 * i + 1 /\ e = Piece("value", r.headers[i].value)
    BY <1>6
  <2>2. e.data = r.headers[i].value /\ OnText(b, e.kind, text) = OnHeaderValue(b, text)
    BY <2>1 DEF Piece, OnText
  <2>3. p + 1 = 2 * i + 2
    BY <2>1
  <2> QED
    BY <1>1, <2>1, <2>2, <2>3, ValueCallback
<1>7. CASE p = 2 * h + 2 /\ r.body # <<>> /\ e = Piece("body", r.body)
  <2>1. e.data = r.body /\ OnText(b, e.kind, text) = OnBody(b, text)
    BY <1>7 DEF Piece, OnText
  <2>2. p + 1 = 2 * h + 3
    BY <1>2, <1>7
  <2> QED
    BY <1>1, <1>2, <1>7, <2>1, <2>2, BodyCallback
<1>8. CASE e = Complete(r.method)
  BY <1>8 DEF Complete, TextKind
<1> QED
  BY <1>1, <1>2, <1>3, <1>4, <1>5, <1>6, <1>7, <1>8, WireCases

-----------------------------------------------------------------------------
(***************************************************************************)
(* The inductive invariant, of a context x, its client y and what has been *)
(* dispatched, h.  Until the first message is complete, some prefix of the *)
(* first request has been reported and is what the builder holds, and what *)
(* is unread begins with the rest of it, as far as it is sound.            *)
(***************************************************************************)
NothingRead(x, y) == x.builder = NewBuilder /\ (y.unread # <<>> => y.unread[1] = Bad)

Reading(x, y, r, p, s) ==
  /\ AsSent(y.unread, Wire(r), p, s)
  /\ y.peer = "open" /\ Sound(y.unread, Len(y.unread)) => Len(y.unread) >= Len(Wire(r)) - p
  /\ Built(x.builder, r, p, s)

ReadingFirst(x, y) ==
  LET r == y.sent[1]
  IN  \E p \in 0..(Len(Wire(r)) - 1) :
        \E s \in 0..Len(Wire(r)[p + 1].data) : Reading(x, y, r, p, s)

FirstInv(x, y, h) ==
  /\ x.state = "none" => x.builder = NewBuilder
  /\ h # <<>> => y.sent # <<>> /\ h[1] = OwedInFact(x.server, y.sent[1])
  /\ x.state # "freed" /\ h = <<>> =>
       IF y.sent = <<>> THEN NothingRead(x, y) ELSE ReadingFirst(x, y)

FirstRequestInv == \A c \in Conns : FirstInv(ctx[c], client[c], handled[c])

\* The requests of a client are requests, and so are their elements.
LEMMA FirstSent ==
  ASSUME NEW y \in Client, y.sent # <<>>
  PROVE  /\ y.sent[1] \in WireRequest /\ Wire(y.sent[1]) \in Seq(Element)
         /\ Len(Wire(y.sent[1])) \in Nat /\ y.unread \in Seq(Element)
<1>1. y.sent \in Seq(Requests) /\ y.unread \in Seq(Element)
  BY DEF Client
<1>2. y.sent[1] \in WireRequest
  BY <1>1, RequestsType
<1>3. Wire(y.sent[1]) \in Seq(Element)
  BY <1>2, WireElements
<1> QED
  BY <1>1, <1>2, <1>3

\* The first of what is unread, if it is sound, is what is left of the element.
LEMMA FirstUnread ==
  ASSUME NEW w \in Seq(Element), NEW p \in 0..(Len(w) - 1), NEW s \in 0..Len(w[p + 1].data),
         NEW u \in Seq(Element), u # <<>>, u[1] # Bad, AsSent(u, w, p, s)
  PROVE  /\ w[p + 1] \in Element /\ Len(w[p + 1].data) \in Nat
         /\ u[1].kind = w[p + 1].kind /\ u[1].method = w[p + 1].method
         /\ u[1].data = SubSeq(w[p + 1].data, s + 1, Len(w[p + 1].data))
         /\ Len(u[1].data) = Len(w[p + 1].data) - s
<1>1. 1 \in 1..Len(u) /\ p + 1 \in 1..Len(w) /\ p + 1 <= Len(w)
  OBVIOUS
<1>2. w[p + 1] \in Element
  BY <1>1
<1>3. Sound(u, 1)
  BY DEF Sound
<1>4. u[1] = [w[p + 1] EXCEPT !.data = SubSeq(w[p + 1].data, s + 1, Len(w[p + 1].data))]
  BY <1>1, <1>3 DEF AsSent, Left
<1>5. w[p + 1].data \in Seq(Token)
  BY <1>2 DEF Element, Text
<1>6. u[1].data = SubSeq(w[p + 1].data, s + 1, Len(w[p + 1].data))
  BY <1>2, <1>4 DEF Element
<1>7. Len(u[1].data) = Len(w[p + 1].data) - s /\ Len(w[p + 1].data) \in Nat
  BY <1>5, <1>6
<1>8. u[1].kind = w[p + 1].kind /\ u[1].method = w[p + 1].method
  BY <1>2, <1>4 DEF Element
<1> QED
  BY <1>2, <1>6, <1>7, <1>8

\* What a callback with text reports of u, and what it leaves, v.
Leaves(w, p, s, u, k, v) ==
  LET e == w[p + 1]
  IN  /\ k.size \in 0..(Len(e.data) - s)
      /\ Reported(u[1], k) = SubSeq(SubSeq(e.data, s + 1, Len(e.data)), 1, k.size)
      /\ k.last => /\ s + k.size = Len(e.data) /\ AsSent(v, w, p + 1, 0)
                   /\ Len(v) = Len(u) - 1
      /\ ~k.last => s + k.size > 0 /\ AsSent(v, w, p, s + k.size) /\ Len(v) = Len(u)
      /\ Sound(v, Len(v)) => Sound(u, Len(u))

LEMMA TextReported ==
  ASSUME NEW w \in Seq(Element), NEW p \in 0..(Len(w) - 1), p + 1 < Len(w),
         NEW s \in 0..Len(w[p + 1].data),
         NEW u \in Seq(Element), u # <<>>, u[1] # Bad, AsSent(u, w, p, s),
         NEW k \in Callbacks(u[1])
  PROVE  Leaves(w, p, s, u, k, AfterCallback(u, k))
<1>e. PICK e : e = w[p + 1]
  OBVIOUS
<1>n. PICK n : n = k.size
  OBVIOUS
<1>v. PICK v : v = AfterCallback(u, k)
  OBVIOUS
<1>s. s \in 0..Len(e.data)
  BY <1>e
<1>1. /\ e \in Element /\ Len(e.data) \in Nat /\ u[1].kind = e.kind
      /\ u[1].data = SubSeq(e.data, s + 1, Len(e.data)) /\ Len(u[1].data) = Len(e.data) - s
  BY <1>e, FirstUnread
<1>2. /\ n \in 0..Len(u[1].data) /\ (n = 0 => k.last) /\ (k.last => n = Len(u[1].data))
  BY <1>n DEF Callbacks
<1>3. n \in 0..(Len(e.data) - s) /\ (k.last => s + n = Len(e.data)) /\ (~k.last => s + n > 0)
  <2>1. PICK d, l : d = Len(e.data) /\ l = Len(u[1].data)
    OBVIOUS
  <2>2. d \in Nat /\ s \in 0..d /\ l = d - s
    BY <1>1, <1>s, <2>1
  <2>3. n \in 0..l /\ (n = 0 => k.last) /\ (k.last => n = l)
    BY <1>2, <2>1
  <2>4. n \in 0..(d - s) /\ (k.last => s + n = d) /\ (~k.last => s + n > 0)
    BY ONLY <2>2, <2>3
  <2> QED
    BY ONLY <2>1, <2>4
<1>4. Reported(u[1], k) = SubSeq(SubSeq(e.data, s + 1, Len(e.data)), 1, n)
  BY <1>1, <1>n DEF Reported
<1>5. p \in Nat /\ s \in Nat /\ p + 1 <= Len(w)
  BY <1>1
<1>6. CASE k.last
  <2>1. v = Tail(u) /\ Len(v) = Len(u) - 1
    BY <1>6, <1>v DEF AfterCallback
  <2>2. AsSent(v, w, p + 1, 0) /\ (Sound(v, Len(v)) => Sound(u, Len(u)))
    BY <1>5, <2>1, NextElement
  <2> QED
    BY <1>1, <1>3, <1>4, <1>6, <2>1, <2>2, <1>e, <1>n, <1>v DEF Leaves
<1>7. CASE ~k.last
  <2>1. /\ Len(v) = Len(u) /\ \A j \in 2..Len(u) : v[j] = u[j]
        /\ v[1] = [u[1] EXCEPT !.data = SubSeq(u[1].data, n + 1, Len(u[1].data))]
    <3>1. PICK t : t = SubSeq(u[1].data, k.size + 1, Len(u[1].data))
      OBVIOUS
    <3>2. 1 \in 1..Len(u)
      OBVIOUS
    <3>3. AfterCallback(u, k) = [u EXCEPT ![1] = [u[1] EXCEPT !.data = t]]
      BY <1>7, <3>1, <3>2 DEF AfterCallback
    <3>4. PICK x : x = [u[1] EXCEPT !.data = t]
      OBVIOUS
    <3>5. v = [u EXCEPT ![1] = x]
      BY <1>v, <3>3, <3>4
    <3>6. Len(v) = Len(u) /\ v[1] = x /\ \A j \in 2..Len(u) : v[j] = u[j]
      BY <3>2, <3>5
    <3> QED
      BY <1>n, <3>1, <3>4, <3>6
  <2>a. v \in Seq(Element)
    <3>1. k \in Callbacks(Head(u))
      OBVIOUS
    <3> QED
      BY <1>v, <3>1, AfterCallbackElements
  <2>2. AsSent(v, w, p, s + n) /\ (Sound(v, Len(v)) => Sound(u, Len(u)))
    <3>1. s \in 0..Len(w[p + 1].data) /\ n \in 0..(Len(w[p + 1].data) - s)
      BY <1>3, <1>e, <1>s
    <3>2. p \in Nat /\ p + 1 <= Len(w)
      BY <1>5
    <3>3. SameSent(u, v, w, p, s + n)
      BY <2>1, <2>a, <3>1, <3>2, SameElement
    <3> QED
      BY <3>3 DEF SameSent
  <2> QED
    BY <1>1, <1>3, <1>4, <1>7, <2>1, <2>2, <1>e, <1>n, <1>v DEF Leaves
<1> QED
  BY <1>6, <1>7

-----------------------------------------------------------------------------
(***************************************************************************)
(* What happens to a context or its client keeps the invariant.            *)
(***************************************************************************)

\* A context that is accepted, that begins or ceases to read, or that is released:
\* what is built changes only with its release.
LEMMA ContextChanged ==
  ASSUME NEW x \in Context, NEW y \in Client, NEW h \in Seq(Outcome), FirstInv(x, y, h),
         NEW z \in Context,
         \/ x.state = "none" /\ z.state = "live" /\ z.builder = NewBuilder /\ h = <<>>
         \/ z.state = x.state /\ z.server = x.server /\ z.builder = x.builder
         \/ z.state = "freed" /\ z.server = x.server
  PROVE  FirstInv(z, y, h)
<1>1. CASE z.state = "freed" /\ z.server = x.server
  BY <1>1 DEF FirstInv
<1>2. CASE z.builder = x.builder /\ z.state # "freed"
  <2>1. \A r, p, s : Reading(x, y, r, p, s) => Reading(z, y, r, p, s)
    BY <1>2 DEF Reading
  <2>2. ReadingFirst(x, y) => ReadingFirst(z, y)
    BY <2>1 DEF ReadingFirst
  <2>3. NothingRead(x, y) => NothingRead(z, y)
    BY <1>2 DEF NothingRead
  <2> QED
    BY <1>2, <2>2, <2>3 DEF FirstInv
<1> QED
  BY <1>1, <1>2 DEF FirstInv

\* A client that half-closes or is reset, or whose bytes turn out to break off.
LEMMA ClientBreaksOff ==
  ASSUME NEW x \in Context, NEW y \in Client, NEW h \in Seq(Outcome), FirstInv(x, y, h),
         NEW z \in Client, z.sent = y.sent, NEW n \in 0..Len(y.unread),
         \/ z.unread = SubSeq(y.unread, 1, n) /\ z.peer # "open"
         \/ z.unread = Append(SubSeq(y.unread, 1, n), Bad) /\ Sound(y.unread, Len(y.unread))
  PROVE  FirstInv(x, z, h)
<1> DEFINE u == y.unread
           v == z.unread
<1>1. u \in Seq(Element) /\ v \in Seq(Element) /\ Len(u) \in Nat /\ n \in 0..Len(u)
  BY DEF Client
<1> HIDE DEF u, v
<1>a. PICK t : t = SubSeq(u, 1, n)
  OBVIOUS
<1>b. n \in Nat /\ t \in Seq(Element) /\ Len(t) = n /\ \A j \in 1..n : t[j] = u[j]
  BY <1>1, <1>a
<1>c. \/ v = t /\ z.peer # "open"
      \/ v = Append(t, Bad) /\ Sound(u, Len(u))
  BY <1>a DEF u, v
<1>2. n <= Len(u) /\ n <= Len(v) /\ \A j \in 1..n : v[j] = u[j]
  BY <1>1, <1>b, <1>c
<1>3. \/ Len(v) = n /\ z.peer # "open"
      \/ Len(v) = n + 1 /\ v[n + 1] = Bad /\ Sound(u, Len(u))
  BY <1>b, <1>c
<1>4. NothingRead(x, y) => NothingRead(x, z)
  <2> SUFFICES ASSUME NothingRead(x, y), v # <<>>
               PROVE  v[1] = Bad
    BY DEF NothingRead, u, v
  <2>1. CASE n = 0
    BY <1>1, <1>3, <2>1
  <2>2. CASE n # 0
    <3>1. v[1] = u[1] /\ u # <<>>
      BY <1>1, <1>2, <2>2
    <3> QED
      BY <3>1 DEF NothingRead, u
  <2> QED
    BY <2>1, <2>2
<1>5. ASSUME NEW r, Len(Wire(r)) \in Nat, NEW p \in Nat, NEW s \in Nat, Reading(x, y, r, p, s)
      PROVE  Reading(x, z, r, p, s)
  <2>1. \A k \in (n + 1)..Len(v) : ~Sound(v, k)
    BY <1>1, <1>3 DEF Sound
  <2>2. AsSent(u, Wire(r), p, s)
    BY <1>5 DEF Reading, u
  <2>3. AsSent(v, Wire(r), p, s)
    <3>1. \A k \in (n + 1)..Len(v) : Sound(v, k) => p + k > Len(Wire(r))
      BY <2>1
    <3>2. n \in Nat /\ n <= Len(u) /\ n <= Len(v)
      BY <1>1, <1>2
    <3> QED
      BY <1>1, <1>2, <1>5, <2>2, <3>1, <3>2, CommonPrefix
  <2>4. ~(z.peer = "open" /\ Sound(v, Len(v)))
    <3>1. CASE Len(v) = n + 1
      <4>1. Len(v) \in (n + 1)..Len(v)
        BY <1>b, <3>1
      <4> QED
        BY <2>1, <4>1
    <3>2. CASE z.peer # "open"
      BY <3>2
    <3> QED
      BY <1>3, <3>1, <3>2
  <2> QED
    BY <1>5, <2>3, <2>4 DEF Reading, v
<1>6. y.sent # <<>> /\ ReadingFirst(x, y) => ReadingFirst(x, z)
  <2> SUFFICES ASSUME y.sent # <<>>, ReadingFirst(x, y) PROVE ReadingFirst(x, z)
    OBVIOUS
  <2>1. PICK r : r = y.sent[1] /\ r = z.sent[1]
    OBVIOUS
  <2>2. Len(Wire(r)) \in Nat /\ Wire(r) \in Seq(Element)
    BY <2>1, FirstSent
  <2>3. PICK p \in 0..(Len(Wire(r)) - 1) :
          \E s \in 0..Len(Wire(r)[p + 1].data) : Reading(x, y, r, p, s)
    BY <2>1 DEF ReadingFirst
  <2>a. PICK s \in 0..Len(Wire(r)[p + 1].data) : Reading(x, y, r, p, s)
    BY <2>3
  <2>4. p \in Nat /\ s \in Nat
    BY <2>2
  <2>5. Reading(x, z, r, p, s)
    BY <1>5, <2>2, <2>a, <2>4
  <2> QED
    BY <2>1, <2>5 DEF ReadingFirst
<1> QED
  BY <1>4, <1>6 DEF FirstInv

\* A request that is sent: the first, or one more after it.
LEMMA RequestSent ==
  ASSUME NEW x \in Context, NEW y \in Client, NEW h \in Seq(Outcome), FirstInv(x, y, h),
         x.state # "freed", y.peer = "open", NEW q \in Requests, NEW z \in Client,
         z = [y EXCEPT !.unread = @ \o Wire(q), !.sent = Append(@, q)]
  PROVE  FirstInv(x, z, h)
<1> DEFINE u == y.unread
           v == z.unread
<1>0. q \in WireRequest /\ y.sent \in Seq(Requests)
  BY RequestsType DEF Client
<1>1. u \in Seq(Element) /\ Len(u) \in Nat /\ Wire(q) \in Seq(Element) /\ Len(Wire(q)) \in Nat
  BY <1>0, WireElements DEF Client
<1>2. v = u \o Wire(q) /\ z.sent = Append(y.sent, q) /\ z.peer = "open" /\ z.sent # <<>>
  <2>1. v = u \o Wire(q) /\ z.sent = Append(y.sent, q) /\ z.peer = "open"
    BY DEF Client
  <2>2. Append(y.sent, q) # <<>>
    BY <1>0
  <2> QED
    BY <2>1, <2>2
<1> HIDE DEF u, v
<1>3. /\ v \in Seq(Element) /\ Len(v) = Len(u) + Len(Wire(q))
      /\ \A j \in 1..Len(u) : v[j] = u[j]
      /\ \A j \in 1..Len(Wire(q)) : v[Len(u) + j] = Wire(q)[j]
  BY <1>1, <1>2
<1>4. CASE y.sent = <<>>
  <2>1. h = <<>> /\ x.builder = NewBuilder /\ (u # <<>> => u[1] = Bad)
    BY <1>4 DEF FirstInv, NothingRead, u
  <2>2. z.sent[1] = q
    BY <1>2, <1>4
  <2>3. Len(Wire(q)) >= 1 /\ 0 \in 0..(Len(Wire(q)) - 1) /\ Wire(q)[1] = Begin
    <3>1. Len(q.headers) \in Nat
      BY <1>0, WireRequestParts
    <3>2. Wire(q)[1] = Begin /\ (Len(Wire(q)) = 2 * Len(q.headers) + 3
                                 \/ Len(Wire(q)) = 2 * Len(q.headers) + 4)
      BY <1>0, <3>1, WirePlaces
    <3> QED
      BY <1>1, <3>1, <3>2
  <2>4. ASSUME NEW k \in 1..Len(v), 0 + k <= Len(Wire(q)), Sound(v, k)
        PROVE  v[k] = Left(Wire(q), 0, 0, k)
    <3>1. u = <<>>
      <4> SUFFICES ASSUME u # <<>> PROVE FALSE
        OBVIOUS
      <4>1. 1 \in 1..Len(u) /\ 1 \in 1..k
        BY <1>1
      <4> QED
        BY <1>3, <2>1, <2>4, <4>1 DEF Sound
    <3>2. k \in 1..Len(Wire(q)) /\ v[k] = Wire(q)[k]
      BY <1>1, <1>2, <1>3, <2>4, <3>1
    <3>3. Left(Wire(q), 0, 0, k) = Wire(q)[0 + k]
      <4>1. k \in Nat \ {0} /\ 0 + k <= Len(Wire(q))
        BY <1>1, <2>4
      <4> QED
        BY <1>1, <2>3, <4>1, LeftWhole
    <3> QED
      BY <3>2, <3>3
  <2>5. AsSent(v, Wire(q), 0, 0)
    BY <2>4 DEF AsSent
  <2>6. Len(v) >= Len(Wire(q)) - 0
    BY <1>1, <1>3
  <2>7. Built(x.builder, q, 0, 0)
    BY <1>0, <2>1, NewBuilderType, NothingBuilt
  <2>8. Reading(x, z, q, 0, 0)
    BY <2>5, <2>6, <2>7 DEF Reading, v
  <2>9. 0 \in 0..Len(Wire(q)[0 + 1].data)
    BY <2>3 DEF Begin, Piece
  <2>10. ReadingFirst(x, z)
    BY <2>2, <2>3, <2>8, <2>9 DEF ReadingFirst
  <2> QED
    BY <1>2, <2>1, <2>10 DEF FirstInv
<1>5. CASE y.sent # <<>>
  <2>1. z.sent[1] = y.sent[1]
    BY <1>0, <1>2, <1>5
  <2>2. ASSUME ReadingFirst(x, y) PROVE ReadingFirst(x, z)
    <3>1. PICK r : r = y.sent[1]
      OBVIOUS
    <3>2. Len(Wire(r)) \in Nat /\ Wire(r) \in Seq(Element)
      BY <1>5, <3>1, FirstSent
    <3>a. PICK p \in 0..(Len(Wire(r)) - 1) :
            \E s \in 0..Len(Wire(r)[p + 1].data) : Reading(x, y, r, p, s)
      BY <2>2, <3>1 DEF ReadingFirst
    <3>3. PICK s \in 0..Len(Wire(r)[p + 1].data) : Reading(x, y, r, p, s)
      BY <3>a
    <3>4. p \in Nat /\ s \in Nat
      BY <3>2
    <3>5. AsSent(u, Wire(r), p, s) /\ (Sound(u, Len(u)) => Len(u) >= Len(Wire(r)) - p)
      BY <3>3 DEF Reading, u
    <3>6. \A k \in Len(u)..Len(v) : Sound(v, k) => Sound(u, Len(u))
      BY <1>1, <1>3 DEF Sound
    <3>7. \A k \in (Len(u) + 1)..Len(v) : Sound(v, k) => p + k > Len(Wire(r))
      BY <1>1, <1>3, <3>2, <3>4, <3>5, <3>6
    <3>8. Len(u) <= Len(v)
      BY <1>1, <1>3
    <3>9. AsSent(v, Wire(r), p, s)
      <4>1. Len(u) <= Len(u) /\ Len(Wire(r)) \in Nat
        BY <1>1, <3>2
      <4> QED
        BY <1>1, <1>3, <3>4, <3>5, <3>7, <3>8, <4>1, CommonPrefix
    <3>10. Sound(v, Len(v)) => Len(v) >= Len(Wire(r)) - p
      <4>1. Len(v) \in Len(u)..Len(v)
        BY <1>1, <1>3
      <4>2. Sound(v, Len(v)) => Len(u) >= Len(Wire(r)) - p
        BY <3>5, <3>6, <4>1
      <4> QED
        BY <1>1, <3>2, <3>8, <4>2
    <3>11. Reading(x, z, r, p, s)
      BY <3>3, <3>9, <3>10 DEF Reading, v
    <3> QED
      BY <2>1, <3>1, <3>11 DEF ReadingFirst
  <2> QED
    BY <1>2, <1>5, <2>1, <2>2 DEF FirstInv
<1> QED
  BY <1>4, <1>5

\* What is parsed of a client that has sent nothing sound is not HTTP.
LEMMA SomethingRead ==
  ASSUME NEW x \in Context, NEW y \in Client, FirstInv(x, y, <<>>), x.state # "freed",
         y.unread # <<>>, y.unread[1] # Bad
  PROVE  /\ y.sent # <<>> /\ y.sent[1] \in WireRequest
         /\ \E p \in 0..(Len(Wire(y.sent[1])) - 1) :
              \E s \in 0..Len(Wire(y.sent[1])[p + 1].data) : Reading(x, y, y.sent[1], p, s)
<1>1. y.sent # <<>>
  BY DEF FirstInv, NothingRead
<1> QED
  BY <1>1, FirstSent DEF FirstInv, ReadingFirst

\* The parser has seen the start of a request.
LEMMA RequestBegun ==
  ASSUME NEW x \in Context, NEW y \in Client, NEW h \in Seq(Outcome), FirstInv(x, y, h),
         x.state # "freed", y.unread # <<>>, y.unread[1].kind = "begin",
         NEW z \in Client, z = [y EXCEPT !.unread = Tail(@)]
  PROVE  FirstInv(x, z, h)
<1> DEFINE u == y.unread
<1>1. z.unread = Tail(u) /\ z.sent = y.sent /\ z.peer = y.peer
  BY DEF Client
<1>2. CASE h # <<>>
  BY <1>1, <1>2 DEF FirstInv
<1>3. CASE h = <<>>
  <2>1. u[1] # Bad
    BY DEF Bad, Piece
  <2>2. PICK r : r = y.sent[1]
    OBVIOUS
  <2>3. /\ y.sent # <<>> /\ r \in WireRequest
        /\ \E p \in 0..(Len(Wire(r)) - 1) :
             \E s \in 0..Len(Wire(r)[p + 1].data) : Reading(x, y, r, p, s)
    BY <1>3, <2>1, <2>2, SomethingRead
  <2>4. PICK p \in 0..(Len(Wire(r)) - 1) :
          \E s \in 0..Len(Wire(r)[p + 1].data) : Reading(x, y, r, p, s)
    BY <2>3
  <2>5. PICK s \in 0..Len(Wire(r)[p + 1].data) : Reading(x, y, r, p, s)
    BY <2>4
  <2>6. Wire(r) \in Seq(Element) /\ Len(Wire(r)) \in Nat /\ u \in Seq(Element)
    BY <2>2, <2>3, FirstSent
  <2>7. AsSent(u, Wire(r), p, s)
    BY <2>5 DEF Reading
  <2>8. Wire(r)[p + 1].kind = "begin"
    BY <2>1, <2>6, <2>7, FirstUnread
  <2>9. p = 0 /\ Wire(r)[p + 1] = Begin /\ Len(Wire(r)) >= 3
    <3>1. PICK n : n = Len(r.headers)
      OBVIOUS
    <3>2. n \in Nat
      BY <2>3, <3>1, WireRequestParts
    <3>3. Len(Wire(r)) = 2 * n + 3 \/ Len(Wire(r)) = 2 * n + 4
      BY <2>3, <3>1, <3>2, WirePlaces
    <3>4. /\ Wire(r)[p + 1] # Complete(r.method)
          /\ \A kind \in TextKind : \A text : Wire(r)[p + 1] # Piece(kind, text)
      BY <2>8 DEF Complete, Piece, TextKind
    <3>5. p = 0 /\ Wire(r)[p + 1] = Begin
      BY <2>3, <3>1, <3>2, <3>4, WireCases DEF TextKind
    <3> QED
      BY <2>6, <3>2, <3>3, <3>5
  <2>10. s = 0
    BY <2>5, <2>9 DEF Begin, Piece
  <2>11. /\ AsSent(Tail(u), Wire(r), 1, 0)
         /\ Sound(Tail(u), Len(Tail(u))) => Sound(u, Len(u))
    <3>1. 0 + 1 = 1 /\ 0 + 1 < Len(Wire(r)) /\ 0 \in Nat
      BY <2>6, <2>9
    <3>2. AsSent(u, Wire(r), 0, 0) /\ u # <<>>
      BY <2>7, <2>9, <2>10
    <3> QED
      BY <2>1, <2>6, <3>1, <3>2, NextElement
  <2>12. /\ Len(Tail(u)) = Len(u) - 1 /\ Len(u) \in Nat
         /\ z.peer = "open" /\ Sound(Tail(u), Len(Tail(u))) => Len(Tail(u)) >= Len(Wire(r)) - 1
    <3>1. Len(Tail(u)) = Len(u) - 1 /\ Len(u) \in Nat
      BY <2>6
    <3>2. y.peer = "open" /\ Sound(u, Len(u)) => Len(u) >= Len(Wire(r)) - 0
      BY <2>5, <2>9 DEF Reading
    <3> QED
      BY <1>1, <2>6, <2>11, <3>1, <3>2
  <2>13. Built(x.builder, r, 1, 0)
    <3>1. x.builder \in Builder /\ Built(x.builder, r, 0, 0)
      BY <2>5, <2>9, <2>10 DEF Reading, Context
    <3> QED
      BY <2>3, <3>1, NothingBuilt
  <2>14. Reading(x, z, r, 1, 0)
    BY <1>1, <2>11, <2>12, <2>13 DEF Reading
  <2>15. 1 \in 0..(Len(Wire(r)) - 1) /\ 0 \in 0..Len(Wire(r)[1 + 1].data)
    <3>1. Wire(r)[2] \in Element
      BY <2>6, <2>9
    <3>2. Len(Wire(r)[2].data) \in Nat
      BY <3>1 DEF Element, Text
    <3> QED
      BY <2>6, <2>9, <3>2
  <2>16. ReadingFirst(x, z)
    BY <1>1, <2>2, <2>14, <2>15 DEF ReadingFirst
  <2> QED
    BY <1>1, <1>3, <2>3, <2>16 DEF FirstInv
<1> QED
  BY <1>2, <1>3

\* on_url, on_header_field, on_header_value or on_body.
LEMMA TextRead ==
  ASSUME NEW x \in Context, NEW y \in Client, NEW h \in Seq(Outcome), FirstInv(x, y, h),
         x.state = "live", y.unread # <<>>, y.unread[1].kind \in TextKind,
         NEW k \in Callbacks(y.unread[1]),
         NEW v \in Context, NEW z \in Client,
         z = [y EXCEPT !.unread = AfterCallback(@, k)], v.state = x.state, v.server = x.server,
         v.builder = OnText(x.builder, y.unread[1].kind, Reported(y.unread[1], k))
  PROVE  FirstInv(v, z, h)
<1> DEFINE u == y.unread
<1>1. z.unread = AfterCallback(u, k) /\ z.sent = y.sent /\ z.peer = y.peer
  BY DEF Client
<1>2. CASE h # <<>>
  BY <1>1, <1>2 DEF FirstInv
<1>3. CASE h = <<>>
  <2>1. u[1] # Bad
    BY DEF Bad, Piece, TextKind
  <2>2. PICK r : r = y.sent[1]
    OBVIOUS
  <2>3. /\ y.sent # <<>> /\ r \in WireRequest
        /\ \E p \in 0..(Len(Wire(r)) - 1) :
             \E s \in 0..Len(Wire(r)[p + 1].data) : Reading(x, y, r, p, s)
    BY <1>3, <2>1, <2>2, SomethingRead
  <2>4. PICK p \in 0..(Len(Wire(r)) - 1) :
          \E s \in 0..Len(Wire(r)[p + 1].data) : Reading(x, y, r, p, s)
    BY <2>3
  <2>5. PICK s \in 0..Len(Wire(r)[p + 1].data) : Reading(x, y, r, p, s)
    BY <2>4
  <2>6. Wire(r) \in Seq(Element) /\ Len(Wire(r)) \in Nat /\ u \in Seq(Element)
    BY <2>2, <2>3, FirstSent
  <2>7. AsSent(u, Wire(r), p, s)
    BY <2>5 DEF Reading
  <2>8. p + 1 < Len(Wire(r)) /\ p \in Nat /\ s \in Nat
    <3>1. Wire(r)[p + 1].kind \in TextKind /\ Len(Wire(r)[p + 1].data) \in Nat
      BY <2>1, <2>6, <2>7, FirstUnread
    <3>2. p \in Nat /\ s \in Nat
      BY <2>6, <3>1
    <3> QED
      BY <2>3, <2>4, <3>1, <3>2, TextNotLast
  <2>9. PICK e, n : e = Wire(r)[p + 1] /\ n = k.size
    OBVIOUS
  <2>10. PICK w : w = AfterCallback(u, k)
    OBVIOUS
  <2>11. /\ u[1].kind = e.kind /\ n \in 0..(Len(e.data) - s)
         /\ Reported(u[1], k) = SubSeq(SubSeq(e.data, s + 1, Len(e.data)), 1, n)
         /\ k.last => s + n = Len(e.data) /\ AsSent(w, Wire(r), p + 1, 0) /\ Len(w) = Len(u) - 1
         /\ ~k.last => s + n > 0 /\ AsSent(w, Wire(r), p, s + n) /\ Len(w) = Len(u)
         /\ Sound(w, Len(w)) => Sound(u, Len(u))
    <3>1. u[1].kind = e.kind
      BY <2>1, <2>6, <2>7, <2>9, FirstUnread
    <3>2. Leaves(Wire(r), p, s, u, k, w)
      BY <2>1, <2>6, <2>7, <2>8, <2>10, TextReported
    <3> QED
      BY <2>9, <3>1, <3>2 DEF Leaves
  <2>12. /\ s + n > 0 => Built(v.builder, r, p, s + n)
         /\ s + n = Len(e.data) => Built(v.builder, r, p + 1, 0)
    <3>1. x.builder \in Builder /\ Built(x.builder, r, p, s)
      BY <2>5 DEF Reading, Context
    <3>2. e.kind \in TextKind /\ s \in 0..Len(e.data)
      BY <2>9, <2>11
    <3>3. PICK text : text = SubSeq(SubSeq(e.data, s + 1, Len(e.data)), 1, n)
      OBVIOUS
    <3>4. v.builder = OnText(x.builder, e.kind, text)
      BY <2>11, <3>3
    <3>5. /\ s + n > 0 => Built(OnText(x.builder, e.kind, text), r, p, s + n)
          /\ s + n = Len(e.data) => Built(OnText(x.builder, e.kind, text), r, p + 1, 0)
      BY <2>3, <2>9, <2>11, <3>1, <3>2, <3>3, TextCallback
    <3> QED
      BY <3>4, <3>5
  <2>13. y.peer = "open" /\ Sound(u, Len(u)) => Len(u) >= Len(Wire(r)) - p
    BY <2>5 DEF Reading
  <2>14. Len(u) \in Nat /\ Len(e.data) \in Nat
    BY <2>1, <2>6, <2>7, <2>9, FirstUnread
  <2>15. z.unread = w
    BY <1>1, <2>10
  <2>16. CASE k.last
    <3>1. z.peer = "open" /\ Sound(w, Len(w)) => Len(w) >= Len(Wire(r)) - (p + 1)
      BY <1>1, <2>6, <2>8, <2>11, <2>13, <2>14, <2>16
    <3>2. Reading(v, z, r, p + 1, 0)
      BY <2>11, <2>12, <2>15, <2>16, <3>1 DEF Reading
    <3>3. p + 1 \in 0..(Len(Wire(r)) - 1) /\ 0 \in 0..Len(Wire(r)[(p + 1) + 1].data)
      <4>1. p + 1 \in 0..(Len(Wire(r)) - 1) /\ (p + 1) + 1 \in 1..Len(Wire(r))
        BY <2>6, <2>8
      <4>2. Wire(r)[(p + 1) + 1] \in Element
        BY <2>6, <4>1
      <4>3. Len(Wire(r)[(p + 1) + 1].data) \in Nat
        BY <4>2 DEF Element, Text
      <4> QED
        BY <4>1, <4>3
    <3>4. ReadingFirst(v, z)
      BY <1>1, <2>2, <3>2, <3>3 DEF ReadingFirst
    <3> QED
      BY <1>1, <1>3, <2>3, <3>4 DEF FirstInv
  <2>17. CASE ~k.last
    <3>1. z.peer = "open" /\ Sound(w, Len(w)) => Len(w) >= Len(Wire(r)) - p
      BY <1>1, <2>11, <2>13, <2>17
    <3>2. Reading(v, z, r, p, s + n)
      BY <2>11, <2>12, <2>15, <2>17, <3>1 DEF Reading
    <3>3. s + n \in 0..Len(Wire(r)[p + 1].data)
      <4>1. PICK l \in Nat : l = Len(e.data)
        BY <2>14
      <4>2. s \in 0..l /\ n \in 0..(l - s)
        BY <2>9, <2>11, <4>1
      <4>3. s + n \in 0..l
        BY <4>2
      <4> QED
        BY <2>9, <4>1, <4>3
    <3>4. ReadingFirst(v, z)
      BY <1>1, <2>2, <2>4, <3>2, <3>3 DEF ReadingFirst
    <3> QED
      BY <1>1, <1>3, <2>3, <3>4 DEF FirstInv
  <2> QED
    BY <2>16, <2>17
<1> QED
  BY <1>2, <1>3

\* The first message is complete: the whole request has been read.
LEMMA MessageRead ==
  ASSUME NEW x \in Context, NEW y \in Client, NEW h \in Seq(Outcome), FirstInv(x, y, h),
         x.state = "live", y.unread # <<>>, y.unread[1].kind = "complete",
         NEW v \in Context, NEW z \in Client, NEW g \in Seq(Outcome),
         z.sent = y.sent, v.state = x.state, v.server = x.server,
         g = Append(h, GetResponse(x.server, x.builder, y.unread[1].method))
  PROVE  FirstInv(v, z, g)
<1> DEFINE o == GetResponse(x.server, x.builder, y.unread[1].method)
<1>1. g # <<>> /\ (h # <<>> => g[1] = h[1]) /\ (h = <<>> => g[1] = o)
  OBVIOUS
<1>2. CASE h # <<>>
  BY <1>1, <1>2 DEF FirstInv
<1>3. CASE h = <<>>
  <2>1. y.unread[1] # Bad
    BY DEF Bad, Piece
  <2>2. PICK r : r = y.sent[1]
    OBVIOUS
  <2>3. /\ y.sent # <<>> /\ r \in WireRequest
        /\ \E p \in 0..(Len(Wire(r)) - 1) :
             \E s \in 0..Len(Wire(r)[p + 1].data) : Reading(x, y, r, p, s)
    BY <1>3, <2>1, <2>2, SomethingRead
  <2>4. PICK p \in 0..(Len(Wire(r)) - 1) :
          \E s \in 0..Len(Wire(r)[p + 1].data) : Reading(x, y, r, p, s)
    BY <2>3
  <2>5. PICK s \in 0..Len(Wire(r)[p + 1].data) : Reading(x, y, r, p, s)
    BY <2>4
  <2>6. AsSent(y.unread, Wire(r), p, s) /\ Built(x.builder, r, p, s)
    BY <2>5 DEF Reading
  <2>7. Wire(r)[p + 1].kind = "complete" /\ y.unread[1].method = Wire(r)[p + 1].method
    <3>1. Wire(r) \in Seq(Element) /\ y.unread \in Seq(Element)
      BY <2>2, <2>3, FirstSent
    <3> QED
      BY <2>1, <2>6, <3>1, FirstUnread
  <2>8. p = Len(Wire(r)) - 1 /\ Wire(r)[p + 1] = Complete(r.method)
    <3>1. PICK n : n = Len(r.headers)
      OBVIOUS
    <3>2. n \in Nat
      BY <2>3, <3>1, WireRequestParts
    <3>3. /\ Wire(r)[p + 1] # Begin
          /\ \A kind \in TextKind : \A text : Wire(r)[p + 1] # Piece(kind, text)
      BY <2>7 DEF Begin, Piece, TextKind
    <3> QED
      BY <2>3, <3>1, <3>2, <3>3, WireCases DEF TextKind
  <2>9. s = 0 /\ y.unread[1].method = r.method
    BY <2>5, <2>7, <2>8 DEF Complete
  <2>10. x.builder \in Builder /\ x.server \in Instances
    BY DEF Context
  <2>11. o = OwedInFact(x.server, r)
    BY <2>3, <2>6, <2>8, <2>9, <2>10, AnswerOwed
  <2> QED
    BY <1>1, <1>3, <2>2, <2>3, <2>11 DEF FirstInv
<1> QED
  BY <1>2, <1>3

-----------------------------------------------------------------------------
(***************************************************************************)
(* The theorem.                                                            *)
(***************************************************************************)

\* The invariant of a connection nothing happens to.
LEMMA OtherConnection ==
  ASSUME FirstRequestInv, NEW c \in Conns,
         \A e \in Conns : e # c => ctx'[e] = ctx[e] /\ client'[e] = client[e]
                                   /\ handled'[e] = handled[e],
         FirstInv(ctx'[c], client'[c], handled'[c])
  PROVE  FirstRequestInv'
<1> SUFFICES ASSUME NEW e \in Conns PROVE FirstInv(ctx'[e], client'[e], handled'[e])
  BY DEF FirstRequestInv
<1>1. CASE e = c
  BY <1>1
<1>2. CASE e # c
  BY <1>2 DEF FirstRequestInv
<1> QED
  BY <1>1, <1>2

\* One step per action.
LEMMA StepFirstRequest ==
  TypeOK /\ TypeOK' /\ NoUseAfterFree /\ OrphanInv /\ FirstRequestInv /\ [Next]_vars
    => FirstRequestInv'
<1> SUFFICES ASSUME TypeOK, TypeOK', NoUseAfterFree, OrphanInv, FirstRequestInv, [Next]_vars
             PROVE  FirstRequestInv'
  OBVIOUS
<1>t. /\ \A c \in Conns : ctx[c] \in Context /\ client[c] \in Client /\ handled[c] \in Seq(Outcome)
      /\ \A c \in Conns : /\ ctx'[c] \in Context /\ client'[c] \in Client
                          /\ handled'[c] \in Seq(Outcome)
      /\ \A c \in Conns : ctx[c].reading \/ ctx[c].writes # <<>> => ctx[c].state = "live"
      /\ \A c \in Conns : ctx[c].state = "none" => handled[c] = <<>>
      /\ \A c \in Conns : FirstInv(ctx[c], client[c], handled[c])
  <2>1. \A c \in Conns : ctx[c] \in Context /\ client[c] \in Client /\ handled[c] \in Seq(Outcome)
    BY DEF TypeOK
  <2>2. \A c \in Conns : /\ ctx'[c] \in Context /\ client'[c] \in Client
                         /\ handled'[c] \in Seq(Outcome)
    BY DEF TypeOK
  <2>3. \A c \in Conns : ctx[c].state = "none" => handled[c] = <<>>
    BY DEF OrphanInv, ConnInv, ResponsesInFlight
  <2> QED
    BY <2>1, <2>2, <2>3 DEF NoUseAfterFree, CallbacksValid, FirstRequestInv
<1>1. ASSUME UNCHANGED <<ctx, client, handled>>
      PROVE  FirstRequestInv'
  BY <1>1, <1>t DEF FirstRequestInv
<1>2. ASSUME Listening \/ UNCHANGED vars
      PROVE  FirstRequestInv'
  BY <1>1, <1>2 DEF Listening, Start, StartFails, Stop, vars
<1>3. ASSUME NEW i \in Instances, NEW c \in Conns, Accept(i, c)
      PROVE  FirstRequestInv'
  <2>1. PICK b : ctx' = [ctx EXCEPT ![c] = FreshContext(i, b)]
    BY <1>3 DEF Accept
  <2>2. ctx[c].state = "none" /\ UNCHANGED <<client, handled>>
    BY <1>3 DEF Accept
  <2>3. ctx'[c] = FreshContext(i, b)
    BY <2>1 DEF TypeOK
  <2>4. ctx'[c].state = "live" /\ ctx'[c].builder = NewBuilder
    BY <2>3 DEF FreshContext
  <2>5. FirstInv(ctx'[c], client'[c], handled'[c])
    BY <1>t, <2>2, <2>4, ContextChanged
  <2>6. \A e \in Conns : e # c => ctx'[e] = ctx[e]
    BY <2>1 DEF TypeOK
  <2> QED
    BY <2>2, <2>5, <2>6, OtherConnection
<1>4. ASSUME NEW c \in Conns, NEW z, client' = [client EXCEPT ![c] = z],
             FirstInv(ctx[c], z, handled[c]), UNCHANGED <<ctx, handled>>
      PROVE  FirstRequestInv'
  <2>1. client'[c] = z /\ \A e \in Conns : e # c => client'[e] = client[e]
    BY <1>4 DEF TypeOK
  <2> QED
    BY <1>4, <2>1, OtherConnection
<1>5. ASSUME NEW c \in Conns, NEW q \in Requests, Send(c, q)
      PROVE  FirstRequestInv'
  <2> DEFINE z == [client[c] EXCEPT !.unread = @ \o Wire(q), !.sent = Append(@, q)]
  <2>1. /\ client' = [client EXCEPT ![c] = z] /\ UNCHANGED <<ctx, handled>>
        /\ ctx[c].state # "freed" /\ client[c].peer = "open"
    BY <1>5 DEF Send, Talking
  <2>2. client'[c] = z /\ z \in Client
    BY <1>t, <2>1 DEF TypeOK
  <2>3. FirstInv(ctx[c], z, handled[c])
    BY <1>t, <2>1, <2>2, RequestSent
  <2> QED
    BY <1>4, <2>1, <2>3
<1>6. ASSUME NEW c \in Conns, SendGarbage(c)
      PROVE  FirstRequestInv'
  <2>1. PICK n \in 0..Len(client[c].unread) :
          client' = [client EXCEPT ![c].unread = Append(SubSeq(@, 1, n), Bad)]
    BY <1>6 DEF SendGarbage
  <2>2. PICK z : z = [client[c] EXCEPT !.unread = Append(SubSeq(client[c].unread, 1, n), Bad)]
    OBVIOUS
  <2>3. client' = [client EXCEPT ![c] = z] /\ UNCHANGED <<ctx, handled>>
    BY <1>6, <2>1, <2>2 DEF SendGarbage
  <2>4. /\ client'[c] = z /\ z \in Client /\ z.sent = client[c].sent
        /\ z.unread = Append(SubSeq(client[c].unread, 1, n), Bad)
    <3>1. client'[c] = z
      BY <2>3 DEF TypeOK
    <3> QED
      BY <1>t, <2>2, <3>1 DEF Client
  <2>5. Sound(client[c].unread, Len(client[c].unread))
    <3>1. client[c].unread \in Seq(Element)
      BY <1>t DEF Client
    <3> QED
      BY <1>6, <3>1 DEF SendGarbage, Sound
  <2>6. FirstInv(ctx[c], z, handled[c])
    BY <1>t, <2>4, <2>5, ClientBreaksOff
  <2> QED
    BY <1>4, <2>3, <2>6
<1>7. ASSUME NEW c \in Conns, Fin(c)
      PROVE  FirstRequestInv'
  <2>1. PICK n \in 0..Len(client[c].unread) :
          client' = [client EXCEPT ![c].unread = SubSeq(@, 1, n), ![c].peer = "fin"]
    BY <1>7 DEF Fin
  <2>2. PICK z : z = [client[c] EXCEPT !.unread = SubSeq(client[c].unread, 1, n), !.peer = "fin"]
    OBVIOUS
  <2>3. client' = [client EXCEPT ![c] = z] /\ UNCHANGED <<ctx, handled>>
    BY <1>7, <2>1, <2>2 DEF Fin
  <2>4. /\ client'[c] = z /\ z \in Client /\ z.sent = client[c].sent
        /\ z.unread = SubSeq(client[c].unread, 1, n) /\ z.peer # "open"
    <3>1. client'[c] = z
      BY <2>3 DEF TypeOK
    <3> QED
      BY <1>t, <2>2, <3>1 DEF Client
  <2>5. FirstInv(ctx[c], z, handled[c])
    BY <1>t, <2>4, ClientBreaksOff
  <2> QED
    BY <1>4, <2>3, <2>5
<1>8. ASSUME NEW c \in Conns, Reset(c)
      PROVE  FirstRequestInv'
  <2>1. PICK z : z = [client[c] EXCEPT !.peer = "reset"]
    OBVIOUS
  <2>2. client' = [client EXCEPT ![c] = z] /\ UNCHANGED <<ctx, handled>>
    BY <1>8, <2>1 DEF Reset
  <2>3. /\ client'[c] = z /\ z \in Client /\ z.sent = client[c].sent
        /\ z.unread = client[c].unread /\ z.peer # "open"
    <3>1. client'[c] = z
      BY <2>2 DEF TypeOK
    <3> QED
      BY <1>t, <2>1, <3>1 DEF Client
  <2>4. /\ Len(client[c].unread) \in 0..Len(client[c].unread)
        /\ z.unread = SubSeq(client[c].unread, 1, Len(client[c].unread))
    <3>1. client[c].unread \in Seq(Element)
      BY <1>t DEF Client
    <3> QED
      BY <2>3, <3>1, SubSeqFull
  <2>5. FirstInv(ctx[c], z, handled[c])
    BY <1>t, <2>3, <2>4, ClientBreaksOff
  <2> QED
    BY <1>4, <2>2, <2>5
<1>9. ASSUME NEW c \in Conns, NEW x, ctx' = [ctx EXCEPT ![c] = x], UNCHANGED handled,
             \A e \in Conns : e # c => client'[e] = client[e],
             FirstInv(x, client'[c], handled[c])
      PROVE  FirstRequestInv'
  <2>1. ctx'[c] = x /\ \A e \in Conns : e # c => ctx'[e] = ctx[e]
    BY <1>9 DEF TypeOK
  <2> QED
    BY <1>9, <2>1, OtherConnection
<1>10. ASSUME NEW b \in Bases, StartRead(b)
       PROVE  FirstRequestInv'
  <2>1. PICK c \in Conns : c = Head(tasks[b])
    BY <1>10 DEF StartRead, TypeOK
  <2>2. PICK x : x = [ctx[c] EXCEPT !.reading = TRUE]
    OBVIOUS
  <2>3. ctx' = [ctx EXCEPT ![c] = x] /\ UNCHANGED <<client, handled>>
    BY <1>10, <2>1, <2>2 DEF StartRead
  <2>4. ctx'[c] = x /\ x \in Context
    BY <1>t, <2>3 DEF TypeOK
  <2>5. x.state = ctx[c].state /\ x.server = ctx[c].server /\ x.builder = ctx[c].builder
    BY <1>t, <2>2 DEF Context
  <2>6. FirstInv(x, client[c], handled[c])
    BY <1>t, <2>4, <2>5, ContextChanged
  <2> QED
    BY <1>9, <2>3, <2>6
<1>11. ASSUME NEW c \in Conns, Release(c), UNCHANGED handled,
              \A e \in Conns : e # c => client'[e] = client[e],
              client'[c].sent = client[c].sent
       PROVE  FirstRequestInv'
  <2>1. PICK x : x = Released(ctx[c])
    OBVIOUS
  <2>2. x.state = "freed" /\ x.server = ctx[c].server
    BY <1>t, <2>1 DEF Released, Context
  <2>3. FirstInv(x, client'[c], handled[c])
    BY <1>t, <1>11, <2>2 DEF FirstInv
  <2> QED
    BY <1>9, <1>11, <2>1, <2>3 DEF Release
<1>12. ASSUME NEW c \in Conns, Parsed(c)
       PROVE  /\ \A e \in Conns : e # c => client'[e] = client[e]
              /\ client'[c] = [client[c] EXCEPT !.unread = Tail(@)]
              /\ client'[c].sent = client[c].sent
  BY <1>12, <1>t DEF Parsed, TypeOK, Client
<1>13. ASSUME NEW c \in Conns, AvailableBegin(c)
       PROVE  FirstRequestInv'
  <2>1. PICK x : x = [ctx[c] EXCEPT !.parser = "mid"]
    OBVIOUS
  <2>2. ctx' = [ctx EXCEPT ![c] = x] /\ UNCHANGED handled /\ Parsed(c)
    BY <1>13, <2>1 DEF AvailableBegin
  <2>3. ctx'[c] = x /\ x \in Context
    BY <1>t, <2>2 DEF TypeOK
  <2>4. x.state = ctx[c].state /\ x.server = ctx[c].server /\ x.builder = ctx[c].builder
    BY <1>t, <2>1 DEF Context
  <2>5. /\ client[c].unread # <<>> /\ client[c].unread[1].kind = "begin"
        /\ ctx[c].state = "live"
    <3>1. client[c].unread \in Seq(Element)
      BY <1>t DEF Client
    <3> QED
      BY <1>13, <1>t, <3>1 DEF AvailableBegin, Readable, Unread
  <2>6. FirstInv(ctx[c], client'[c], handled[c])
    BY <1>12, <1>t, <2>2, <2>5, RequestBegun
  <2>7. FirstInv(x, client'[c], handled[c])
    BY <1>t, <2>3, <2>4, <2>6, ContextChanged
  <2> QED
    BY <1>9, <1>12, <2>2, <2>7
<1>14. ASSUME NEW c \in Conns, AvailableText(c)
       PROVE  FirstRequestInv'
  <2>1. PICK k \in Callbacks(Unread(c)) :
          /\ client' = [client EXCEPT ![c].unread = AfterCallback(@, k)]
          /\ ctx' = [ctx EXCEPT ![c].parser = "mid",
                       ![c].builder = OnText(@, Unread(c).kind, Reported(Unread(c), k))]
    BY <1>14 DEF AvailableText
  <2>2. client[c].unread \in Seq(Element) /\ client[c].unread # <<>> /\ ctx[c].state = "live"
    BY <1>14, <1>t DEF AvailableText, Readable, Client
  <2>3. Unread(c) = client[c].unread[1] /\ UNCHANGED handled
    BY <1>14, <2>2 DEF Unread, AvailableText
  <2>4. PICK x : x = [ctx[c] EXCEPT !.parser = "mid",
                        !.builder = OnText(ctx[c].builder, client[c].unread[1].kind,
                                           Reported(client[c].unread[1], k))]
    OBVIOUS
  <2>5. PICK z : z = [client[c] EXCEPT !.unread = AfterCallback(client[c].unread, k)]
    OBVIOUS
  <2>6. ctx' = [ctx EXCEPT ![c] = x] /\ client' = [client EXCEPT ![c] = z]
    BY <2>1, <2>3, <2>4, <2>5
  <2>7. /\ ctx'[c] = x /\ x \in Context /\ client'[c] = z /\ z \in Client
        /\ \A e \in Conns : e # c => client'[e] = client[e]
    BY <1>t, <2>6 DEF TypeOK
  <2>8. /\ x.state = ctx[c].state /\ x.server = ctx[c].server
        /\ x.builder = OnText(ctx[c].builder, client[c].unread[1].kind,
                              Reported(client[c].unread[1], k))
    BY <1>t, <2>4 DEF Context
  <2>9. k \in Callbacks(client[c].unread[1]) /\ client[c].unread[1].kind \in TextKind
    BY <1>14, <2>1, <2>3 DEF AvailableText
  <2>10. FirstInv(x, z, handled[c])
    <3>1. PICK w, y, h : w = ctx[c] /\ y = client[c] /\ h = handled[c]
      OBVIOUS
    <3>2. /\ w \in Context /\ y \in Client /\ h \in Seq(Outcome) /\ FirstInv(w, y, h)
          /\ w.state = "live" /\ y.unread # <<>> /\ y.unread[1].kind \in TextKind
          /\ k \in Callbacks(y.unread[1])
          /\ x \in Context /\ z \in Client /\ z = [y EXCEPT !.unread = AfterCallback(@, k)]
          /\ x.state = w.state /\ x.server = w.server
          /\ x.builder = OnText(w.builder, y.unread[1].kind, Reported(y.unread[1], k))
      BY <1>t, <2>2, <2>5, <2>7, <2>8, <2>9, <3>1
    <3>3. FirstInv(x, z, h)
      BY ONLY <3>2, TextRead
    <3> QED
      BY <3>1, <3>3
  <2> QED
    BY <1>9, <2>3, <2>6, <2>7, <2>10
<1>15. ASSUME NEW c \in Conns, MessageComplete(c)
       PROVE  FirstRequestInv'
  <2>1. client[c].unread \in Seq(Element) /\ client[c].unread # <<>> /\ ctx[c].state = "live"
    BY <1>15, <1>t DEF MessageComplete, Readable, Client
  <2>2. PICK o : o = GetResponse(ctx[c].server, ctx[c].builder, client[c].unread[1].method)
    OBVIOUS
  <2>3. Unread(c) = client[c].unread[1]
    BY <2>1 DEF Unread
  <2>4. PICK x : x = [ctx[c] EXCEPT !.parser = "start", !.writes = Append(@, o)]
    OBVIOUS
  <2>5. /\ ctx' = [ctx EXCEPT ![c] = x] /\ handled' = [handled EXCEPT ![c] = Append(@, o)]
        /\ Parsed(c) /\ client[c].unread[1].kind = "complete"
    BY <1>15, <2>2, <2>3, <2>4 DEF MessageComplete
  <2>6. /\ ctx'[c] = x /\ x \in Context /\ handled'[c] = Append(handled[c], o)
        /\ \A e \in Conns : e # c => ctx'[e] = ctx[e] /\ handled'[e] = handled[e]
    BY <1>t, <2>5 DEF TypeOK
  <2>7. x.state = ctx[c].state /\ x.server = ctx[c].server
    BY <1>t, <2>4 DEF Context
  <2>8. /\ client'[c].sent = client[c].sent
        /\ \A e \in Conns : e # c => client'[e] = client[e]
    BY <1>12, <2>5
  <2>9. FirstInv(x, client'[c], handled'[c])
    <3>1. /\ ctx[c] \in Context /\ client[c] \in Client /\ handled[c] \in Seq(Outcome)
          /\ FirstInv(ctx[c], client[c], handled[c])
          /\ client'[c] \in Client /\ handled'[c] \in Seq(Outcome)
      BY <1>t
    <3>2. client[c].unread[1].kind = "complete"
      BY <2>5
    <3>3. handled'[c] = Append(handled[c], GetResponse(ctx[c].server, ctx[c].builder,
                                                       client[c].unread[1].method))
      BY <2>2, <2>6
    <3>4. x \in Context /\ client'[c].sent = client[c].sent
          /\ x.state = ctx[c].state /\ x.server = ctx[c].server
      BY <2>6, <2>7, <2>8
    <3>5. ctx[c].state = "live" /\ client[c].unread # <<>>
      BY <2>1
    <3> QED
      BY <3>1, <3>2, <3>3, <3>4, <3>5, MessageRead
  <2> QED
    BY <2>6, <2>8, <2>9, OtherConnection
<1>16. ASSUME NEW c \in Conns, Eof(c)
       PROVE  FirstRequestInv'
  <2>1. UNCHANGED <<client, handled>>
    BY <1>16 DEF Eof
  <2>2. CASE Release(c)
    BY <1>11, <2>1, <2>2
  <2>3. CASE ctx' = [ctx EXCEPT ![c].reading = FALSE]
    <3>1. PICK x : x = [ctx[c] EXCEPT !.reading = FALSE]
      OBVIOUS
    <3>2. ctx' = [ctx EXCEPT ![c] = x]
      BY <2>3, <3>1
    <3>3. ctx'[c] = x /\ x \in Context
      BY <1>t, <3>2 DEF TypeOK
    <3>4. x.state = ctx[c].state /\ x.server = ctx[c].server /\ x.builder = ctx[c].builder
      BY <1>t, <3>1 DEF Context
    <3>5. FirstInv(x, client[c], handled[c])
      BY <1>t, <3>3, <3>4, ContextChanged
    <3> QED
      BY <1>9, <2>1, <3>2, <3>5
  <2> QED
    BY <1>16, <2>2, <2>3 DEF Eof
<1>17. ASSUME NEW c \in Conns,
              AvailableError(c) \/ ReadError(c) \/ WriteComplete(c) \/ WriteError(c)
       PROVE  FirstRequestInv'
  <2>1. Release(c) /\ UNCHANGED handled
    BY <1>17 DEF AvailableError, ReadError, WriteComplete, WriteError
  <2>2. /\ client'[c].sent = client[c].sent
        /\ \A e \in Conns : e # c => client'[e] = client[e]
    BY <1>12, <1>17 DEF AvailableError, ReadError, WriteComplete, WriteError
  <2> QED
    BY <1>11, <2>1, <2>2
<1> QED
  BY <1>2, <1>3, <1>5, <1>6, <1>7, <1>8, <1>10, <1>13, <1>14, <1>15, <1>16, <1>17
     DEF Next, Accepting, Clients, Worker, Available

\* However the bytes of a connection are cut into callbacks, and whatever else is
\* on it, its first request is dispatched as it was sent, less its last header.
THEOREM FirstAsSent == Spec => []FirstRequestDispatchedAsSent
<1>1. Init => FirstRequestInv
  <2> SUFFICES ASSUME Init, NEW c \in Conns PROVE FirstInv(ctx[c], client[c], handled[c])
    BY DEF FirstRequestInv
  <2>1. ctx[c].builder = NewBuilder /\ handled[c] = <<>>
        /\ client[c].sent = <<>> /\ client[c].unread = <<>>
    BY DEF Init, FreshContext
  <2> QED
    BY <2>1 DEF FirstInv, NothingRead
<1>2. TypeOK /\ TypeOK' /\ NoUseAfterFree /\ OrphanInv /\ FirstRequestInv /\ [Next]_vars
        => FirstRequestInv'
  BY StepFirstRequest
<1>3. FirstRequestInv => FirstRequestDispatchedAsSent
  BY DEF FirstRequestInv, FirstInv, FirstRequestDispatchedAsSent
<1> QED
  BY <1>1, <1>2, <1>3, TypeCorrect, ContextsOutliveTheirUses, OrphanInvariant, PTL DEF Spec

-----------------------------------------------------------------------------
(***************************************************************************)
(* The requests of a connection, counted.                                  *)
(***************************************************************************)
\* Where a request ends in what is unread.
Completions(u) == {k \in DOMAIN u : u[k].kind = "complete"}

\* No more than n requests end in it: they can be numbered in order.
AtMost(u, n) ==
  \E f \in [Completions(u) -> 1..n] : \A j, k \in Completions(u) : j < k => f[j] < f[k]

\* Of a context, its client, and what was handled and answered on it.
Counted(x, y, outcomes, answers) ==
  /\ Len(outcomes) <= Len(y.sent)
  /\ AtMost(y.unread, Len(y.sent) - Len(outcomes))
  /\ answers # <<>> => x.state = "freed"

CountInv == \A c \in Conns : Counted(ctx[c], client[c], handled[c], answered[c])

-----------------------------------------------------------------------------
(***************************************************************************)
(* Counting what is still to be completed.                                 *)
(***************************************************************************)

\* No more requests end in a part of what was unread, moved up by d.
LEMMA FewerEnd ==
  ASSUME NEW u, NEW v, NEW n \in Nat, AtMost(u, n), NEW d \in Nat,
         DOMAIN v \subseteq Nat, \A k \in Completions(v) : k + d \in Completions(u)
  PROVE  AtMost(v, n)
<1>1. PICK f \in [Completions(u) -> 1..n] : \A j, k \in Completions(u) : j < k => f[j] < f[k]
  BY DEF AtMost
<1>2. PICK g : g = [k \in Completions(v) |-> f[k + d]]
  OBVIOUS
<1>3. g \in [Completions(v) -> 1..n]
  BY <1>1, <1>2
<1>4. ASSUME NEW j \in Completions(v), NEW k \in Completions(v), j < k
      PROVE  g[j] < g[k]
  <2>1. j \in Nat /\ k \in Nat
    BY DEF Completions
  <2>2. j + d < k + d /\ j + d \in Completions(u) /\ k + d \in Completions(u)
    BY <2>1, <1>4
  <2>3. f[j + d] < f[k + d]
    BY <1>1, <2>2
  <2> QED
    BY <1>2, <2>3
<1> QED
  BY <1>3, <1>4 DEF AtMost

\* The first to end is one of them.
LEMMA OneEnds ==
  ASSUME NEW u \in Seq(Element), u # <<>>, u[1].kind = "complete", NEW n \in Nat, AtMost(u, n)
  PROVE  n >= 1 /\ AtMost(Tail(u), n - 1)
<1>1. PICK f \in [Completions(u) -> 1..n] : \A j, k \in Completions(u) : j < k => f[j] < f[k]
  BY DEF AtMost
<1>2. 1 \in Completions(u)
  BY DEF Completions
<1>3. f[1] \in 1..n /\ n >= 1
  BY <1>1, <1>2
<1>4. PICK t : t = Tail(u)
  OBVIOUS
<1>5. Len(u) \in Nat /\ DOMAIN u = 1..Len(u)
      /\ DOMAIN t = 1..(Len(u) - 1) /\ \A k \in 1..(Len(u) - 1) : t[k] = u[k + 1]
  BY <1>4
<1>6. \A k \in Completions(t) : k \in Nat /\ k >= 1 /\ k + 1 \in Completions(u)
  BY <1>5 DEF Completions
<1>7. \A k \in Completions(t) : f[k + 1] \in 2..n
  <2> SUFFICES ASSUME NEW k \in Completions(t) PROVE f[k + 1] \in 2..n
    OBVIOUS
  <2>1. k + 1 \in Completions(u) /\ 1 < k + 1
    BY <1>6
  <2>2. f[1] < f[k + 1] /\ f[k + 1] \in 1..n
    BY <1>1, <1>2, <2>1
  <2> QED
    BY <1>3, <2>2
<1>8. PICK g : g = [k \in Completions(t) |-> f[k + 1] - 1]
  OBVIOUS
<1>9. g \in [Completions(t) -> 1..(n - 1)]
  BY <1>7, <1>8
<1>10. ASSUME NEW j \in Completions(t), NEW k \in Completions(t), j < k
       PROVE  g[j] < g[k]
  <2>1. j + 1 < k + 1 /\ j + 1 \in Completions(u) /\ k + 1 \in Completions(u)
    BY <1>6, <1>10
  <2>2. f[j + 1] < f[k + 1]
    BY <1>1, <2>1
  <2>3. f[j + 1] \in 2..n /\ f[k + 1] \in 2..n
    BY <1>7
  <2> QED
    BY <1>8, <2>2, <2>3
<1> QED
  BY <1>3, <1>4, <1>9, <1>10 DEF AtMost

\* A request ends with its last element, and there only.
LEMMA EndsOnce ==
  ASSUME NEW r \in WireRequest, NEW k \in Completions(Wire(r))
  PROVE  k = Len(Wire(r))
<1>1. Wire(r) \in Seq(Element) /\ Len(Wire(r)) \in Nat
  BY WireElements
<1>2. k \in 1..Len(Wire(r)) /\ Wire(r)[k].kind = "complete"
  BY <1>1 DEF Completions
<1>3. PICK p \in 0..(Len(Wire(r)) - 1) : k = p + 1
  <2>1. k - 1 \in 0..(Len(Wire(r)) - 1) /\ k = (k - 1) + 1
    BY <1>1, <1>2
  <2> QED
    BY <2>1
<1>4. PICK h \in Nat : h = Len(r.headers)
  BY WireRequestParts
<1>5. /\ Wire(r)[p + 1] # Begin
      /\ \A kind \in TextKind : \A text : Wire(r)[p + 1] # Piece(kind, text)
  BY <1>2, <1>3 DEF Begin, Piece, TextKind
<1>6. p = Len(Wire(r)) - 1
  BY <1>4, <1>5, WireCases DEF TextKind
<1> QED
  BY <1>1, <1>3, <1>6

\* A request that is sent is one more that will end.
LEMMA OneMoreEnds ==
  ASSUME NEW u \in Seq(Element), NEW n \in Nat, AtMost(u, n), NEW r \in WireRequest
  PROVE  AtMost(u \o Wire(r), n + 1)
<1>1. PICK f \in [Completions(u) -> 1..n] : \A j, k \in Completions(u) : j < k => f[j] < f[k]
  BY DEF AtMost
<1>2. PICK w : w = Wire(r)
  OBVIOUS
<1>3. w \in Seq(Element) /\ Len(w) \in Nat /\ Len(u) \in Nat
  BY <1>2, WireElements
<1>4. PICK v : v = u \o w
  OBVIOUS
<1>5. /\ v \in Seq(Element) /\ DOMAIN v = 1..(Len(u) + Len(w))
      /\ \A i \in 1..(Len(u) + Len(w)) : v[i] = IF i <= Len(u) THEN u[i] ELSE w[i - Len(u)]
  BY <1>3, <1>4, ConcatProperties
<1>6. ASSUME NEW k \in Completions(v)
      PROVE  k \in Nat /\ (k <= Len(u) => k \in Completions(u))
             /\ (k > Len(u) => k = Len(u) + Len(w))
  <2>1. k \in 1..(Len(u) + Len(w)) /\ v[k].kind = "complete"
    BY <1>5 DEF Completions
  <2>2. CASE k <= Len(u)
    <3>1. k \in 1..Len(u) /\ u[k].kind = "complete"
      BY <1>3, <1>5, <2>1, <2>2
    <3> QED
      BY <1>3, <2>1, <2>2, <3>1 DEF Completions
  <2>3. CASE k > Len(u)
    <3>1. k - Len(u) \in 1..Len(w) /\ w[k - Len(u)].kind = "complete"
      BY <1>3, <1>5, <2>1, <2>3
    <3>2. k - Len(u) \in Completions(Wire(r))
      BY <1>2, <1>3, <3>1 DEF Completions
    <3>3. k - Len(u) = Len(w)
      BY <1>2, <3>2, EndsOnce
    <3> QED
      BY <1>3, <2>1, <2>3, <3>3
  <2> QED
    BY <1>3, <2>1, <2>2, <2>3
<1>7. PICK g : g = [k \in Completions(v) |-> IF k <= Len(u) THEN f[k] ELSE n + 1]
  OBVIOUS
<1>8. g \in [Completions(v) -> 1..(n + 1)]
  <2> SUFFICES ASSUME NEW k \in Completions(v)
               PROVE  (IF k <= Len(u) THEN f[k] ELSE n + 1) \in 1..(n + 1)
    BY <1>7
  <2>1. k <= Len(u) => f[k] \in 1..n
    BY <1>1, <1>6
  <2> QED
    BY <2>1
<1>9. ASSUME NEW j \in Completions(v), NEW k \in Completions(v), j < k
      PROVE  g[j] < g[k]
  <2>1. j \in Nat /\ k \in Nat
    BY <1>6
  <2>2. CASE k <= Len(u)
    <3>1. j <= Len(u) /\ j \in Completions(u) /\ k \in Completions(u)
      BY <1>3, <1>6, <1>9, <2>1, <2>2
    <3> QED
      BY <1>1, <1>7, <1>9, <2>2, <3>1
  <2>3. CASE k > Len(u) /\ j <= Len(u)
    <3>1. f[j] \in 1..n /\ ~(k <= Len(u))
      BY <1>1, <1>3, <1>6, <2>1, <2>3
    <3>2. g[j] = f[j] /\ g[k] = n + 1
      BY <1>7, <2>3, <3>1
    <3> QED
      BY <3>1, <3>2
  <2>4. CASE k > Len(u) /\ j > Len(u)
    BY <1>3, <1>6, <1>9, <2>1, <2>4
  <2> QED
    BY <1>3, <2>1, <2>2, <2>3, <2>4
<1> QED
  BY <1>2, <1>4, <1>8, <1>9 DEF AtMost

-----------------------------------------------------------------------------
(***************************************************************************)
(* The invariant, one connection at a time.                                *)
(***************************************************************************)

\* What becomes of the context, while its client stays as it is.
LEMMA ContextCounted ==
  ASSUME NEW x, NEW y, NEW h, NEW a, Counted(x, y, h, a),
         NEW z, NEW b,
         \/ z.state = "freed"
         \/ b = a /\ (z.state = x.state \/ x.state # "freed")
  PROVE  Counted(z, y, h, b)
BY DEF Counted

\* No more is unread than there was.
LEMMA UnreadCounted ==
  ASSUME NEW x, NEW y \in Client, NEW h \in Seq(Outcome), NEW a, Counted(x, y, h, a),
         NEW z \in Client, z.sent = y.sent, NEW d \in Nat,
         \A k \in Completions(z.unread) : k + d \in Completions(y.unread)
  PROVE  Counted(x, z, h, a)
<1>1. Len(y.sent) \in Nat /\ Len(h) \in Nat /\ DOMAIN z.unread \subseteq Nat
  BY DEF Client
<1>2. PICK n : n = Len(y.sent) - Len(h)
  OBVIOUS
<1>3. n \in Nat /\ AtMost(y.unread, n)
  BY <1>1, <1>2 DEF Counted
<1>4. AtMost(z.unread, n)
  BY <1>1, <1>3, FewerEnd
<1> QED
  BY <1>2, <1>4 DEF Counted

\* The first element is parsed, and ends no request.
LEMMA ElementCounted ==
  ASSUME NEW x, NEW y \in Client, NEW h \in Seq(Outcome), NEW a, Counted(x, y, h, a),
         y.unread # <<>>, NEW z \in Client, z.sent = y.sent, z.unread = Tail(y.unread)
  PROVE  Counted(x, z, h, a)
<1>1. y.unread \in Seq(Element)
  BY DEF Client
<1>2. \A k \in Completions(z.unread) : k + 1 \in Completions(y.unread)
  BY <1>1 DEF Completions
<1> QED
  BY <1>2, UnreadCounted

\* Text is reported: it shrinks, or is parsed.
LEMMA TextCounted ==
  ASSUME NEW x, NEW y \in Client, NEW h \in Seq(Outcome), NEW a, Counted(x, y, h, a),
         y.unread # <<>>, NEW k \in Callbacks(y.unread[1]),
         NEW z \in Client, z.sent = y.sent, z.unread = AfterCallback(y.unread, k)
  PROVE  Counted(x, z, h, a)
<1>1. y.unread \in Seq(Element)
  BY DEF Client
<1>2. CASE k.last
  <2>1. z.unread = Tail(y.unread)
    BY <1>2 DEF AfterCallback
  <2> QED
    BY <2>1, ElementCounted
<1>3. CASE ~k.last
  <2>1. PICK rest : rest = SubSeq(y.unread[1].data, k.size + 1, Len(y.unread[1].data))
    OBVIOUS
  <2>2. z.unread = [y.unread EXCEPT ![1].data = rest]
    BY <1>3, <2>1 DEF AfterCallback
  <2>3. \A j \in Completions(z.unread) : j + 0 \in Completions(y.unread)
    BY <1>1, <2>2 DEF Completions
  <2> QED
    BY <2>3, UnreadCounted
<1> QED
  BY <1>2, <1>3

\* The client breaks off, with or without what is not HTTP.
LEMMA BrokenOffCounted ==
  ASSUME NEW x, NEW y \in Client, NEW h \in Seq(Outcome), NEW a, Counted(x, y, h, a),
         NEW z \in Client, z.sent = y.sent, NEW n \in 0..Len(y.unread),
         z.unread \in {SubSeq(y.unread, 1, n), Append(SubSeq(y.unread, 1, n), Bad)}
  PROVE  Counted(x, z, h, a)
<1>1. y.unread \in Seq(Element) /\ Len(y.unread) \in Nat
  BY DEF Client
<1>2. PICK s : s = SubSeq(y.unread, 1, n)
  OBVIOUS
<1>3. s \in Seq(Element) /\ Len(s) = n /\ \A k \in 1..n : s[k] = y.unread[k]
  BY <1>1, <1>2
<1>4. z.unread = s \/ z.unread = Append(s, Bad)
  BY <1>2
<1>5. ASSUME NEW k \in Completions(z.unread)
      PROVE  k + 0 \in Completions(y.unread)
  <2>1. CASE z.unread = s
    BY <1>1, <1>3, <1>5, <2>1 DEF Completions
  <2>2. CASE z.unread = Append(s, Bad)
    <3>1. k \in 1..(n + 1) /\ z.unread[k].kind = "complete"
      BY <1>3, <1>5, <2>2 DEF Completions
    <3>2. k # n + 1
      BY <1>3, <2>2, <3>1 DEF Bad, Piece
    <3>3. k \in 1..n /\ z.unread[k] = s[k]
      BY <1>1, <1>3, <2>2, <3>1, <3>2
    <3> QED
      BY <1>1, <1>3, <3>1, <3>3 DEF Completions
  <2> QED
    BY <1>4, <2>1, <2>2
<1> QED
  BY <1>5, UnreadCounted

\* A request is sent.
LEMMA SentCounted ==
  ASSUME NEW x, NEW y \in Client, NEW h \in Seq(Outcome), NEW a, Counted(x, y, h, a),
         NEW r \in Requests, NEW z, z = [y EXCEPT !.unread = @ \o Wire(r), !.sent = Append(@, r)]
  PROVE  Counted(x, z, h, a)
<1>1. y.unread \in Seq(Element) /\ y.sent \in Seq(Requests) /\ r \in WireRequest
  BY RequestsType DEF Client
<1>2. z.unread = y.unread \o Wire(r) /\ Len(z.sent) = Len(y.sent) + 1
  BY <1>1 DEF Client
<1>3. PICK n : n = Len(y.sent) - Len(h)
  OBVIOUS
<1>4. n \in Nat /\ AtMost(y.unread, n) /\ Len(y.sent) \in Nat /\ Len(h) \in Nat
  BY <1>1, <1>3 DEF Counted
<1>5. AtMost(z.unread, n + 1)
  BY <1>1, <1>2, <1>4, OneMoreEnds
<1>6. n + 1 = Len(z.sent) - Len(h) /\ Len(h) <= Len(z.sent)
  BY <1>2, <1>3, <1>4
<1> QED
  BY <1>5, <1>6 DEF Counted

\* A request is complete.
LEMMA DispatchCounted ==
  ASSUME NEW x, NEW y \in Client, NEW h \in Seq(Outcome), NEW a, Counted(x, y, h, a),
         y.unread # <<>>, y.unread[1].kind = "complete",
         NEW z, z.sent = y.sent, z.unread = Tail(y.unread), NEW o \in Outcome
  PROVE  Len(h) < Len(y.sent) /\ Counted(x, z, Append(h, o), a)
<1>1. y.unread \in Seq(Element) /\ y.sent \in Seq(Requests)
  BY DEF Client
<1>2. PICK n : n = Len(y.sent) - Len(h)
  OBVIOUS
<1>3. n \in Nat /\ AtMost(y.unread, n) /\ Len(y.sent) \in Nat /\ Len(h) \in Nat
  BY <1>1, <1>2 DEF Counted
<1>4. n >= 1 /\ AtMost(z.unread, n - 1)
  BY <1>1, <1>3, OneEnds
<1>5. PICK g : g = Append(h, o)
  OBVIOUS
<1>6. Len(g) = Len(h) + 1
  BY <1>5
<1>7. n - 1 = Len(z.sent) - Len(g) /\ Len(g) <= Len(z.sent) /\ Len(h) < Len(y.sent)
  BY <1>2, <1>3, <1>4, <1>6
<1> QED
  BY <1>4, <1>5, <1>7 DEF Counted

\* The invariant of the connections nothing happens to.
LEMMA OthersCounted ==
  ASSUME CountInv, NEW c \in Conns,
         \A e \in Conns : e # c => ctx'[e] = ctx[e] /\ client'[e] = client[e]
                                   /\ handled'[e] = handled[e] /\ answered'[e] = answered[e],
         Counted(ctx'[c], client'[c], handled'[c], answered'[c])
  PROVE  CountInv'
<1> SUFFICES ASSUME NEW e \in Conns
             PROVE  Counted(ctx'[e], client'[e], handled'[e], answered'[e])
  BY DEF CountInv
<1>1. CASE e = c
  BY <1>1
<1>2. CASE e # c
  BY <1>2 DEF CountInv
<1> QED
  BY <1>1, <1>2

\* One step per action.
LEMMA StepCountInv ==
  TypeOK /\ TypeOK' /\ CountInv /\ [Next]_vars => CountInv'
<1> SUFFICES ASSUME TypeOK, TypeOK', CountInv, [Next]_vars
             PROVE  CountInv'
  OBVIOUS
<1>t. \A c \in Conns : /\ ctx[c] \in Context /\ client[c] \in Client /\ handled[c] \in Seq(Outcome)
                       /\ client'[c] \in Client /\ client[c].unread \in Seq(Element)
                       /\ Counted(ctx[c], client[c], handled[c], answered[c])
  BY DEF TypeOK, CountInv, Client
<1>1. ASSUME Listening \/ UNCHANGED vars
      PROVE  CountInv'
  BY <1>1 DEF Listening, Start, StartFails, Stop, vars, CountInv
<1>2. ASSUME NEW c \in Conns, NEW x, ctx' = [ctx EXCEPT ![c] = x],
             \/ x.state = "freed"
             \/ answered'[c] = answered[c] /\ (x.state = ctx[c].state \/ ctx[c].state # "freed"),
             \A e \in Conns : e # c => client'[e] = client[e] /\ answered'[e] = answered[e],
             Counted(ctx[c], client'[c], handled'[c], answered[c]),
             \A e \in Conns : e # c => handled'[e] = handled[e]
      PROVE  CountInv'
  <2>1. ctx'[c] = x /\ \A e \in Conns : e # c => ctx'[e] = ctx[e]
    BY <1>2 DEF TypeOK
  <2>2. Counted(x, client'[c], handled'[c], answered'[c])
    <3>1. PICK w, y, h, a, b : /\ w = ctx[c] /\ y = client'[c] /\ h = handled'[c]
                               /\ a = answered[c] /\ b = answered'[c]
      OBVIOUS
    <3>2. Counted(w, y, h, a)
          /\ \/ x.state = "freed"
             \/ b = a /\ (x.state = w.state \/ w.state # "freed")
      BY <1>2, <3>1
    <3>3. Counted(x, y, h, b)
      BY ONLY <3>2, ContextCounted
    <3> QED
      BY <3>1, <3>3
  <2> QED
    BY <1>2, <2>1, <2>2, OthersCounted
<1>3. ASSUME NEW i \in Instances, NEW c \in Conns, Accept(i, c)
      PROVE  CountInv'
  <2>1. PICK x : x = FreshContext(i, BaseAt(iter'))
    OBVIOUS
  <2>2. ctx' = [ctx EXCEPT ![c] = x] /\ UNCHANGED <<client, handled, answered>>
        /\ ctx[c].state # "freed"
    BY <1>3, <2>1 DEF Accept
  <2> QED
    BY <1>t, <1>2, <2>2
<1>4. ASSUME NEW c \in Conns, NEW z, client' = [client EXCEPT ![c] = z],
             UNCHANGED <<ctx, handled, answered>>, Counted(ctx[c], z, handled[c], answered[c])
      PROVE  CountInv'
  <2>1. client'[c] = z /\ \A e \in Conns : e # c => client'[e] = client[e]
    BY <1>4 DEF TypeOK
  <2> QED
    BY <1>4, <2>1, OthersCounted
<1>5. ASSUME NEW c \in Conns, NEW r \in Requests, Send(c, r)
      PROVE  CountInv'
  <2>1. PICK z : z = [client[c] EXCEPT !.unread = @ \o Wire(r), !.sent = Append(@, r)]
    OBVIOUS
  <2>2. client' = [client EXCEPT ![c] = z] /\ UNCHANGED <<ctx, handled, answered>>
    BY <1>5, <2>1 DEF Send
  <2>3. Counted(ctx[c], z, handled[c], answered[c])
    BY <1>t, <2>1, SentCounted
  <2> QED
    BY <1>4, <2>2, <2>3
<1>6. ASSUME NEW c \in Conns, NEW z, client' = [client EXCEPT ![c] = z],
             UNCHANGED <<ctx, handled, answered>>, z.sent = client[c].sent,
             NEW n \in 0..Len(client[c].unread),
             z.unread \in {SubSeq(client[c].unread, 1, n),
                           Append(SubSeq(client[c].unread, 1, n), Bad)}
      PROVE  CountInv'
  <2>1. z \in Client
    BY <1>t, <1>6 DEF TypeOK
  <2>2. Counted(ctx[c], z, handled[c], answered[c])
    BY <1>t, <1>6, <2>1, BrokenOffCounted
  <2> QED
    BY <1>4, <1>6, <2>2
<1>7. ASSUME NEW c \in Conns, SendGarbage(c)
      PROVE  CountInv'
  <2>1. PICK n \in 0..Len(client[c].unread) :
          client' = [client EXCEPT ![c].unread = Append(SubSeq(@, 1, n), Bad)]
    BY <1>7 DEF SendGarbage
  <2>2. PICK z : z = [client[c] EXCEPT !.unread = Append(SubSeq(@, 1, n), Bad)]
    OBVIOUS
  <2>3. client' = [client EXCEPT ![c] = z] /\ UNCHANGED <<ctx, handled, answered>>
    BY <1>7, <2>1, <2>2 DEF SendGarbage
  <2>4. z.sent = client[c].sent /\ z.unread = Append(SubSeq(client[c].unread, 1, n), Bad)
    BY <1>t, <2>2 DEF Client
  <2> QED
    BY <1>6, <2>3, <2>4
<1>8. ASSUME NEW c \in Conns, Fin(c)
      PROVE  CountInv'
  <2>1. PICK n \in 0..Len(client[c].unread) :
          client' = [client EXCEPT ![c].unread = SubSeq(@, 1, n), ![c].peer = "fin"]
    BY <1>8 DEF Fin
  <2>2. PICK z : z = [client[c] EXCEPT !.unread = SubSeq(@, 1, n), !.peer = "fin"]
    OBVIOUS
  <2>3. client' = [client EXCEPT ![c] = z] /\ UNCHANGED <<ctx, handled, answered>>
    BY <1>8, <2>1, <2>2 DEF Fin
  <2>4. z.sent = client[c].sent /\ z.unread = SubSeq(client[c].unread, 1, n)
    BY <1>t, <2>2 DEF Client
  <2> QED
    BY <1>6, <2>3, <2>4
<1>9. ASSUME NEW c \in Conns, Reset(c)
      PROVE  CountInv'
  <2>1. PICK z : z = [client[c] EXCEPT !.peer = "reset"]
    OBVIOUS
  <2>2. client' = [client EXCEPT ![c] = z] /\ UNCHANGED <<ctx, handled, answered>>
    BY <1>9, <2>1 DEF Reset
  <2>3. z.sent = client[c].sent /\ z.unread = client[c].unread
    BY <1>t, <2>1 DEF Client
  <2>4. Counted(ctx[c], z, handled[c], answered[c])
    BY <1>t, <2>3 DEF Counted
  <2> QED
    BY <1>4, <2>2, <2>4
<1>10. ASSUME NEW b \in Bases, StartRead(b)
       PROVE  CountInv'
  <2>1. PICK c \in Conns : c = Head(tasks[b])
    BY <1>10 DEF StartRead, TypeOK
  <2>2. PICK x : x = [ctx[c] EXCEPT !.reading = TRUE]
    OBVIOUS
  <2>3. ctx' = [ctx EXCEPT ![c] = x] /\ UNCHANGED <<client, handled, answered>>
    BY <1>10, <2>1, <2>2 DEF StartRead
  <2>4. x.state = ctx[c].state
    BY <1>t, <2>2 DEF Context
  <2> QED
    BY <1>t, <1>2, <2>3, <2>4
<1>11. ASSUME NEW c \in Conns, Readable(c), Parsed(c)
       PROVE  /\ \A e \in Conns : e # c => client'[e] = client[e]
              /\ client'[c].sent = client[c].sent /\ client'[c].unread = Tail(client[c].unread)
              /\ client[c].unread # <<>> /\ Unread(c) = client[c].unread[1]
              /\ Counted(ctx[c], client'[c], handled[c], answered[c])
  <2>1. /\ \A e \in Conns : e # c => client'[e] = client[e]
        /\ client'[c] = [client[c] EXCEPT !.unread = Tail(@)]
    BY <1>11 DEF Parsed, TypeOK
  <2>2. client'[c].sent = client[c].sent /\ client'[c].unread = Tail(client[c].unread)
    BY <1>t, <2>1 DEF Client
  <2>3. client[c].unread # <<>> /\ Unread(c) = client[c].unread[1]
    BY <1>t, <1>11 DEF Readable, Unread
  <2>4. Counted(ctx[c], client'[c], handled[c], answered[c])
    BY <1>t, <2>2, <2>3, ElementCounted
  <2> QED
    BY <2>1, <2>2, <2>3, <2>4
<1>12. ASSUME NEW c \in Conns, AvailableBegin(c)
       PROVE  CountInv'
  <2>1. PICK x : x = [ctx[c] EXCEPT !.parser = "mid"]
    OBVIOUS
  <2>2. /\ ctx' = [ctx EXCEPT ![c] = x] /\ UNCHANGED <<handled, answered>>
        /\ Readable(c) /\ Parsed(c)
    BY <1>12, <2>1 DEF AvailableBegin
  <2>3. x.state = ctx[c].state
    BY <1>t, <2>1 DEF Context
  <2> QED
    BY <1>2, <1>11, <2>2, <2>3
<1>13. ASSUME NEW c \in Conns, AvailableText(c)
       PROVE  CountInv'
  <2>1. PICK k \in Callbacks(Unread(c)) :
          /\ client' = [client EXCEPT ![c].unread = AfterCallback(@, k)]
          /\ ctx' = [ctx EXCEPT ![c].parser = "mid",
                       ![c].builder = OnText(@, Unread(c).kind, Reported(Unread(c), k))]
    BY <1>13 DEF AvailableText
  <2>2. /\ client[c].unread # <<>> /\ Unread(c) = client[c].unread[1]
        /\ UNCHANGED <<handled, answered>>
    BY <1>t, <1>13 DEF AvailableText, Readable, Unread
  <2>3. PICK x : x = [ctx[c] EXCEPT !.parser = "mid",
                        !.builder = OnText(@, Unread(c).kind, Reported(Unread(c), k))]
    OBVIOUS
  <2>4. ctx' = [ctx EXCEPT ![c] = x] /\ x.state = ctx[c].state
    BY <1>t, <2>1, <2>3 DEF Context
  <2>5. /\ client'[c] = [client[c] EXCEPT !.unread = AfterCallback(@, k)]
        /\ \A e \in Conns : e # c => client'[e] = client[e]
    BY <2>1 DEF TypeOK
  <2>6. client'[c].sent = client[c].sent /\ client'[c].unread = AfterCallback(client[c].unread, k)
    BY <1>t, <2>5 DEF Client
  <2>7. k \in Callbacks(client[c].unread[1])
    BY <2>2
  <2>8. Counted(ctx[c], client'[c], handled[c], answered[c])
    BY <1>t, <2>2, <2>6, <2>7, TextCounted
  <2> QED
    BY <1>2, <2>2, <2>4, <2>5, <2>8
<1>14. ASSUME NEW c \in Conns, MessageComplete(c)
       PROVE  CountInv'
  <2>1. PICK o : o = GetResponse(ctx[c].server, ctx[c].builder, Unread(c).method)
    OBVIOUS
  <2>2. PICK x : x = [ctx[c] EXCEPT !.parser = "start", !.writes = Append(@, o)]
    OBVIOUS
  <2>3. /\ ctx' = [ctx EXCEPT ![c] = x] /\ handled' = [handled EXCEPT ![c] = Append(@, o)]
        /\ UNCHANGED answered /\ Readable(c) /\ Parsed(c) /\ Unread(c).kind = "complete"
    BY <1>14, <2>1, <2>2 DEF MessageComplete
  <2>4. x.state = ctx[c].state
    BY <1>t, <2>2 DEF Context
  <2>5. o \in Outcome
    BY <1>t, <2>1, GetResponseType DEF Context
  <2>6. /\ handled'[c] = Append(handled[c], o)
        /\ \A e \in Conns : e # c => handled'[e] = handled[e]
    BY <2>3 DEF TypeOK
  <2>7. Counted(ctx[c], client'[c], handled'[c], answered[c])
    <3>1. /\ client[c].unread # <<>> /\ client[c].unread[1].kind = "complete"
          /\ client'[c].sent = client[c].sent /\ client'[c].unread = Tail(client[c].unread)
      BY <1>11, <2>3
    <3> QED
      BY <1>t, <2>5, <2>6, <3>1, DispatchCounted
  <2> QED
    BY <1>2, <1>11, <2>3, <2>4, <2>6, <2>7
<1>15. ASSUME NEW c \in Conns, Release(c), UNCHANGED handled,
              \A e \in Conns : e # c => client'[e] = client[e] /\ answered'[e] = answered[e],
              Counted(ctx[c], client'[c], handled[c], answered[c])
       PROVE  CountInv'
  <2>1. PICK x : x = Released(ctx[c])
    OBVIOUS
  <2>2. x.state = "freed" /\ ctx' = [ctx EXCEPT ![c] = x]
    BY <1>t, <1>15, <2>1 DEF Released, Context, Release
  <2> QED
    BY <1>2, <1>15, <2>2
<1>16. ASSUME NEW c \in Conns, AvailableError(c)
       PROVE  CountInv'
  BY <1>11, <1>15, <1>16 DEF AvailableError
<1>17. ASSUME NEW c \in Conns, Eof(c)
       PROVE  CountInv'
  <2>1. CASE Release(c)
    BY <1>t, <1>15, <1>17, <2>1 DEF Eof
  <2>2. CASE ctx' = [ctx EXCEPT ![c].reading = FALSE]
    <3>1. PICK x : x = [ctx[c] EXCEPT !.reading = FALSE]
      OBVIOUS
    <3>2. ctx' = [ctx EXCEPT ![c] = x] /\ x.state = ctx[c].state
      BY <1>t, <2>2, <3>1 DEF Context
    <3> QED
      BY <1>t, <1>2, <1>17, <3>2 DEF Eof
  <2> QED
    BY <1>17, <2>1, <2>2 DEF Eof
<1>18. ASSUME NEW c \in Conns, ReadError(c) \/ WriteError(c)
       PROVE  CountInv'
  BY <1>t, <1>15, <1>18 DEF ReadError, WriteError
<1>19. ASSUME NEW c \in Conns, WriteComplete(c)
       PROVE  CountInv'
  <2>1. \A e \in Conns : e # c => answered'[e] = answered[e]
    BY <1>19 DEF WriteComplete, TypeOK
  <2> QED
    BY <1>t, <1>15, <1>19, <2>1 DEF WriteComplete
<1> QED
  BY <1>1, <1>3, <1>5, <1>7, <1>8, <1>9, <1>10, <1>12, <1>13, <1>14, <1>16, <1>17, <1>18, <1>19
     DEF Next, Accepting, Clients, Worker, Available

-----------------------------------------------------------------------------
(***************************************************************************)
(* The refinement.                                                         *)
(***************************************************************************)

\* A connection that exists and was not accepted waits.
LEMMA InitMaps == Init => Contract!Init
<1> SUFFICES ASSUME Init PROVE Contract!Init
  OBVIOUS
<1>1. PICK i \in Instances : ctx = [c \in Conns |-> [FreshContext(i, 0) EXCEPT !.state = "none"]]
  BY DEF Init
<1>2. \A c \in Conns : Phase(ctx[c]) = "waiting" /\ ctx[c].server = i
  BY <1>1 DEF FreshContext, Phase
<1>3. \A c \in Conns : client[c].sent = <<>> /\ handled[c] = <<>>
  BY DEF Init
<1>4. [c \in Conns |-> ctx[c].server] \in [Conns -> Instances]
  BY <1>2
<1> QED
  BY <1>2, <1>3, <1>4 DEF Init, Contract!Init, FirstOf

\* What the contract does not speak of.
LEMMA Stutters ==
  ASSUME \A c \in Conns : /\ ctx'[c].state = ctx[c].state /\ ctx'[c].server = ctx[c].server
                          /\ client'[c].sent = client[c].sent,
         UNCHANGED <<handled, answered>>
  PROVE  UNCHANGED Contract!cvars
<1>1. \A c \in Conns : Phase(ctx'[c]) = Phase(ctx[c])
  BY DEF Phase
<1> QED
  BY <1>1 DEF Contract!cvars

\* A step that changes one context, and neither its state nor its server.
LEMMA ContextStutters ==
  ASSUME TypeOK, NEW c \in Conns, NEW x, ctx' = [ctx EXCEPT ![c] = x],
         x.state = ctx[c].state, x.server = ctx[c].server,
         \A e \in Conns : client'[e].sent = client[e].sent, UNCHANGED <<handled, answered>>
  PROVE  UNCHANGED Contract!cvars
<1>1. ctx'[c] = x /\ \A e \in Conns : e # c => ctx'[e] = ctx[e]
  BY DEF TypeOK
<1> QED
  BY <1>1, Stutters

LEMMA OpenMaps ==
  ASSUME TypeOK, NEW i \in Instances, NEW c \in Conns, Accept(i, c)
  PROVE  Contract!Open(c, i)
<1>1. PICK x : x = FreshContext(i, BaseAt(iter'))
  OBVIOUS
<1>2. /\ ctx' = [ctx EXCEPT ![c] = x] /\ ctx[c].state = "none"
      /\ UNCHANGED <<client, handled, answered>>
  BY <1>1 DEF Accept
<1>3. /\ ctx'[c] = x /\ Phase(ctx[c]) = "waiting" /\ Phase(x) = "open" /\ x.server = i
      /\ \A e \in Conns : e # c => ctx'[e] = ctx[e]
  BY <1>1, <1>2 DEF TypeOK, FreshContext, Phase
<1>4. [e \in Conns |-> Phase(ctx'[e])] = [[e \in Conns |-> Phase(ctx[e])] EXCEPT ![c] = "open"]
  BY <1>3
<1>5. [e \in Conns |-> ctx'[e].server] = [[e \in Conns |-> ctx[e].server] EXCEPT ![c] = i]
  BY <1>3
<1> QED
  BY <1>2, <1>3, <1>4, <1>5 DEF Contract!Open

LEMMA OfferMaps ==
  ASSUME TypeOK, NEW c \in Conns, NEW r \in Requests, Send(c, r)
  PROVE  Contract!Offer(c, r)
<1>1. PICK z : z = [client[c] EXCEPT !.unread = @ \o Wire(r), !.sent = Append(@, r)]
  OBVIOUS
<1>2. client' = [client EXCEPT ![c] = z] /\ UNCHANGED <<ctx, handled, answered>>
      /\ ctx[c].state # "freed"
  BY <1>1 DEF Send, Talking
<1>3. /\ client'[c].sent = Append(client[c].sent, r)
      /\ \A e \in Conns : e # c => client'[e] = client[e]
  BY <1>1, <1>2 DEF TypeOK, Client
<1>4. Phase(ctx[c]) # "closed"
  BY <1>2 DEF Phase, TypeOK, Context
<1>5. [e \in Conns |-> client'[e].sent]
        = [[e \in Conns |-> client[e].sent] EXCEPT ![c] = Append(client[c].sent, r)]
  BY <1>3
<1> QED
  BY <1>2, <1>4, <1>5 DEF Contract!Offer

\* The n-th request is dispatched, and the first of them as it is owed.
LEMMA DispatchMaps ==
  ASSUME TypeOK, TypeOK', CallbacksValid, CountInv, FirstRequestDispatchedAsSent',
         NEW c \in Conns, MessageComplete(c)
  PROVE  Contract!Dispatch(c)
<1>1. PICK o : o = GetResponse(ctx[c].server, ctx[c].builder, Unread(c).method)
  OBVIOUS
<1>2. PICK x : x = [ctx[c] EXCEPT !.parser = "start", !.writes = Append(@, o)]
  OBVIOUS
<1>3. /\ ctx' = [ctx EXCEPT ![c] = x] /\ handled' = [handled EXCEPT ![c] = Append(@, o)]
      /\ UNCHANGED answered /\ Readable(c) /\ Parsed(c) /\ Unread(c).kind = "complete"
  BY <1>1, <1>2 DEF MessageComplete
<1>4. /\ ctx[c] \in Context /\ client[c] \in Client /\ handled[c] \in Seq(Outcome)
      /\ client[c].unread \in Seq(Element) /\ Counted(ctx[c], client[c], handled[c], answered[c])
  BY DEF TypeOK, Client, CountInv
<1>5. x.state = ctx[c].state /\ x.server = ctx[c].server
  BY <1>2, <1>4 DEF Context
<1>6. /\ ctx'[c] = x /\ handled'[c] = Append(handled[c], o)
      /\ \A e \in Conns : e # c => ctx'[e] = ctx[e] /\ handled'[e] = handled[e]
  BY <1>3 DEF TypeOK
<1>7. \A e \in Conns : client'[e].sent = client[e].sent
  BY <1>3 DEF Parsed, TypeOK, Client
<1>8. ctx[c].state = "live"
  BY <1>3 DEF Readable, CallbacksValid
<1>9. Phase(ctx[c]) = "open" /\ \A e \in Conns : Phase(ctx'[e]) = Phase(ctx[e])
                             /\ ctx'[e].server = ctx[e].server
  BY <1>5, <1>6, <1>8 DEF Phase
<1>10. o \in Outcome
  BY <1>1, <1>4, GetResponseType DEF Context
<1>11. Len(handled[c]) < Len(client[c].sent)
  <2>1. client[c].unread # <<>> /\ client[c].unread[1].kind = "complete"
    BY <1>3, <1>4 DEF Readable, Unread
  <2>2. /\ client'[c].sent = client[c].sent /\ client'[c].unread = Tail(client[c].unread)
    BY <1>3, <1>4 DEF Parsed, TypeOK, Client
  <2> QED
    BY <1>4, <1>10, <2>1, <2>2, DispatchCounted
<1>12. Len(handled'[c]) = Len(handled[c]) + 1
  BY <1>4, <1>6, <1>10
<1>13. FirstOf(handled'[c]) = IF Len(handled[c]) = 0
                              THEN <<OwedInFact(ctx[c].server, client[c].sent[1])>>
                              ELSE FirstOf(handled[c])
  <2>1. CASE handled[c] = <<>>
    <3>1. handled'[c] # <<>> /\ Len(handled[c]) = 0
      BY <1>6, <2>1
    <3>2. handled'[c][1] = OwedInFact(ctx'[c].server, client'[c].sent[1])
      BY <3>1 DEF FirstRequestDispatchedAsSent
    <3> QED
      BY <1>7, <1>9, <3>1, <3>2 DEF FirstOf
  <2>2. CASE handled[c] # <<>>
    <3>1. handled'[c] # <<>> /\ handled'[c][1] = handled[c][1] /\ Len(handled[c]) # 0
      BY <1>4, <1>6, <1>10, <2>2
    <3> QED
      BY <2>2, <3>1 DEF FirstOf
  <2> QED
    BY <2>1, <2>2
<1>14. [e \in Conns |-> Len(handled'[e])]
         = [[e \in Conns |-> Len(handled[e])] EXCEPT ![c] = Len(handled[c]) + 1]
  BY <1>6, <1>12
<1>15. [e \in Conns |-> FirstOf(handled'[e])]
         = [[e \in Conns |-> FirstOf(handled[e])] EXCEPT
              ![c] = IF Len(handled[c]) = 0
                     THEN <<OwedInFact(ctx[c].server, client[c].sent[1])>>
                     ELSE FirstOf(handled[c])]
  BY <1>6, <1>13
<1>16. /\ [e \in Conns |-> Phase(ctx'[e])] = [e \in Conns |-> Phase(ctx[e])]
       /\ [e \in Conns |-> ctx'[e].server] = [e \in Conns |-> ctx[e].server]
       /\ [e \in Conns |-> client'[e].sent] = [e \in Conns |-> client[e].sent]
  BY <1>7, <1>9
<1> QED
  BY <1>3, <1>9, <1>11, <1>14, <1>15, <1>16 DEF Contract!Dispatch

\* The first write to complete is that of the first response, and the only one.
LEMMA DeliverMaps ==
  ASSUME TypeOK, CallbacksValid, OrphanInv, CountInv, NEW c \in Conns, WriteComplete(c)
  PROVE  Contract!Deliver(c)
<1>1. PICK x : x = Released(ctx[c])
  OBVIOUS
<1>2. /\ ctx' = [ctx EXCEPT ![c] = x] /\ ctx[c].writes # <<>>
      /\ answered' = [answered EXCEPT ![c] = Append(@, Head(ctx[c].writes))]
      /\ UNCHANGED <<client, handled>>
  BY <1>1 DEF WriteComplete, Release
<1>3. ctx[c] \in Context /\ handled[c] \in Seq(Outcome) /\ answered[c] \in Seq(Outcome)
  BY DEF TypeOK
<1>4. x.state = "freed" /\ x.server = ctx[c].server
  BY <1>1, <1>3 DEF Released, Context
<1>5. ctx'[c] = x /\ \A e \in Conns : e # c => ctx'[e] = ctx[e] /\ answered'[e] = answered[e]
  BY <1>2 DEF TypeOK
<1>6. ctx[c].state = "live"
  BY <1>2 DEF CallbacksValid
<1>7. ctx[c].writes = handled[c] /\ answered[c] = <<>>
  BY <1>6 DEF OrphanInv, ConnInv, ResponsesInFlight, CountInv, Counted
<1>8. handled[c] # <<>> /\ answered'[c] = <<handled[c][1]>>
  BY <1>2, <1>3, <1>7 DEF TypeOK
<1>9. FirstOf(handled[c]) # <<>> /\ answered'[c] = FirstOf(handled[c])
  BY <1>8 DEF FirstOf
<1>10. Phase(ctx[c]) = "open" /\ Phase(ctx'[c]) = "closed" /\ ctx'[c].server = ctx[c].server
  BY <1>4, <1>5, <1>6 DEF Phase
<1>11. answered' = [answered EXCEPT ![c] = FirstOf(handled[c])]
  BY <1>2, <1>7, <1>8, <1>9 DEF TypeOK
<1>12. [e \in Conns |-> Phase(ctx'[e])] = [[e \in Conns |-> Phase(ctx[e])] EXCEPT ![c] = "closed"]
  BY <1>5, <1>10
<1>13. [e \in Conns |-> ctx'[e].server] = [e \in Conns |-> ctx[e].server]
  BY <1>5, <1>10
<1> QED
  BY <1>2, <1>9, <1>10, <1>11, <1>12, <1>13 DEF Contract!Deliver

\* The context is released without an answer.
LEMMA AbandonMaps ==
  ASSUME TypeOK, CallbacksValid, NEW c \in Conns, Release(c),
         ctx[c].reading \/ ctx[c].writes # <<>>,
         \A e \in Conns : client'[e].sent = client[e].sent, UNCHANGED <<handled, answered>>
  PROVE  Contract!Abandon(c)
<1>1. PICK x : x = Released(ctx[c])
  OBVIOUS
<1>2. ctx' = [ctx EXCEPT ![c] = x] /\ ctx[c].state = "live"
  BY <1>1 DEF Release, CallbacksValid
<1>3. x.state = "freed" /\ x.server = ctx[c].server
  BY <1>1 DEF Released, Context, TypeOK
<1>4. ctx'[c] = x /\ \A e \in Conns : e # c => ctx'[e] = ctx[e]
  BY <1>2 DEF TypeOK
<1>5. Phase(ctx[c]) = "open" /\ Phase(ctx'[c]) = "closed" /\ ctx'[c].server = ctx[c].server
  BY <1>2, <1>3, <1>4 DEF Phase
<1> QED
  BY <1>4, <1>5 DEF Contract!Abandon

\* One step per action.
LEMMA StepMaps ==
  TypeOK /\ TypeOK' /\ NoUseAfterFree /\ OrphanInv /\ CountInv /\ FirstRequestDispatchedAsSent'
    /\ [Next]_vars => [Contract!Next]_(Contract!cvars)
<1> SUFFICES ASSUME TypeOK, TypeOK', NoUseAfterFree, OrphanInv, CountInv,
                    FirstRequestDispatchedAsSent', [Next]_vars
             PROVE  [Contract!Next]_(Contract!cvars)
  OBVIOUS
<1>0. CallbacksValid
  BY DEF NoUseAfterFree
<1>1. CASE Listening \/ UNCHANGED vars
  BY <1>1, Stutters DEF Listening, Start, StartFails, Stop, vars
<1>2. ASSUME NEW i \in Instances, NEW c \in Conns, Accept(i, c)
      PROVE  Contract!Next
  BY <1>2, OpenMaps DEF Contract!Next
<1>3. ASSUME NEW c \in Conns, NEW r \in Requests, Send(c, r)
      PROVE  Contract!Next
  BY <1>3, OfferMaps DEF Contract!Next
<1>4. ASSUME NEW c \in Conns, SendGarbage(c) \/ Fin(c) \/ Reset(c)
      PROVE  UNCHANGED Contract!cvars
  <2>1. UNCHANGED <<ctx, handled, answered>>
    BY <1>4 DEF SendGarbage, Fin, Reset
  <2>2. \A e \in Conns : client'[e].sent = client[e].sent
    <3>1. CASE SendGarbage(c)
      BY <3>1 DEF SendGarbage, TypeOK, Client
    <3>2. CASE Fin(c)
      BY <3>2 DEF Fin, TypeOK, Client
    <3>3. CASE Reset(c)
      BY <3>3 DEF Reset, TypeOK, Client
    <3> QED
      BY <1>4, <3>1, <3>2, <3>3
  <2> QED
    BY <2>1, <2>2, Stutters
<1>5. ASSUME NEW b \in Bases, StartRead(b)
      PROVE  UNCHANGED Contract!cvars
  <2>1. PICK c \in Conns : c = Head(tasks[b])
    BY <1>5 DEF StartRead, TypeOK
  <2>2. PICK x : x = [ctx[c] EXCEPT !.reading = TRUE]
    OBVIOUS
  <2>3. ctx' = [ctx EXCEPT ![c] = x] /\ UNCHANGED <<client, handled, answered>>
    BY <1>5, <2>1, <2>2 DEF StartRead
  <2>4. x.state = ctx[c].state /\ x.server = ctx[c].server
    BY <2>2 DEF TypeOK, Context
  <2> QED
    BY <2>3, <2>4, ContextStutters
<1>6. ASSUME NEW c \in Conns, Parsed(c)
      PROVE  \A e \in Conns : client'[e].sent = client[e].sent
  BY <1>6 DEF Parsed, TypeOK, Client
<1>7. ASSUME NEW c \in Conns, AvailableBegin(c)
      PROVE  UNCHANGED Contract!cvars
  <2>1. PICK x : x = [ctx[c] EXCEPT !.parser = "mid"]
    OBVIOUS
  <2>2. ctx' = [ctx EXCEPT ![c] = x] /\ UNCHANGED <<handled, answered>> /\ Parsed(c)
    BY <1>7, <2>1 DEF AvailableBegin
  <2>3. x.state = ctx[c].state /\ x.server = ctx[c].server
    BY <2>1 DEF TypeOK, Context
  <2> QED
    BY <1>6, <2>2, <2>3, ContextStutters
<1>8. ASSUME NEW c \in Conns, AvailableText(c)
      PROVE  UNCHANGED Contract!cvars
  <2>1. PICK k \in Callbacks(Unread(c)) :
          /\ client' = [client EXCEPT ![c].unread = AfterCallback(@, k)]
          /\ ctx' = [ctx EXCEPT ![c].parser = "mid",
                       ![c].builder = OnText(@, Unread(c).kind, Reported(Unread(c), k))]
    BY <1>8 DEF AvailableText
  <2>2. PICK x : x = [ctx[c] EXCEPT !.parser = "mid",
                        !.builder = OnText(@, Unread(c).kind, Reported(Unread(c), k))]
    OBVIOUS
  <2>3. ctx' = [ctx EXCEPT ![c] = x] /\ x.state = ctx[c].state /\ x.server = ctx[c].server
    BY <2>1, <2>2 DEF TypeOK, Context
  <2>4. \A e \in Conns : client'[e].sent = client[e].sent
    BY <2>1 DEF TypeOK, Client
  <2> QED
    BY <1>8, <2>3, <2>4, ContextStutters DEF AvailableText
<1>9. ASSUME NEW c \in Conns, MessageComplete(c)
      PROVE  Contract!Next
  BY <1>9, <1>0, DispatchMaps DEF Contract!Next
<1>10. ASSUME NEW c \in Conns, AvailableError(c)
       PROVE  Contract!Next
  <2>1. \A e \in Conns : client'[e].sent = client[e].sent
    BY <1>6, <1>10 DEF AvailableError
  <2>2. Contract!Abandon(c)
    BY <1>10, <2>1, <1>0, AbandonMaps DEF AvailableError, Readable
  <2> QED
    BY <2>2 DEF Contract!Next
<1>11. ASSUME NEW c \in Conns, Eof(c)
       PROVE  Contract!Next \/ UNCHANGED Contract!cvars
  <2>1. CASE Release(c)
    <3>1. Contract!Abandon(c)
      BY <1>11, <2>1, <1>0, AbandonMaps DEF Eof
    <3> QED
      BY <3>1 DEF Contract!Next
  <2>2. CASE ctx' = [ctx EXCEPT ![c].reading = FALSE]
    <3>1. PICK x : x = [ctx[c] EXCEPT !.reading = FALSE]
      OBVIOUS
    <3>2. ctx' = [ctx EXCEPT ![c] = x] /\ x.state = ctx[c].state /\ x.server = ctx[c].server
      BY <2>2, <3>1 DEF TypeOK, Context
    <3> QED
      BY <1>11, <3>2, ContextStutters DEF Eof
  <2> QED
    BY <1>11, <2>1, <2>2 DEF Eof
<1>12. ASSUME NEW c \in Conns, ReadError(c) \/ WriteError(c)
       PROVE  Contract!Next
  <2>1. Contract!Abandon(c)
    BY <1>12, <1>0, AbandonMaps DEF ReadError, WriteError
  <2> QED
    BY <2>1 DEF Contract!Next
<1>13. ASSUME NEW c \in Conns, WriteComplete(c)
       PROVE  Contract!Next
  BY <1>13, <1>0, DeliverMaps DEF Contract!Next
<1> QED
  BY <1>1, <1>2, <1>3, <1>4, <1>5, <1>7, <1>8, <1>9, <1>10, <1>11, <1>12, <1>13
     DEF Next, Accepting, Clients, Worker, Available

\* No more requests are dispatched than were sent, and nothing is answered on a
\* context that is still there.
THEOREM CountInvariant == Spec => []CountInv
<1>1. Init => CountInv
  <2> SUFFICES ASSUME Init, NEW c \in Conns
               PROVE  Counted(ctx[c], client[c], handled[c], answered[c])
    BY DEF CountInv
  <2>1. /\ handled[c] = <<>> /\ answered[c] = <<>>
        /\ client[c].sent = <<>> /\ client[c].unread = <<>>
    BY DEF Init
  <2>2. Completions(<<>>) = {}
    BY DEF Completions
  <2>3. PICK f : f = [k \in Completions(<<>>) |-> 0]
    OBVIOUS
  <2>4. f \in [Completions(<<>>) -> 1..0]
    BY <2>2, <2>3
  <2>5. AtMost(<<>>, 0)
    BY <2>2, <2>4 DEF AtMost
  <2> QED
    BY <2>1, <2>5 DEF Counted
<1>2. TypeOK /\ TypeOK' /\ CountInv /\ [Next]_vars => CountInv'
  BY StepCountInv
<1> QED
  BY <1>1, <1>2, TypeCorrect, PTL DEF Spec

\* A server instance keeps its contract with every connection: it is accepted
\* once, its first request is dispatched as it is owed, the first response and no
\* other is delivered, and then the connection is closed.
THEOREM ContractKept == Spec => KeepsContract
<1>1. Init => Contract!Init
  BY InitMaps
<1>2. TypeOK /\ TypeOK' /\ NoUseAfterFree /\ OrphanInv /\ CountInv /\ FirstRequestDispatchedAsSent'
        /\ [Next]_vars => [Contract!Next]_(Contract!cvars)
  BY StepMaps
<1> QED
  BY <1>1, <1>2, TypeCorrect, ContextsOutliveTheirUses, OrphanInvariant, CountInvariant,
     FirstAsSent, PTL DEF Spec, KeepsContract, Contract!Spec
=============================================================================

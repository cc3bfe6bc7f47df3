------------------------ MODULE ServerInstanceProofs ------------------------
(***************************************************************************)
(* Theorems about ServerInstance, for every value of its constants.        *)
(***************************************************************************)
EXTENDS ServerInstance, FiniteSetTheorems, TLAPS

-----------------------------------------------------------------------------
(***************************************************************************)
(* The parser's elements.                                                  *)
(***************************************************************************)

\* A text that is not over is reported from the front.
LEMMA ReportedText ==
  ASSUME NEW e \in Element, NEW k \in Callbacks(e)
  PROVE  Reported(e, k) \in Text
BY DEF Element, Callbacks, Reported, Text

\* What is left to be parsed after a callback is elements again.
LEMMA AfterCallbackElements ==
  ASSUME NEW elements \in Seq(Element), elements # <<>>, NEW k \in Callbacks(Head(elements))
  PROVE  AfterCallback(elements, k) \in Seq(Element)
<1>1. CASE k.last
  BY <1>1 DEF AfterCallback
<1>2. CASE ~k.last
  <2> DEFINE rest == SubSeq(elements[1].data, k.size + 1, Len(elements[1].data))
  <2>1. elements[1] \in Element /\ 1 \in 1..Len(elements)
    OBVIOUS
  <2>2. k.size \in Nat
    BY DEF Callbacks
  <2>3. rest \in Text
    BY <2>1, <2>2 DEF Element, Text
  <2>4. [elements[1] EXCEPT !.data = rest] \in Element
    BY <2>1, <2>3 DEF Element
  <2>5. AfterCallback(elements, k) = [elements EXCEPT ![1] = [elements[1] EXCEPT !.data = rest]]
    BY <1>2, <2>1 DEF AfterCallback
  <2> QED
    BY <2>1, <2>4, <2>5
<1> QED
  BY <1>1, <1>2

\* The requests of a conversation are requests.
LEMMA RequestsType == Requests \subseteq WireRequest
BY TrafficAssumption DEF Requests

\* The parts of a request on the wire are sequences of elements.
LEMMA WireParts ==
  ASSUME NEW r \in WireRequest
  PROVE  /\ Target(r) \in Text
         /\ <<Begin, Piece("url", Target(r))>> \in Seq(Element)
         /\ HeaderPieces(r.headers) \in Seq(Element)
         /\ (IF r.body = <<>> THEN <<>> ELSE <<Piece("body", r.body)>>) \in Seq(Element)
         /\ <<Complete(r.method)>> \in Seq(Element)
<1>1. \A kind \in TextKind, text \in Text : Piece(kind, text) \in Element
  BY DEF Piece, Element
<1>2. Target(r) \in Text
  <2>1. <<Authority>> \in Text /\ <<BadAuthority>> \in Text /\ <<QueryMark>> \in Text /\ <<>> \in Text
    BY TokenAssumption DEF Text
  <2>2. r.path \in Text /\ r.query \in Text /\ r.authority \in {"none", "good", "bad"}
    BY DEF WireRequest, PathText
  <2> QED
    BY <2>1, <2>2 DEF Target, Text
<1>3. HeaderPieces(r.headers) \in Seq(Element)
  <2> DEFINE hs == r.headers
             piece(i) == IF i % 2 = 1 THEN Piece("field", hs[(i + 1) \div 2].name)
                                      ELSE Piece("value", hs[i \div 2].value)
  <2>1. hs \in Seq(Header) /\ Len(hs) \in Nat
    BY DEF WireRequest
  <2>. HIDE DEF hs
  <2>2. \A j \in 1..Len(hs) : hs[j] \in Header
    BY <2>1
  <2>3. \A j \in 1..Len(hs) : hs[j].name \in Text /\ hs[j].value \in Text
    BY <2>2 DEF Header
  <2>4. ASSUME NEW i \in 1..(2 * Len(hs)) PROVE piece(i) \in Element
    <3>1. CASE i % 2 = 1
      <4>1. (i + 1) \div 2 \in 1..Len(hs)
        BY <2>1, <3>1
      <4>2. hs[(i + 1) \div 2].name \in Text
        BY <2>3, <4>1
      <4> QED
        BY <1>1, <3>1, <4>2 DEF TextKind
    <3>2. CASE i % 2 # 1
      <4>1. i \div 2 \in 1..Len(hs)
        BY <2>1, <3>2
      <4>2. hs[i \div 2].value \in Text
        BY <2>3, <4>1
      <4> QED
        BY <1>1, <3>2, <4>2 DEF TextKind
    <3> QED
      BY <3>1, <3>2
  <2>5. HeaderPieces(hs) = [i \in 1..(2 * Len(hs)) |-> piece(i)]
    BY DEF HeaderPieces
  <2>6. 2 * Len(hs) \in Nat
    BY <2>1
  <2>7. [i \in 1..(2 * Len(hs)) |-> piece(i)] \in Seq(Element)
    BY <2>4, <2>6
  <2> QED
    BY <2>5, <2>7 DEF hs
<1>4. (IF r.body = <<>> THEN <<>> ELSE <<Piece("body", r.body)>>) \in Seq(Element)
  BY <1>1 DEF WireRequest, TextKind
<1>5. Begin \in Element /\ Complete(r.method) \in Element
  BY DEF Begin, Complete, Piece, Element, Text, WireRequest
<1>6. Piece("url", Target(r)) \in Element
  BY <1>1, <1>2 DEF TextKind
<1>7. <<Begin, Piece("url", Target(r))>> \in Seq(Element) /\ <<Complete(r.method)>> \in Seq(Element)
  BY <1>5, <1>6
<1> QED
  BY <1>2, <1>3, <1>4, <1>7

\* A request on the wire is a sequence of elements.
LEMMA WireElements ==
  ASSUME NEW r \in WireRequest
  PROVE  Wire(r) \in Seq(Element)
BY WireParts DEF Wire

-----------------------------------------------------------------------------
(***************************************************************************)
(* The builder and the request built from it.                              *)
(***************************************************************************)

LEMMA NewBuilderType == NewBuilder \in Builder
BY DEF NewBuilder, Builder, Text

\* Every callback leaves a builder.
LEMMA OnTextType ==
  ASSUME NEW b \in Builder, NEW kind \in TextKind, NEW text \in Text
  PROVE  OnText(b, kind, text) \in Builder
<1>1. b.hname \o text \in Text /\ b.hvalue \o text \in Text
      /\ b.url \o text \in Text /\ b.body \o text \in Text /\ <<>> \in Text
  BY DEF Builder, Text
<1>2. OnUrl(b, text) \in Builder
  BY <1>1 DEF OnUrl, Builder
<1>3. OnHeaderField(b, text) \in Builder
  <2>1. Store(b.headers, b.hname, b.hvalue) \in SUBSET Header
    BY DEF Store, Builder, Header
  <2> QED
    BY <1>1, <2>1 DEF OnHeaderField, Builder
<1>4. OnHeaderValue(b, text) \in Builder
  BY <1>1 DEF OnHeaderValue, Builder
<1>5. OnBody(b, text) \in Builder
  BY <1>1 DEF OnBody, Builder
<1> QED
  BY <1>2, <1>3, <1>4, <1>5 DEF OnText, TextKind

\* The path is a prefix of the URL's text.
LEMMA PathLengthType ==
  ASSUME NEW s \in Text
  PROVE  PathLength(s) \in Nat
<1> DEFINE before == {i \in 1..Len(s) : \A j \in 1..i : s[j] # QueryMark}
<1>1. Len(s) \in Nat
  BY DEF Text
<1>2. IsFiniteSet(1..Len(s))
  BY <1>1, FS_Interval
<1>3. IsFiniteSet(before)
  BY <1>2, FS_Subset
<1> QED
  BY <1>3, FS_CardinalityType DEF PathLength

LEMMA BuildType ==
  ASSUME NEW b \in Builder, NEW method \in SupportedMethod
  PROVE  Build(b, method) \in Request
<1> DEFINE s == AfterAuthority(b.url)
<1>1. s \in Text
  BY DEF AfterAuthority, StartsWith, Builder, Text
<1>2. PathLength(s) \in Nat
  BY <1>1, PathLengthType
<1>3. SubSeq(s, 1, PathLength(s)) \in Text /\ QueryOf(b.url) \in Text
  <2>1. Cardinality({i \in 1..Len(s) : \A j \in 1..i : s[j] # QueryMark}) <= Len(s)
    <3>1. Len(s) \in Nat
      BY <1>1 DEF Text
    <3>2. IsFiniteSet(1..Len(s)) /\ Cardinality(1..Len(s)) = Len(s)
      <4>1. PICK n \in Nat : n = Len(s)
        BY <3>1
      <4>2. IsFiniteSet(1..n) /\ Cardinality(1..n) = IF 1 > n THEN 0 ELSE n - 1 + 1
        BY ONLY n \in Nat, FS_Interval
      <4> QED
        BY <4>1, <4>2
    <3>3. PICK S : S = {i \in 1..Len(s) : \A j \in 1..i : s[j] # QueryMark}
      OBVIOUS
    <3>4. S \in SUBSET (1..Len(s))
      BY <3>3
    <3>5. Cardinality(S) <= Cardinality(1..Len(s))
      BY ONLY <3>2, <3>4, FS_Subset
    <3> QED
      BY <3>2, <3>3, <3>5
  <2>2. PathLength(s) <= Len(s)
    BY <2>1 DEF PathLength
  <2>3. SubSeq(s, 1, PathLength(s)) \in Text
    BY <1>1, <1>2, <2>2 DEF Text
  <2>4. SubSeq(s, PathLength(s) + 2, Len(s)) \in Text
    BY <1>1, <1>2 DEF Text
  <2> QED
    BY <2>3, <2>4 DEF QueryOf
<1>4. PathOf(b.url) \in Text
  BY <1>3, TokenAssumption DEF PathOf, Text
<1>5. b.body \in Text /\ <<>> \in Text /\ b.headers \in SUBSET Header
  BY DEF Builder, Text
<1> QED
  BY <1>3, <1>4, <1>5 DEF Build, Request

\* Whatever was built, get_response returns an outcome.
LEMMA GetResponseType ==
  ASSUME NEW i \in Instances, NEW b \in Builder, NEW method
  PROVE  GetResponse(i, b, method) \in Outcome
<1> DEFINE request == Build(b, method)
           found == Matches(i, request.path)
           handlers == {x.on[method] : x \in found}
<1>1. CASE BuildThrows(b, method)
  BY <1>1 DEF GetResponse, Outcome, HttpCode
<1>2. CASE ~BuildThrows(b, method) /\ found = {}
  BY <1>2 DEF GetResponse, Outcome, HttpCode
<1>3. CASE ~BuildThrows(b, method) /\ found # {}
  <2>1. method \in SupportedMethod
    BY <1>3 DEF BuildThrows
  <2>2. request \in Request
    BY <2>1, BuildType
  <2>3. handlers \subseteq HttpCode \cup {"throws"} /\ handlers # {}
    BY <1>3, <2>1, ResourcesAssumption DEF Matches, Resource
  <2>4. (IF "throws" \in handlers THEN "INTERNAL_ERROR" ELSE CHOOSE code \in handlers : TRUE) \in HttpCode
    BY <2>3 DEF HttpCode
  <2> QED
    BY <1>3, <2>2, <2>4 DEF GetResponse, Outcome
<1> QED
  BY <1>1, <1>2, <1>3

-----------------------------------------------------------------------------
(***************************************************************************)
(* Type correctness.                                                       *)
(***************************************************************************)

LEMMA NextIterType ==
  ASSUME NEW n \in (-IntMax - 1)..IntMax
  PROVE  NextIter(n) \in (-IntMax - 1)..IntMax
BY BasesAssumption DEF NextIter

LEMMA BaseAtType ==
  ASSUME NEW n \in Int
  PROVE  BaseAt(n) \in Bases
<1>1. n % SizeValues \in Int
  BY BasesAssumption
<1> QED
  BY <1>1, BasesAssumption DEF BaseAt, Bases

LEMMA FreshContextType ==
  ASSUME NEW i \in Instances, NEW b \in Bases
  PROVE  FreshContext(i, b) \in Context
BY NewBuilderType DEF FreshContext, Context, ParserState

\* (Stated for any values: the provers do not see the type of a literal in
\* an EXCEPT.)
LEMMA UpdatedType ==
  ASSUME NEW x \in Context, NEW r \in BOOLEAN, NEW w \in Seq(Outcome), NEW b \in Builder
  PROVE  [x EXCEPT !.reading = r, !.state = "freed", !.writes = w,
                   !.parser = "start", !.builder = b] \in Context
BY DEF Context, ParserState

LEMMA ReleasedType ==
  ASSUME NEW x \in Context
  PROVE  Released(x) \in Context
<1>1. <<>> \in Seq(Outcome) /\ FALSE \in BOOLEAN
  OBVIOUS
<1> QED
  BY <1>1, NewBuilderType, UpdatedType DEF Released

LEMMA InitTypeOK == Init => TypeOK
<1> SUFFICES ASSUME Init PROVE TypeOK
  OBVIOUS
<1>1. ctx \in [Conns -> Context]
  <2>1. PICK i \in Instances :
          ctx = [c \in Conns |-> [FreshContext(i, 0) EXCEPT !.state = "none"]]
    BY DEF Init
  <2>2. 0 \in Bases
    BY BasesAssumption DEF Bases
  <2>3. [FreshContext(i, 0) EXCEPT !.state = "none"] \in Context
    BY <2>2, FreshContextType DEF Context
  <2> QED
    BY <2>1, <2>3
<1> QED
  BY <1>1 DEF Init, TypeOK, Client

\* One step per action: what it changes keeps its type.
LEMMA StepTypeOK == TypeOK /\ [Next]_vars => TypeOK'
<1> SUFFICES ASSUME TypeOK, [Next]_vars PROVE TypeOK'
  OBVIOUS
<1> USE DEF TypeOK
<1>1. ASSUME NEW i \in Instances, Start(i) \/ StartFails(i) \/ Stop(i)
      PROVE  TypeOK'
  BY <1>1 DEF Start, StartFails, Stop
<1>2. ASSUME NEW i \in Instances, NEW c \in Conns, Accept(i, c)
      PROVE  TypeOK'
  <2>1. iter' \in (-IntMax - 1)..IntMax
    BY <1>2, NextIterType DEF Accept
  <2>2. BaseAt(iter') \in Bases
    BY <2>1, BaseAtType, BasesAssumption
  <2>3. ctx' \in [Conns -> Context]
    BY <1>2, <2>2, FreshContextType DEF Accept
  <2>4. tasks' \in [Bases -> Seq(Conns)]
    BY <1>2, <2>2 DEF Accept
  <2> QED
    BY <1>2, <2>1, <2>3, <2>4 DEF Accept
<1>3. ASSUME NEW b \in Bases, StartRead(b)
      PROVE  TypeOK'
  <2>1. Head(tasks[b]) \in Conns /\ Tail(tasks[b]) \in Seq(Conns)
    BY <1>3 DEF StartRead
  <2>2. [ctx[Head(tasks[b])] EXCEPT !.reading = TRUE] \in Context
    BY <2>1 DEF Context
  <2> QED
    BY <1>3, <2>1, <2>2 DEF StartRead
<1>4. ASSUME NEW c \in Conns, Release(c),
             UNCHANGED <<listener, iter, tasks, handled>>,
             client' \in [Conns -> Client], answered' \in [Conns -> Seq(Outcome)]
      PROVE  TypeOK'
  <2>1. Released(ctx[c]) \in Context
    BY ReleasedType
  <2> QED
    BY <1>4, <2>1 DEF Release
<1>5. ASSUME NEW c \in Conns, Parsed(c), Readable(c)
      PROVE  client' \in [Conns -> Client]
  <2>1. Tail(client[c].unread) \in Seq(Element)
    BY <1>5 DEF Readable, Client
  <2>2. [client[c] EXCEPT !.unread = Tail(client[c].unread)] \in Client
    BY <2>1 DEF Client
  <2> QED
    BY <1>5, <2>2 DEF Parsed
<1>6. ASSUME NEW c \in Conns, AvailableBegin(c)
      PROVE  TypeOK'
  <2>1. client' \in [Conns -> Client]
    BY <1>5, <1>6 DEF AvailableBegin
  <2>2. [ctx[c] EXCEPT !.parser = "mid"] \in Context
    BY DEF Context, ParserState
  <2> QED
    BY <1>6, <2>1, <2>2 DEF AvailableBegin
<1>7. ASSUME NEW c \in Conns, AvailableText(c)
      PROVE  TypeOK'
  <2> DEFINE e == Head(client[c].unread)
  <2>1. client[c] \in Client /\ client[c].unread \in Seq(Element) /\ client[c].unread # <<>>
    BY <1>7 DEF AvailableText, Readable, Client
  <2>2. e \in Element /\ e.kind \in TextKind
    BY <1>7, <2>1 DEF AvailableText, Unread
  <2>3. PICK k \in Callbacks(e) :
          /\ client' = [client EXCEPT ![c].unread = AfterCallback(@, k)]
          /\ ctx' = [ctx EXCEPT ![c].parser = "mid",
                                 ![c].builder = OnText(@, e.kind, Reported(e, k))]
    BY <1>7 DEF AvailableText, Unread
  <2>4. client' \in [Conns -> Client]
    <3>1. AfterCallback(client[c].unread, k) \in Seq(Element)
      BY <2>1, AfterCallbackElements
    <3>2. [client[c] EXCEPT !.unread = AfterCallback(client[c].unread, k)] \in Client
      BY <2>1, <3>1 DEF Client
    <3> QED
      BY <2>3, <3>2
  <2>5. ctx' \in [Conns -> Context]
    <3>1. ctx[c] \in Context /\ ctx[c].builder \in Builder
      BY DEF Context
    <3>2. OnText(ctx[c].builder, e.kind, Reported(e, k)) \in Builder
      BY <2>2, <3>1, ReportedText, OnTextType
    <3>3. [ctx[c] EXCEPT !.parser = "mid",
                         !.builder = OnText(ctx[c].builder, e.kind, Reported(e, k))] \in Context
      BY <3>1, <3>2 DEF Context, ParserState
    <3> QED
      BY <2>3, <3>3
  <2> QED
    BY <1>7, <2>4, <2>5 DEF AvailableText
<1>8. ASSUME NEW c \in Conns, MessageComplete(c)
      PROVE  TypeOK'
  <2> DEFINE outcome == GetResponse(ctx[c].server, ctx[c].builder, Unread(c).method)
  <2>1. ctx[c] \in Context /\ ctx[c].builder \in Builder /\ ctx[c].server \in Instances
        /\ ctx[c].writes \in Seq(Outcome) /\ handled[c] \in Seq(Outcome)
    BY DEF Context
  <2>2. outcome \in Outcome
    BY <2>1, GetResponseType
  <2>3. client' \in [Conns -> Client]
    BY <1>5, <1>8 DEF MessageComplete
  <2>4. /\ handled' = [handled EXCEPT ![c] = Append(@, outcome)]
        /\ ctx' = [ctx EXCEPT ![c].parser = "start", ![c].writes = Append(@, outcome)]
    BY <1>8 DEF MessageComplete
  <2> HIDE DEF outcome
  <2>5. Append(handled[c], outcome) \in Seq(Outcome) /\ Append(ctx[c].writes, outcome) \in Seq(Outcome)
    BY <2>1, <2>2
  <2>6. [ctx[c] EXCEPT !.parser = "start", !.writes = Append(ctx[c].writes, outcome)] \in Context
    BY <2>1, <2>5 DEF Context, ParserState
  <2>7. ctx' \in [Conns -> Context]
    BY <2>4, <2>6
  <2>8. handled' \in [Conns -> Seq(Outcome)]
    BY <2>4, <2>5
  <2> QED
    BY <1>8, <2>3, <2>7, <2>8 DEF MessageComplete
<1>9. ASSUME NEW c \in Conns, AvailableError(c)
      PROVE  TypeOK'
  BY <1>4, <1>5, <1>9 DEF AvailableError
<1>10. ASSUME NEW c \in Conns, Eof(c)
       PROVE  TypeOK'
  <2>1. CASE Release(c)
    BY <1>4, <1>10, <2>1 DEF Eof
  <2>2. CASE ctx' = [ctx EXCEPT ![c].reading = FALSE]
    <3>1. [ctx[c] EXCEPT !.reading = FALSE] \in Context
      BY DEF Context
    <3> QED
      BY <1>10, <2>2, <3>1 DEF Eof
  <2> QED
    BY <1>10, <2>1, <2>2 DEF Eof
<1>11. ASSUME NEW c \in Conns, ReadError(c) \/ WriteError(c)
       PROVE  TypeOK'
  BY <1>4, <1>11 DEF ReadError, WriteError
<1>12. ASSUME NEW c \in Conns, WriteComplete(c)
       PROVE  TypeOK'
  <2>1. ctx[c].writes \in Seq(Outcome) /\ ctx[c].writes # <<>>
    BY <1>12 DEF WriteComplete, Context
  <2>2. answered' \in [Conns -> Seq(Outcome)]
    BY <1>12, <2>1 DEF WriteComplete
  <2> QED
    BY <1>4, <1>12, <2>2 DEF WriteComplete
<1>13. ASSUME NEW c \in Conns, NEW r \in Requests, Send(c, r)
       PROVE  TypeOK'
  <2>1. client[c].unread \o Wire(r) \in Seq(Element)
    <3>1. Wire(r) \in Seq(Element)
      BY WireElements, RequestsType
    <3> QED
      BY <3>1 DEF Client
  <2>2. Append(client[c].sent, r) \in Seq(Requests)
    BY DEF Client
  <2>3. [client[c] EXCEPT !.unread = client[c].unread \o Wire(r),
                          !.sent = Append(client[c].sent, r)] \in Client
    BY <2>1, <2>2 DEF Client
  <2> QED
    BY <1>13, <2>3 DEF Send
<1>14. ASSUME NEW c \in Conns, NEW n \in 0..Len(client[c].unread)
       PROVE  SubSeq(client[c].unread, 1, n) \in Seq(Element)
  BY DEF Client
<1>15. ASSUME NEW c \in Conns, SendGarbage(c)
       PROVE  TypeOK'
  <2>1. PICK n \in 0..Len(client[c].unread) :
          client' = [client EXCEPT ![c].unread = Append(SubSeq(@, 1, n), Bad)]
    BY <1>15 DEF SendGarbage
  <2>2. Bad \in Element
    BY DEF Bad, Piece, Element, Text
  <2>3. Append(SubSeq(client[c].unread, 1, n), Bad) \in Seq(Element)
    BY <1>14, <2>2
  <2>4. [client[c] EXCEPT !.unread = Append(SubSeq(client[c].unread, 1, n), Bad)] \in Client
    BY <2>3 DEF Client
  <2> QED
    BY <1>15, <2>1, <2>4 DEF SendGarbage
<1>16. ASSUME NEW c \in Conns, Fin(c)
       PROVE  TypeOK'
  <2>1. PICK n \in 0..Len(client[c].unread) :
          client' = [client EXCEPT ![c].unread = SubSeq(@, 1, n), ![c].peer = "fin"]
    BY <1>16 DEF Fin
  <2>2. [client[c] EXCEPT !.unread = SubSeq(client[c].unread, 1, n), !.peer = "fin"] \in Client
    BY <1>14 DEF Client
  <2> QED
    BY <1>16, <2>1, <2>2 DEF Fin
<1>17. ASSUME NEW c \in Conns, Reset(c)
       PROVE  TypeOK'
  <2>1. [client[c] EXCEPT !.peer = "reset"] \in Client
    BY DEF Client
  <2> QED
    BY <1>17, <2>1 DEF Reset
<1>18. CASE UNCHANGED vars
  BY <1>18 DEF vars
<1> QED
  BY <1>1, <1>2, <1>3, <1>6, <1>7, <1>8, <1>9, <1>10, <1>11, <1>12, <1>13, <1>15, <1>16, <1>17, <1>18
  DEF Next, Listening, Accepting, Clients, Worker, Available

\* Every variable keeps its type: the counter stays an int, contexts are
\* queued on existing workers, and what is dispatched is a request.
THEOREM TypeCorrect == Spec => []TypeOK
<1>1. Init => TypeOK
  BY InitTypeOK
<1>2. TypeOK /\ [Next]_vars => TypeOK'
  BY StepTypeOK
<1> QED
  BY <1>1, <1>2, PTL DEF Spec

-----------------------------------------------------------------------------
(***************************************************************************)
(* No use of a released context.  The invariant is inductive given the     *)
(* types: a context that reads or writes is on no queue, so releasing it   *)
(* leaves no task behind, and one that is accepted was not live before.    *)
(***************************************************************************)

\* What reads or writes has left its worker's queue.
LEMMA ActiveNotQueued ==
  ASSUME TasksValid, NEW c \in Conns, ctx[c].reading \/ ctx[c].writes # <<>>
  PROVE  \A b \in Bases : \A k \in DOMAIN tasks[b] : tasks[b][k] # c
BY DEF TasksValid

\* Changing a context that reads or writes disturbs no task.
LEMMA ActiveChange ==
  ASSUME TypeOK, NoUseAfterFree, NEW c \in Conns, ctx[c].reading \/ ctx[c].writes # <<>>,
         NEW x, ctx' = [ctx EXCEPT ![c] = x], UNCHANGED tasks,
         x.reading \/ x.writes # <<>> => x.state = "live"
  PROVE  NoUseAfterFree'
<1>1. \A b \in Bases : \A k \in DOMAIN tasks[b] : tasks[b][k] # c
  BY ActiveNotQueued DEF NoUseAfterFree
<1>2. \A b \in Bases : \A k \in DOMAIN tasks[b] : ctx'[tasks[b][k]] = ctx[tasks[b][k]]
  BY <1>1 DEF TypeOK
<1>3. TasksValid'
  BY <1>2 DEF NoUseAfterFree, TasksValid
<1>4. TasksDistinct'
  BY DEF NoUseAfterFree, TasksDistinct
<1>5. CallbacksValid'
  BY DEF NoUseAfterFree, CallbacksValid, TypeOK
<1> QED
  BY <1>3, <1>4, <1>5 DEF NoUseAfterFree

LEMMA StepNoUseAfterFree == TypeOK /\ NoUseAfterFree /\ [Next]_vars => NoUseAfterFree'
<1> SUFFICES ASSUME TypeOK, NoUseAfterFree, [Next]_vars PROVE NoUseAfterFree'
  OBVIOUS
<1>1. ASSUME UNCHANGED <<tasks, ctx>>
      PROVE  NoUseAfterFree'
  BY <1>1 DEF NoUseAfterFree, TasksValid, TasksDistinct, CallbacksValid
<1>2. ASSUME NEW i \in Instances, NEW c \in Conns, Accept(i, c)
      PROVE  NoUseAfterFree'
  <2> DEFINE a == BaseAt(iter')
             x == FreshContext(i, a)
  <2>1. a \in Bases
    BY <1>2, NextIterType, BaseAtType, BasesAssumption DEF Accept, TypeOK
  <2>2. x.state = "live" /\ x.base = a /\ ~x.reading /\ x.writes = <<>>
    BY DEF FreshContext
  <2>3. ctx' = [ctx EXCEPT ![c] = x] /\ tasks' = [tasks EXCEPT ![a] = Append(@, c)]
    BY <1>2 DEF Accept
  <2> HIDE DEF a, x
  <2>4. \A b \in Bases : \A k \in DOMAIN tasks[b] : tasks[b][k] \in Conns /\ tasks[b][k] # c
    BY <1>2 DEF Accept, NoUseAfterFree, TasksValid, TypeOK
  <2>5. ASSUME NEW b \in Bases, NEW k \in DOMAIN tasks'[b]
        PROVE  \/ k \in DOMAIN tasks[b] /\ tasks'[b][k] = tasks[b][k]
               \/ b = a /\ k = Len(tasks[b]) + 1 /\ tasks'[b][k] = c
    <3>1. tasks[b] \in Seq(Conns)
      BY DEF TypeOK
    <3>2. CASE b = a
      <4>1. tasks'[b] = Append(tasks[b], c)
        BY <2>1, <2>3, <3>2 DEF TypeOK
      <4> QED
        BY <3>1, <3>2, <4>1
    <3>3. CASE b # a
      <4>1. tasks'[b] = tasks[b]
        BY <2>3, <3>3 DEF TypeOK
      <4> QED
        BY <4>1
    <3> QED
      BY <3>2, <3>3
  <2>6. TasksValid'
    BY <2>2, <2>3, <2>4, <2>5 DEF NoUseAfterFree, TasksValid, TypeOK
  <2>7. TasksDistinct'
    BY <2>4, <2>5 DEF NoUseAfterFree, TasksDistinct
  <2>8. CallbacksValid'
    BY <2>2, <2>3 DEF NoUseAfterFree, CallbacksValid, TypeOK
  <2> QED
    BY <2>6, <2>7, <2>8 DEF NoUseAfterFree
<1>3. ASSUME NEW b \in Bases, StartRead(b)
      PROVE  NoUseAfterFree'
  <2> DEFINE c == tasks[b][1]
  <2>1. tasks[b] \in Seq(Conns) /\ tasks[b] # <<>> /\ Head(tasks[b]) = c /\ c \in Conns
        /\ 1 \in DOMAIN tasks[b]
    BY <1>3 DEF StartRead, TypeOK
  <2>2. ctx[c].state = "live" /\ ctx[c].base = b
    BY <2>1 DEF NoUseAfterFree, TasksValid
  <2>3. ctx' = [ctx EXCEPT ![c].reading = TRUE] /\ tasks' = [tasks EXCEPT ![b] = Tail(@)]
    BY <1>3, <2>1 DEF StartRead
  <2>4. ASSUME NEW d \in Bases, NEW k \in DOMAIN tasks'[d]
        PROVE  \/ d = b /\ k + 1 \in DOMAIN tasks[d] /\ k + 1 # 1 /\ tasks'[d][k] = tasks[d][k + 1]
               \/ d # b /\ k \in DOMAIN tasks[d] /\ tasks'[d][k] = tasks[d][k]
    BY <2>1, <2>3 DEF TypeOK
  <2> HIDE DEF c
  <2>5. ASSUME NEW d \in Bases, NEW k \in DOMAIN tasks'[d]
        PROVE  tasks'[d][k] # c
    <3>1. CASE d = b
      BY <2>1, <2>4, <3>1 DEF c, NoUseAfterFree, TasksDistinct
    <3>2. CASE d # b
      BY <2>2, <2>4, <3>2 DEF NoUseAfterFree, TasksValid
    <3> QED
      BY <3>1, <3>2
  <2>6. \A e \in Conns : e # c => ctx'[e] = ctx[e]
    BY <2>3 DEF TypeOK
  <2>7. TasksValid'
    <3> SUFFICES ASSUME NEW d \in Bases, NEW k \in DOMAIN tasks'[d]
                 PROVE  LET x == ctx'[tasks'[d][k]]
                        IN  x.state = "live" /\ x.base = d /\ ~x.reading /\ x.writes = <<>>
      BY DEF TasksValid
    <3>1. PICK j \in DOMAIN tasks[d] : tasks'[d][k] = tasks[d][j]
      BY <2>4
    <3>2. tasks[d][j] \in Conns
      BY <3>1 DEF TypeOK
    <3>3. ctx'[tasks'[d][k]] = ctx[tasks[d][j]]
      BY <2>5, <2>6, <3>1, <3>2
    <3> QED
      BY <3>3 DEF NoUseAfterFree, TasksValid
  <2>8. TasksDistinct'
    <3> SUFFICES ASSUME NEW d \in Bases, NEW j \in DOMAIN tasks'[d], NEW k \in DOMAIN tasks'[d],
                        tasks'[d][j] = tasks'[d][k]
                 PROVE  j = k
      BY DEF TasksDistinct
    <3>1. j \in Int /\ k \in Int
      BY <2>1, <2>3 DEF TypeOK
    <3> QED
      BY <2>4, <3>1 DEF NoUseAfterFree, TasksDistinct
  <2>9. CallbacksValid'
    BY <2>1, <2>2, <2>3 DEF NoUseAfterFree, CallbacksValid, TypeOK, Context
  <2> QED
    BY <2>7, <2>8, <2>9 DEF NoUseAfterFree
<1>4. ASSUME NEW c \in Conns, AvailableBegin(c) \/ AvailableText(c) \/ MessageComplete(c)
      PROVE  NoUseAfterFree'
  <2>1. ctx[c].reading /\ ctx[c] \in Context /\ ctx[c].state = "live"
    BY <1>4 DEF AvailableBegin, AvailableText, MessageComplete, Readable, NoUseAfterFree,
                CallbacksValid, TypeOK
  <2>2. PICK x : ctx' = [ctx EXCEPT ![c] = x] /\ x.state = "live" /\ UNCHANGED tasks
    BY <1>4, <2>1 DEF AvailableBegin, AvailableText, MessageComplete, Context
  <2> QED
    BY <2>1, <2>2, ActiveChange
<1>5. ASSUME NEW c \in Conns, Release(c), UNCHANGED tasks, ctx[c].reading \/ ctx[c].writes # <<>>
      PROVE  NoUseAfterFree'
  <2>1. Released(ctx[c]).reading = FALSE /\ Released(ctx[c]).writes = <<>>
    BY DEF Released, TypeOK, Context
  <2> QED
    BY <1>5, <2>1, ActiveChange DEF Release
<1>6. ASSUME NEW c \in Conns, Eof(c)
      PROVE  NoUseAfterFree'
  <2>1. CASE Release(c)
    BY <1>5, <1>6, <2>1 DEF Eof
  <2>2. CASE ctx' = [ctx EXCEPT ![c].reading = FALSE]
    <3> DEFINE x == [ctx[c] EXCEPT !.reading = FALSE]
    <3>1. x.state = "live"
      BY <1>6 DEF Eof, NoUseAfterFree, CallbacksValid, TypeOK, Context
    <3> QED
      BY <1>6, <2>2, <3>1, ActiveChange DEF Eof
  <2> QED
    BY <1>6, <2>1, <2>2 DEF Eof
<1>7. ASSUME NEW c \in Conns,
             AvailableError(c) \/ ReadError(c) \/ WriteComplete(c) \/ WriteError(c)
      PROVE  NoUseAfterFree'
  BY <1>5, <1>7 DEF AvailableError, Readable, ReadError, WriteComplete, WriteError
<1>8. ASSUME Listening \/ Clients \/ UNCHANGED vars
      PROVE  UNCHANGED <<tasks, ctx>>
  BY <1>8 DEF Listening, Start, StartFails, Stop, Clients, Send, SendGarbage, Fin, Reset, vars
<1> QED
  BY <1>1, <1>2, <1>3, <1>4, <1>6, <1>7, <1>8 DEF Next, Accepting, Worker, Available

\* Neither a queued task nor a stream's callback ever finds its context gone.
THEOREM ContextsOutliveTheirUses == Spec => []NoUseAfterFree
<1>1. Init => NoUseAfterFree
  BY DEF Init, NoUseAfterFree, TasksValid, TasksDistinct, CallbacksValid, FreshContext
<1>2. TypeOK /\ NoUseAfterFree /\ [Next]_vars => NoUseAfterFree'
  BY StepNoUseAfterFree
<1> QED
  BY <1>1, <1>2, TypeCorrect, PTL DEF Spec

-----------------------------------------------------------------------------
(***************************************************************************)
(* Orphans.  What makes the property inductive is that the responses of a  *)
(* live context are all still being written (the first to complete         *)
(* releases the context), so a context without writes has dispatched       *)
(* nothing, and that between two requests the parser is at the start.      *)
(***************************************************************************)
ResponsesInFlight(c) ==
  /\ ctx[c].state = "none" => handled[c] = <<>>
  /\ ctx[c].state = "live" => ctx[c].writes = handled[c]

BuilderUntouched(c) ==
  ctx[c].state = "live" /\ ctx[c].parser = "start" /\ handled[c] = <<>> =>
    ctx[c].builder = NewBuilder

NeverBegan(c) ==
  client[c].peer # "open" /\ handled[c] = <<>> /\ ctx[c].builder = NewBuilder

ConnInv(c) ==
  ResponsesInFlight(c) /\ BuilderUntouched(c) /\ (Orphan(c) => NeverBegan(c))

OrphanInv == \A c \in Conns : ConnInv(c)

USE DEF ResponsesInFlight, BuilderUntouched, NeverBegan

\* A worker's callback changes one context; it is enough to look at that one.
LEMMA LocalChange ==
  ASSUME TypeOK, OrphanInv, NEW c \in Conns, NEW x, NEW h,
         ctx' = [ctx EXCEPT ![c] = x], handled' = [handled EXCEPT ![c] = h],
         UNCHANGED tasks, \A e \in Conns : client'[e].peer = client[e].peer,
         ConnInv(c)'
  PROVE  OrphanInv'
<1>1. ASSUME NEW e \in Conns, e # c
      PROVE  ConnInv(e)'
  <2>1. ctx'[e] = ctx[e] /\ handled'[e] = handled[e] /\ client'[e].peer = client[e].peer
    BY <1>1 DEF TypeOK
  <2>2. Queued(e)' <=> Queued(e)
    BY DEF Queued
  <2> QED
    BY <2>1, <2>2 DEF OrphanInv, ConnInv, Orphan
<1> QED
  BY <1>1 DEF OrphanInv

LEMMA StepOrphanInv == TypeOK /\ NoUseAfterFree /\ OrphanInv /\ [Next]_vars => OrphanInv'
<1> SUFFICES ASSUME TypeOK, NoUseAfterFree, OrphanInv, [Next]_vars PROVE OrphanInv'
  OBVIOUS
<1>1. ASSUME UNCHANGED <<tasks, ctx, handled>>,
             \A c \in Conns : client[c].peer # "open" => client'[c].peer # "open"
      PROVE  OrphanInv'
  BY <1>1 DEF OrphanInv, ConnInv, Orphan, Queued
<1>2. ASSUME Listening \/ UNCHANGED vars
      PROVE  OrphanInv'
  BY <1>1, <1>2 DEF Listening, Start, StartFails, Stop, vars
<1>3. ASSUME Clients
      PROVE  OrphanInv'
  <2>1. UNCHANGED <<tasks, ctx, handled>>
    BY <1>3 DEF Clients, Send, SendGarbage, Fin, Reset
  <2>2. PICK c \in Conns : (\E r \in Requests : Send(c, r)) \/ SendGarbage(c) \/ Fin(c) \/ Reset(c)
    BY <1>3 DEF Clients
  <2>3. \A e \in Conns : e # c => client'[e] = client[e]
    BY <2>2 DEF Send, SendGarbage, Fin, Reset, TypeOK
  <2>4. client[c].peer # "open" => client'[c].peer # "open"
    <3>1. client[c] \in Client
      BY DEF TypeOK
    <3>2. CASE (\E r \in Requests : Send(c, r)) \/ SendGarbage(c) \/ Fin(c)
      BY <3>2 DEF Send, SendGarbage, Fin, Talking
    <3>3. CASE Reset(c)
      <4>1. client'[c] = [client[c] EXCEPT !.peer = "reset"]
        BY <3>3 DEF Reset, TypeOK
      <4> QED
        BY <3>1, <4>1 DEF Client
    <3> QED
      BY <2>2, <3>2, <3>3
  <2> QED
    BY <1>1, <2>1, <2>3, <2>4
<1>4. ASSUME NEW i \in Instances, NEW c \in Conns, Accept(i, c)
      PROVE  OrphanInv'
  <2> DEFINE a == BaseAt(iter')
  <2>1. a \in Bases
    BY <1>4, NextIterType, BaseAtType, BasesAssumption DEF Accept, TypeOK
  <2>2. ctx' = [ctx EXCEPT ![c] = FreshContext(i, a)] /\ tasks' = [tasks EXCEPT ![a] = Append(@, c)]
        /\ UNCHANGED <<handled, client>> /\ ctx[c].state = "none"
    BY <1>4 DEF Accept
  <2> HIDE DEF a
  <2>3. \A b \in Bases : \A k \in DOMAIN tasks[b] :
          k \in DOMAIN tasks'[b] /\ tasks'[b][k] = tasks[b][k]
    <3> SUFFICES ASSUME NEW b \in Bases, NEW k \in DOMAIN tasks[b]
                 PROVE  k \in DOMAIN tasks'[b] /\ tasks'[b][k] = tasks[b][k]
      OBVIOUS
    <3>1. tasks[b] \in Seq(Conns)
      BY DEF TypeOK
    <3>2. tasks'[b] = Append(tasks[b], c) \/ tasks'[b] = tasks[b]
      BY <2>1, <2>2 DEF TypeOK
    <3> QED
      BY <3>1, <3>2
  <2>4. \A e \in Conns : Queued(e) => Queued(e)'
    BY <2>3 DEF Queued
  <2>5. Queued(c)'
    <3>1. tasks'[a] = Append(tasks[a], c) /\ tasks[a] \in Seq(Conns)
      BY <2>1, <2>2 DEF TypeOK
    <3>2. Len(tasks[a]) + 1 \in DOMAIN tasks'[a] /\ tasks'[a][Len(tasks[a]) + 1] = c
      BY <3>1
    <3> QED
      BY <2>1, <3>2 DEF Queued
  <2>6. ConnInv(c)'
    <3>1. ctx'[c] = FreshContext(i, a) /\ handled'[c] = <<>>
      BY <2>2 DEF TypeOK, OrphanInv, ConnInv
    <3> QED
      BY <2>5, <3>1 DEF ConnInv, Orphan, FreshContext
  <2>7. ASSUME NEW e \in Conns, e # c
        PROVE  ConnInv(e)'
    <3>1. ctx'[e] = ctx[e]
      BY <2>2, <2>7 DEF TypeOK
    <3> QED
      BY <2>2, <2>4, <3>1 DEF OrphanInv, ConnInv, Orphan
  <2> QED
    BY <2>6, <2>7 DEF OrphanInv
<1>5. ASSUME NEW b \in Bases, StartRead(b)
      PROVE  OrphanInv'
  <2>1. PICK c \in Conns : c = Head(tasks[b]) /\ tasks[b] \in Seq(Conns) /\ tasks[b] # <<>>
    BY <1>5 DEF StartRead, TypeOK
  <2>2. ctx' = [ctx EXCEPT ![c] = [ctx[c] EXCEPT !.reading = TRUE]]
        /\ tasks' = [tasks EXCEPT ![b] = Tail(@)] /\ UNCHANGED <<handled, client>>
    BY <1>5, <2>1 DEF StartRead
  <2>3. ctx'[c] = [ctx[c] EXCEPT !.reading = TRUE] /\ ctx[c] \in Context
    BY <2>1, <2>2 DEF TypeOK
  <2>4. ConnInv(c)'
    <3>1. /\ ctx'[c].reading /\ ctx'[c].state = ctx[c].state /\ ctx'[c].parser = ctx[c].parser
          /\ ctx'[c].writes = ctx[c].writes /\ ctx'[c].builder = ctx[c].builder
      BY <2>3 DEF Context
    <3> QED
      BY <2>2, <3>1 DEF OrphanInv, ConnInv, Orphan
  <2>5. ASSUME NEW e \in Conns, e # c
        PROVE  ConnInv(e)'
    <3>1. ctx'[e] = ctx[e]
      BY <2>2, <2>5 DEF TypeOK
    <3>2. Queued(e) => Queued(e)'
      <4> SUFFICES ASSUME NEW d \in Bases, NEW k \in DOMAIN tasks[d], tasks[d][k] = e
                   PROVE  Queued(e)'
        BY DEF Queued
      <4>1. CASE d = b
        <5>1. k \in Nat /\ k # 1 /\ k \in 1..Len(tasks[b]) /\ tasks'[b] = Tail(tasks[b])
          BY <2>1, <2>2, <2>5, <4>1 DEF TypeOK
        <5>2. k - 1 \in DOMAIN tasks'[b] /\ tasks'[b][k - 1] = e
          BY <2>1, <4>1, <5>1
        <5> QED
          BY <5>2 DEF Queued
      <4>2. CASE d # b
        BY <2>2, <4>2 DEF Queued, TypeOK
      <4> QED
        BY <4>1, <4>2
    <3> QED
      BY <2>2, <3>1, <3>2 DEF OrphanInv, ConnInv, Orphan
  <2> QED
    BY <2>4, <2>5 DEF OrphanInv
<1>6. ASSUME NEW c \in Conns, Release(c), UNCHANGED <<tasks, handled>>,
             \A e \in Conns : client'[e].peer = client[e].peer
      PROVE  OrphanInv'
  <2>1. Released(ctx[c]).state = "freed"
    BY DEF Released, TypeOK, Context
  <2>2. ctx' = [ctx EXCEPT ![c] = Released(ctx[c])] /\ handled' = [handled EXCEPT ![c] = handled[c]]
    BY <1>6 DEF Release, TypeOK
  <2>3. ConnInv(c)'
    BY <2>1, <2>2 DEF ConnInv, Orphan, TypeOK
  <2> QED
    BY <1>6, <2>2, <2>3, LocalChange
<1>7. ASSUME NEW c \in Conns, Parsed(c)
      PROVE  \A e \in Conns : client'[e].peer = client[e].peer
  BY <1>7 DEF Parsed, TypeOK, Client
<1>8. ASSUME NEW c \in Conns, AvailableBegin(c) \/ AvailableText(c)
      PROVE  OrphanInv'
  <2>1. UNCHANGED <<tasks, handled>> /\ ctx[c].reading /\ ctx[c] \in Context
    BY <1>8 DEF AvailableBegin, AvailableText, Readable, TypeOK
  <2>2. \A e \in Conns : client'[e].peer = client[e].peer
    <3>1. CASE AvailableBegin(c)
      BY <1>7, <3>1 DEF AvailableBegin
    <3>2. CASE AvailableText(c)
      <4>1. PICK u : client' = [client EXCEPT ![c] = [client[c] EXCEPT !.unread = u]]
        BY <3>2 DEF AvailableText
      <4> QED
        BY <4>1 DEF TypeOK, Client
    <3> QED
      BY <1>8, <3>1, <3>2
  <2>3. PICK b : ctx' = [ctx EXCEPT ![c] = [ctx[c] EXCEPT !.parser = "mid", !.builder = b]]
    <3>1. CASE AvailableBegin(c)
      <4>1. [ctx[c] EXCEPT !.parser = "mid"]
              = [ctx[c] EXCEPT !.parser = "mid", !.builder = ctx[c].builder]
        BY <2>1 DEF Context
      <4> QED
        BY <3>1, <4>1 DEF AvailableBegin
    <3>2. CASE AvailableText(c)
      BY <3>2 DEF AvailableText
    <3> QED
      BY <1>8, <3>1, <3>2
  <2>4. ctx'[c] = [ctx[c] EXCEPT !.parser = "mid", !.builder = b]
    BY <2>3 DEF TypeOK
  <2>5. ctx'[c].state = ctx[c].state /\ ctx'[c].parser = "mid" /\ ctx'[c].reading
        /\ ctx'[c].writes = ctx[c].writes
    BY <2>1, <2>4 DEF Context
  <2>6. ConnInv(c)'
    BY <2>1, <2>5 DEF OrphanInv, ConnInv, Orphan
  <2>7. handled' = [handled EXCEPT ![c] = handled[c]]
    BY <2>1 DEF TypeOK
  <2> QED
    BY <2>1, <2>2, <2>3, <2>6, <2>7, LocalChange
<1>9. ASSUME NEW c \in Conns, MessageComplete(c)
      PROVE  OrphanInv'
  <2>1. PICK o : /\ handled' = [handled EXCEPT ![c] = Append(handled[c], o)]
                 /\ ctx' = [ctx EXCEPT ![c] = [ctx[c] EXCEPT !.parser = "start",
                                                   !.writes = Append(ctx[c].writes, o)]]
    BY <1>9 DEF MessageComplete
  <2>2. UNCHANGED tasks /\ \A e \in Conns : client'[e].peer = client[e].peer
    BY <1>7, <1>9 DEF MessageComplete
  <2>3. ctx[c] \in Context /\ handled[c] \in Seq(Outcome) /\ ctx[c].state = "live"
    BY <1>9 DEF MessageComplete, Readable, TypeOK, NoUseAfterFree, CallbacksValid
  <2>4. ctx[c].writes = handled[c]
    BY <2>3 DEF OrphanInv, ConnInv
  <2>5. /\ handled'[c] = Append(handled[c], o)
        /\ ctx'[c].state = "live" /\ ctx'[c].writes = Append(handled[c], o)
    BY <2>1, <2>3, <2>4 DEF TypeOK, Context
  <2>6. Append(handled[c], o) # <<>>
    BY <2>3
  <2>7. ConnInv(c)'
    BY <2>5, <2>6 DEF ConnInv, Orphan
  <2> QED
    BY <2>1, <2>2, <2>7, LocalChange
<1>10. ASSUME NEW c \in Conns, Eof(c)
       PROVE  OrphanInv'
  <2>1. CASE Release(c)
    BY <1>6, <1>10, <2>1 DEF Eof
  <2>2. CASE ctx' = [ctx EXCEPT ![c].reading = FALSE] /\ ctx[c].parser # "mid"
    <3>1. /\ ctx[c] \in Context /\ ctx[c].state = "live" /\ ctx[c].parser = "start"
          /\ client[c].peer # "open" /\ UNCHANGED <<tasks, client, handled>>
      BY <1>10, <2>2 DEF Eof, TypeOK, Context, ParserState, NoUseAfterFree, CallbacksValid
    <3>2. /\ ctx'[c].state = "live" /\ ctx'[c].writes = ctx[c].writes
          /\ ctx'[c].builder = ctx[c].builder
      BY <2>2, <3>1 DEF TypeOK, Context
    <3>3. ConnInv(c)'
      BY <3>1, <3>2 DEF OrphanInv, ConnInv, Orphan
    <3>4. handled' = [handled EXCEPT ![c] = handled[c]]
      BY <3>1 DEF TypeOK
    <3> QED
      BY <2>2, <3>1, <3>3, <3>4, LocalChange
  <2> QED
    BY <1>10, <2>1, <2>2 DEF Eof, EofRefused
<1>11. ASSUME NEW c \in Conns,
              AvailableError(c) \/ ReadError(c) \/ WriteComplete(c) \/ WriteError(c)
       PROVE  OrphanInv'
  BY <1>6, <1>7, <1>11 DEF AvailableError, ReadError, WriteComplete, WriteError
<1> QED
  BY <1>2, <1>3, <1>4, <1>5, <1>8, <1>9, <1>10, <1>11 DEF Next, Accepting, Worker, Available

\* A live context's responses are all being written, and one that has not
\* dispatched anything and is between two requests is untouched.
THEOREM OrphanInvariant == Spec => []OrphanInv
<1>1. Init => OrphanInv
  <2> SUFFICES ASSUME Init, NEW c \in Conns PROVE ConnInv(c)
    BY DEF OrphanInv
  <2>1. ctx[c].state = "none" /\ handled[c] = <<>>
    BY DEF Init, FreshContext
  <2> QED
    BY <2>1 DEF ConnInv, Orphan
<1>2. TypeOK /\ NoUseAfterFree /\ OrphanInv /\ [Next]_vars => OrphanInv'
  BY StepOrphanInv
<1> QED
  BY <1>1, <1>2, TypeCorrect, ContextsOutliveTheirUses, PTL DEF Spec

\* A context nothing will ever happen to again is one whose client left
\* before it began a request: no dispatched request and no half-received one
\* is ever forgotten.
THEOREM NothingBegunIsForgotten == Spec => []OrphansNeverBegan
<1>1. OrphanInv => OrphansNeverBegan
  BY DEF OrphanInv, ConnInv, OrphansNeverBegan
<1> QED
  BY <1>1, OrphanInvariant, PTL

-----------------------------------------------------------------------------
(***************************************************************************)
(* That chooseBase (server_instance.cc:96-103) deals connections out       *)
(* evenly, for any number of workers and connections and any width of int  *)
(* and size_t that RoundRobinAssumption allows: its static counter goes    *)
(* around the workers in order even where it overflows, and in that order  *)
(* the workers' loads never differ by more than one.                       *)
(***************************************************************************)

-----------------------------------------------------------------------------
(***************************************************************************)
(* Remainders.                                                             *)
(***************************************************************************)

\* What a quotient and a remainder are.
LEMMA Division ==
  ASSUME NEW N \in Nat \ {0}, NEW x \in Int
  PROVE  x = N * (x \div N) + (x % N) /\ x \div N \in Int /\ x % N \in 0..(N - 1)
BY Z3

\* There is one remainder.
LEMMA RemainderUnique ==
  ASSUME NEW N \in Nat \ {0}, NEW q \in Int, NEW v \in 0..(N - 1)
  PROVE  (N * q + v) % N = v
<1> DEFINE x == N * q + v
           p == x \div N
           w == x % N
<1>1. x \in Int
  BY Z3
<1> HIDE DEF x
<1>2. x = N * p + w /\ p \in Int /\ w \in 0..(N - 1)
  BY <1>1, Division
<1> HIDE DEF p, w
<1>3. N * (q - p) = w - v
  BY <1>2, Z3 DEF x
<1>4. CASE q - p >= 1
  <2>1. N * (q - p) >= N
    BY <1>2, <1>4, Z3
  <2> QED
    BY <1>2, <1>3, <2>1
<1>5. CASE q - p <= -1
  <2>1. N * (q - p) <= -N
    BY <1>2, <1>5, Z3
  <2> QED
    BY <1>2, <1>3, <2>1
<1>6. CASE q = p
  BY <1>2, <1>6, <1>3
<1> QED
  BY <1>2, <1>4, <1>5, <1>6 DEF w, x

\* Multiples of the divisor make no difference.
LEMMA RemainderShift ==
  ASSUME NEW N \in Nat \ {0}, NEW x \in Int, NEW k \in Int
  PROVE  (x + N * k) % N = x % N
<1>1. x + N * k = N * (x \div N + k) + (x % N) /\ x \div N \in Int /\ x % N \in 0..(N - 1)
  BY Division, Z3
<1>2. x \div N + k \in Int
  BY <1>1
<1> QED
  BY <1>1, <1>2, RemainderUnique

-----------------------------------------------------------------------------
(***************************************************************************)
(* The counter.                                                            *)
(***************************************************************************)

\* Neither the conversion to size_t nor the overflow of the int shows in the
\* index: the next one is the next worker's, or the first worker's again.
LEMMA NextBase ==
  ASSUME NEW n \in (-IntMax - 1)..IntMax
  PROVE  BaseAt(NextIter(n)) = IF BaseAt(n) = NBases - 1 THEN 0 ELSE BaseAt(n) + 1
<1> DEFINE N == NBases
<1>1. N \in Nat \ {0} /\ SizeValues \in Nat \ {0} /\ IntMax \in Nat
  BY BasesAssumption
<1>2. ASSUME NEW x \in Int
      PROVE  BaseAt(x) = x % N
  <2>1. SizeValues = N * (SizeValues \div N) /\ SizeValues \div N \in Int
    <3>1. SizeValues = N * (SizeValues \div N) + 0 /\ SizeValues \div N \in Int
      BY <1>1, RoundRobinAssumption, Division
    <3> QED
      BY <1>1, <3>1, Z3
  <2>2. x = SizeValues * (x \div SizeValues) + (x % SizeValues)
        /\ x \div SizeValues \in Int /\ x % SizeValues \in Int
    BY <1>1, Division
  <2>3. PICK k \in Int : x = (x % SizeValues) + N * k
    <3>1. ASSUME NEW r \in Int, NEW d \in Int, NEW e \in Int, NEW v \in Int,
                 SizeValues = N * d, v = SizeValues * e + r
          PROVE  d * e \in Int /\ v = r + N * (d * e)
      BY <1>1, <3>1, Z3
    <3> QED
      BY <2>1, <2>2, <3>1
  <2>4. ((x % SizeValues) + N * k) % N = (x % SizeValues) % N
    BY <1>1, <2>2, <2>3, RemainderShift
  <2> QED
    BY <2>3, <2>4 DEF BaseAt
<1>3. (n + 1) % N = IF n % N = N - 1 THEN 0 ELSE (n % N) + 1
  <2>1. n = N * (n \div N) + (n % N) /\ n \div N \in Int /\ n % N \in 0..(N - 1)
    BY <1>1, Division
  <2>2. CASE n % N = N - 1
    <3>1. n + 1 = N * (n \div N + 1) + 0
      BY <1>1, <2>1, <2>2, Z3
    <3>2. n \div N + 1 \in Int /\ 0 \in 0..(N - 1)
      BY <1>1, <2>1
    <3>3. (N * (n \div N + 1) + 0) % N = 0
      BY <1>1, <3>2, RemainderUnique
    <3> QED
      BY <2>2, <3>1, <3>3
  <2>3. CASE n % N # N - 1
    <3>1. n + 1 = N * (n \div N) + ((n % N) + 1) /\ (n % N) + 1 \in 0..(N - 1)
      BY <1>1, <2>1, <2>3, Z3
    <3>2. (N * (n \div N) + ((n % N) + 1)) % N = (n % N) + 1
      BY <1>1, <2>1, <3>1, RemainderUnique
    <3> QED
      BY <2>3, <3>1, <3>2
  <2> QED
    BY <2>2, <2>3
<1>4. NextIter(n) \in Int /\ NextIter(n) % N = (n + 1) % N
  <2>1. CASE n = IntMax
    <3>1. 2 * (IntMax + 1) \in Int
      BY <1>1
    <3>2. PICK k \in Int : 2 * (IntMax + 1) = N * k
      <4>1. PICK k \in Int : 2 * (IntMax + 1) = N * k + 0
        BY <1>1, <3>1, RoundRobinAssumption, Division
      <4> QED
        BY <1>1, <4>1, Z3
    <3>3. -IntMax - 1 \in Int /\ n + 1 = (-IntMax - 1) + N * k
      BY <1>1, <2>1, <3>2
    <3>4. ((-IntMax - 1) + N * k) % N = (-IntMax - 1) % N
      BY <1>1, <3>2, <3>3, RemainderShift
    <3> QED
      BY <2>1, <3>3, <3>4 DEF NextIter
  <2>2. CASE n # IntMax
    BY <2>2 DEF NextIter
  <2> QED
    BY <2>1, <2>2
<1> QED
  BY <1>2, <1>3, <1>4

-----------------------------------------------------------------------------
(***************************************************************************)
(* The loads.                                                              *)
(***************************************************************************)
Loaded(b) == {c \in Conns : ctx[c].state # "none" /\ ctx[c].base = b}

\* How many connections will be dealt out before worker b's next one.
Turn(b) ==
  IF b > BaseAt(iter) THEN b - BaseAt(iter) - 1 ELSE b + NBases - BaseAt(iter) - 1

\* Who is to come sooner has no more than who is to come later, and at most one
\* less: that is what RoundRobin rests on, which does not say who is next.
DealtInTurn ==
  \A a, b \in Bases : Turn(a) <= Turn(b) => Load(a) <= Load(b) /\ Load(b) <= Load(a) + 1

\* The connections of a worker can be counted.
LEMMA LoadType ==
  ASSUME NEW b \in Bases
  PROVE  IsFiniteSet(Loaded(b)) /\ Load(b) = Cardinality(Loaded(b)) /\ Load(b) \in Nat
<1>1. Loaded(b) \subseteq Conns
  BY DEF Loaded
<1> QED
  BY <1>1, ConnsAssumption, FS_Subset, FS_CardinalityType DEF Load, Loaded

\* A connection stays where it was dealt to, whatever becomes of it.
LEMMA StaysDealt ==
  ASSUME TypeOK, NoUseAfterFree, [Next]_vars, \A i \in Instances, c \in Conns : ~Accept(i, c)
  PROVE  /\ iter' = iter
         /\ \A c \in Conns : /\ ctx'[c].base = ctx[c].base
                             /\ ctx'[c].state = "none" <=> ctx[c].state = "none"
<1>1. ASSUME NEW c \in Conns, ctx[c].state = "live", NEW x, ctx' = [ctx EXCEPT ![c] = x],
             x.base = ctx[c].base, x.state # "none", iter' = iter
      PROVE  /\ iter' = iter
             /\ \A d \in Conns : /\ ctx'[d].base = ctx[d].base
                                 /\ ctx'[d].state = "none" <=> ctx[d].state = "none"
  BY <1>1 DEF TypeOK
<1>2. CASE Listening \/ Clients \/ UNCHANGED vars
  BY <1>2 DEF Listening, Start, StartFails, Stop, Clients, Send, SendGarbage, Fin, Reset, vars
<1>3. ASSUME NEW b \in Bases, StartRead(b)
      PROVE  /\ iter' = iter
             /\ \A c \in Conns : /\ ctx'[c].base = ctx[c].base
                                 /\ ctx'[c].state = "none" <=> ctx[c].state = "none"
  <2>1. tasks[b] \in Seq(Conns) /\ tasks[b] # <<>> /\ 1 \in DOMAIN tasks[b]
    BY <1>3 DEF StartRead, TypeOK
  <2>2. PICK c \in Conns : c = Head(tasks[b]) /\ ctx[c].state = "live"
    BY <2>1 DEF NoUseAfterFree, TasksValid
  <2> DEFINE x == [ctx[c] EXCEPT !.reading = TRUE]
  <2>3. x.base = ctx[c].base /\ x.state # "none"
    BY <2>2 DEF TypeOK, Context
  <2> QED
    BY <1>1, <1>3, <2>2, <2>3 DEF StartRead
<1>4. ASSUME NEW c \in Conns, Worker(c)
      PROVE  /\ iter' = iter
             /\ \A d \in Conns : /\ ctx'[d].base = ctx[d].base
                                 /\ ctx'[d].state = "none" <=> ctx[d].state = "none"
  <2>1. ctx[c] \in Context
    BY DEF TypeOK
  <2>2. ctx[c].state = "live" /\ iter' = iter
    BY <1>4 DEF Worker, Available, AvailableBegin, AvailableText, MessageComplete, AvailableError,
                Eof, ReadError, WriteComplete, WriteError, Readable, NoUseAfterFree, CallbacksValid
  <2>3. CASE Release(c)
    <3>1. Released(ctx[c]).base = ctx[c].base /\ Released(ctx[c]).state # "none"
      BY <2>1 DEF Released, Context
    <3> QED
      BY <1>1, <2>2, <2>3, <3>1 DEF Release
  <2>4. CASE ~Release(c)
    <3>1. PICK x : ctx' = [ctx EXCEPT ![c] = x] /\ x.base = ctx[c].base /\ x.state = ctx[c].state
      BY <1>4, <2>1, <2>4
         DEF Worker, Available, AvailableBegin, AvailableText, MessageComplete, AvailableError,
             Eof, ReadError, WriteComplete, WriteError, Context
    <3> QED
      BY <1>1, <2>2, <3>1
  <2> QED
    BY <2>3, <2>4
<1> QED
  BY <1>2, <1>3, <1>4 DEF Next, Accepting

\* A connection is dealt to the worker whose turn it is.
LEMMA StepDealtInTurn ==
  TypeOK /\ NoUseAfterFree /\ DealtInTurn /\ [Next]_vars => DealtInTurn'
<1> SUFFICES ASSUME TypeOK, NoUseAfterFree, DealtInTurn, [Next]_vars PROVE DealtInTurn'
  OBVIOUS
<1>1. CASE \A i \in Instances, c \in Conns : ~Accept(i, c)
  <2>1. \A b \in Bases : Loaded(b)' = Loaded(b)
    BY <1>1, StaysDealt DEF Loaded
  <2>2. \A b \in Bases : Load(b)' = Load(b)
    BY <2>1 DEF Load, Loaded
  <2>3. iter' = iter
    BY <1>1, StaysDealt
  <2> QED
    BY <2>2, <2>3 DEF DealtInTurn, Turn
<1>2. ASSUME NEW i \in Instances, NEW c \in Conns, Accept(i, c)
      PROVE  DealtInTurn'
  <2>1. iter \in (-IntMax - 1)..IntMax /\ iter' \in (-IntMax - 1)..IntMax
    BY <1>2, NextIterType DEF TypeOK, Accept
  <2> /\ Bases = 0..(NBases - 1) /\ NBases \in Nat \ {0}
    BY BasesAssumption DEF Bases
  <2>2. PICK m \in Bases, n \in Bases : m = BaseAt(iter) /\ n = BaseAt(iter')
    BY <2>1, BaseAtType, BasesAssumption
  <2>3. n = IF m = NBases - 1 THEN 0 ELSE m + 1
    BY <1>2, <2>1, <2>2, NextBase DEF Accept
  <2>4. ctx[c].state = "none" /\ ctx' = [ctx EXCEPT ![c] = FreshContext(i, n)]
    BY <1>2, <2>2 DEF Accept
  <2>5. ctx'[c].state = "live" /\ ctx'[c].base = n /\ \A d \in Conns : d # c => ctx'[d] = ctx[d]
    BY <2>4 DEF FreshContext, TypeOK
  <2>6. Load(n)' = Load(n) + 1
    <3>1. Loaded(n)' = Loaded(n) \cup {c} /\ c \notin Loaded(n)
      BY <2>4, <2>5 DEF Loaded
    <3>2. IsFiniteSet(Loaded(n)) /\ Load(n) = Cardinality(Loaded(n))
      BY LoadType
    <3>3. PICK S : S = Loaded(n)
      OBVIOUS
    <3>4. Cardinality(S \cup {c}) = Cardinality(S) + 1
      BY <3>1, <3>2, <3>3, FS_AddElement
    <3>5. Cardinality(Loaded(n) \cup {c}) = Load(n) + 1
      BY ONLY <3>2, <3>3, <3>4
    <3> QED
      BY <3>1, <3>5 DEF Load, Loaded
  <2>7. ASSUME NEW b \in Bases, b # n
        PROVE  Load(b)' = Load(b)
    <3>1. Loaded(b)' = Loaded(b)
      BY <2>4, <2>5, <2>7 DEF Loaded
    <3> QED
      BY <3>1 DEF Load, Loaded
  \* Whose turn it was is last now, and the others move up.
  <2>8. Turn(n) = 0 /\ Turn(n)' = NBases - 1
    BY <2>2, <2>3 DEF Turn
  <2>9. ASSUME NEW b \in Bases, b # n
        PROVE  Turn(b)' = Turn(b) - 1 /\ Turn(b) \in 1..(NBases - 1)
    <3>1. PICK t, u : t = Turn(b) /\ u = Turn(b)'
      OBVIOUS
    <3>2. /\ t = IF b > m THEN b - m - 1 ELSE b + NBases - m - 1
          /\ u = IF b > n THEN b - n - 1 ELSE b + NBases - n - 1
      BY <2>2, <3>1 DEF Turn
    <3>3. u = t - 1 /\ t \in 1..(NBases - 1)
      <4>1. CASE m = NBases - 1
        BY <2>3, <2>9, <3>2, <4>1
      <4>2. CASE m # NBases - 1
        BY <2>3, <2>9, <3>2, <4>2
      <4> QED
        BY <4>1, <4>2
    <3> QED
      BY <3>1, <3>3
  <2>10. ASSUME NEW a \in Bases, NEW b \in Bases, Turn(a)' <= Turn(b)'
         PROVE  Load(a)' <= Load(b)' /\ Load(b)' <= Load(a)' + 1
    <3>1. Load(a) \in Nat /\ Load(b) \in Nat /\ Load(n) \in Nat
      BY <2>2, LoadType
    <3>2. CASE a = n /\ b = n
      BY <2>6, <3>1, <3>2
    <3>3. CASE a = n /\ b # n
      \* Nobody else is last.
      BY <2>2, <2>8, <2>9, <2>10, <3>3
    <3>4. CASE a # n /\ b = n
      <4>1. Turn(n) <= Turn(a)
        BY <2>2, <2>8, <2>9, <3>4
      <4>2. Load(n) <= Load(a) /\ Load(a) <= Load(n) + 1
        BY <2>2, <4>1 DEF DealtInTurn
      <4> QED
        BY <2>6, <2>7, <3>1, <3>4, <4>2
    <3>5. CASE a # n /\ b # n
      <4>1. Turn(a) <= Turn(b)
        BY <2>2, <2>9, <2>10, <3>5
      <4> QED
        BY <2>7, <3>5, <4>1 DEF DealtInTurn
    <3> QED
      BY <3>2, <3>3, <3>4, <3>5
  <2> QED
    BY <2>10 DEF DealtInTurn
<1> QED
  BY <1>1, <1>2

\* Whichever instances accept the connections, and through every overflow of the
\* counter, no worker is given two more connections than another.
THEOREM DealtOutEvenly == Spec => []RoundRobin
<1>1. Init => DealtInTurn
  <2> SUFFICES ASSUME Init PROVE DealtInTurn
    OBVIOUS
  <2>1. \A b \in Bases : Loaded(b) = {}
    BY DEF Init, Loaded, FreshContext
  <2>2. \A b \in Bases : Load(b) = 0
    BY <2>1, LoadType, FS_EmptySet
  <2> QED
    BY <2>2 DEF DealtInTurn
<1>2. TypeOK /\ NoUseAfterFree /\ DealtInTurn /\ [Next]_vars => DealtInTurn'
  BY StepDealtInTurn
<1>3. TypeOK /\ DealtInTurn => RoundRobin
  <2> SUFFICES ASSUME TypeOK, DealtInTurn, NEW a \in Bases, NEW b \in Bases
               PROVE  Load(a) <= Load(b) + 1
    BY DEF RoundRobin
  <2>1. Load(a) \in Nat /\ Load(b) \in Nat
    BY LoadType
  <2>2. Turn(a) \in Int /\ Turn(b) \in Int
    <3>1. iter \in Int
      BY BasesAssumption DEF TypeOK
    <3> QED
      BY <3>1, BaseAtType, BasesAssumption DEF Turn, Bases
  <2>3. Turn(a) <= Turn(b) \/ Turn(b) <= Turn(a)
    BY <2>2
  <2> QED
    BY <2>1, <2>3 DEF DealtInTurn
<1> QED
  BY <1>1, <1>2, <1>3, TypeCorrect, ContextsOutliveTheirUses, PTL DEF Spec
=============================================================================

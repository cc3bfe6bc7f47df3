--------------------------- MODULE ServerInstance ---------------------------
(***************************************************************************)
(* A topper server instance and the connections it serves                  *)
(* (src/src/server_instance.{h,cc}): the listener accepts a connection,    *)
(* hands it to one of the worker event loops, and the worker reads, parses,*)
(* dispatches and answers it.                                              *)
(*                                                                         *)
(* Threads: the listener's event loop runs Start, Stop and Accept; worker  *)
(* b's event loop runs its queued tasks and every callback of the contexts *)
(* whose base is b.  A callback runs to completion on its loop and touches *)
(* no other context, so each is one action; what interleaves are the loops *)
(* and the clients.                                                        *)
(*                                                                         *)
(* External (what-the-event): closing and deleting a stream cancels its    *)
(* callbacks; a write completes in a later turn of the loop; end of file   *)
(* is reported once.                                                       *)
(***************************************************************************)
EXTENDS RequestBuilder

CONSTANTS
  Conns,        \* the connections clients make
  Instances,    \* the ServerInstances of the process (application, admin)
  NBases,       \* the number of worker event loops
  IntMax,       \* the largest int
  SizeValues,   \* the number of size_t values
  Conversations,  \* bound: the requests a client sends on a connection, in order
  Resources,    \* the resources registered with the instances
  Faults        \* what clients may do wrong: "truncate", "garbage", "reset"

HttpCode == {"OK", "CREATED", "FORBIDDEN", "NOT_FOUND", "NOT_ALLOWED", "INTERNAL_ERROR"}

(***************************************************************************)
(* A resource: the paths the matcher resolves to it and, for each method,  *)
(* the code its handler returns, or that it throws.  Methods a resource    *)
(* does not define are those of the class Resource: NOT_ALLOWED.           *)
(***************************************************************************)
Resource == [server : Instances, serves : SUBSET Text,
             on : [SupportedMethod -> HttpCode \cup {"throws"}]]

ASSUME BasesAssumption ==
  /\ NBases \in Nat \ {0}
  /\ IntMax \in Nat
  /\ SizeValues \in Nat \ {0}

\* However long the process runs, the connections it has accepted can be counted.
ASSUME ConnsAssumption == IsFiniteSet(Conns)

\* kBases is 4: round-robin survives the overflow of the counter because the
\* number of bases divides 2^32 and 2^64.
ASSUME RoundRobinAssumption ==
  /\ (2 * (IntMax + 1)) % NBases = 0
  /\ SizeValues % NBases = 0
  /\ SizeValues >= 2 * (IntMax + 1)

ASSUME TrafficAssumption ==
  /\ Conversations \subseteq Seq(WireRequest)
  /\ Faults \subseteq {"truncate", "garbage", "reset"}

\* What addResource guarantees: it refuses a second resource for a path.
ASSUME ResourcesAssumption ==
  /\ Resources \subseteq Resource
  /\ \A x, y \in Resources :
       x # y /\ x.server = y.server => x.serves \cap y.serves = {}

Bases == 0..(NBases - 1)

\* The requests a client may send.
Requests == UNION {{s[k] : k \in DOMAIN s} : s \in Conversations}

\* What get_response returns: the code, and the request the handler was
\* invoked with, if one was.
Outcome == [code : HttpCode, request : SUBSET Request]

VARIABLES
  listener,  \* listener[i]: no listener, one that does not accept, one that does
  iter,      \* chooseBase's static counter, shared by the instances
  tasks,     \* tasks[b]: contexts whose startRead is queued on worker b
  ctx,       \* ctx[c]: the RequestContext of connection c
  client,    \* client[c]: the other end of the connection
  handled,   \* history: handled[c], what get_response returned, in order
  answered   \* history: answered[c], the responses whose write completed

vars == <<listener, iter, tasks, ctx, client, handled, answered>>

(***************************************************************************)
(* A context: whether it exists, its instance and worker, whether its      *)
(* stream reads, its parser and builder, and its writes in flight.         *)
(***************************************************************************)
Context == [state : {"none", "live", "freed"}, server : Instances, base : Bases,
            reading : BOOLEAN, parser : ParserState, builder : Builder,
            writes : Seq(Outcome)]

\* A client: what it sent that the server has not parsed, the requests it
\* sent, and whether its end is open, half-closed or reset.
Client == [unread : Seq(Element), sent : Seq(Requests), peer : {"open", "fin", "reset"}]

TypeOK ==
  /\ listener \in [Instances -> {"null", "idle", "accepting"}]
  /\ iter \in (-IntMax - 1)..IntMax
  /\ tasks \in [Bases -> Seq(Conns)]
  /\ ctx \in [Conns -> Context]
  /\ client \in [Conns -> Client]
  /\ handled \in [Conns -> Seq(Outcome)]
  /\ answered \in [Conns -> Seq(Outcome)]

FreshContext(i, b) ==
  [state |-> "live", server |-> i, base |-> b, reading |-> FALSE,
   parser |-> "start", builder |-> NewBuilder, writes |-> <<>>]

Init ==
  /\ listener = [i \in Instances |-> "null"]
  /\ iter \in (-IntMax - 1)..IntMax   \* whatever earlier connections left
  /\ tasks = [b \in Bases |-> <<>>]
  /\ \E i \in Instances :
       ctx = [c \in Conns |-> [FreshContext(i, 0) EXCEPT !.state = "none"]]
  /\ client = [c \in Conns |-> [unread |-> <<>>, sent |-> <<>>, peer |-> "open"]]
  /\ handled = [c \in Conns |-> <<>>]
  /\ answered = [c \in Conns |-> <<>>]

-----------------------------------------------------------------------------
(***************************************************************************)
(* The listener's event loop.                                              *)
(***************************************************************************)
Start(i) ==
  /\ listener[i] = "null"
  /\ listener' = [listener EXCEPT ![i] = "accepting"]
  /\ UNCHANGED <<iter, tasks, ctx, client, handled, answered>>

\* bind or listen throws: the listener stays, and does not accept.
StartFails(i) ==
  /\ listener[i] = "null"
  /\ listener' = [listener EXCEPT ![i] = "idle"]
  /\ UNCHANGED <<iter, tasks, ctx, client, handled, answered>>

\* Contexts the instance accepted are not touched.
Stop(i) ==
  /\ listener[i] # "null"
  /\ listener' = [listener EXCEPT ![i] = "null"]
  /\ UNCHANGED <<iter, tasks, ctx, client, handled, answered>>

\* (Mutant of NextIter: no overflow.)
NextIterUnbounded(n) == n + 1

\* ++iter on an atomic int, which wraps; then int to size_t, and the index.
NextIter(n) == IF n = IntMax THEN -IntMax - 1 ELSE n + 1

\* (Mutant of BaseAt: the absolute value of a negative counter.)
BaseAtAbsolute(n) == (IF n < 0 THEN -n ELSE n) % NBases

BaseAt(n) == (n % SizeValues) % NBases

Accept(i, c) ==
  /\ listener[i] = "accepting"
  /\ ctx[c].state = "none"
  /\ iter' = NextIter(iter)
  /\ ctx' = [ctx EXCEPT ![c] = FreshContext(i, BaseAt(iter'))]
  /\ tasks' = [tasks EXCEPT ![BaseAt(iter')] = Append(@, c)]
  /\ UNCHANGED <<listener, client, handled, answered>>

-----------------------------------------------------------------------------
(***************************************************************************)
(* A worker's event loop.                                                  *)
(***************************************************************************)

\* (Mutant of Released: the stream is not closed.)
ReleasedWithoutClosing(x) ==
  [x EXCEPT !.state = "freed", !.parser = "start", !.builder = NewBuilder]

\* Releasing a context deletes it: its destructor stops reading, closes the
\* stream and deletes it, and with the stream go the writes in flight.
Released(x) ==
  [x EXCEPT !.reading = FALSE, !.state = "freed", !.writes = <<>>,
            !.parser = "start", !.builder = NewBuilder]

Release(c) == ctx' = [ctx EXCEPT ![c] = Released(@)]

StartRead(b) ==
  /\ tasks[b] # <<>>
  /\ tasks' = [tasks EXCEPT ![b] = Tail(@)]
  /\ ctx' = [ctx EXCEPT ![Head(tasks[b])].reading = TRUE]
  /\ UNCHANGED <<listener, iter, client, handled, answered>>

\* Something of c's is there to be parsed.
Readable(c) == ctx[c].reading /\ client[c].unread # <<>>
Unread(c) == Head(client[c].unread)

Parsed(c) == client' = [client EXCEPT ![c].unread = Tail(@)]

\* What is there is not HTTP, or a callback will not have it.
Refused(c) ==
  \/ Unread(c).kind = "bad"
  \/ Unread(c).kind = "value" /\ ValueRefused(ctx[c].builder)

\* The parser has seen the start of a request.
AvailableBegin(c) ==
  /\ Readable(c)
  /\ Unread(c).kind = "begin"
  /\ Parsed(c)
  /\ ctx' = [ctx EXCEPT ![c].parser = "mid"]
  /\ UNCHANGED <<listener, iter, tasks, handled, answered>>

\* on_url, on_header_field, on_header_value or on_body.
AvailableText(c) ==
  /\ Readable(c)
  /\ Unread(c).kind \in TextKind
  /\ ~Refused(c)
  /\ \E k \in Callbacks(Unread(c)) :
       /\ client' = [client EXCEPT ![c].unread = AfterCallback(@, k)]
       /\ ctx' = [ctx EXCEPT ![c].parser = "mid",
                              ![c].builder = OnText(@, Unread(c).kind, Reported(Unread(c), k))]
  /\ UNCHANGED <<listener, iter, tasks, handled, answered>>

Matches(i, path) == {x \in Resources : x.server = i /\ path \in x.serves}

\* get_response: a std::exception, from build or from the handler, is a 500.
\* Handlers throw no other, which it would not catch; nor does making the text
\* of the response throw, which message_complete does outside of the try.
GetResponse(i, b, method) ==
  LET request == Build(b, method)
      found == Matches(i, request.path)
      handlers == {x.on[method] : x \in found}
  IN  CASE BuildThrows(b, method) -> [code |-> "INTERNAL_ERROR", request |-> {}]
        [] ~BuildThrows(b, method) /\ found = {} -> [code |-> "NOT_FOUND", request |-> {}]
        [] OTHER -> [code |-> IF "throws" \in handlers THEN "INTERNAL_ERROR"
                              ELSE CHOOSE code \in handlers : TRUE,
                     request |-> {request}]

\* message_complete: the builder keeps what it has accumulated.
MessageComplete(c) ==
  /\ Readable(c)
  /\ Unread(c).kind = "complete"
  /\ Parsed(c)
  /\ LET outcome == GetResponse(ctx[c].server, ctx[c].builder, Unread(c).method)
     IN  /\ handled' = [handled EXCEPT ![c] = Append(@, outcome)]
         /\ ctx' = [ctx EXCEPT ![c].parser = "start",
                               ![c].writes = Append(@, outcome)]
  /\ UNCHANGED <<listener, iter, tasks, answered>>

\* The parser stops short of the end of an extent.
AvailableError(c) ==
  /\ Readable(c)
  /\ Refused(c)
  /\ Parsed(c)
  /\ Release(c)
  /\ UNCHANGED <<listener, iter, tasks, handled, answered>>

Available(c) ==
  AvailableBegin(c) \/ AvailableText(c) \/ MessageComplete(c) \/ AvailableError(c)

\* (Mutant of Eof: the parser is not asked.)
EofIgnored(c) ==
  /\ ctx[c].reading
  /\ client[c].peer = "fin"
  /\ client[c].unread = <<>>
  /\ ctx' = [ctx EXCEPT ![c].reading = FALSE]
  /\ UNCHANGED <<listener, iter, tasks, client, handled, answered>>

\* (Mutant of Eof: end of file always releases.)
EofReleases(c) ==
  /\ ctx[c].reading
  /\ client[c].peer = "fin"
  /\ client[c].unread = <<>>
  /\ Release(c)
  /\ UNCHANGED <<listener, iter, tasks, client, handled, answered>>

\* End of file releases the context only if the parser minds.
Eof(c) ==
  /\ ctx[c].reading
  /\ client[c].peer = "fin"
  /\ client[c].unread = <<>>
  /\ IF EofRefused(ctx[c].parser)
     THEN Release(c)
     ELSE ctx' = [ctx EXCEPT ![c].reading = FALSE]
  /\ UNCHANGED <<listener, iter, tasks, client, handled, answered>>

ReadError(c) ==
  /\ ctx[c].reading
  /\ client[c].peer = "reset"
  /\ Release(c)
  /\ UNCHANGED <<listener, iter, tasks, client, handled, answered>>

\* (Mutant of WriteComplete: the connection is kept open for more.)
WriteCompleteKeepsAlive(c) ==
  /\ ctx[c].writes # <<>>
  /\ client[c].peer # "reset"
  /\ answered' = [answered EXCEPT ![c] = Append(@, Head(ctx[c].writes))]
  /\ ctx' = [ctx EXCEPT ![c].writes = Tail(@)]
  /\ UNCHANGED <<listener, iter, tasks, client, handled>>

\* The client has read the response.  The first write to complete releases the
\* context, and the later ones with it.
WriteComplete(c) ==
  /\ ctx[c].writes # <<>>
  /\ client[c].peer # "reset"
  /\ answered' = [answered EXCEPT ![c] = Append(@, Head(ctx[c].writes))]
  /\ Release(c)
  /\ UNCHANGED <<listener, iter, tasks, client, handled>>

\* (Mutant of WriteError: only the write is given up.)
WriteErrorIgnored(c) ==
  /\ ctx[c].writes # <<>>
  /\ client[c].peer = "reset"
  /\ ctx' = [ctx EXCEPT ![c].writes = Tail(@)]
  /\ UNCHANGED <<listener, iter, tasks, client, handled, answered>>

WriteError(c) ==
  /\ ctx[c].writes # <<>>
  /\ client[c].peer = "reset"
  /\ Release(c)
  /\ UNCHANGED <<listener, iter, tasks, client, handled, answered>>

-----------------------------------------------------------------------------
(***************************************************************************)
(* The clients.  What one does after the server closed the connection is   *)
(* left out: nothing reads it.                                             *)
(***************************************************************************)
Talking(c) == ctx[c].state # "freed" /\ client[c].peer = "open"

Send(c, r) ==
  /\ Talking(c)
  /\ \E s \in Conversations : /\ Len(client[c].sent) < Len(s)
                              /\ Append(client[c].sent, r) = SubSeq(s, 1, Len(client[c].sent) + 1)
  /\ client' = [client EXCEPT ![c].unread = @ \o Wire(r), ![c].sent = Append(@, r)]
  /\ UNCHANGED <<listener, iter, tasks, ctx, handled, answered>>

\* What is unread turns out, from its n-th element on, not to be HTTP.
SendGarbage(c) ==
  /\ "garbage" \in Faults
  /\ Talking(c)
  /\ \A k \in DOMAIN client[c].unread : client[c].unread[k] # Bad
  /\ \E n \in 0..Len(client[c].unread) :
       client' = [client EXCEPT ![c].unread = Append(SubSeq(@, 1, n), Bad)]
  /\ UNCHANGED <<listener, iter, tasks, ctx, handled, answered>>

\* The client shuts down its sending side, having sent all it announced or,
\* if it may truncate, any part of it.
Fin(c) ==
  /\ Talking(c)
  /\ \E n \in 0..Len(client[c].unread) :
       /\ n = Len(client[c].unread) \/ "truncate" \in Faults
       /\ client' = [client EXCEPT ![c].unread = SubSeq(@, 1, n), ![c].peer = "fin"]
  /\ UNCHANGED <<listener, iter, tasks, ctx, handled, answered>>

Reset(c) ==
  /\ "reset" \in Faults
  /\ ctx[c].state # "freed"
  /\ client[c].peer # "reset"
  /\ client' = [client EXCEPT ![c].peer = "reset"]
  /\ UNCHANGED <<listener, iter, tasks, ctx, handled, answered>>

-----------------------------------------------------------------------------
Listening == \E i \in Instances : Start(i) \/ StartFails(i) \/ Stop(i)

Accepting == \E i \in Instances, c \in Conns : Accept(i, c)

Clients ==
  \E c \in Conns : (\E r \in Requests : Send(c, r)) \/ SendGarbage(c) \/ Fin(c) \/ Reset(c)

Worker(c) ==
  Available(c) \/ Eof(c) \/ ReadError(c) \/ WriteComplete(c) \/ WriteError(c)

Next ==
  \/ Listening
  \/ Accepting
  \/ Clients
  \/ \E b \in Bases : StartRead(b)
  \/ \E c \in Conns : Worker(c)

Spec == Init /\ [][Next]_vars

(***************************************************************************)
(* The event loops keep running: queued tasks run, and a stream whose      *)
(* descriptor is ready calls back.  Bytes are only sure to arrive once the *)
(* client has sent its last one: a client may stall for ever before.  That *)
(* a write ends, one way or the other, is an assumption about the client:  *)
(* it reads what it is sent or breaks off.  Nothing in the code bounds how *)
(* long a write may take.                                                  *)
(***************************************************************************)
Fairness ==
  /\ \A b \in Bases : WF_vars(StartRead(b))
  /\ \A c \in Conns :
       /\ WF_vars(client[c].peer = "fin" /\ Available(c))
       /\ WF_vars(Eof(c))
       /\ WF_vars(ReadError(c))
       /\ WF_vars(WriteComplete(c) \/ WriteError(c))

FairSpec == Spec /\ Fairness

-----------------------------------------------------------------------------
(***************************************************************************)
(* What a request ought to come to, said of the request alone.             *)
(***************************************************************************)

\* A map of headers in which a later value replaces an earlier one.
HeaderMap(hs) ==
  {hs[i] : i \in {k \in 1..Len(hs) : \A j \in (k + 1)..Len(hs) : hs[j].name # hs[k].name}}

\* A request as it ought to be built from r, with the headers `headers`.
Intended(r, headers) ==
  [method |-> r.method,
   path |-> IF r.path = <<>> THEN <<Root>> ELSE r.path,
   query |-> r.query,
   post |-> IF r.method = "POST" THEN r.body ELSE <<>>,
   body |-> r.body,
   headers |-> HeaderMap(headers)]

\* The outcome instance i owes a request r: 500 for what cannot be built and
\* for a handler that throws, 404 for a path nobody serves, otherwise what
\* the handler of the path and the method says.
Owed(i, r, headers) ==
  LET request == Intended(r, headers)
      Hopeless == r.method \notin SupportedMethod \/ r.authority = "bad"
      Nobody == \A x \in Resources : x.server = i => request.path \notin x.serves
  IN  IF Hopeless THEN [code |-> "INTERNAL_ERROR", request |-> {}]
      ELSE IF Nobody THEN [code |-> "NOT_FOUND", request |-> {}]
      ELSE LET x == CHOOSE x \in Resources : x.server = i /\ request.path \in x.serves
           IN  [code |-> IF x.on[r.method] = "throws" THEN "INTERNAL_ERROR"
                         ELSE x.on[r.method],
                request |-> {request}]

\* What the code owes: a handler does not get to see the last header.
OwedInFact(i, r) == Owed(i, r, SubSeq(r.headers, 1, Len(r.headers) - 1))

(***************************************************************************)
(* Safety.                                                                 *)
(***************************************************************************)

\* However the bytes of a connection are cut into callbacks, and whatever
\* follows on it, its first request is dispatched as it was sent (less its
\* last header): RequestBuilder, message_complete and get_response.
FirstRequestDispatchedAsSent ==
  \A c \in Conns :
    handled[c] # <<>> => handled[c][1] = OwedInFact(ctx[c].server, client[c].sent[1])

Queued(c) == \E b \in Bases : \E k \in DOMAIN tasks[b] : tasks[b][k] = c

\* A startRead is queued for contexts that exist and have done nothing yet,
\* on their own worker.
TasksValid ==
  \A b \in Bases : \A k \in DOMAIN tasks[b] :
    LET x == ctx[tasks[b][k]]
    IN  x.state = "live" /\ x.base = b /\ ~x.reading /\ x.writes = <<>>

TasksDistinct ==
  \A b \in Bases : \A j, k \in DOMAIN tasks[b] : tasks[b][j] = tasks[b][k] => j = k

\* A stream that reads or writes is that of a context that exists.
CallbacksValid ==
  \A c \in Conns : ctx[c].reading \/ ctx[c].writes # <<>> => ctx[c].state = "live"

\* Nothing refers to a context that was released: neither a startRead queued
\* on a worker nor a callback its stream may still make (acceptCb,
\* ~RequestContext, the ReadCallbacks and the WriteCallbacks).
NoUseAfterFree == TasksValid /\ TasksDistinct /\ CallbacksValid

\* Nothing will ever happen to the context again, and yet it exists.
Orphan(c) ==
  /\ ctx[c].state = "live"
  /\ ~Queued(c)
  /\ ~ctx[c].reading
  /\ ctx[c].writes = <<>>

\* A context is orphaned in one way only: its client closed the connection
\* without having begun a request (eof, with the parser at the start).
OrphansNeverBegan ==
  \A c \in Conns :
    Orphan(c) =>
      client[c].peer # "open" /\ handled[c] = <<>> /\ ctx[c].builder = NewBuilder

Load(b) == Cardinality({c \in Conns : ctx[c].state # "none" /\ ctx[c].base = b})

\* chooseBase deals connections out evenly, through the overflow of its
\* counter and the conversion to size_t, whichever instances accept them.
RoundRobin == \A a, b \in Bases : Load(a) <= Load(b) + 1

(***************************************************************************)
(* Liveness, under FairSpec.                                               *)
(***************************************************************************)
Freed(c) == ctx[c].state = "freed"

\* A connection on which a request was dispatched is closed: an answer is
\* written or its write fails, and either way the context is released.
ServedIsReleased == \A c \in Conns : handled[c] # <<>> ~> Freed(c)

\* A connection that breaks off in the middle of a request is closed.
BrokenOffIsReleased ==
  \A c \in Conns :
    ctx[c].reading /\ ctx[c].parser = "mid" /\ client[c].peer # "open" ~> Freed(c)

\* The client sent one request and nothing else, and half-closed.
SentJustOne(c) ==
  /\ ctx[c].state = "live"
  /\ client[c].peer = "fin"
  /\ Len(client[c].sent) = 1
  /\ LET u == client[c].unread
     IN  /\ IF u = <<>> THEN handled[c] # <<>> ELSE u[Len(u)].kind = "complete"
         /\ \A k \in DOMAIN u : u[k] # Bad

\* A client that half-closes after its request is answered all the same:
\* eof leaves alone a context whose response is being written.
HalfCloseIsAnswered ==
  \A c \in Conns : SentJustOne(c) ~> (answered[c] # <<>> \/ client[c].peer = "reset")

(***************************************************************************)
(* What the repository says and the code does not do.                      *)
(***************************************************************************)

\* README.md: "Headers in an HTTP request are available to resources".
HeadersAvailable ==
  \A c \in Conns : handled[c] # <<>> =>
    \A request \in handled[c][1].request :
      \A h \in HeaderMap(client[c].sent[1].headers) :
        HeaderGet(request.headers, h.name) = h.value

\* README.md: "requests to /hello/visitor will result in invocation of
\* HelloResource::get with a "visitor" parameter": each request a handler is
\* invoked with has the path of the one that was sent.
InvokedWithItsPath ==
  \A c \in Conns : \A k \in DOMAIN handled[c] :
    \A request \in handled[c][k].request :
      request.path = Intended(client[c].sent[k], <<>>).path

-----------------------------------------------------------------------------
\* The instance keeps the contract of ConnectionContract: a connection is as its
\* context is, and its outcome is the first of what was handled.
Phase(x) ==
  CASE x.state = "none" -> "waiting"
    [] x.state = "live" -> "open"
    [] x.state = "freed" -> "closed"

FirstOf(outcomes) == IF outcomes = <<>> THEN <<>> ELSE <<outcomes[1]>>

Contract ==
  INSTANCE ConnectionContract WITH
    phase <- [c \in Conns |-> Phase(ctx[c])],
    host <- [c \in Conns |-> ctx[c].server],
    offered <- [c \in Conns |-> client[c].sent],
    calls <- [c \in Conns |-> Len(handled[c])],
    outcome <- [c \in Conns |-> FirstOf(handled[c])],
    delivered <- answered,
    Owed <- OwedInFact

\* The first request of a connection is the one that is answered, once, as
\* it is owed, and the connection closes with the answer.
KeepsContract == Contract!Spec
=============================================================================

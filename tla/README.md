# A verification of topper

Topper is a small C++ library for HTTP servers. An application registers
resources under path templates and starts a server; topper accepts connections
on one event loop, serves them on four others, parses requests with
http-parser, looks up the resource for a path, converts parameters to the types
of the handler's arguments, and writes the handler's response. These modules
model that machinery in TLA+, check it with TLC on small instances, and prove
with TLAPS, for every instance, what the connections, the lifecycle, the
resource matcher, the reading of parameters and the answers to requests promise.

Paths below are relative to the repository (`src/server.cc` is the library's
source directory, `include/` its public headers).

To check a run: `tlc -config MCConnection.cfg MCServerInstance.tla`; to check the
proofs of a module: `tlapm ServerInstanceProofs.tla`, and likewise for the other
modules whose name ends in `Proofs`.


## 1. The system

### Parts, state, operations

| part | source | state | operations |
|---|---|---|---|
| Server lifecycle | `src/server.cc`, `include/server.h` | `started_`, `shutdown_`, `bases_`, `base_threads_`, `main_`, the two instances | `start`, `startAdminServer`, `wait`, `stopAndWait`, destructor |
| Server instance | `src/server_instance.{h,cc}` | listener, matcher, the static counter of `chooseBase` | `start`, `stop`, `acceptCb`, `chooseBase`, `get_response` |
| Request context | `src/server_instance.{h,cc}` | stream, parser, builder, read callback, write callbacks | `available`, `eof`, `error`, `complete`, `message_complete`, destructor |
| Request builder | `src/request_builder.{h,cc}`, `src/request.h` | header state machine, pending header, URL, body, headers | one method per parser callback, `build` |
| Resource matcher | `src/resource_matcher.{h,cc}` | trie of template components, list of resources | `addResource`, `match`, `clear` |
| Path components, query string | `src/path_components.h`, `src/query_string.h` | two positions in a text | construction, increment, dereference, key/value split |
| Dispatch | `include/detail/*.h` | none | which argument takes what, invocation |
| Path parameters | `include/parameter.h`, `src/parameter.cc` | the converted value | `StringParam`, `IntParam::parse` |
| Query, post, header parameters | `include/parameter.h`, `src/parameter_internal.h` | multimaps and a map | `get` |
| Resource, response, entity | `include/resource.h`, `response.h`, `entity.h` | code, content type, body | default methods, formatting |
| Metrics resource, example | `src/metrics_resource.{h,cc}`, `example/hello_server.cc` | none | handlers, registrations |
| Logging, tests, build | | | |

External: **http-parser** (parser callbacks), **what-the-event** (event loops,
streams, listeners), `std::thread`, ccmetrics, glog. Their sources are
not part of the repository; they are modelled from how topper uses them (see 5).

### How they interact

`ServerImpl` owns five threads' worth of event loops: the listener's (`main_`)
and four workers. It owns two `ServerInstance`s, the application's and,
on request, an admin one. `start` and `stopAndWait` run tasks on the listener's
loop and wait for them; `startAdminServer` queues one and does not wait. An
accept on the listener's loop makes a `RequestContext` and queues `startRead`
on a worker chosen round-robin; from there all of the context's callbacks run
on that worker. Bytes go from the stream to the parser, whose callbacks fill
the builder; `message_complete` builds a request, has the matcher find the
resource, dispatches and starts a write. Whichever of four callbacks comes
first (write complete, write error, read error, an end of file in the middle
of a message) or a parse error deletes the context.

### What is hard, and what makes each part correct

* **Request context.** It is created on one loop and used on another; its
  end may come from five places; a half-close, a reset or garbage may come
  before, during or after the response. Correct: nothing refers to a released
  context; nothing begun is forgotten; what was dispatched is released;
  a half-closed client is answered.
* **Request builder.** Text arrives in arbitrary pieces. Correct: the request
  that is dispatched does not depend on the cutting.
* **chooseBase.** A signed counter overflows, is converted to an unsigned type
  and reduced. Correct: connections are spread evenly at all times.
* **Lifecycle.** Blocking calls, threads that join the same thread, binds that
  fail half-way, an admin server that starts at any time, deletion of loops
  under their threads. Correct: calls return; a stopped server listens no more
  and has no threads; nothing is accepted once the servers are stopped.
* **Resource matcher.** A search with several states at a time, a sort by
  a comparison, an iterative destructor, and resources that are added while
  workers search, without a lock. Correct: a match fits and carries the
  right parameters, what was registered before is found whatever is added
  meanwhile, a preferred resource wins, every node is deleted once and after its
  children.
* **Iterators, dispatch, integers.** Boundary positions; indices computed at
  compile time; conversions that narrow. Correct: the parts of a text and
  nothing else; the n-th path argument gets the n-th parameter; a number is the
  one that was written.

* **From texts to a response.** A request's path, query and form go through two
  iterators, a multimap, the trie and the handler's indices, and each passes its
  results on by position. Correct: the client is answered what its texts call
  for, read by themselves.

`PROJECT.json` lists each hazard at its line, with the properties that watch it.


## 2. The modules

| module | models | composed with |
|---|---|---|
| `HttpParser` | external: a request on the wire as *elements*, the callbacks http-parser may make for one, what it minds at end of file | |
| `RequestBuilder` | the builder's callbacks and `build` | extends `HttpParser` |
| `ServerInstance` | listener, counter, worker queues, contexts, clients | extends `RequestBuilder` |
| `ConnectionContract` | abstract: what a connection promises its client | implemented by `ServerInstance` (`KeepsContract`) |
| `ServerInstanceProofs` | proofs: types, lifetimes of contexts, what is left behind, connections dealt out evenly | extends `ServerInstance` |
| `ContractProofs` | proofs: the first request is dispatched as it was sent, and `ServerInstance` implements `ConnectionContract` | extends `ServerInstanceProofs` |
| `ServerImplProofs` | proofs about the lifecycle | extends `ServerImpl` |
| `Induction` | lemmas: induction over numbers, and recursive functions, without operators as parameters | |
| `ResourceMatcherProofs` | proofs about registration, matching, the choice among matches, and `clear` | extends `ResourceMatcher`, `Induction` |
| `HelloProofs` | proofs: texts are given in their parts, queries and forms read as they were written, the matcher used as specified, handlers given what they take | extends `HelloServer`, `Induction`; an instance of `ResourceMatcherProofs` |
| `AnswerProofs` | proof: `HelloServer` implements the safety of `Exchange` | extends `HelloProofs` |
| `DispatchProofs` | proofs: which argument takes which parameter, and which number | extends `Dispatch`, `Induction` |
| `ServerImpl` | the lifecycle, with connections in short | |
| `ResourceMatcher` | trie, registration and search at a time, clear | |
| `PathComponents` | the iterator, with the delimiters as a parameter | |
| `QueryString` | the same iterator over `&` and `;`, and the key/value split | extends `PathComponents` |
| `Parameters` | the multimap a query or a form fills, and `get` | extends `QueryString` |
| `Dispatch` | argument indices, extraction, `IntParam::parse` | |
| `Response` | responses and what their text says | |
| `Exchange` | abstract: each request is answered with a response it is owed | implemented by `HelloServer` (`AnswersWhatIsAsked`, `EveryRequestIsAnswered`) |
| `HelloServer` | the example and the admin server, from registration to response | extends `Parameters`, `Response`; instances of `PathComponents`, `ResourceMatcher`, `Dispatch` |
| `MC*` | small instances for TLC | |

**ServerInstance.** A callback runs to completion on its loop and touches no
other context, so each is one action; loops and clients interleave.
`listener[i]` is `null`, `idle` (exists, does not accept: a bind failed) or
`accepting`. `ctx[c]` is the `RequestContext` of connection `c`; a released one
stays as `freed`, so that a use after it can be seen. `client[c].unread` is what
the client has sent and the server not parsed. `Start`, `StartFails`, `Stop`,
`Accept` are `ServerInstance::start`, `stop` and `acceptCb`; `StartRead` runs the
queued lambda; `Available*` and `MessageComplete` are `available` up to the next
parser callback; `Eof`, `ReadError`, `WriteComplete`, `WriteError` are the
callbacks of those names; `Released` is `~RequestContext`. An extent boundary
may fall anywhere, so an element's text is reported in one callback or several.
After an error `available` returns, and so does the model: nothing more of the
connection is parsed. `handled` and `answered` are history variables.

**Text** is a sequence of tokens. A text of two tokens can be cut once, which is
enough to tell a callback that appends from one that replaces.

**ServerImpl.** One thread, the owner, makes all calls but `wait`. A call that
blocks is cut where it blocks, and `at` says where the owner is: in the nop of
`start`, waiting for the task of `stopAndWait` (`stopServers`), about to stop the
listener's loop, stopping the bases one after the other, joining the workers,
joining `main_`. `tasks` is the listener loop's queue. `worker[b]` is a base and its
thread: the base is stopped and deleted (`StopBase`) before the thread is joined
(`JoinThreads`), as in the code, and before the next base is (`BasesStopped` is
the end of that loop). `joining` is who is blocked in
`main_.join()`. `terminated` is `std::terminate` or a crash.

**ResourceMatcher.** A node is the sequence of template components that leads to
it, and the trie maps nodes to resources; `bound` is the nodes whose `methods`
have been assigned. `registrar` is the call of `addResource` and `search` that of
`match`, and their steps interleave: `Walk` is one turn of the loop over a
template's components, `SetResource` and `SetMethods` are the two assignments
(`resource_matcher.cc:88` and 89), and `Advance` is what one turn of the inner loop of
`match` does to one search state. Several searches only read the trie, so one
stands for all. `First` is what the first element of the sorted set may be:
`compare` is no strict weak order, so it is a set of possibilities.

Reading a pointer while it is set gives the old or the new one. Two races have no
such reading: a `find` in the hash table into which `addResource` inserts, and the
copy of a `std::function` while it is assigned. Both are undefined in C++;
`MatchRaces` lets the match end there without a result, so the properties speak of
the matches that return.

**PathComponents, QueryString, Parameters.** `psep`, `nsep` as in the code;
`NextBegin`, `Increment`, `Dereference` are the iterator's operations. `Insert`
gives every multimap that may come of an insertion, since a multimap keeps the
values of a key in an order of its own.

**HelloServer.** The path a request takes through `get_response`
(`server_instance.h:145-167`), with every component it meets as that component's own
module. `stage` says where main, or the worker, is: main registers the resources
of one of the two servers (`RegisterResource`, `SplitPath`, `AddResource`,
`EnterResource`), and then a request is asked, one after the other: `ReadParameters`
over its query and, for a POST, its body; `SplitPath` over its path; `Match` and
`Search`; `Extract` with the parameters the match returned and the handler's
argument kinds; `HandlerReturns`; and `Written`. The resources are those of
`example/hello_server.cc` and of `AdminServer` (`server.cc:58-70`). What a handler
says is a fixed text of its own (its template stands for it) and the values of its
arguments. Texts are sequences of character codes, with short names for the words
of the example. Only one thread is at work here; what goes on between threads
is `ServerInstance`'s and `ResourceMatcher`'s.

**Dispatch.** A handler is the sequence of the kinds of its arguments. The order
of extraction is open in C++, and in the model. A handler with an `IntParam`
that is not last does not compile (`Compiles`, see 6).


## 3. What the runs check

Passing runs, with the number of distinct states:

| run | instance | states | properties |
|---|---|---|---|
| `connection` | one connection, two instances, ten kinds of request and four pairs of them in a row, every cut, every fault, fair loops | 479 880 | `FirstRequestDispatchedAsSent`: however the bytes are cut and whatever follows, the first request is dispatched as it was sent (less its last header); `NoUseAfterFree`, `OrphansNeverBegan`, `KeepsContract` (refinement), `ServedIsReleased`, `BrokenOffIsReleased`, `HalfCloseIsAnswered`, `TypeOK` |
| `workers` | three connections, two instances, four workers, an eight-valued counter from every value, resets | 576 864 | `RoundRobin`: loads differ by one at most, through the overflow, though the instances share the counter |
| `lifecycle` | every order of calls, two waiters, two starts, two admin servers, binds that fail, two connections, fair threads | 79 708 | `StoppedIsStopped`, `OnlyAdminDangles`, `WorkersOfOneStart`: what a failed start leaves behind never comes into use, `EndsForAReason`: the process ends of four things only, `NothingAcceptedOnceStopped`, `CallsReturn`, `TypeOK` |
| `matching` | any three of fourteen templates, added in any order while a path they fit is matched | 5 654 318 | `MatchedFits`, `RegisteredOnce`, `BestIsReturned`, `ClearedChildrenFirst`, `TypeOK` |
| `hello` | the example and the admin server; every method with every path of up to four characters below the root, the longer ones that mean something and some that do not begin with a slash; every query and form of up to five characters | 280 851 | `AnswersWhatIsAsked` (refinement: the safety of `Exchange`), `EveryRequestIsAnswered` (its liveness), `TextsGivenInParts`, `PairsReadBack`, `EveryValueIsThere`, `HelloTypeOK` |
| `dispatch` | every handler of up to three arguments, up to two path parameters; every string of up to four characters (digits, signs, two kinds of blank, a letter) as an integer | 92 855 | `ArgumentsInOrder`, `ReadsWithinBounds`, `IntegersAsWritten` |

Runs whose property the repository states and the code does not keep:

| run | property | disagreement |
|---|---|---|
| `headers` | `HeadersAvailable` | the last header of a request is stored only when another begins, so no handler sees it |
| `second_request` | `InvokedWithItsPath` | the builder is not reset between requests: the second's URL is appended to the first's |
| `wait_and_stop` | `WaitAndStopReturn` | `wait` and `stopAndWait` join the same thread; one of them throws |
| `ongoing` | `OngoingCompletes` | `stopAndWait` deletes the workers' loops with the requests that are going on there |
| `most_variables` | `MostVariablesFirst` | `compare` does not put the match with the most variables first: for `/a/b/aaa`, `/a/b/{x}` comes before `/{x}/{y}/aaa`, which has more variables and longer literals, because its own are greater as strings |
| `registering` | `MethodsComeAlong` | a resource is served before its methods are there, and what is empty is called |

Properties that pass are stated for what the code does: `OwedInFact` is the
outcome owed for a request without its last header, and the contract is one of
the first request of a connection. `FirstRequestDispatchedAsSent` compares
`build` to `Intended`, which is defined on the request alone and knows nothing of
callbacks. In the same way `AnswersWhatIsAsked` compares responses to `HelloServer!Owed`,
which reads a request's texts at once: the parts between delimiters, by a fold, and a
table of what the example and the admin server answer. It has no iterator
positions, trie, indices or multimaps; where a key has several values it allows
each of them, as the multimap does. `search.known` is
what was registered when a match began: that must be found, and what is added
meanwhile may be.

### Bounds, and why they are enough

* `Conversations` are the sequences of requests a client may send: each kind by
  itself, and four pairs. What goes wrong after a message shows with the
  second; a third would find the builder in a state the second already did.
* One connection for the run of callbacks: contexts share nothing but the
  counter and the queues. The proofs are for any number. `workers` has three.
* `workers` has `IntMax = 3` and eight values of `size_t`, and starts from every
  value of the counter, so each connection meets the overflow in some behaviour.
  The real widths enter as the assumption that the number of bases divides
  them (`RoundRobinAssumption`); with three workers it would fail.
* `lifecycle`: two starts (a failed one and a retry), two admin servers (before
  and after a stop), two waiters (one to join, one to throw), two workers for
  each start. The calls themselves are unbounded otherwise.
* `matching`: a conflict takes two resources, and a third shows that the order of
  insertion matters. Templates of up to two components below the root are all
  there; those of three are four that fit one path.
* `hello`: five characters of a query hold an empty part at the beginning, in the
  middle and at the end, next to each other, two equals signs in a part, and two
  or three parts for the same key. Four characters of a path below the root hold
  three components, empty ones included; the paths of four components that
  a resource is registered for are there with and without what may follow. The
  parser also takes paths that begin with `*`: three of them are there.
  `MaxLength` is the longest of these texts.
* `dispatch`: `long long` has 8 bits and `T` 4, so that three digits overflow the
  first and two the second.

`CHECK_DEADLOCK FALSE` is set throughout: a server may be idle for ever, a
destroyed one does nothing, and an iteration ends.

### Fairness

* `ServerInstance!Fairness`: a worker's loop keeps running, so queued tasks run
  and a stream that is ready calls back (weak fairness of each of these).
  Reading is fair only once the client has sent its last byte: before, a client
  may stall for ever, and topper has no timeouts. That `WriteComplete` or
  `WriteError` comes for a write is an assumption about the client as well: it
  reads what it is sent or breaks off, and nothing in the code bounds how long that
  may take. Nothing else is assumed of clients, and nothing of accepts or of
  `start` and `stop`.
* `ServerImpl!FairSpec`: the threads of the loops run, and so does the owner once
  it is inside a call. No call is assumed to be made.
* `HelloServer!HelloSpec`: the worker goes on with the request it serves. No request
  is assumed to be asked, and none to be over.


## 4. What is proved

Each theorem is about the module as TLC checks it, for every value of the
constants that the named assumptions allow.

| theorem | states | in |
|---|---|---|
| `TypeCorrect` | `Spec => []TypeOK` | `ServerInstanceProofs` |
| `ContextsOutliveTheirUses` | `Spec => []NoUseAfterFree` | `ServerInstanceProofs` |
| `NothingBegunIsForgotten` | `Spec => []OrphansNeverBegan` | `ServerInstanceProofs` |
| `FirstAsSent` | `Spec => []FirstRequestDispatchedAsSent` | `ContractProofs` |
| `ContractKept` | `Spec => KeepsContract` (refinement) | `ContractProofs` |
| `DealtOutEvenly` | `Spec => []RoundRobin` | `ServerInstanceProofs` |
| `LifeTypeCorrect` | `Spec => []TypeOK` | `ServerImplProofs` |
| `StopStops` | `Spec => []StoppedIsStopped` | `ServerImplProofs` |
| `NothingElseDangles` | `Spec => []OnlyAdminDangles` | `ServerImplProofs` |
| `OneStartOnly` | `Spec => []WorkersOfOneStart` | `ServerImplProofs` |
| `EndsOnlyForThose` | `Spec => []EndsForAReason` | `ServerImplProofs` |
| `StoppedAcceptsNothing` | `Spec => NothingAcceptedOnceStopped` (action property) | `ServerImplProofs` |
| `MatcherTypeCorrect` | `Spec => []TypeOK` | `ResourceMatcherProofs` |
| `EnteredOnce` | `Spec => []RegisteredOnce` | `ResourceMatcherProofs` |
| `MatchesFit` | `Spec => []MatchedFits` | `ResourceMatcherProofs` |
| `BestMatchReturned` | `Spec => []BestIsReturned` | `ResourceMatcherProofs` |
| `ClearsAll` | `Spec => []ClearedChildrenFirst` | `ResourceMatcherProofs` |
| `GivenWhole` | `HelloSpec => []TextsGivenInParts` | `HelloProofs` |
| `PairsStayReadable` | `HelloSpec => []PairsReadBack` | `HelloProofs` |
| `ValuesKept` | `HelloSpec => []EveryValueIsThere` | `HelloProofs` |
| `MatcherUsed` | `HelloSpec => Matcher!Spec` (composition) | `HelloProofs` |
| `HelloTypeCorrect` | `HelloSpec => []HelloTypeOK` | `HelloProofs` |
| `AnswersOwed` | `HelloSpec => AnswersWhatIsAsked` (refinement) | `AnswerProofs` |
| `InOrder` | `Spec => []ArgumentsInOrder` | `DispatchProofs` |
| `WithinBounds` | `Spec => []ReadsWithinBounds` | `DispatchProofs` |
| `AsWritten` | `Spec => []IntegersAsWritten` | `DispatchProofs` |

### What the proofs assume

* `TokenAssumption`, `TrafficAssumption`, `ResourcesAssumption`: requests are
  requests, and no path of a server is served by two of its resources.
* `BasesAssumption`: there is a worker, and the widths are numbers.
  `ConnsAssumption`: connections are finitely many; only `DealtOutEvenly` counts
  them.
* `RoundRobinAssumption`: the number of workers divides the number of values of
  `int` and of `size_t` (4 divides 2^32 and 2^64).
* `LifeAssumption`: there is a worker, and the bounds on calls are numbers.
* `MatcherAssumption`: components are not the variable, templates and paths are
  sequences of components.
* `EqualsAssumption`, `HelloAssumption`: `=` is a letter, and the texts of
  requests are sequences of letters.
* `LettersAssumption`: letters are numbers, among them those of the example's
  templates and of "query", none of which is `=`; the variable of a template is no
  component, and what stands for no resource is no template.
* `LengthsAssumption`: no text is longer than `MaxLength`, whatever that is.
  `HelloTypeOK` says so of the text that is read, and the theorems on the matcher's
  use and on the answers rest on the same invariant; the three on how texts are read
  do without it. In the model `MaxLength` also bounds the number of parts a loop may be
  given.
* `DispatchAssumption`: handlers are sequences of kinds and path parameters texts;
  `T` has a bit at least, and no more than `long long`.

### Connections

`TypeOK` is inductive. The lemmas on what is sent (`RequestsType`), on the
builder (`OnTextType`, `BuildType`) and on the wire (`WireElements`,
`AfterCallbackElements`) say that elements, cuts and builds stay in their types;
`GetResponseType` needs that the resources found define the method.

`NoUseAfterFree` is inductive with it. Its three parts need each other: a queued
context is live, on its own worker and not yet reading (`TasksValid`), queued
once (`TasksDistinct`), and a stream with callbacks to make is that of a live
context (`CallbacksValid`). The reason a queued `startRead` cannot find its
context gone is that every release is a callback of a stream that reads or
writes, and one that is queued does neither (`ActiveNotQueued`).

`OrphansNeverBegan` is not: an orphan could be one whose responses were all
written. `OrphanInv` adds `ResponsesInFlight` (a live context's writes are
exactly what it handled, since the first to complete releases it) and
`BuilderUntouched` (a parser at the start that has dispatched nothing has a
builder as new).

`FirstRequestDispatchedAsSent` speaks of a request that is complete; in between
there are a builder half filled and a text half reported. `FirstRequestInv` says
what they have to do with each other: until something is dispatched there are
`p` and `s` such that the first `p` elements of the first request and `s` tokens
of the next have been reported, the builder holds what those make (`Built`: URL,
body, the headers before the last that began, and the pending one), and what is
unread begins with the rest (`AsSent`), as far as it is sound. Each callback
takes one prefix to the next (`TextCallback`, one lemma for each kind of text),
and the complete one to `Intended`. The headers in the builder are a map and
those of the request a sequence; that the map is the sequence's, for any number
of headers, is an equation between what the first `i` headers say and what the
first `i + 1` say, so it needs no induction.

`KeepsContract` needs, of the contract's guards, that no more requests are
dispatched than were sent and that nothing is delivered twice. `CountInv` is
why: the completions still unread and those dispatched number no more than the
requests sent (`AtMost`: the unread ones can be numbered in order), and whatever
was answered was answered on a context that is gone. `InitMaps` and `StepMaps`
are the two halves of the refinement, with one lemma for each kind of step; most
map to stuttering, and `Accept`, `Send`, `MessageComplete`, the write callbacks
and the releases to the contract's own actions. `FirstAsSent` supplies that the
outcome dispatched is the one owed.

`RoundRobin` is not inductive, since it does not say who is next. `DealtInTurn`
does: in the order in which the counter will come to the workers (`Turn`), loads
do not fall and differ by one at most. `NextBase` is the arithmetic: one more on
the counter is one more on the remainder, where `int` overflows too.

### The lifecycle

`StoppedIsStopped` speaks of calls that have returned, so its invariant
`LifeInv` speaks of the way there: `NotStarted` (before a start has returned
there is no thread to wait for), `TasksInv` (what the owner waits for is the
last task queued, and the loop's queue is empty from there to the end of the
call), `InstanceInv` (an instance outlives its listener, and its connections but
in one place), `ConnInv` (a connection that is going on has a base), `WorkersInv` (the
bases there are, before, while and after the server is started), `LoopInv` (who has told the listener's loop to stop, and who may
be where then), `ListenerInv` (nothing listens while the owner stops the bases,
nor after, unless it threw) and `ThreadInv` (workers are joined before `main_`).
They are inductive together with `TypeOK` and `EndsForAReason`, which needs
`ListenerInv` to rule out an accept without a base. `WorkersOfOneStart` is part of
`WorkersInv`: a failed start leaves bases behind, so the next one throws. `NothingAcceptedOnceStopped` is an
action property and follows from it, since what accepts is a listener. Nothing
in this depends on how many starts failed, how many threads wait or how many
admin servers were asked for.

### The matcher

Registration and search interleave, so an invariant on a search state must hold
while nodes are added. What makes it hold is `Grown`: a node stays, and so does
the resource at it.

`RegistryInv`: the trie is closed under prefixes and has a resource only at its
own template's node (`TrieInv`), `addResource` has come to a node of it
(`RegistrarInv`), and what is listed is what is entered (`ListedInv`).

`SearchInv`: a search state has met the first `n` components of the path, where
`n` depends on whether the round has come to it (`Met`); its node fits them and
its variables are the ones there (`Sound`), and a resource that was known when
the match was called and fits the path has a state on the way to it (`Follows`).
When all components are met, what is matched fits and nothing was missed. That
one of the variables of a child stands for the component just met is
`VariableStands`.

`ClearedInv` is about the stack of `clear`, the nodes it has deleted and those
that have forgotten their children, which are the visited ones and the deleted ones
(`Forgetful`). The head is at the bottom of the stack (`HeadBelow`), and the one
node that is popped and not deleted. No node is there twice (`EachOnce`), a visited node's children are above it or gone
(`ChildrenAbove`), those of a deleted node went before it (`ChildrenBefore`),
and only a visit puts a node on the stack (`ParentsVisited`). That *every* node
is deleted looks like an induction over the trie; `Reached` avoids it: of a node
not reached yet, some node above it waits. When the stack is empty none waits,
so all were reached.

`BestIsReturned` is about the sorted set. `compare` is not an order, so what the
set begins with depends on the order of insertion, and what can be said for every
order is only this: an element that comes before every other, and that none comes
before, is at the front wherever it is inserted. `First` follows the insertions by a
recursive function over the states; `BestComesFirst` is that statement about it, by
induction over their number. `PreferenceInv` carries it to the search, with
`SearchInv`: the states that are candidates stand for the resources that fit, with
as many variables and the same literals. "Preferred" has to ask that a resource is
worse by no criterion: a resource with more variables and longer literals than
another may still lose to it (section 6).

### Recursive functions

A recursive function is by definition some function that satisfies its equation, if
there is one. The library's theorem that there is takes operators as parameters,
which the prover cannot be given. `Induction` proves it for functions instead:
`Recursion` takes the values where a rank is 0, the step to all others, the
predecessor and the rank, each as a function, and `FoldRecursion` is its case for
the folds of the community modules, which take away the greatest of a set of
positions. Induction itself is by a least counterexample (`Least`, from the library's
theorem that the order of the numbers is well-founded), with a set in place of the
property.

### Texts and their parts

`PartsAt` is a fold over a text, and the loop has read it up to a position. So
`PartsLetterByLetter` unrolls the fold into what it has after each letter
(`IsReading`), and `GivenInv` says of the position between two parts that what
the loop has been given is what the fold has closed, and the part the iterator stands
at is the one the fold is in. `OthersStay` and `PartsStay`: no later letter
changes a part that is closed. `FindsEnd`: `find` stops where the fold closes the
part.

### Arguments and numbers

`Index` counts the path arguments before an argument, and `PathArgs` lists them in
order. `PathArgsByIndex` says that each is the inverse of the other: indices grow
with the places (`IndicesCount`), so the n-th is at least n from the front and at most
n from the back. `DispatchInv` says of each argument extracted so far that it is what
it ought to be, in whatever order that happens; `InOrder` and `WithinBounds` follow.

`AsWritten` is about what `std::stoll` reads. `NumberGrows` unrolls `NumberOf` by a
digit; `DecimalSteps` does the same for the digits of a number. `NumberOfPadded` and
`PaddedByNumber` say that a row of digits is zeros and the digits of its number, and
nothing else is; `StollReads` that blanks, sign and digits end in one place each;
`WrittenIsRead` and `ReadIsWritten` put the two together: a text is read to its end as
a number if and only if it writes it. `Narrowed` is the conversion to `T`.

### Parameters

A query or a form is read while two histories grow: the pairs the loop was given,
and the multimap. `CountsKept` says that they are in step, for all keys and
values at once and not just those there: as many values as pairs for each key,
and each value as often as its pair. An insertion moves the values behind it, by
which their places change and their number does not (`InsertCounts`, by a
bijection); so `EveryValueIsThere` holds wherever the multimap inserts.

`PairsReadBack` needs in addition that the iterator stays within its text
(`AtPosition`), so that what it yields is a text, and that the first equals sign is
the first (`Least`).

### Requests and their answers

`HelloServer` is put together from modules with theorems of their own, and the
proofs about it rest on those. `StepOfMatcher` shows each of its steps to be one of
the matcher's or none, so it implements `ResourceMatcher` (`MatcherUsed`); and
`MatcherKept` brings `RegistryInv` and `SearchInv` over from an instance of
`ResourceMatcherProofs`. What that takes is `UsedInv`: resources are registered in
their order, no registration goes on while a request is served (`RegistrationInv`), a
search goes on only at its stage (`SearchStage`), and texts have been given up to
where their iterator is (`GivenInv`), so what is added is the template its text
spells.

The templates are computed from the texts that are registered. `PartsOfPaths` reads
them letter by letter, with `PartsLetterByLetter`, and `TemplatesSpelled` says what is
a variable in each. `HandlersFit` compares each handler's arguments with its template,
and `EnoughParameters` is that a match has a parameter for each variable. So of the ways
an extraction may end (section 6 has a handler that reads beyond its parameters) only
one is possible here, which is the part of `HelloTypeOK` on `outcome`.

`AnswersOwed` is the refinement: `Ask`, what responds, and `Written` are the three
actions of `Exchange`, and all other steps leave the request and the response as
they are. That what is answered is owed takes `AskedInv`. `RequestInv`: a request is
there at its stages, after all resources are registered. `UriInv`: the text that is
read is the one of that stage, and what was read of query and form has a
value for "query" that is written there; `FirstIsWritten` gets that from the theorems on
parameters, by way of `KeyOfPart`. `PathInv`: the path looked for is the request's, and
all resources are known to the search. `ArgsInv`: an argument that has been extracted
is the parameter by its index. `ResourceOfPath` closes the circle: a resource's
template fits a path if and only if its number is the one `ResourceFor` reads off the
path. So at most one fits, the one matched is the one that is owed, and where none is
matched there is none.

### Only model-checked

* Everything under fairness: `ServedIsReleased`, `BrokenOffIsReleased`,
  `HalfCloseIsAnswered`, `CallsReturn` and `EveryRequestIsAnswered`. The prover has
  neither fairness nor ENABLED.
* What the runs with a violation show.


## 5. What is assumed of what is external

* http-parser, built by its own `make package`
  (`cmake/External_http-parser.cmake:4`), which is non-strict: reports each part of a
  request in wire order, in pieces as the extents are cut; returns to its
  start state after a message and accepts another; `http_parser_execute` with
  no bytes fails exactly in the middle of a message; stops when a callback
  returns non-zero. Chunked bodies and upgrades are left out.
* what-the-event: tasks of a loop run in order; deleting a stream cancels its
  callbacks; a write completes in a later turn; end of file is reported once.
  A loop that has been stopped and left runs nothing. Deleting a base under its
  thread ends the thread, or the process: both are possible in the model.
* `std::thread::join` on a thread that is not joinable throws; two at a time are
  undefined, modelled as: the second throws or waits as well.


## 6. Further disagreements, without a run

* `startAdminServer` after `stopAndWait` does not throw (`include/server.h:96`
  says what it throws; `src/server.cc:143`): `stopAndWait` resets
  `admin_server_` (`server.cc:175`), and the start that is queued never runs.
  `ServerImpl` has these behaviours.
* `wait` before `start` returns at once (`server.cc:154`), though it "will not return
  until the server has been stopped" (`include/server.h:80-82`).
* The admin server is deleted on the listener's loop while workers may serve
  its connections, whose contexts refer to it (`server.cc:174`). The model
  leaves open what comes of that (`ServeDangling`); `OnlyAdminDangles` says that it
  can only happen to the admin server's connections, and only until the bases
  are stopped.
* A client that closes without a request leaves its context behind for ever
  (`server_instance.cc:103`; the comment at line 78 says "Released on error or
  completion"). `OrphansNeverBegan` says that this is the only way.
* A handler with an `IntParam` before another argument does not compile:
  `NextIndex<IntParam<T>>::next` is private (`tuple_util.h:111-117`), though
  `README.md:106-107` says that header parameters can be combined with all
  other types of parameters. A handler with
  more path arguments than its template has variables compiles, and reads
  beyond the parameters (`tuple_util.h:78`).
* A failed bind leaves workers and a listener behind; the retry throws, and
  the destructor, with `started_` false, joins nobody (`server.cc:118-131`).
* The second criterion the comment names is not kept either: with `V` for a
  variable, `V V AAA` has more variables and longer literals than `A B V`, which may be
  returned all the same, since its literals are lexicographically greater and `compare`
  goes on to them (`resource_matcher.cc:208-214`).
* `IntParam` narrows without a check (`parameter.h:66`).
* A resource whose template is empty can be registered and is never matched.


## 7. What is not modelled

* The letter of responses and logs: reason phrases, `Content-Length` and the
  other headers (`response.cc:48-63` and 80-87) are formatting.
* What ccmetrics serialises for `/metrics`, and the timers: an external registry.
* The conversion of argument types by reference and const (`tuple_util.h`, `MRR`
  and `BaseType`): the compiler's matter.
* The check of the address in `Server`'s constructor (`server.cc:45-48` and
  196-199), and `listenErrorCb`, which only logs.
* Timeouts and limits on sizes: the code has none.
* TLS, which only the Python test tool mentions; tests and build files.


## 8. Plan

Built so far, in this order: `HttpParser`, `RequestBuilder`, `ServerInstance`
with its contract and first proofs (the heart of the system); `ServerImpl`;
`ResourceMatcher`; `PathComponents` and `QueryString`; `Dispatch`; then registration
while workers match, `Parameters`, `Response`, and `HelloServer`, which composes
them and implements `Exchange`; then the proofs about `ServerInstance`, `ServerImpl`,
`ResourceMatcher`, `Dispatch`, the reading of texts and the answers to requests of
section 4.

The model covers what the code does to its state. Every safety invariant, action
property and refinement a passing run checks is proved; liveness is model-checked.
What could come next:

1. `HelloServer` and `ServerInstance` meet at `GetResponse`, which the one spells out
   and the other takes from the constant `Resources`. A module that composes the two
   would carry a request from bytes to response in one specification.
2. The theorems on how texts are read need no bound on lengths; a model of the loops
   without `MaxLength`, for proofs only, would free the others of it too.

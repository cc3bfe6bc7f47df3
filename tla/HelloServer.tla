---------------------------- MODULE HelloServer ----------------------------
(***************************************************************************)
(* A request from its texts to its response, through all that get_response *)
(* (src/src/server_instance.h) puts together: parameters are read from the *)
(* query and the form, the path is split and matched with the resources    *)
(* that were registered, and the handler is dispatched with what the       *)
(* matcher found and with what was read.                                   *)
(*                                                                         *)
(* The resources are those of the example (src/example/hello_server.cc)    *)
(* and, on a server of their own, those of the admin server                *)
(* (src/src/server.cc).  Their names are shortened: "details" is d, "get"  *)
(* is g, "post" and "ping" are p, "metrics" is m, and the parameter        *)
(* "query" is q.  Characters are their codes.                              *)
(*                                                                         *)
(* Here one thread registers, and then one worker serves.  What goes on    *)
(* between threads is ServerInstance's and ResourceMatcher's.              *)
(***************************************************************************)
EXTENDS Parameters, Response

CONSTANTS
  Variable, NoResource,  \* of ResourceMatcher
  Asked                  \* the requests clients may send, by server

Slash == 47   LBrace == 123   RBrace == 125
D == <<100>>  G == <<103>>  P == <<112>>  M == <<109>>  Q == <<113>>

SupportedMethod == {"GET", "PUT", "POST", "DELETE"}
Method == SupportedMethod \cup {"HEAD"}
Server == {"hello", "admin"}

ASSUME HelloAssumption ==
  Asked \subseteq [server : Server, method : Method, path : Seq(Letter), query : Seq(Letter),
                   body : Seq(Letter)]

VARIABLES
  server,      \* which server this is
  trie, bound, resources, registrar, search,   \* of ResourceMatcher
  args, outcome,                               \* of Dispatch
  stage,       \* how far main, or the worker with a request, has got
  request,     \* the request that is served, if one is
  uri,         \* its QueryParams and PostParams
  response     \* the text of its response, once there is one

reading == <<text, psep, nsep, parts, pairs, params>>
matcher == <<trie, bound, resources, registrar, search>>
calling == <<args, outcome>>
exchange == <<request, uri, response>>
helloVars == <<server, reading, matcher, calling, stage, exchange>>

-----------------------------------------------------------------------------
(***************************************************************************)
(* The resources, in the order in which main and AdminServer register      *)
(* them: a template, and for each method that is overridden the arguments  *)
(* it takes and the type of what it returns.                               *)
(***************************************************************************)
Takes(method, kinds) == [m \in {method} |-> kinds]

User == <<Slash, LBrace, 117, RBrace>>

HelloResource == [path |-> <<Slash>>, on |-> Takes("GET", <<>>), type |-> "TEXT_PLAIN"]

HelloParamResource ==
  [path |-> User, on |-> Takes("GET", <<"string">>), type |-> "TEXT_PLAIN"]

HelloDoubleParamResource ==
  [path |-> User \o User,
   on |-> [m \in {"GET", "PUT"} |-> IF m = "GET" THEN <<"string", "string">>
                                    ELSE <<"string", "string", "entity">>],
   type |-> "TEXT_PLAIN"]

HelloQueryParamResource ==
  [path |-> User \o <<Slash>> \o D \o <<Slash>> \o G,
   on |-> Takes("GET", <<"string", "query">>), type |-> "TEXT_PLAIN"]

HelloPostParamResource ==
  [path |-> User \o <<Slash>> \o D \o <<Slash>> \o P,
   on |-> Takes("POST", <<"string", "post">>), type |-> "TEXT_PLAIN"]

PingResource == [path |-> <<Slash>> \o P, on |-> Takes("GET", <<>>), type |-> "TEXT_PLAIN"]

MetricsResource ==
  [path |-> <<Slash>> \o M, on |-> Takes("GET", <<>>), type |-> "APPLICATION_JSON"]

\* Registered by main.
HelloResources ==
  <<HelloResource, HelloParamResource, HelloDoubleParamResource, HelloQueryParamResource,
    HelloPostParamResource>>

\* Registered by the constructor of AdminServer.
AdminResources == <<PingResource, MetricsResource>>

ResourcesOf(s) == IF s = "hello" THEN HelloResources ELSE AdminResources

Registered == ResourcesOf(server)

IsVariable(component) ==
  /\ Len(component) >= 2
  /\ component[1] = LBrace
  /\ Last(component) = RBrace

Template(components) ==
  [i \in DOMAIN components |-> IF IsVariable(components[i]) THEN Variable ELSE components[i]]

\* The letters of their paths are letters, and what is not a component is none.
ASSUME LettersAssumption ==
  /\ Letter \subseteq Nat
  /\ {Slash, LBrace, RBrace, 100, 103, 109, 112, 113, 117} \subseteq Letter
  /\ Equals # 113
  /\ Variable \notin Seq(Letter)
  /\ NoResource \notin Seq(Seq(Letter) \cup {Variable})

\* No text is longer than the bound.
ASSUME LengthsAssumption ==
  /\ \A r \in Asked : \A t \in {r.path, r.query, r.body} : Len(t) <= MaxLength
  /\ \A s \in Server : \A n \in DOMAIN ResourcesOf(s) : Len(ResourcesOf(s)[n].path) <= MaxLength

-----------------------------------------------------------------------------
(***************************************************************************)
(* The components.                                                         *)
(***************************************************************************)
Path == INSTANCE PathComponents WITH Delimiters <- {Slash}

Component == Seq(Letter)

Matcher ==
  INSTANCE ResourceMatcher WITH
    Templates <- UNION {{Template(PartsAt({Slash}, ResourcesOf(s)[n].path)) :
                           n \in DOMAIN ResourcesOf(s)} : s \in Server},
    Paths <- Seq(Component),
    MaxResources <- Max({Len(ResourcesOf(s)) : s \in Server}),
    clearing <- [stack |-> <<>>, forgotten |-> {}, deleted |-> <<>>]

\* The resource the matcher found, and what the method asked for takes: a
\* method that is not overridden is that of Resource, and takes nothing.
Found == Registered[CHOOSE n \in DOMAIN resources : resources[n] = search.resource]
Overridden == request[1].method \in DOMAIN Found.on
Handler == IF Overridden THEN Found.on[request[1].method] ELSE <<>>

Call ==
  INSTANCE Dispatch WITH
    Calls <- {}, LongLongBits <- 64, IntBits <- 32,
    handler <- Handler, params <- search.parameters

-----------------------------------------------------------------------------
NoUri == [query |-> NoParams, post |-> NoParams]

\* A text is about to be iterated over.
Iterate(t) ==
  /\ text' = t /\ psep' = Npos /\ nsep' = 0
  /\ parts' = <<>> /\ pairs' = <<>> /\ params' = NoParams

HelloInit ==
  /\ server \in Server
  /\ text = <<>> /\ psep = Npos /\ nsep = 0 /\ parts = <<>> /\ pairs = <<>> /\ params = NoParams
  /\ Matcher!Init
  /\ args = <<>> /\ outcome = "compiling"
  /\ stage = "main"
  /\ request = <<>> /\ uri = NoUri /\ response = <<>>

(***************************************************************************)
(* Registration.                                                           *)
(***************************************************************************)
RegisterResource ==
  /\ stage = "main"
  /\ Len(resources) < Len(Registered)
  /\ Iterate(Registered[Len(resources) + 1].path)
  /\ stage' = "template"
  /\ UNCHANGED <<server, matcher, calling, exchange>>

\* The loops over the components of a template, and of the path of a request.
SplitPath ==
  /\ stage \in {"template", "path"}
  /\ Path!Next
  /\ UNCHANGED <<server, pairs, params, matcher, calling, stage, exchange>>

AddResource ==
  /\ stage = "template" /\ Path!AtEnd
  /\ Matcher!AddResource(Template(parts))
  /\ stage' = "adding"
  /\ UNCHANGED <<server, reading, calling, exchange>>

EnterResource ==
  /\ stage = "adding"
  /\ Matcher!Adding
  /\ stage' = IF registrar'.phase = "idle" THEN "main" ELSE "adding"
  /\ UNCHANGED <<server, reading, calling, exchange>>

(***************************************************************************)
(* A request, built from its texts: build.                                 *)
(***************************************************************************)
Ask ==
  /\ stage = "main"
  /\ Len(resources) = Len(Registered)
  /\ \E r \in Asked : r.server = server /\ request' = <<r>> /\ Iterate(r.query)
  /\ stage' = "query"
  /\ UNCHANGED <<server, matcher, calling, uri, response>>

ReadParameters ==
  /\ stage \in {"query", "post"}
  /\ ParamsNext
  /\ UNCHANGED <<server, matcher, calling, stage, exchange>>

Supported == request[1].method \in SupportedMethod

\* The body of a POST is read like a query.
QueryRead ==
  /\ stage = "query" /\ AtEnd /\ Supported
  /\ uri' = [uri EXCEPT !.query = params]
  /\ IF request[1].method = "POST" THEN Iterate(request[1].body) /\ stage' = "post"
     ELSE Iterate(request[1].path) /\ stage' = "path"
  /\ UNCHANGED <<server, matcher, calling, request, response>>

FormRead ==
  /\ stage = "post" /\ AtEnd
  /\ uri' = [uri EXCEPT !.post = params]
  /\ Iterate(request[1].path)
  /\ stage' = "path"
  /\ UNCHANGED <<server, matcher, calling, request, response>>

Respond(r) ==
  /\ response' = <<ToText(r)>>
  /\ stage' = "answered"
  /\ UNCHANGED <<server, reading, matcher, calling, request, uri>>

\* The response of get_response to an exception.
Caught == Response("INTERNAL_ERROR", "TEXT_PLAIN", [said |-> "what", values |-> <<>>])

\* convertMethod throws.
BuildThrows == stage = "query" /\ AtEnd /\ ~Supported /\ Respond(Caught)

(***************************************************************************)
(* match and dispatch.                                                     *)
(***************************************************************************)
Match ==
  /\ stage = "path" /\ Path!AtEnd
  /\ Matcher!Match(parts)
  /\ stage' = "matching"
  /\ UNCHANGED <<server, reading, calling, exchange>>

Search ==
  /\ stage = "matching"
  /\ Matcher!Looking
  /\ UNCHANGED <<server, reading, calling, stage, exchange>>

Unmatched == stage = "matching" /\ search.phase = "unmatched" /\ Respond(NotFound)

DispatchBegin ==
  /\ stage = "matching" /\ search.phase = "matched"
  /\ stage' = "dispatching"
  /\ UNCHANGED <<server, reading, matcher, calling, exchange>>

Extract ==
  /\ stage = "dispatching"
  /\ UNCHANGED <<server, reading, matcher, stage, exchange>>
  /\ Call!Next

\* What a handler makes of an argument: of parameters, the first value of
\* "query", if there is one.
FrontOrEmpty(values) == IF values = <<>> THEN <<>> ELSE values[1]

ValueOf(i) ==
  CASE Handler[i] = "string" -> args[i][1]
    [] Handler[i] = "entity" -> request[1].body
    [] Handler[i] = "query" -> FrontOrEmpty(Get(uri.query, Q))
    [] Handler[i] = "post" -> FrontOrEmpty(Get(uri.post, Q))

\* What a handler says is a fixed text of its own with its arguments' values.
HandlerReturns ==
  /\ stage = "dispatching" /\ outcome = "invoked"
  /\ Respond(IF Overridden
             THEN Response("OK", Found.type, [said |-> Found.path,
                                              values |-> [i \in DOMAIN Handler |-> ValueOf(i)]])
             ELSE NotAllowed)

\* The response is written, and nothing of the request is kept.
Written ==
  /\ stage = "answered"
  /\ stage' = "main"
  /\ request' = <<>> /\ uri' = NoUri /\ response' = <<>>
  /\ Iterate(<<>>)
  /\ search' = Matcher!NotMatching
  /\ args' = <<>> /\ outcome' = "compiling"
  /\ UNCHANGED <<server, trie, bound, resources, registrar>>

Register == RegisterResource \/ AddResource \/ EnterResource

Serve ==
  \/ ReadParameters \/ QueryRead \/ FormRead \/ BuildThrows
  \/ Match \/ Search \/ Unmatched
  \/ DispatchBegin \/ Extract \/ HandlerReturns

HelloNext ==
  \/ Register \/ SplitPath \/ Ask \/ Serve \/ Written

\* Nothing blocks the thread a request is served on, or its write.
HelloSpec ==
  /\ HelloInit /\ [][HelloNext]_helloVars
  /\ WF_helloVars(SplitPath \/ Serve)

-----------------------------------------------------------------------------
(***************************************************************************)
(* What a request ought to be answered, said of its texts alone.           *)
(***************************************************************************)

\* The resource for a path, by its number, or 0.
ResourceFor(s, components) ==
  LET n == Len(components)
      Ends(last) == n = 4 /\ components[3] = D /\ components[4] = last
      Is(name) == n = 2 /\ components[2] = name
  IN  IF n = 0 \/ components[1] # <<>> THEN 0
      ELSE IF s = "admin" THEN IF Is(P) THEN 1 ELSE IF Is(M) THEN 2 ELSE 0
      ELSE IF n <= 3 THEN n ELSE IF Ends(G) THEN 4 ELSE IF Ends(P) THEN 5 ELSE 0

\* The values a text has for "query", or an empty one.
Values(t) ==
  LET written == {part \in ToSet(PartsAt(Delimiters, t)) :
                    part = Q \/ IsPrefix(Q \o <<Equals>>, part)}
  IN  IF written = {} THEN {<<>>} ELSE {SubSeq(part, Len(Q) + 2, Len(part)) : part \in written}

Ok(type, said, values) ==
  [status |-> 200, type |-> type, body |-> [said |-> said, values |-> values]]

Fails(status) == [status |-> status, type |-> "text/plain", body |-> NoContent]

Owed(r) ==
  LET components == PartsAt({Slash}, r.path)
      n == ResourceFor(r.server, components)
      path == ResourcesOf(r.server)[n].path
      user == components[2]
      asks(number, method) == n = number /\ r.method = method
  IN  CASE r.method \notin SupportedMethod ->
             {[Fails(500) EXCEPT !.body.said = "what"]}
        [] r.method \in SupportedMethod /\ n = 0 -> {Fails(404)}
        [] r.server = "admin" /\ asks(1, "GET") -> {Ok("text/plain", path, <<>>)}
        [] r.server = "admin" /\ asks(2, "GET") -> {Ok("application/json", path, <<>>)}
        [] r.server = "hello" /\ asks(1, "GET") -> {Ok("text/plain", path, <<>>)}
        [] r.server = "hello" /\ asks(2, "GET") -> {Ok("text/plain", path, <<user>>)}
        [] r.server = "hello" /\ asks(3, "GET") ->
             {Ok("text/plain", path, <<user, components[3]>>)}
        [] r.server = "hello" /\ asks(3, "PUT") ->
             {Ok("text/plain", path, <<user, components[3], r.body>>)}
        [] r.server = "hello" /\ asks(4, "GET") ->
             {Ok("text/plain", path, <<user, value>>) : value \in Values(r.query)}
        [] r.server = "hello" /\ asks(5, "POST") ->
             {Ok("text/plain", path, <<user, value>>) : value \in Values(r.body)}
        [] OTHER -> {Fails(405)}

(***************************************************************************)
(* Properties                                                              *)
(***************************************************************************)
HelloTypeOK ==
  /\ TypeOK
  /\ Matcher!TypeOK
  /\ request \in Seq(Asked) /\ Len(request) <= 1
  /\ outcome \in {"compiling", "extracting", "invoked"}
  /\ stage \in {"main", "template", "adding", "query", "post", "path", "matching",
                "dispatching", "answered"}

\* Every text is given to its loop part by part, all of it, whether it is the
\* path of a template or of a request, a query or a form
\* (path_components.h:39-42 and 62-81, query_string.h:62-81).
TextsGivenInParts ==
  /\ stage \in {"query", "post"} => GivenItsParts
  /\ stage \in {"template", "path"} => Path!GivenItsParts

\* A query or a form is given to its loop as pairs its parts can be read back
\* from (query_string.h:35-40 and 96-105).
PairsReadBack == stage \in {"query", "post"} => PairsAreParts

\* A request in, a response out: the one it is owed, and always one.
Service == INSTANCE Exchange WITH Requests <- Asked

\* What a client is answered is what its texts call for, whatever they are,
\* though it goes through two iterators, a multimap, the trie, the indices of
\* the arguments and the codes of responses (server_instance.h:126-179).
AnswersWhatIsAsked == Service!Safety

\* Every request is answered: no text keeps a loop, the search or the extraction
\* from its end (server_instance.h:145-167).
EveryRequestIsAnswered == Service!Answered
=============================================================================

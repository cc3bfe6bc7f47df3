-------------------------- MODULE MCServerInstance --------------------------
(***************************************************************************)
(* Small instances of ServerInstance for TLC.  The requests are chosen for *)
(* what the code tells apart: texts of one and two tokens (a text of two   *)
(* may be cut), no, one, two and repeated headers, a query, a form, a path *)
(* nobody serves, a handler that throws, and what cannot be built.         *)
(***************************************************************************)
EXTENDS ServerInstance, TLC

MCToken == {Root, QueryMark, Authority, BadAuthority, "a", "b", "n", "v", "w"}

Headers1 == <<[name |-> <<"n">>, value |-> <<"v", "w">>]>>
Headers2 == <<[name |-> <<"n", "a">>, value |-> <<"v">>],
              [name |-> <<"b">>, value |-> <<>>]>>
Headers3 == <<[name |-> <<"n">>, value |-> <<"v">>],
              [name |-> <<"n">>, value |-> <<"w">>],
              [name |-> <<"b">>, value |-> <<"v">>]>>

Ask(method, path, query, headers, body) ==
  [method |-> method, authority |-> "none", path |-> path, query |-> query,
   headers |-> headers, body |-> body]

GetA == Ask("GET", <<Root, "a">>, <<>>, <<>>, <<>>)
GetB == Ask("GET", <<Root, "b">>, <<"v">>, Headers2, <<>>)
GetRepeated == Ask("GET", <<Root, "b">>, <<>>, Headers3, <<>>)
GetNowhere == Ask("GET", <<Root, "a", "b">>, <<>>, Headers1, <<>>)
GetRoot == [Ask("GET", <<>>, <<>>, <<>>, <<>>) EXCEPT !.authority = "good"]
GetBad == [GetA EXCEPT !.authority = "bad"]
PostA == Ask("POST", <<Root, "a">>, <<"v", QueryMark>>, Headers1, <<"v", "w">>)
PutB == Ask("PUT", <<Root, "b">>, <<>>, <<>>, <<"w">>)
DeleteA == Ask("DELETE", <<Root, "a">>, <<>>, <<>>, <<>>)
HeadA == Ask("HEAD", <<Root, "a">>, <<>>, <<>>, <<>>)

\* A resource for /a of which GET and POST are defined, one for /b whose PUT
\* throws, one for / and one for what is below /a.
Handlers(get, post, put) ==
  [m \in SupportedMethod |->
     CASE m = "GET" -> get [] m = "POST" -> post [] m = "PUT" -> put
       [] m = "DELETE" -> "NOT_ALLOWED"]

AllResources ==
  {[server |-> "app", serves |-> {<<Root, "a">>}, on |-> Handlers("OK", "CREATED", "NOT_ALLOWED")],
   [server |-> "app", serves |-> {<<Root, "b">>}, on |-> Handlers("OK", "NOT_ALLOWED", "throws")],
   [server |-> "app", serves |-> {<<Root>>}, on |-> Handlers("FORBIDDEN", "OK", "OK")],
   [server |-> "app", serves |-> {<<Root, "a", Root, "a">>, <<Root, "a", Root, "b">>},
    on |-> Handlers("OK", "CREATED", "OK")],
   [server |-> "admin", serves |-> {<<Root, "a">>}, on |-> Handlers("FORBIDDEN", "OK", "OK")]}

MCResources == {x \in AllResources : x.server \in Instances}

\* Every kind of request by itself, any two of a few in a row, and nothing.
EachRequest ==
  {<<GetA>>, <<GetB>>, <<GetRepeated>>, <<GetNowhere>>, <<GetRoot>>, <<GetBad>>, <<PostA>>,
   <<PutB>>, <<DeleteA>>, <<HeadA>>}
InARow == {<<r, s>> : r \in {GetB, PutB}, s \in {GetA, GetB}}
EachAndInARow == EachRequest \cup InARow
Silence == {<<>>}

ConnSymmetry == Permutations(Conns)
=============================================================================

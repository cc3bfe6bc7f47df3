--------------------------- MODULE RequestBuilder ---------------------------
(***************************************************************************)
(* RequestBuilder: the state http-parser's callbacks accumulate for one    *)
(* connection, and the immutable Request built from it when a message is   *)
(* complete.  One operator per callback, from builder to builder.          *)
(***************************************************************************)
EXTENDS HttpParser, FiniteSets

\* The builder's members.  The std::unordered_map of completed headers is a
\* set of headers with at most one value for each name.
Builder == [hstate : {"INIT", "VALUE", "FIELD"}, hname : Text, hvalue : Text,
            url : Text, body : Text, headers : SUBSET Header]

NewBuilder == [hstate |-> "INIT", hname |-> <<>>, hvalue |-> <<>>,
               url |-> <<>>, body |-> <<>>, headers |-> {}]

OnUrl(b, text) == [b EXCEPT !.url = @ \o text]

\* headers[name] = value
Store(headers, name, value) ==
  {h \in headers : h.name # name} \cup {[name |-> name, value |-> value]}

\* What get of HeaderParams gives a handler: nothing, for a header that is not
\* there.
HeaderGet(headers, name) ==
  IF \E h \in headers : h.name = name
  THEN (CHOOSE h \in headers : h.name = name).value
  ELSE <<>>

\* (Mutant of OnHeaderField: the buffer of the value is not cleared.)
OnHeaderFieldKeepsValue(b, text) ==
  IF b.hstate = "VALUE"
  THEN [b EXCEPT !.hstate = "FIELD", !.hname = text,
                 !.headers = Store(@, b.hname, b.hvalue)]
  ELSE [b EXCEPT !.hstate = "FIELD", !.hname = @ \o text]

(***************************************************************************)
(* A field after a value starts a new header: the finished one is stored.  *)
(***************************************************************************)
OnHeaderField(b, text) ==
  IF b.hstate = "VALUE"
  THEN [b EXCEPT !.hstate = "FIELD", !.hname = text, !.hvalue = <<>>,
                 !.headers = Store(@, b.hname, b.hvalue)]
  ELSE [b EXCEPT !.hstate = "FIELD", !.hname = @ \o text]

\* on_header_value returns 1, which makes the parser stop.
ValueRefused(b) == b.hstate = "INIT"

OnHeaderValue(b, text) == [b EXCEPT !.hstate = "VALUE", !.hvalue = @ \o text]

OnBody(b, text) == [b EXCEPT !.body = @ \o text]

OnText(b, kind, text) ==
  CASE kind = "url" -> OnUrl(b, text)
    [] kind = "field" -> OnHeaderField(b, text)
    [] kind = "value" -> OnHeaderValue(b, text)
    [] kind = "body" -> OnBody(b, text)

-----------------------------------------------------------------------------
(***************************************************************************)
(* Build.  A URL is an optional authority, a path up to the first question *)
(* mark and a query after it.  Query and form parameters are left as the   *)
(* text they are parsed from.                                              *)
(***************************************************************************)
Request == [method : SupportedMethod, path : Text, query : Text, post : Text,
            body : Text, headers : SUBSET Header]

StartsWith(url, token) == url # <<>> /\ url[1] = token

AfterAuthority(url) == IF StartsWith(url, Authority) THEN Tail(url) ELSE url

\* How many tokens have no question mark at or before them.
PathLength(s) == Cardinality({i \in 1..Len(s) : \A j \in 1..i : s[j] # QueryMark})

PathOf(url) ==
  LET s == AfterAuthority(url)
      path == SubSeq(s, 1, PathLength(s))
  IN  IF path = <<>> THEN <<Root>> ELSE path

QueryOf(url) ==
  LET s == AfterAuthority(url) IN SubSeq(s, PathLength(s) + 2, Len(s))

\* convertMethod throws, or http_parser_parse_url refuses the URL.
BuildThrows(b, method) ==
  \/ StartsWith(b.url, BadAuthority)
  \/ method \notin SupportedMethod

Build(b, method) ==
  [method |-> method,
   path |-> PathOf(b.url),
   query |-> QueryOf(b.url),
   post |-> IF method = "POST" THEN b.body ELSE <<>>,
   body |-> b.body,
   headers |-> b.headers]
=============================================================================

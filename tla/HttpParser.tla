----------------------------- MODULE HttpParser -----------------------------
(***************************************************************************)
(* http-parser, as topper sees it: the callbacks it makes while a request  *)
(* is fed to it.  The parser is a third-party library (an empty submodule  *)
(* of the repository), so everything here is external: it is what          *)
(* src/src/server_instance.h installs callbacks for and what               *)
(* src/src/request_builder.h relies on.                                    *)
(*                                                                         *)
(* Text is a sequence of tokens: a token is a piece of text the server     *)
(* does not look inside.  A request travels as a sequence of elements, one *)
(* per thing the parser reports.  Bytes arrive in extents of any size, so  *)
(* the text of one element may be reported by several callbacks.           *)
(***************************************************************************)
EXTENDS Integers, Sequences

CONSTANT Token  \* the pieces of text that URLs, headers and bodies consist of

Root == "/"
QueryMark == "?"
Authority == "http://host"            \* of an absolute-form request target
BadAuthority == "http://host:port"    \* one http_parser_parse_url refuses

ASSUME TokenAssumption == {Root, QueryMark, Authority, BadAuthority} \subseteq Token

Text == Seq(Token)

SupportedMethod == {"DELETE", "GET", "POST", "PUT"}
Method == SupportedMethod \cup {"HEAD"}   \* HEAD: any method topper refuses

Header == [name : Text, value : Text]

\* The path of a request target is over where its query begins, and begins where
\* its authority is over.
PathText == {path \in Text : \A i \in DOMAIN path :
                              path[i] \notin {QueryMark, Authority, BadAuthority}}

(***************************************************************************)
(* What a client means to ask for.                                         *)
(***************************************************************************)
WireRequest == [method : Method, authority : {"none", "good", "bad"}, path : PathText,
                query : Text, headers : Seq(Header), body : Text]

(***************************************************************************)
(* Elements: "begin" is the part of the request line before its target     *)
(* (no callback), "bad" is anything http_parser_execute stops at.          *)
(***************************************************************************)
TextKind == {"url", "field", "value", "body"}
Element == [kind : TextKind \cup {"begin", "complete", "bad"},
            data : Text, method : Method \cup {"none"}]

Piece(kind, text) == [kind |-> kind, data |-> text, method |-> "none"]
Begin == Piece("begin", <<>>)
Bad == Piece("bad", <<>>)
Complete(method) == [kind |-> "complete", data |-> <<>>, method |-> method]

(***************************************************************************)
(* The request target and the elements of a request, in wire order.        *)
(***************************************************************************)
Target(r) ==
  (CASE r.authority = "none" -> <<>>
     [] r.authority = "good" -> <<Authority>>
     [] r.authority = "bad" -> <<BadAuthority>>)
  \o r.path
  \o (IF r.query = <<>> THEN <<>> ELSE <<QueryMark>> \o r.query)

HeaderPieces(hs) ==
  [i \in 1..(2 * Len(hs)) |->
     IF i % 2 = 1 THEN Piece("field", hs[(i + 1) \div 2].name)
                  ELSE Piece("value", hs[i \div 2].value)]

Wire(r) ==
  <<Begin, Piece("url", Target(r))>>
  \o HeaderPieces(r.headers)
  \o (IF r.body = <<>> THEN <<>> ELSE <<Piece("body", r.body)>>)
  \o <<Complete(r.method)>>

(***************************************************************************)
(* The ways the parser reports the text of an element: `size` tokens in    *)
(* this callback, `last` when the element is over with it.  An extent that *)
(* ends exactly where the text ends is followed by an empty callback, and  *)
(* an empty header value is reported by one.                               *)
(***************************************************************************)
Callbacks(e) ==
  {k \in [size : 0..Len(e.data), last : BOOLEAN] :
     /\ k.size = 0 => e.data = <<>> /\ k.last
     /\ k.last => k.size = Len(e.data)}

Reported(e, k) == SubSeq(e.data, 1, k.size)

\* The elements still to be parsed after callback k for the first of them.
AfterCallback(elements, k) ==
  IF k.last THEN Tail(elements)
  ELSE [elements EXCEPT ![1].data = SubSeq(@, k.size + 1, Len(@))]

\* http_parser_execute with no bytes, which tells the parser of the end of
\* the stream, fails exactly in the middle of a message.
EofRefused(parser) == parser = "mid"

ParserState == {"start", "mid"}
=============================================================================

--------------------------- MODULE MCHelloServer ---------------------------
(***************************************************************************)
(* A small instance of HelloServer for TLC: each method with every path of *)
(* up to four characters after the first slash and those that are longer   *)
(* and mean something; every query and every form of up to five characters *)
(* for the handlers that read them.                                        *)
(***************************************************************************)
EXTENDS HelloServer

Ampersand == 38   Semicolon == 59   EqualsSign == 61   Star == 42

Strings(chars, n) == UNION {[1..k -> chars] : k \in 0..n}

Asks(s, methods, paths, queries, bodies) ==
  [server : {s}, method : methods, path : {<<Slash>> \o p : p \in paths},
   query : queries, body : bodies]

\* g=p, and q=d.
AQuery == G \o <<EqualsSign>> \o P
AForm == Q \o <<EqualsSign>> \o D

\* x/d/g and x/d/p, by themselves and with more.
Details(last) == {user \o <<Slash>> \o D \o <<Slash>> \o last \o more :
                    user \in {<<>>, P, G \o G}, more \in {<<>>, <<Slash>>, P, <<Slash>> \o D}}

\* What the parser takes for a path as well.
Starred == {<<Star>>, <<Star, Slash, 112>>, <<Star, Slash, 112, Slash, 100, Slash, 103>>}

ShortPaths == Strings({Slash, 100, 103, 112}, 4)
Texts == Strings({Ampersand, Semicolon, EqualsSign, 113, 100}, 5)

MCAsked ==
  Asks("hello", Method, ShortPaths \cup Details(G) \cup Details(P), {AQuery}, {AForm})
    \cup Asks("hello", {"GET"}, {P \o <<Slash>> \o D \o <<Slash>> \o G}, Texts, {AForm})
    \cup Asks("hello", {"POST"}, {P \o <<Slash>> \o D \o <<Slash>> \o P}, {<<>>}, Texts)
    \cup [server : Server, method : Method, path : Starred, query : {<<>>}, body : {<<>>}]
    \cup Asks("admin", Method, {<<>>, P, M, D, M \o P, P \o <<Slash>>, P \o <<Slash>> \o M},
              {<<>>}, {<<>>})

MCLetter == {Slash, LBrace, RBrace, 117, 100, 103, 112, 109, 113, Ampersand, Semicolon, EqualsSign,
             Star}
MCDelimiters == {Ampersand, Semicolon}
=============================================================================

----------------------------- MODULE MCDispatch -----------------------------
(***************************************************************************)
(* Small instances of Dispatch for TLC: every handler of up to three       *)
(* arguments with every choice of up to two path parameters, and one       *)
(* integer argument with every string of up to four characters.            *)
(***************************************************************************)
EXTENDS Dispatch

Strings(chars, n) == UNION {[1..k -> chars] : k \in 0..n}

EveryHandler == Strings(Kind, 3)

\* 7, 12 (which an eight-valued T cannot hold), -1, 129 (which long long
\* cannot), and what is no number.
SomeParams ==
  Strings({<<Zero + 7>>, <<Zero + 1, Zero + 2>>, <<Minus, Zero + 1>>,
           <<Zero + 1, Zero + 2, Zero + 9>>, <<Zero + 1, 97>>, <<>>}, 2)

\* Tab, space, signs, digits and a letter.
EveryString == Strings({9, 32, Plus, Minus, Zero, Zero + 1, Zero + 8, 97}, 4)

MCCalls ==
  [handler : EveryHandler, params : SomeParams]
    \cup [handler : {<<"int">>}, params : {<<s>> : s \in EveryString}]
=============================================================================

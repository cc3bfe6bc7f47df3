---------------------------- MODULE QueryString ----------------------------
(***************************************************************************)
(* The iteration over a query or a form (src/src/query_string.h): the      *)
(* iterator of PathComponents over other delimiters, each part of which is *)
(* split into a key and a value at its first equals sign.                  *)
(***************************************************************************)
EXTENDS PathComponents

CONSTANT Equals  \* '='

ASSUME EqualsAssumption == Equals \in Letter \ Delimiters

VARIABLE pairs   \* history: the pairs the loop has been given

queryVars == <<vars, pairs>>

\* (Mutant of SplitKeyValue: the last equals sign splits.)
SplitAtLast(params) ==
  LET signs == {i \in DOMAIN params : params[i] = Equals}
  IN  IF signs = {} THEN <<params, <<>>>>
      ELSE <<SubSeq(params, 1, Max(signs) - 1), SubSeq(params, Max(signs) + 1, Len(params))>>

SplitKeyValue(params) ==
  LET signs == {i \in DOMAIN params : params[i] = Equals}
  IN  IF signs = {} THEN <<params, <<>>>>
      ELSE <<SubSeq(params, 1, Min(signs) - 1), SubSeq(params, Min(signs) + 1, Len(params))>>

QueryBegin == Begin /\ UNCHANGED pairs

QueryStep == Step /\ pairs' = Append(pairs, SplitKeyValue(Dereference))

-----------------------------------------------------------------------------
\* There is a pair for every part, in order, and a part can be read back from
\* its pair: the key has no equals sign, the value may, and a part without one
\* has an empty value (query_string.h:35-40).
PairsAreParts ==
  /\ Len(pairs) = Len(parts)
  /\ \A i \in DOMAIN pairs :
       LET key == pairs[i][1]  value == pairs[i][2]
       IN  /\ \A j \in DOMAIN key : key[j] # Equals
           /\ \/ parts[i] = key \o <<Equals>> \o value
              \/ parts[i] = key /\ value = <<>>
=============================================================================

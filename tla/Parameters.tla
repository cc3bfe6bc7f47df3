----------------------------- MODULE Parameters -----------------------------
(***************************************************************************)
(* The parameters of a query or a form: what parseQueryParameters          *)
(* (src/src/request_builder.h) fills a multimap with, pair by pair, and    *)
(* what get of QueryParams and PostParams                                  *)
(* (src/src/parameter_internal.h) gives a handler.                         *)
(***************************************************************************)
EXTENDS QueryString

VARIABLE params   \* ret: the values of each key

paramVars == <<queryVars, params>>

NoParams == [key \in {} |-> <<>>]

\* (Mutant of Insert: a map, with one value for a key.)
InsertOnly(map, key, value) ==
  {[k \in DOMAIN map \cup {key} |-> IF k = key THEN <<value>> ELSE map[k]]}

\* Where among the values of its key an unordered_multimap puts another is up
\* to it.
Insert(map, key, value) ==
  LET values == IF key \in DOMAIN map THEN map[key] ELSE <<>>
  IN  {[k \in DOMAIN map \cup {key} |-> IF k = key THEN InsertAt(values, i, value) ELSE map[k]] :
         i \in 1..(Len(values) + 1)}

ParamsBegin == QueryBegin /\ UNCHANGED params

ParamsStep ==
  /\ QueryStep
  /\ params' \in Insert(params, Last(pairs')[1], Last(pairs')[2])

ParamsNext == ParamsBegin \/ ParamsStep

Get(map, name) == IF name \in DOMAIN map THEN map[name] ELSE <<>>

-----------------------------------------------------------------------------
\* Whichever order the pairs come in, get gives the values written for a key,
\* each as often as it was written, and nothing for other keys
\* (request_builder.h:119-122, parameter_internal.h:48-64 and 106-122).
EveryValueIsThere ==
  /\ DOMAIN params = {pairs[i][1] : i \in DOMAIN pairs}
  /\ \A name \in DOMAIN params :
       /\ Len(Get(params, name)) = Cardinality({i \in DOMAIN pairs : pairs[i][1] = name})
       /\ \A value \in ToSet(Get(params, name)) :
            Cardinality({i \in DOMAIN pairs : pairs[i] = <<name, value>>})
              = Cardinality({i \in DOMAIN Get(params, name) : Get(params, name)[i] = value})
=============================================================================

-------------------------- MODULE MCResourceMatcher --------------------------
(***************************************************************************)
(* Small instances of ResourceMatcher for TLC: paths of up to three        *)
(* components below the root, of one letter and of three.  Templates are   *)
(* chosen so that several fit one path.                                    *)
(***************************************************************************)
EXTENDS ResourceMatcher

Leading == <<>>
A == <<97>>
B == <<98>>
AAA == <<97, 97, 97>>

MCComponent == {Leading, A, B, AAA}

Below(components, n) == {<<Leading>> \o tail : tail \in [1..n -> components]}

\* Every template of up to two components below the root, ...
ShortTemplates == UNION {Below({A, Variable}, n) : n \in 1..2}
                    \cup {<<>>, <<Leading>>, <<Leading, AAA, Variable>>}
ShortPaths == UNION {Below({A, AAA}, n) : n \in 0..2} \cup {<<>>, <<Leading, A, A, B>>}

\* ... and templates of three: for one path there is one that is preferred to
\* another, for the other path no criterion decides between two.
LongTemplates == {<<Leading, AAA, Variable, Variable>>, <<Leading, Variable, B, A>>,
                  <<Leading, Variable, Variable, Variable>>,
                  <<Leading, A, B, Variable>>, <<Leading, Variable, Variable, AAA>>}
AllTemplates == ShortTemplates \cup LongTemplates

LongPaths == {<<Leading, AAA, B, A>>, <<Leading, A, B, AAA>>}

AllPaths == ShortPaths \cup LongPaths
=============================================================================

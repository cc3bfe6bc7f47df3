--------------------------- MODULE PathComponents ---------------------------
(***************************************************************************)
(* The iteration over the components of a path                             *)
(* (src/src/path_components.h): one step constructs the iterator, each     *)
(* other dereferences it and increments it, as a range-for does.           *)
(*                                                                         *)
(* Letters are told apart, no more; what splits is a parameter, since      *)
(* QueryString has the same iterator with other delimiters.                *)
(***************************************************************************)
EXTENDS Integers, Sequences, SequencesExt, FiniteSetsExt

CONSTANTS
  Letter,
  Delimiters,  \* the letters find stops at
  MaxLength    \* bound: letters in a text

ASSUME ComponentsAssumption ==
  /\ Delimiters \subseteq Letter
  /\ MaxLength \in Nat

VARIABLES
  text,    \* path_
  psep,    \* psep_: where the current component begins
  nsep,    \* nsep_: the delimiter after it
  parts    \* history: the components the loop has been given

vars == <<text, psep, nsep, parts>>

Npos == -1

Position == {Npos} \cup 0..MaxLength

\* Positions count from 0.
At(i) == text[i + 1]

Init ==
  /\ text \in UNION {[1..n -> Letter] : n \in 0..MaxLength}
  /\ psep = Npos
  /\ nsep = 0
  /\ parts = <<>>

\* find: the first delimiter from a position on.
Find(from) ==
  LET found == {i \in from..(Len(text) - 1) : At(i) \in Delimiters}
  IN  IF from = Npos \/ found = {} THEN Npos ELSE Min(found)

\* (Mutant of NextBegin: it steps too far.)
NextBeginTooFar ==
  IF psep = Npos /\ nsep # Npos THEN 0
  ELSE IF nsep # Npos THEN nsep + 2
  ELSE Npos

\* Where the next component begins: the first round, a middle round, done.
NextBegin ==
  IF psep = Npos /\ nsep # Npos THEN 0
  ELSE IF nsep # Npos THEN nsep + 1
  ELSE Npos

\* (Mutant of Increment: trailing delimiters are not dropped.)
IncrementKeepsTrailing ==
  /\ psep' = NextBegin
  /\ nsep' = Find(NextBegin)

Increment ==
  IF NextBegin = Len(text)
  THEN psep' = Npos /\ nsep' = Npos
  ELSE psep' = NextBegin /\ nsep' = Find(NextBegin)

Dereference ==
  SubSeq(text, psep + 1, IF nsep # Npos THEN nsep ELSE Len(text))

Begin ==
  /\ psep = Npos /\ nsep = 0
  /\ Increment
  /\ UNCHANGED <<text, parts>>

AtEnd == psep = Npos /\ nsep = Npos

\* A text has one part more than it has delimiters, at most.
MaxParts == MaxLength + 1

Step ==
  /\ psep # Npos
  /\ Len(parts) < MaxParts
  /\ parts' = Append(parts, Dereference)
  /\ Increment
  /\ UNCHANGED text

Next == Begin \/ Step

Spec == Init /\ [][Next]_vars

-----------------------------------------------------------------------------
TypeOK ==
  /\ text \in Seq(Letter) /\ Len(text) <= MaxLength
  /\ psep \in Position /\ nsep \in Position
  /\ parts \in Seq(Seq(Letter))

\* The parts of a text lie between its delimiters; nothing after the last
\* delimiter is no part.
PartsAt(delimiters, t) ==
  LET read(all, letter) == IF letter \in delimiters THEN Append(all, <<>>)
                           ELSE Front(all) \o <<Append(Last(all), letter)>>
      all == FoldLeft(read, <<<<>>>>, t)
  IN  IF Last(all) = <<>> THEN Front(all) ELSE all

Parts == PartsAt(Delimiters, text)

\* The loop is given the parts of the text in order and, by the time it ends,
\* all of them, empty ones before the last included
\* (path_components.h:39-42 and 62-81, query_string.h:62-81).
GivenItsParts ==
  /\ IsPrefix(parts, Parts)
  /\ AtEnd => parts = Parts
=============================================================================

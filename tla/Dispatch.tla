------------------------------ MODULE Dispatch ------------------------------
(***************************************************************************)
(* The dispatch of a request to a handler (src/include/detail and          *)
(* src/include/parameter.h): the handler's arguments are extracted from    *)
(* the path parameters the matcher found and from the request, and the     *)
(* handler is invoked with them.                                           *)
(*                                                                         *)
(* A handler is the sequence of the kinds of its arguments.  C++ leaves    *)
(* the order in which arguments are extracted open, and what params[index] *)
(* is beyond the end.  Characters are their codes.                         *)
(***************************************************************************)
EXTENDS Integers, Sequences, FiniteSets, SequencesExt

CONSTANTS
  Calls,        \* the handlers, and the path parameters a request comes with
  LongLongBits, \* the width of long long
  IntBits       \* the width of T in IntParam<T>, which is signed

PathKind == {"string", "int"}
Kind == PathKind \cup {"query", "post", "header", "entity"}

ASSUME DispatchAssumption ==
  /\ \A call \in Calls : call.handler \in Seq(Kind) /\ call.params \in Seq(Seq(Nat))
  /\ IntBits \in 1..LongLongBits
  /\ LongLongBits \in Nat

VARIABLES
  handler,   \* Args...
  params,    \* params
  args,      \* the arguments extracted so far
  outcome    \* compiling, refused by the compiler, extracting, invoked,
             \* threw, undefined

vars == <<handler, params, args, outcome>>

-----------------------------------------------------------------------------
(***************************************************************************)
(* IntParam::parse.                                                        *)
(***************************************************************************)
Blank == (9..13) \cup {32}   \* isspace
Plus == 43
Minus == 45
Zero == 48

IsDigit(char) == char \in Zero..(Zero + 9)

TwoTo[n \in Nat] == IF n = 0 THEN 1 ELSE 2 * TwoTo[n - 1]

\* The values of a signed type.
ValuesOf(bits) == -TwoTo[bits - 1]..(TwoTo[bits - 1] - 1)

LongLong == ValuesOf(LongLongBits)

\* The conversion to T.
Narrow(value) == ((value + TwoTo[IntBits - 1]) % TwoTo[IntBits]) - TwoTo[IntBits - 1]

NumberOf(digits) == FoldLeft(LAMBDA n, d : 10 * n + (d - Zero), 0, digits)

Signed(input, i) == i <= Len(input) /\ input[i] \in {Plus, Minus}

\* What std::stoll reads: blanks, a sign, as many digits as there are.
Stoll(input) ==
  LET begin == CHOOSE i \in 1..(Len(input) + 1) :
                 /\ \A j \in 1..(i - 1) : input[j] \in Blank
                 /\ i <= Len(input) => input[i] \notin Blank
      first == IF Signed(input, begin) THEN begin + 1 ELSE begin
      end == CHOOSE i \in first..(Len(input) + 1) :
               /\ \A j \in first..(i - 1) : IsDigit(input[j])
               /\ i <= Len(input) => ~IsDigit(input[i])
      number == NumberOf(SubSeq(input, first, end - 1))
  IN  [digits |-> end - first, pos |-> end - 1,
       value |-> IF Signed(input, begin) /\ input[begin] = Minus THEN -number ELSE number]

\* (Mutant of ParseThrows: what follows the digits is not looked at.)
StollThrows(input) == Stoll(input).digits = 0 \/ Stoll(input).value \notin LongLong

\* invalid_argument and out_of_range from stoll, and trailing characters.
ParseThrows(input) ==
  \/ Stoll(input).digits = 0
  \/ Stoll(input).value \notin LongLong
  \/ Stoll(input).pos # Len(input)

\* (Mutant of Parse: the sign is lost on the way to T.)
ParseUnsigned(input) == Stoll(input).value % TwoTo[IntBits]

Parse(input) == Narrow(Stoll(input).value)

-----------------------------------------------------------------------------
(***************************************************************************)
(* The extractor.                                                          *)
(***************************************************************************)
\* NextIndex<IntParam<T>>::next is private, so an IntParam that is not the
\* last argument does not compile.
Compiles == \A i \in DOMAIN handler : handler[i] = "int" => i = Len(handler)

\* (Mutants of Advances: every argument advances, none does.)
AlwaysAdvances(kind) == TRUE
NeverAdvances(kind) == FALSE

\* NextIndex: whether an argument takes up a path parameter.
Advances(kind) == kind \in PathKind

\* (Mutant of Index: an argument counts itself.)
IndexPastItself(i) == 1 + Cardinality({j \in 1..i : Advances(handler[j])})

\* Index in the extractor of the i-th argument, from 1.
Index(i) == 1 + Cardinality({j \in 1..(i - 1) : Advances(handler[j])})

Init ==
  /\ \E call \in Calls : handler = call.handler /\ params = call.params
  /\ args = <<>>
  /\ outcome = "compiling"

Bind ==
  /\ outcome = "compiling"
  /\ Compiles
  /\ outcome' = "extracting"
  /\ args' = [i \in DOMAIN handler |-> <<>>]
  /\ UNCHANGED <<handler, params>>

RefuseToCompile ==
  /\ outcome = "compiling"
  /\ ~Compiles
  /\ outcome' = "refused"
  /\ UNCHANGED <<handler, params, args>>

Pending(i) == outcome = "extracting" /\ args[i] = <<>>

\* An argument is a value wrapped up, so that one not yet extracted is <<>>.
Extract(i, value) ==
  /\ args' = [args EXCEPT ![i] = <<value>>]
  /\ UNCHANGED <<handler, params, outcome>>

Ends(how) ==
  /\ outcome' = how
  /\ UNCHANGED <<handler, params, args>>

GetUriInfo(i) ==
  /\ Pending(i)
  /\ handler[i] \notin PathKind
  /\ Extract(i, handler[i])

InBounds(i) == handler[i] \in PathKind /\ Index(i) <= Len(params)

GetString(i) ==
  /\ Pending(i)
  /\ handler[i] = "string" /\ InBounds(i)
  /\ Extract(i, params[Index(i)])

GetInt(i) ==
  /\ Pending(i)
  /\ handler[i] = "int" /\ InBounds(i)
  /\ ~ParseThrows(params[Index(i)])
  /\ Extract(i, Parse(params[Index(i)]))

GetIntThrows(i) ==
  /\ Pending(i)
  /\ handler[i] = "int" /\ InBounds(i)
  /\ ParseThrows(params[Index(i)])
  /\ Ends("threw")

\* params[index] beyond the end of the vector.
GetBeyond(i) ==
  /\ Pending(i)
  /\ handler[i] \in PathKind /\ ~InBounds(i)
  /\ Ends("undefined")

Invoke ==
  /\ outcome = "extracting"
  /\ \A i \in DOMAIN handler : args[i] # <<>>
  /\ Ends("invoked")

Next ==
  \/ Bind \/ RefuseToCompile \/ Invoke
  \/ \E i \in DOMAIN handler : GetUriInfo(i)
  \/ \E i \in DOMAIN handler : GetString(i)
  \/ \E i \in DOMAIN handler : GetInt(i)
  \/ \E i \in DOMAIN handler : GetIntThrows(i)
  \/ \E i \in DOMAIN handler : GetBeyond(i)

Spec == Init /\ [][Next]_vars

-----------------------------------------------------------------------------
(***************************************************************************)
(* Properties                                                              *)
(***************************************************************************)
\* The arguments that take a path parameter, in order.
PathArgs ==
  LET places == {i \in DOMAIN handler : handler[i] \in PathKind}
  IN  CHOOSE s \in [1..Cardinality(places) -> places] :
        \A m, n \in DOMAIN s : m < n => s[m] < s[n]

\* Wherever the other arguments stand, a handler's n-th path argument, if it is
\* a string, is the n-th path parameter, and each argument of another kind is
\* the part of the request its type names (tuple_util.h:47-89 and 129-164).
ArgumentsInOrder ==
  outcome = "invoked" =>
    /\ \A n \in DOMAIN PathArgs :
         /\ n \in DOMAIN params
         /\ handler[PathArgs[n]] = "string" => args[PathArgs[n]] = <<params[n]>>
    /\ \A i \in DOMAIN handler : handler[i] \notin PathKind => args[i] = <<handler[i]>>

\* Only a handler with more path arguments than its template has variables
\* reads beyond them (tuple_util.h:73-89).
ReadsWithinBounds == outcome = "undefined" => Len(PathArgs) > Len(params)

\* How a number may be written: blanks, a sign, zeros and its digits.
Decimal ==
  LET decimal[n \in Nat] == IF n < 10 THEN <<Zero + n>>
                            ELSE Append(decimal[n \div 10], Zero + (n % 10))
  IN  decimal

Abs(v) == IF v < 0 THEN -v ELSE v

Writes(input, v) ==
  \E blanks, zeros \in 0..Len(input) :
    \E sign \in IF v < 0 THEN {<<Minus>>} ELSE {<<>>, <<Plus>>} \cup (IF v = 0 THEN {<<Minus>>} ELSE {}) :
      /\ \A i \in 1..blanks : input[i] \in Blank
      /\ input = SubSeq(input, 1, blanks) \o sign \o [i \in 1..zeros |-> Zero] \o Decimal[Abs(v)]

\* An integer argument is the number its path parameter writes, where T can
\* hold it, and congruent to it where it cannot; the extraction throws only
\* for what writes no number of long long (parameter.h:64-71).
IntegersAsWritten ==
  /\ outcome = "invoked" =>
       \A n \in DOMAIN PathArgs : handler[PathArgs[n]] = "int" =>
         LET value == args[PathArgs[n]][1]
         IN  \E v \in LongLong :
               /\ Writes(params[n], v)
               /\ (value - v) % TwoTo[IntBits] = 0
               /\ value \in ValuesOf(IntBits)
  /\ outcome = "threw" =>
       \E n \in DOMAIN PathArgs :
         /\ handler[PathArgs[n]] = "int"
         /\ \A v \in LongLong : ~Writes(params[n], v)
=============================================================================

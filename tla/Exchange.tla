------------------------------ MODULE Exchange ------------------------------
(***************************************************************************)
(* What a server is for: requests are asked one after the other, and each  *)
(* is answered with one of the responses it is owed.                       *)
(***************************************************************************)
EXTENDS Integers, Sequences

CONSTANTS
  Requests,  \* what may be asked
  Owed(_)    \* the responses a request may be answered with

VARIABLES
  request,   \* the request that has been asked, if one has
  response   \* the response to it, once there is one

Init == request = <<>> /\ response = <<>>

Ask ==
  /\ request = <<>>
  /\ request' \in [1..1 -> Requests]
  /\ UNCHANGED response

Answer ==
  /\ request # <<>> /\ response = <<>>
  /\ \E text \in Owed(request[1]) : response' = <<text>>
  /\ UNCHANGED request

Over ==
  /\ response # <<>>
  /\ request' = <<>> /\ response' = <<>>

Next == Ask \/ Answer \/ Over

\* No response is given but one that is owed, and one to each request.
Safety == Init /\ [][Next]_<<request, response>>

\* Every request is answered in the end.
Answered == request # <<>> ~> response # <<>>

Spec == Safety /\ Answered
=============================================================================

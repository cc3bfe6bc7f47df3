------------------------- MODULE ConnectionContract -------------------------
(***************************************************************************)
(* What a server promises the other end of a connection: it is accepted    *)
(* once; requests may be dispatched while it is open, no more than were    *)
(* sent, the first one as it is owed; at most one response is delivered,   *)
(* the response to the first request; the connection closes with it, or    *)
(* without; and then nothing more happens to it.                           *)
(***************************************************************************)
EXTENDS Integers, Sequences

CONSTANTS
  Conns,      \* the connections
  Instances,  \* the server instances
  Requests,   \* the requests a client may send
  Owed(_, _)  \* what an instance owes a request

VARIABLES
  phase,      \* phase[c]: "waiting", "open" or "closed"
  host,       \* host[c]: the instance that accepted c
  offered,    \* offered[c]: the requests its client sent
  calls,      \* calls[c]: how many requests were dispatched
  outcome,    \* outcome[c]: what came of the first of them, once it was
  delivered   \* delivered[c]: the responses the client was given

cvars == <<phase, host, offered, calls, outcome, delivered>>

Init ==
  /\ phase = [c \in Conns |-> "waiting"]
  /\ host \in [Conns -> Instances]
  /\ offered = [c \in Conns |-> <<>>]
  /\ calls = [c \in Conns |-> 0]
  /\ outcome = [c \in Conns |-> <<>>]
  /\ delivered = [c \in Conns |-> <<>>]

Offer(c, r) ==
  /\ phase[c] # "closed"
  /\ offered' = [offered EXCEPT ![c] = Append(@, r)]
  /\ UNCHANGED <<phase, host, calls, outcome, delivered>>

Open(c, i) ==
  /\ phase[c] = "waiting"
  /\ phase' = [phase EXCEPT ![c] = "open"]
  /\ host' = [host EXCEPT ![c] = i]
  /\ UNCHANGED <<offered, calls, outcome, delivered>>

\* A request is dispatched at most once.
Dispatch(c) ==
  /\ phase[c] = "open"
  /\ calls[c] < Len(offered[c])
  /\ calls' = [calls EXCEPT ![c] = @ + 1]
  /\ outcome' = [outcome EXCEPT ![c] =
                   IF calls[c] = 0 THEN <<Owed(host[c], offered[c][1])>> ELSE @]
  /\ UNCHANGED <<phase, host, offered, delivered>>

Deliver(c) ==
  /\ phase[c] = "open"
  /\ outcome[c] # <<>>
  /\ delivered' = [delivered EXCEPT ![c] = outcome[c]]
  /\ phase' = [phase EXCEPT ![c] = "closed"]
  /\ UNCHANGED <<host, offered, calls, outcome>>

Abandon(c) ==
  /\ phase[c] = "open"
  /\ phase' = [phase EXCEPT ![c] = "closed"]
  /\ UNCHANGED <<host, offered, calls, outcome, delivered>>

Next ==
  \E c \in Conns :
    \/ \E r \in Requests : Offer(c, r)
    \/ \E i \in Instances : Open(c, i)
    \/ Dispatch(c)
    \/ Deliver(c)
    \/ Abandon(c)

Spec == Init /\ [][Next]_cvars
=============================================================================

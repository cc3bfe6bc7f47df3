----------------------------- MODULE ServerImpl -----------------------------
(***************************************************************************)
(* The life of a server (ServerImpl in src/src/server.cc): its threads,    *)
(* its event loops, the application and the admin instance, and the calls  *)
(* start, startAdminServer, wait, stopAndWait and the destructor.          *)
(*                                                                         *)
(* One thread owns the server and makes all calls but wait, which other    *)
(* threads may make once start has returned.  A call that blocks is cut    *)
(* where it blocks; `at` says where the owner is.  A call that returns or  *)
(* throws at its first check changes nothing and is left out: start when   *)
(* started, wait and stopAndWait when not, stopAndWait when shut down, and *)
(* startAdminServer when there is one.                                     *)
(*                                                                         *)
(* External (what-the-event, std::thread): a loop runs what is queued on   *)
(* it in order, and leaves after stop; nothing runs a task queued on a     *)
(* loop that has left; joining a thread that is not joinable throws, and   *)
(* two threads joining the same one at a time is undefined: the second     *)
(* throws or waits as well.                                                *)
(***************************************************************************)
EXTENDS Integers, Sequences, FiniteSets

CONSTANTS
  Conns,      \* the connections clients make
  Waiters,    \* the threads that call wait
  NBases,     \* kBases: the workers a start brings up
  MaxStarts,  \* bound: calls of start
  MaxAdmins,  \* bound: calls of startAdminServer that return
  BindFails   \* whether binding the application's address may fail

ASSUME LifeAssumption ==
  /\ NBases \in Nat \ {0}
  /\ MaxStarts \in Nat \ {0}
  /\ MaxAdmins \in Nat
  /\ BindFails \in BOOLEAN

\* Workers are numbered in the order in which starts create them.
Workers == 1..(NBases * MaxStarts)

Instances == {"app", "admin"}

VARIABLES
  started,    \* started_
  shutdown,   \* shutdown_
  instance,   \* instance[i]: whether the instance exists, and its listener
  tasks,      \* what is queued on listener_base_
  stopping,   \* listener_base_->stop() has been called
  main,       \* main_: none, running the loop, out of it, joined
  joining,    \* the threads blocked in main_.join()
  worker,     \* worker[b]: its event base and its thread
  at,         \* where the owner is
  destroying, \* the owner is in the destructor
  conn,       \* conn[c]: a connection, its instance and its worker
  returned,   \* history: the calls that returned, with how often for "admin"
  threw       \* history: the calls that threw what no check of theirs throws

flags == <<started, shutdown>>
loop == <<tasks, stopping, main>>
owner == <<at, destroying>>
history == <<returned, threw>>
vars == <<flags, instance, loop, joining, worker, owner, conn, history>>

Owner == "owner"

TypeOK ==
  /\ started \in BOOLEAN /\ shutdown \in BOOLEAN /\ stopping \in BOOLEAN
  /\ instance \in [Instances -> [exists : BOOLEAN, listener : {"null", "idle", "accepting"}]]
  /\ tasks \in Seq({"nop", "startAdmin", "stopServers"})
  /\ main \in {"none", "running", "left", "joined"}
  /\ joining \subseteq Waiters \cup {Owner}
  /\ worker \in [Workers -> [base : {"none", "live", "deleted"},
                             thread : {"none", "running", "left", "joined"}]]
  /\ at \in {"idle", "nop", "stopServers", "stopListener", "stopBases", "joinThreads", "joinMain",
             "destroyed", "terminated"}
  /\ destroying \in BOOLEAN
  /\ conn \in [Conns -> [phase : {"none", "ongoing", "over", "abandoned"},
                         host : Instances, worker : Workers]]
  /\ returned \in [{"start", "stop", "wait", "admin"} -> Nat]
  /\ threw \subseteq {"stop", "wait"}
  \* The flags agree with main_ and with where the owner is.
  /\ started <=> main # "none"
  /\ shutdown => main = "joined"
  /\ at = "destroyed" => destroying

Init ==
  /\ started = FALSE /\ shutdown = FALSE /\ stopping = FALSE
  /\ instance = [i \in Instances |-> [exists |-> i = "app", listener |-> "null"]]
  /\ tasks = <<>>
  /\ main = "none"
  /\ joining = {}
  /\ worker = [b \in Workers |-> [base |-> "none", thread |-> "none"]]
  /\ at = "idle"
  /\ destroying = FALSE
  /\ conn = [c \in Conns |-> [phase |-> "none", host |-> "app", worker |-> 1]]
  /\ returned = [call \in {"start", "stop", "wait", "admin"} |-> 0]
  /\ threw = {}

Created == {b \in Workers : worker[b].thread # "none"}

\* bases_ is what starts have created, until stopAndWait deletes it.
Bases == {b \in Created : worker[b].base = "live"}

\* The process lives.
Alive == at # "terminated"

Returns(call) == returned' = [returned EXCEPT ![call] = @ + 1]

-----------------------------------------------------------------------------
(***************************************************************************)
(* start.  The workers come up before the listener, so a start that fails  *)
(* leaves them running.                                                    *)
(***************************************************************************)
BringUpWorkers ==
  /\ Cardinality(Created) < Cardinality(Workers)
  /\ worker' = [b \in Workers |->
                  IF b \in (Cardinality(Created) + 1)..(Cardinality(Created) + NBases)
                  THEN [base |-> "live", thread |-> "running"] ELSE worker[b]]

Start ==
  /\ at = "idle"
  /\ ~started
  /\ BringUpWorkers
  /\ instance["app"].listener = "null"
  /\ instance' = [instance EXCEPT !["app"].listener = "accepting"]
  /\ started' = TRUE
  /\ main' = "running"
  /\ tasks' = Append(tasks, "nop")
  /\ at' = "nop"
  /\ UNCHANGED <<shutdown, stopping, joining, destroying, conn, history>>

\* (Mutant of StartThrows: the listener goes when the bind fails.)
StartThrowsCleanly ==
  /\ at = "idle"
  /\ ~started
  /\ BringUpWorkers
  /\ BindFails \/ instance["app"].listener # "null"
  /\ UNCHANGED <<flags, instance, loop, joining, owner, conn, history>>

\* ServerInstance::start throws: the bind fails, or its listener is still
\* there from a start that failed.
StartThrows ==
  /\ at = "idle"
  /\ ~started
  /\ BringUpWorkers
  /\ BindFails \/ instance["app"].listener # "null"
  /\ instance' = [instance EXCEPT !["app"].listener = "idle"]
  /\ UNCHANGED <<flags, loop, joining, owner, conn, history>>

\* admin_server_ is made at once and started by the listener's loop.
StartAdminServer ==
  /\ at = "idle"
  /\ returned["admin"] < MaxAdmins
  /\ ~instance["admin"].exists
  /\ instance' = [instance EXCEPT !["admin"].exists = TRUE]
  /\ tasks' = Append(tasks, "startAdmin")
  /\ Returns("admin")
  /\ UNCHANGED <<flags, stopping, main, joining, worker, owner, conn, threw>>

-----------------------------------------------------------------------------
(***************************************************************************)
(* The listener's loop, on the thread main_.                               *)
(***************************************************************************)
NextTask(task) ==
  /\ Alive
  /\ main = "running"
  /\ tasks # <<>>
  /\ Head(tasks) = task
  /\ tasks' = Tail(tasks)

RunNop ==
  /\ NextTask("nop")
  /\ at' = "idle"
  /\ Returns("start")
  /\ UNCHANGED <<flags, instance, stopping, main, joining, worker, destroying, conn,
                 threw>>

RunStartAdmin ==
  /\ NextTask("startAdmin")
  /\ instance' = [instance EXCEPT !["admin"].listener = "accepting"]
  /\ UNCHANGED <<flags, stopping, main, joining, worker, owner, conn, history>>

\* The bind fails, and nobody catches what start throws on the loop.
StartAdminFails ==
  /\ NextTask("startAdmin")
  /\ BindFails
  /\ instance' = [instance EXCEPT !["admin"].listener = "idle"]
  /\ at' = "terminated"
  /\ UNCHANGED <<flags, stopping, main, joining, worker, destroying, conn, history>>

\* (Mutants of RunStopServers: one of the two servers is forgotten.)
RunStopApplication ==
  /\ NextTask("stopServers")
  /\ instance' = [instance EXCEPT !["app"].listener = "null"]
  /\ at' = "stopListener"
  /\ UNCHANGED <<flags, stopping, main, joining, worker, destroying, conn, history>>

RunStopAdmin ==
  /\ NextTask("stopServers")
  /\ instance' = [instance EXCEPT !["admin"] = [exists |-> FALSE, listener |-> "null"]]
  /\ at' = "stopListener"
  /\ UNCHANGED <<flags, stopping, main, joining, worker, destroying, conn, history>>

RunStopServers ==
  /\ NextTask("stopServers")
  /\ instance' = [instance EXCEPT !["app"].listener = "null",
                                  !["admin"] = [exists |-> FALSE, listener |-> "null"]]
  /\ at' = "stopListener"
  /\ UNCHANGED <<flags, stopping, main, joining, worker, destroying, conn, history>>

MainLeaves ==
  /\ Alive
  /\ main = "running"
  /\ stopping
  /\ main' = "left"
  /\ UNCHANGED <<flags, instance, tasks, stopping, joining, worker, owner, conn, history>>

\* What ServerInstance does with a connection, in short: it is accepted on the
\* listener's loop, for one of the workers, which dispatches and answers its
\* request.
Accepted(i, c) ==
  /\ Alive
  /\ main = "running"
  /\ instance[i].listener = "accepting"
  /\ conn[c].phase = "none"

Accept(i, c, b) ==
  /\ Accepted(i, c)
  /\ b \in Bases
  /\ conn' = [conn EXCEPT ![c] = [phase |-> "ongoing", host |-> i, worker |-> b]]
  /\ UNCHANGED <<flags, instance, loop, joining, worker, owner, history>>

\* An admin server that starts once the bases are gone has none to choose from,
\* and divides by zero.
AcceptWithoutBase(i, c) ==
  /\ Accepted(i, c)
  /\ Bases = {}
  /\ at' = "terminated"
  /\ UNCHANGED <<flags, instance, loop, joining, worker, destroying, conn, history>>

Served(c) ==
  /\ Alive
  /\ conn[c].phase = "ongoing"
  /\ worker[conn[c].worker] = [base |-> "live", thread |-> "running"]

Serve(c) ==
  /\ Served(c)
  /\ instance[conn[c].host].exists
  /\ conn' = [conn EXCEPT ![c].phase = "over"]
  /\ UNCHANGED <<flags, instance, loop, joining, worker, owner, history>>

\* The instance it belongs to is gone: what comes of that is open.
ServeDangling(c) ==
  /\ Served(c)
  /\ ~instance[conn[c].host].exists
  /\ at' = "terminated" \/ at' = at
  /\ conn' = [conn EXCEPT ![c].phase = "over"]
  /\ UNCHANGED <<flags, instance, loop, joining, worker, destroying, history>>

WorkerLeaves(b) ==
  /\ Alive
  /\ worker[b] = [base |-> "deleted", thread |-> "running"]
  /\ worker' = [worker EXCEPT ![b].thread = "left"]
  /\ UNCHANGED <<flags, instance, loop, joining, owner, conn, history>>

\* A thread whose base has been deleted under it may as well find it so.
WorkerDies(b) ==
  /\ Alive
  /\ worker[b] = [base |-> "deleted", thread |-> "running"]
  /\ at' = "terminated"
  /\ UNCHANGED <<flags, instance, loop, joining, worker, destroying, conn, history>>

-----------------------------------------------------------------------------
(***************************************************************************)
(* wait and stopAndWait.  Both join main_.                                 *)
(***************************************************************************)
Joinable == main \in {"running", "left"}

Join(t) == Joinable /\ joining' = joining \cup {t}

\* A server is not waited for while it is destroyed.
MayWait(t) == Alive /\ returned["start"] > 0 /\ ~destroying /\ t \notin joining

\* main_ has been joined, or somebody is at it.
JoinThrows == ~Joinable \/ joining # {}

Wait(t) ==
  /\ MayWait(t)
  /\ Join(t)
  /\ UNCHANGED <<flags, instance, loop, worker, owner, conn, history>>

WaitThrows(t) ==
  /\ MayWait(t)
  /\ JoinThrows
  /\ threw' = threw \cup {"wait"}
  /\ UNCHANGED <<flags, instance, loop, joining, worker, owner, conn, returned>>

WaitReturns(t) ==
  /\ Alive
  /\ t \in joining
  /\ main \in {"left", "joined"}
  /\ joining' = joining \ {t}
  /\ main' = "joined"
  /\ Returns("wait")
  /\ UNCHANGED <<flags, instance, tasks, stopping, worker, owner, conn, threw>>

\* The servers are stopped on the listener's loop, which is waited for.
StopAndWait ==
  /\ at = "idle"
  /\ started
  /\ ~shutdown
  /\ tasks' = Append(tasks, "stopServers")
  /\ at' = "stopServers"
  /\ UNCHANGED <<flags, instance, stopping, main, joining, worker, destroying, conn,
                 history>>

\* (Mutant of StopListener: the listener's loop is not told to stop.)
ForgetListener ==
  /\ at = "stopListener"
  /\ at' = "stopBases"
  /\ UNCHANGED <<flags, instance, loop, joining, worker, destroying, conn, history>>

StopListener ==
  /\ at = "stopListener"
  /\ stopping' = TRUE
  /\ at' = "stopBases"
  /\ UNCHANGED <<flags, instance, tasks, main, joining, worker, destroying, conn, history>>

\* Base after base is stopped and deleted, with what is still going on there.
StopBase(b) ==
  /\ at = "stopBases"
  /\ b \in Bases /\ \A other \in Bases : b <= other
  /\ worker' = [worker EXCEPT ![b].base = "deleted"]
  /\ conn' = [c \in Conns |->
                IF conn[c].phase = "ongoing" /\ conn[c].worker = b
                THEN [conn[c] EXCEPT !.phase = "abandoned"] ELSE conn[c]]
  /\ UNCHANGED <<flags, instance, loop, joining, owner, history>>

\* (Mutant of BasesStopped: the last base is forgotten.)
AllButOneStopped ==
  /\ at = "stopBases"
  /\ Cardinality(Bases) <= 1
  /\ at' = "joinThreads"
  /\ UNCHANGED <<flags, instance, loop, joining, worker, destroying, conn, history>>

BasesStopped ==
  /\ at = "stopBases"
  /\ Bases = {}
  /\ at' = "joinThreads"
  /\ UNCHANGED <<flags, instance, loop, joining, worker, destroying, conn, history>>

\* (Mutant of JoinThreads: the threads are let go.)
DetachThreads ==
  /\ at = "joinThreads"
  /\ at' = "joinMain"
  /\ UNCHANGED <<flags, instance, loop, joining, worker, destroying, conn, history>>

JoinThreads ==
  /\ at = "joinThreads"
  /\ \A b \in Created : worker[b].thread = "left"
  /\ worker' = [b \in Workers |->
                  IF b \in Created THEN [worker[b] EXCEPT !.thread = "joined"] ELSE worker[b]]
  /\ at' = "joinMain"
  /\ UNCHANGED <<flags, instance, loop, joining, destroying, conn, history>>

\* (Mutant of JoinMain: the server is marked shut down before it is.)
ShutDownThenJoin ==
  /\ at = "joinMain"
  /\ Owner \notin joining
  /\ Join(Owner)
  /\ shutdown' = TRUE
  /\ UNCHANGED <<started, instance, loop, worker, owner, conn, history>>

JoinMain ==
  /\ at = "joinMain"
  /\ Owner \notin joining
  /\ Join(Owner)
  /\ UNCHANGED <<flags, instance, loop, worker, owner, conn, history>>

\* The destructor lets no exception out.
JoinMainThrows ==
  /\ at = "joinMain"
  /\ Owner \notin joining
  /\ JoinThrows
  /\ at' = IF destroying THEN "terminated" ELSE "idle"
  /\ threw' = threw \cup {"stop"}
  /\ UNCHANGED <<flags, instance, loop, joining, worker, destroying, conn, returned>>

StopReturns ==
  /\ at = "joinMain"
  /\ Owner \in joining
  /\ main \in {"left", "joined"}
  /\ joining' = joining \ {Owner}
  /\ main' = "joined"
  /\ shutdown' = TRUE
  /\ at' = IF destroying THEN "destroyed" ELSE "idle"
  /\ Returns("stop")
  /\ UNCHANGED <<started, instance, tasks, stopping, worker, destroying, conn, threw>>

\* The destructor: a server that has been started is stopped, unless it has
\* been already.
Destroy ==
  /\ at = "idle"
  /\ joining = {}
  /\ destroying' = TRUE
  /\ IF started /\ ~shutdown
     THEN /\ tasks' = Append(tasks, "stopServers")
          /\ at' = "stopServers"
     ELSE at' = "destroyed" /\ tasks' = tasks
  /\ UNCHANGED <<flags, instance, stopping, main, joining, worker, conn, history>>

-----------------------------------------------------------------------------
\* What the loops' threads do, and what the owner does on its own once it is
\* inside a call.
LoopStep ==
  \/ RunNop \/ RunStartAdmin \/ StartAdminFails \/ RunStopServers \/ MainLeaves
  \/ \E b \in Workers : WorkerLeaves(b) \/ WorkerDies(b)

OwnerStep ==
  \/ StopListener \/ BasesStopped \/ JoinThreads \/ JoinMain \/ JoinMainThrows \/ StopReturns
  \/ \E b \in Workers : StopBase(b)

Next ==
  \/ LoopStep
  \/ OwnerStep
  \/ Start \/ StartThrows \/ StartAdminServer \/ StopAndWait \/ Destroy
  \/ \E t \in Waiters : Wait(t) \/ WaitThrows(t) \/ WaitReturns(t)
  \/ \E c \in Conns : Serve(c) \/ ServeDangling(c)
  \/ \E i \in Instances, c \in Conns :
       AcceptWithoutBase(i, c) \/ \E b \in Workers : Accept(i, c, b)

Spec == Init /\ [][Next]_vars

\* Every thread gets to run.
FairSpec ==
  /\ Spec
  /\ WF_vars(LoopStep)
  /\ WF_vars(OwnerStep)

-----------------------------------------------------------------------------
(***************************************************************************)
(* Properties                                                              *)
(***************************************************************************)

\* When stopAndWait has returned nothing listens any more and every thread the
\* server ever started has been joined; when wait has returned, whoever
\* called it, nothing listens either (server.h:72-75 and 80-82), unless
\* stopAndWait has thrown (then an admin server may still come up); and no
\* listener of a server that was started outlives the loop it listens on,
\* which the destructor deletes (server.cc:79-84).
StoppedIsStopped ==
  /\ returned["stop"] + returned["wait"] > 0 /\ "stop" \notin threw =>
       \A i \in Instances : instance[i].listener = "null"
  /\ returned["stop"] > 0 =>
       main = "joined" /\ \A b \in Created : worker[b].thread = "joined"
  /\ at = "destroyed" /\ started => \A i \in Instances : instance[i].listener = "null"

\* Where the owner is from the moment its task has stopped the servers.
Stopping == at \in {"stopListener", "stopBases", "joinThreads", "joinMain"}

\* The admin instance is deleted while workers run, but no other is, and no
\* longer than until their bases are stopped: a worker can only be caught with
\* a connection whose instance is gone between the two (server.cc:170-184).
OnlyAdminDangles ==
  \A c \in Conns :
    Served(c) /\ ~instance[conn[c].host].exists =>
      conn[c].host = "admin" /\ at \in {"stopListener", "stopBases"}

\* The workers that a failed start leaves behind never come into use: a retry
\* fails as well, so a server that is started has the workers of the one start
\* that succeeded, and deals its connections to those (server.cc:117-129).
WorkersOfOneStart == started => Created = 1..NBases

\* The process ends for one of four reasons only: a join has thrown, wait having
\* joined the same thread (server.cc:192); a thread has found its base deleted
\* (182); the admin server could not be bound, on a loop where nobody catches
\* that (149); or a worker has served a connection of the admin server, which was
\* gone (174).  In particular, unless a join has thrown, nothing is accepted for
\* which there is no base, whatever is queued on the listener's loop while it
\* stops.
EndsForAReason ==
  at = "terminated" =>
    \/ "stop" \in threw
    \/ \E b \in Workers : worker[b] = [base |-> "deleted", thread |-> "running"]
    \/ instance["admin"].listener = "idle"
    \/ ~instance["admin"].exists /\ \E c \in Conns : conn[c].host = "admin" /\ conn[c].phase = "over"

\* From the moment stopAndWait has stopped the servers on the listener's loop
\* no connection is accepted, by neither instance: none is handed to a worker
\* whose base is about to be deleted.
ServersStopped == Stopping \/ returned["stop"] > 0 \/ "stop" \in threw

NothingAcceptedOnceStopped ==
  [][ServersStopped => \A c \in Conns : conn'[c].phase = "ongoing" => conn[c].phase = "ongoing"]_vars

\* start, stopAndWait and the destructor come to an end, whatever else is
\* queued on the listener's loop, unless stopAndWait has thrown before: each
\* thread is told to leave before it is joined, and what the owner waits for
\* is run (server.cc:139 and 170-192).  For which reasons the process may end
\* instead is what EndsForAReason says.
CallsReturn ==
  at # "idle" /\ "stop" \notin threw ~> at \in {"idle", "destroyed", "terminated"}

\* Violated.  wait says it returns when the server has been stopped
\* (server.h:79-84), but it joins the thread stopAndWait joins as well, and
\* whichever comes second throws.
WaitAndStopReturn == threw = {}

\* Violated.  When stopAndWait returns all ongoing processing has completed
\* (server.h:71-76), but the bases are deleted with what is going on there
\* (server.cc:180-183).
OngoingCompletes ==
  returned["stop"] > 0 => \A c \in Conns : conn[c].phase # "abandoned"
=============================================================================

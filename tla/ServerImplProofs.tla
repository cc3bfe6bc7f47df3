-------------------------- MODULE ServerImplProofs --------------------------
(***************************************************************************)
(* What is proved about ServerImpl, for any number of connections, waiting *)
(* threads, workers and calls: its types, and that stopAndWait, wait and   *)
(* the destructor leave nothing behind that listens or runs.               *)
(***************************************************************************)
EXTENDS ServerImpl, FiniteSetTheorems, TLAPS

-----------------------------------------------------------------------------
(***************************************************************************)
(* Types.                                                                  *)
(***************************************************************************)

\* A start brings up at least one worker.
LEMMA FirstWorker == 1 \in Workers
<1>1. NBases \in Nat /\ NBases >= 1 /\ MaxStarts \in Nat /\ MaxStarts >= 1
  BY LifeAssumption
<1>2. NBases * MaxStarts \in Nat /\ NBases * MaxStarts >= 1
  BY <1>1, Z3
<1> QED
  BY <1>2 DEF Workers

\* The state a server is made in has its types (ServerImpl's constructor,
\* server.cc:60-77).
LEMMA InitTypeOK == Init => TypeOK
<1> SUFFICES ASSUME Init PROVE TypeOK
  OBVIOUS
<1>1. tasks \in Seq({"nop", "startAdmin", "stopServers"})
  BY DEF Init
<1>2. instance \in [Instances -> [exists : BOOLEAN, listener : {"null", "idle", "accepting"}]]
  BY DEF Init, Instances
<1>3. conn \in [Conns -> [phase : {"none", "ongoing", "over", "abandoned"},
                         host : Instances, worker : Workers]]
  BY FirstWorker DEF Init, Instances
<1>4. returned \in [{"start", "stop", "wait", "admin"} -> Nat]
  BY DEF Init
<1> QED
  BY <1>1, <1>2, <1>3, <1>4 DEF Init, TypeOK

\* Every operation keeps the types of what it changes.
LEMMA StepTypeOK == TypeOK /\ [Next]_vars => TypeOK'
<1> SUFFICES ASSUME TypeOK, [Next]_vars PROVE TypeOK'
  OBVIOUS
<1> USE DEF TypeOK
<1>1. CASE UNCHANGED vars
  BY <1>1 DEF vars, flags, loop, owner, history
<1>2. CASE LoopStep
  <2>1. ASSUME NEW task, NextTask(task)
        PROVE  tasks' \in Seq({"nop", "startAdmin", "stopServers"})
    BY <2>1 DEF NextTask, TypeOK
  <2>2. CASE RunNop
    BY <2>1, <2>2 DEF RunNop, Returns, flags
  <2>3. CASE RunStartAdmin
    BY <2>1, <2>3 DEF RunStartAdmin, flags, owner, history, Instances
  <2>4. CASE StartAdminFails
    <3>1. tasks' \in Seq({"nop", "startAdmin", "stopServers"})
      BY <2>1, <2>4 DEF StartAdminFails
    <3>2. instance' \in [Instances -> [exists : BOOLEAN, listener : {"null", "idle", "accepting"}]]
      BY <2>4 DEF StartAdminFails, Instances
    <3> QED
      BY <2>4, <3>1, <3>2 DEF StartAdminFails, flags, history
  <2>5. CASE RunStopServers
    BY <2>1, <2>5 DEF RunStopServers, flags, history, Instances
  <2>6. CASE MainLeaves
    BY <2>6 DEF MainLeaves, flags, owner, history
  <2>7. ASSUME NEW b \in Workers, WorkerLeaves(b)
        PROVE  TypeOK'
    BY <2>7 DEF WorkerLeaves, flags, loop, owner, history
  <2>8. ASSUME NEW b \in Workers, WorkerDies(b)
        PROVE  TypeOK'
    BY <2>8 DEF WorkerDies, flags, loop, history
  <2> QED
    BY <1>2, <2>2, <2>3, <2>4, <2>5, <2>6, <2>7, <2>8 DEF LoopStep
<1>3. CASE OwnerStep
  <2>0. ASSUME NEW b \in Workers, StopBase(b)
        PROVE  TypeOK'
    <3>1. worker' \in [Workers -> [base : {"none", "live", "deleted"},
                                  thread : {"none", "running", "left", "joined"}]]
      <4>1. PICK x : x = [worker[b] EXCEPT !.base = "deleted"]
        OBVIOUS
      <4>2. x \in [base : {"none", "live", "deleted"}, thread : {"none", "running", "left", "joined"}]
        BY <4>1
      <4>3. worker' = [worker EXCEPT ![b] = x]
        BY <2>0, <4>1 DEF StopBase
      <4> QED
        BY <4>2, <4>3
    <3>2. conn' \in [Conns -> [phase : {"none", "ongoing", "over", "abandoned"},
                              host : Instances, worker : Workers]]
      <4>1. ASSUME NEW c \in Conns
            PROVE  [conn[c] EXCEPT !.phase = "abandoned"]
                     \in [phase : {"none", "ongoing", "over", "abandoned"},
                          host : Instances, worker : Workers]
        OBVIOUS
      <4> QED
        BY <2>0, <4>1 DEF StopBase
    <3> QED
      BY <2>0, <3>1, <3>2 DEF StopBase, flags, loop, owner, history
  <2>1. CASE StopListener \/ BasesStopped
    <3>1. CASE StopListener
      BY <3>1 DEF StopListener, flags, history
    <3>2. CASE BasesStopped
      BY <3>2 DEF BasesStopped, flags, loop, history
    <3> QED
      BY <2>1, <3>1, <3>2
  <2>2. CASE JoinThreads
    BY <2>2 DEF JoinThreads, flags, loop, history
  <2>3. CASE JoinMain
    BY <2>3 DEF JoinMain, Join, Owner, flags, loop, owner, history
  <2>4. CASE JoinMainThrows
    BY <2>4 DEF JoinMainThrows, flags, loop
  <2>5. CASE StopReturns
    BY <2>5 DEF StopReturns, Returns
  <2> QED
    BY <1>3, <2>0, <2>1, <2>2, <2>3, <2>4, <2>5 DEF OwnerStep
<1>4. ASSUME BringUpWorkers
      PROVE  worker' \in [Workers -> [base : {"none", "live", "deleted"},
                                      thread : {"none", "running", "left", "joined"}]]
  BY <1>4 DEF BringUpWorkers
<1>5. CASE Start
  BY <1>4, <1>5 DEF Start, history, Instances
<1>6. CASE StartThrows
  BY <1>4, <1>6 DEF StartThrows, flags, loop, owner, history, Instances
<1>7. CASE StartAdminServer
  <2>1. tasks' \in Seq({"nop", "startAdmin", "stopServers"})
    BY <1>7 DEF StartAdminServer
  <2>2. instance' \in [Instances -> [exists : BOOLEAN, listener : {"null", "idle", "accepting"}]]
    <3>1. PICK x : x = [instance["admin"] EXCEPT !.exists = TRUE]
      OBVIOUS
    <3>2. x \in [exists : BOOLEAN, listener : {"null", "idle", "accepting"}]
      <4>1. instance["admin"] \in [exists : BOOLEAN, listener : {"null", "idle", "accepting"}]
        BY DEF Instances
      <4> QED
        BY ONLY <3>1, <4>1
    <3>3. instance' = [instance EXCEPT !["admin"] = x]
      BY <1>7, <3>1 DEF StartAdminServer
    <3> QED
      BY <3>2, <3>3
  <2>3. returned' \in [{"start", "stop", "wait", "admin"} -> Nat]
    BY <1>7 DEF StartAdminServer, Returns
  <2> QED
    BY <1>7, <2>1, <2>2, <2>3 DEF StartAdminServer, flags, owner
<1>8. CASE StopAndWait
  BY <1>8 DEF StopAndWait, flags, history
<1>9. CASE Destroy
  <2>1. CASE started /\ ~shutdown
    BY <1>9, <2>1 DEF Destroy, flags, history
  <2>2. CASE ~(started /\ ~shutdown)
    BY <1>9, <2>2 DEF Destroy, flags, history
  <2> QED
    BY <2>1, <2>2
<1>10. ASSUME NEW t \in Waiters, Wait(t) \/ WaitThrows(t) \/ WaitReturns(t)
       PROVE  TypeOK'
  <2>1. CASE Wait(t)
    BY <2>1 DEF Wait, Join, flags, loop, owner, history
  <2>2. CASE WaitThrows(t)
    BY <2>2 DEF WaitThrows, flags, loop, owner
  <2>3. CASE WaitReturns(t)
    BY <2>3 DEF WaitReturns, Returns, flags, owner
  <2> QED
    BY <1>10, <2>1, <2>2, <2>3
<1>11. ASSUME NEW c \in Conns, Serve(c) \/ ServeDangling(c)
       PROVE  TypeOK'
  <2>c. conn' \in [Conns -> [phase : {"none", "ongoing", "over", "abandoned"},
                            host : Instances, worker : Workers]]
    <3>1. PICK x : x = [conn[c] EXCEPT !.phase = "over"]
      OBVIOUS
    <3>2. x \in [phase : {"none", "ongoing", "over", "abandoned"},
                host : Instances, worker : Workers]
      BY <3>1
    <3>3. conn' = [conn EXCEPT ![c] = x]
      BY <1>11, <3>1 DEF Serve, ServeDangling
    <3> QED
      BY <3>2, <3>3
  <2>1. CASE Serve(c)
    BY <2>1, <2>c DEF Serve, flags, loop, owner, history
  <2>2. CASE ServeDangling(c)
    BY <2>2, <2>c DEF ServeDangling, flags, loop, history
  <2> QED
    BY <1>11, <2>1, <2>2
<1>12. ASSUME NEW i \in Instances, NEW c \in Conns, AcceptWithoutBase(i, c)
       PROVE  TypeOK'
  BY <1>12 DEF AcceptWithoutBase, flags, loop, history
<1>13. ASSUME NEW i \in Instances, NEW c \in Conns, NEW b \in Workers, Accept(i, c, b)
       PROVE  TypeOK'
  BY <1>13 DEF Accept, flags, loop, owner, history
<1> QED
  BY <1>1, <1>2, <1>3, <1>5, <1>6, <1>7, <1>8, <1>9, <1>10, <1>11, <1>12, <1>13 DEF Next

\* In every reachable state every member of the server has its type.
THEOREM LifeTypeCorrect == Spec => []TypeOK
BY InitTypeOK, StepTypeOK, PTL DEF Spec

-----------------------------------------------------------------------------
(***************************************************************************)
(* The inductive invariant.  StoppedIsStopped speaks of calls that have    *)
(* returned; what makes it so is what holds on the way: what may still be  *)
(* queued on the listener's loop wherever the owner is, and what           *)
(* listener_base_->stop() having been called entails.                      *)
(***************************************************************************)
NullListeners == \A i \in Instances : instance[i].listener = "null"

\* Before the first start that returns there is no thread main_ and no call
\* that has one to wait for.
NotStarted ==
  ~started =>
    /\ main = "none" /\ ~stopping /\ ~shutdown /\ threw = {}
    /\ at \in {"idle", "destroyed"}
    /\ returned["start"] = 0
    /\ \A b \in Workers : worker[b].base # "deleted"
    /\ \A c \in Conns : conn[c].phase = "none"

\* What the owner waits for is the last thing queued; once it has run nothing is
\* queued before the owner's call is over.
TasksInv ==
  Alive =>
    /\ \A k \in DOMAIN tasks :
         /\ tasks[k] = "startAdmin" => instance["admin"].exists
         /\ tasks[k] = "nop" => at = "nop" /\ k = Len(tasks)
         /\ tasks[k] = "stopServers" => at = "stopServers" /\ k = Len(tasks)
    /\ Stopping => tasks = <<>>

\* An instance outlives its listener, and its connections but for one place.
InstanceInv ==
  /\ instance["app"].exists
  /\ \A i \in Instances : instance[i].listener # "null" => instance[i].exists
  /\ \A c \in Conns :
       Alive /\ conn[c].phase = "ongoing" /\ ~instance[conn[c].host].exists =>
         at \in {"stopListener", "stopBases"}

\* A connection goes on at a base that is there.
ConnInv == \A c \in Conns : conn[c].phase = "ongoing" => conn[c].worker \in Bases

\* No start succeeds after one that failed; and what a start has brought up is
\* there until the listener's loop has been told to stop.
WorkersInv ==
  /\ ~started /\ instance["app"].listener = "null" => Created = {}
  /\ started => Created = 1..NBases
  /\ started /\ ~stopping => Bases = Created

\* The loop is left when it has been told to, and it is told after the workers.
LoopInv ==
  /\ main \in {"left", "joined"} => stopping
  /\ returned["wait"] > 0 => main = "joined"
  /\ returned["stop"] > 0 <=> shutdown
  /\ shutdown => main = "joined"
  /\ "stop" \in threw => stopping
  /\ at \in {"stopBases", "joinThreads", "joinMain"} => stopping
  /\ stopping /\ Alive => Bases = {} \/ at = "stopBases"

\* Nothing listens while the owner stops the bases, nor after, unless it throws.
ListenerInv ==
  /\ Stopping \/ shutdown => NullListeners
  /\ stopping /\ "stop" \notin threw =>
       NullListeners /\ (at \in {"stopBases", "joinThreads", "joinMain", "terminated"} \/ shutdown)
  /\ at = "destroyed" /\ started => shutdown

\* Every worker's thread is joined before main_ is.
ThreadInv ==
  at = "joinMain" \/ shutdown => \A b \in Created : worker[b].thread = "joined"

LifeInv ==
  /\ NotStarted /\ TasksInv /\ InstanceInv /\ ConnInv /\ WorkersInv
  /\ LoopInv /\ ListenerInv /\ ThreadInv
  /\ EndsForAReason

\* A server that has just been made has nothing to leave behind.
LEMMA InitLifeInv == Init => LifeInv
<1> SUFFICES ASSUME Init PROVE LifeInv
  OBVIOUS
<1>1. NotStarted /\ LoopInv
  BY DEF Init, NotStarted, LoopInv
<1>2. TasksInv
  BY DEF Init, TasksInv
<1>3. InstanceInv
  BY DEF Init, InstanceInv, Instances
<1>4. ListenerInv /\ ThreadInv /\ WorkersInv
  BY DEF Init, ListenerInv, Stopping, ThreadInv, WorkersInv, Created
<1>5. ConnInv /\ EndsForAReason
  BY DEF Init, ConnInv, EndsForAReason
<1> QED
  BY <1>1, <1>2, <1>3, <1>4, <1>5 DEF LifeInv

\* Only starts have main_ running, only a stop has the loop stop, and neither
\* is undone.
LEMMA StepNotStarted == TypeOK /\ LifeInv /\ [Next]_vars => NotStarted'
<1> SUFFICES ASSUME TypeOK, NotStarted, [Next]_vars PROVE NotStarted'
  BY DEF LifeInv
<1> USE DEF NotStarted
<1>1. CASE UNCHANGED vars
  BY <1>1 DEF vars, flags, loop, owner, history
<1>2. CASE started
  <2>1. started'
    BY <1>2 DEF Next, LoopStep, RunNop, RunStartAdmin, StartAdminFails, RunStopServers, MainLeaves,
                WorkerLeaves, WorkerDies, OwnerStep, StopListener, StopBase, BasesStopped,
                JoinThreads, JoinMain, JoinMainThrows, StopReturns, Start, StartThrows,
                StartAdminServer, StopAndWait, Destroy, Wait, WaitThrows, WaitReturns, Serve, ServeDangling, Accept,
                AcceptWithoutBase, flags, vars
  <2> QED
    BY <2>1
<1>3. CASE ~started /\ Next
  <2>1. ~LoopStep
    BY <1>3 DEF LoopStep, RunNop, RunStartAdmin, StartAdminFails, RunStopServers, NextTask,
                MainLeaves, WorkerLeaves, WorkerDies
  <2>2. ~OwnerStep
    BY <1>3 DEF OwnerStep, StopListener, StopBase, BasesStopped, JoinThreads, JoinMain, JoinMainThrows,
                StopReturns
  <2>3. ASSUME NEW t \in Waiters PROVE ~(Wait(t) \/ WaitThrows(t) \/ WaitReturns(t))
    BY <1>3 DEF Wait, WaitThrows, WaitReturns, MayWait
  <2>4. ASSUME NEW c \in Conns
        PROVE  ~(Serve(c) \/ ServeDangling(c))
    BY <1>3 DEF Serve, ServeDangling, Served
  <2>5. ASSUME NEW i \in Instances, NEW c \in Conns
         PROVE  ~(AcceptWithoutBase(i, c) \/ \E b \in Workers : Accept(i, c, b))
    BY <1>3 DEF AcceptWithoutBase, Accept, Accepted
  <2>6. CASE Start
    BY <2>6 DEF Start
  <2>7. CASE StartThrows
    BY <1>3, <2>7 DEF StartThrows, BringUpWorkers, flags, loop, owner, history
  <2>8. CASE StartAdminServer
    BY <1>3, <2>8 DEF StartAdminServer, Returns, TypeOK, flags, owner
  <2>9. CASE StopAndWait
    BY <1>3, <2>9 DEF StopAndWait
  <2>10. CASE Destroy
    BY <1>3, <2>10 DEF Destroy, flags, history
  <2> QED
    BY <1>3, <2>1, <2>2, <2>3, <2>4, <2>5, <2>6, <2>7, <2>8, <2>9, <2>10 DEF Next
<1> QED
  BY <1>1, <1>2, <1>3

\* What is taken off the listener's loop leaves the rest as it was queued.
LEMMA NextTaskTail ==
  ASSUME TypeOK, TasksInv, NEW task, NextTask(task)
  PROVE  /\ DOMAIN tasks' = 1..(Len(tasks) - 1) /\ Len(tasks') = Len(tasks) - 1
         /\ \A k \in DOMAIN tasks' : k + 1 \in DOMAIN tasks /\ tasks'[k] = tasks[k + 1]
         /\ 1 \in DOMAIN tasks /\ tasks[1] = task
         /\ Len(tasks) = 1 => tasks' = <<>>
<1>1. /\ tasks \in Seq({"nop", "startAdmin", "stopServers"}) /\ tasks # <<>>
      /\ tasks' = Tail(tasks) /\ Head(tasks) = task
  BY DEF TypeOK, NextTask
<1>2. Len(tasks') = Len(tasks) - 1 /\ Len(tasks) \in Nat \ {0} /\ DOMAIN tasks = 1..Len(tasks)
  BY <1>1
<1>3. tasks' \in Seq({"nop", "startAdmin", "stopServers"})
  BY <1>1
<1> QED
  BY <1>1, <1>2, <1>3

\* The owner's task is queued last, runs last, and startAdminServer queues
\* nothing behind it.
LEMMA StepTasksInv == TypeOK /\ LifeInv /\ [Next]_vars => TasksInv'
<1> SUFFICES ASSUME TypeOK, LifeInv, [Next]_vars PROVE TasksInv'
  OBVIOUS
<1> USE DEF TasksInv, Alive, Stopping
<1>1. TasksInv
  BY DEF LifeInv
<1>2. ASSUME UNCHANGED <<tasks, instance>>, at' \in {at, "terminated"}
      PROVE  TasksInv'
  BY <1>1, <1>2
<1>3. CASE UNCHANGED vars
  BY <1>2, <1>3 DEF vars, flags, loop, owner, history
<1>4. CASE RunNop
  <2>1. NextTask("nop") /\ at' = "idle" /\ instance' = instance
    BY <1>4 DEF RunNop
  <2>2. Len(tasks) = 1
    BY <1>1, <2>1, NextTaskTail DEF NextTask
  <2> QED
    BY <2>1, <2>2, <1>1, NextTaskTail
<1>5. CASE RunStartAdmin
  <2>1. NextTask("startAdmin") /\ at' = at /\ instance'["admin"].exists = instance["admin"].exists
    BY <1>5 DEF RunStartAdmin, TypeOK, Instances, owner
  <2>2. ~Stopping
    BY <1>1, <2>1 DEF NextTask
  <2> QED
    BY <1>1, <2>1, <2>2, NextTaskTail
<1>6. CASE RunStopServers
  <2>1. NextTask("stopServers")
    BY <1>6 DEF RunStopServers
  <2>2. Len(tasks) = 1
    BY <1>1, <2>1, NextTaskTail DEF NextTask
  <2>3. tasks' = <<>>
    BY <1>1, <2>1, <2>2, NextTaskTail
  <2> QED
    BY <2>3
<1>7. CASE StartAdminFails
  BY <1>7 DEF StartAdminFails
<1>8. CASE MainLeaves
  BY <1>2, <1>8 DEF MainLeaves, owner
<1>9. ASSUME NEW b \in Workers, WorkerLeaves(b) \/ WorkerDies(b)
      PROVE  TasksInv'
  BY <1>2, <1>9 DEF WorkerLeaves, WorkerDies, loop, owner
<1>10. CASE StopListener \/ (\E b \in Workers : StopBase(b)) \/ BasesStopped \/ JoinThreads
  <2>1. tasks = <<>> /\ tasks' = <<>>
    BY <1>1, <1>10 DEF StopListener, StopBase, BasesStopped, JoinThreads, loop
  <2> QED
    BY <2>1
<1>11. CASE JoinMain \/ JoinMainThrows \/ StopReturns
  <2>1. tasks = <<>> /\ tasks' = <<>>
    BY <1>1, <1>11 DEF JoinMain, JoinMainThrows, StopReturns, loop
  <2> QED
    BY <2>1
<1>12. ASSUME NEW task, at = "idle", tasks' = Append(tasks, task),
              task = "startAdmin" => instance'["admin"].exists /\ at' = "idle",
              task = "nop" => at' = "nop", task = "stopServers" => at' = "stopServers",
              at' \in {"idle", "nop", "stopServers"},
              instance["admin"].exists => instance'["admin"].exists
       PROVE  TasksInv'
  <2>1. tasks \in Seq({"nop", "startAdmin", "stopServers"})
    BY DEF TypeOK
  <2>2. /\ Len(tasks') = Len(tasks) + 1 /\ DOMAIN tasks' = 1..(Len(tasks) + 1)
        /\ tasks'[Len(tasks) + 1] = task
        /\ \A k \in DOMAIN tasks : tasks'[k] = tasks[k]
    BY <1>12, <2>1
  <2>3. \A k \in DOMAIN tasks : tasks[k] = "startAdmin"
    BY <1>1, <1>12, <2>1
  <2>4. ASSUME NEW k \in DOMAIN tasks'
        PROVE  k = Len(tasks) + 1 \/ (k \in DOMAIN tasks /\ tasks'[k] = "startAdmin")
    BY <2>1, <2>2, <2>3
  <2>5. ASSUME NEW k \in DOMAIN tasks'
        PROVE  /\ tasks'[k] = "startAdmin" => instance'["admin"].exists
               /\ tasks'[k] = "nop" => at' = "nop" /\ k = Len(tasks')
               /\ tasks'[k] = "stopServers" => at' = "stopServers" /\ k = Len(tasks')
    <3>1. CASE k = Len(tasks) + 1
      BY <1>12, <2>2, <3>1
    <3>2. CASE k \in DOMAIN tasks /\ tasks'[k] = "startAdmin"
      <4>1. tasks[k] = "startAdmin"
        BY <2>3, <3>2
      <4>2. instance'["admin"].exists
        BY <1>1, <1>12, <3>2, <4>1
      <4> QED
        BY <3>2, <4>2
    <3> QED
      BY <2>4, <3>1, <3>2
  <2>6. at' \notin {"stopListener", "stopBases", "joinThreads", "joinMain"}
    BY <1>12
  <2> QED
    BY <2>5, <2>6
<1>13. CASE Start
  <2>1. instance'["admin"].exists = instance["admin"].exists
    BY <1>13 DEF Start, TypeOK, Instances
  <2> QED
    BY <1>12, <1>13, <2>1 DEF Start
<1>14. CASE StartThrows
  BY <1>1, <1>14 DEF StartThrows, TypeOK, Instances, loop, owner
<1>15. CASE StartAdminServer
  <2>1. instance'["admin"].exists
    BY <1>15 DEF StartAdminServer, TypeOK, Instances
  <2> QED
    BY <1>12, <1>15, <2>1 DEF StartAdminServer, owner
<1>16. CASE StopAndWait
  BY <1>12, <1>16 DEF StopAndWait
<1>17. CASE Destroy
  <2>1. CASE started /\ ~shutdown
    BY <1>12, <1>17, <2>1 DEF Destroy
  <2>2. CASE ~(started /\ ~shutdown)
    BY <1>1, <1>17, <2>2 DEF Destroy
  <2> QED
    BY <2>1, <2>2
<1>18. ASSUME NEW t \in Waiters, Wait(t) \/ WaitThrows(t) \/ WaitReturns(t)
       PROVE  TasksInv'
  BY <1>2, <1>18 DEF Wait, WaitThrows, WaitReturns, loop, owner
<1>19. ASSUME NEW c \in Conns, Serve(c) \/ ServeDangling(c)
       PROVE  TasksInv'
  BY <1>2, <1>19 DEF Serve, ServeDangling, loop, owner
<1>20. ASSUME NEW i \in Instances, NEW c \in Conns,
              AcceptWithoutBase(i, c) \/ \E b \in Workers : Accept(i, c, b)
       PROVE  TasksInv'
  BY <1>2, <1>20 DEF AcceptWithoutBase, Accept, loop, owner
<1> QED
  BY <1>3, <1>4, <1>5, <1>6, <1>7, <1>8, <1>9, <1>10, <1>11, <1>13, <1>14, <1>15, <1>16, <1>17,
     <1>18, <1>19, <1>20 DEF Next, LoopStep, OwnerStep

\* Who deletes an instance has stopped its listener, and stops the workers next
\* (server.cc:170-184).
LEMMA StepInstanceInv == TypeOK /\ LifeInv /\ [Next]_vars => InstanceInv'
<1> SUFFICES ASSUME TypeOK, LifeInv, [Next]_vars PROVE InstanceInv'
  OBVIOUS
<1> USE DEF InstanceInv, Alive
<1>1. InstanceInv /\ TasksInv /\ ConnInv
  BY DEF LifeInv
<1>2. /\ instance \in [Instances -> [exists : BOOLEAN, listener : {"null", "idle", "accepting"}]]
      /\ conn \in [Conns -> [phase : {"none", "ongoing", "over", "abandoned"},
                             host : Instances, worker : Workers]]
      /\ Instances = {"app", "admin"}
  BY DEF TypeOK, Instances
\* What nobody is connected to may change its listener, and be made.
<1>3. ASSUME NEW i \in Instances,
             NEW x \in [exists : BOOLEAN, listener : {"null", "idle", "accepting"}], x.exists,
             instance' = [instance EXCEPT ![i] = x],
             conn' = conn,
             at' = at \/ at' = "terminated" \/ at \notin {"stopListener", "stopBases", "terminated"}
      PROVE  InstanceInv'
  <2>1. \A j \in Instances : instance'[j] = IF j = i THEN x ELSE instance[j]
    BY <1>2, <1>3
  <2>2. \A c \in Conns : conn[c].host \in Instances
    BY <1>2
  <2> QED
    BY <1>1, <1>2, <1>3, <2>1, <2>2
<1>4. ASSUME instance' = instance,
             \A c \in Conns : conn'[c].phase = "ongoing" => conn'[c] = conn[c],
             at' = at \/ at' = "terminated" \/ at \notin {"stopListener", "stopBases", "terminated"}
      PROVE  InstanceInv'
  BY <1>1, <1>2, <1>4
<1>5. CASE UNCHANGED vars
  BY <1>4, <1>5 DEF vars, flags, loop, owner, history
<1>6. CASE RunNop
  BY <1>1, <1>4, <1>6, NextTaskTail DEF RunNop, NextTask, TasksInv
<1>7. CASE RunStartAdmin \/ StartAdminFails
  <2>1. NextTask("startAdmin")
    BY <1>7 DEF RunStartAdmin, StartAdminFails
  <2>2. instance["admin"].exists
    BY <1>1, <2>1, NextTaskTail DEF NextTask, TasksInv
  <2>3. PICK l \in {"idle", "accepting"} : instance' = [instance EXCEPT !["admin"].listener = l]
    BY <1>7 DEF RunStartAdmin, StartAdminFails
  <2>4. conn' = conn /\ at' \in {at, "terminated"}
    BY <1>7 DEF RunStartAdmin, StartAdminFails, owner
  <2> DEFINE x == [instance["admin"] EXCEPT !.listener = l]
  <2>5. x \in [exists : BOOLEAN, listener : {"null", "idle", "accepting"}] /\ x.exists
    BY <1>2, <2>2
  <2> QED
    BY <1>2, <1>3, <2>3, <2>4, <2>5
<1>8. CASE RunStopServers
  BY <1>1, <1>2, <1>8 DEF RunStopServers
<1>9. CASE MainLeaves \/ \E b \in Workers : WorkerLeaves(b) \/ WorkerDies(b)
  BY <1>4, <1>9 DEF MainLeaves, WorkerLeaves, WorkerDies, owner
<1>10. CASE StopListener \/ (\E b \in Workers : StopBase(b)) \/ BasesStopped
  <2>1. CASE StopListener
    BY <1>1, <2>1 DEF StopListener
  <2>2. ASSUME NEW b \in Workers, StopBase(b)
        PROVE  InstanceInv'
    BY <1>2, <1>4, <2>2 DEF StopBase, owner
  \* No base is left, and so nothing is going on.
  <2>3. CASE BasesStopped
    <3>1. \A c \in Conns : conn[c].phase # "ongoing"
      BY <1>1, <2>3 DEF BasesStopped, ConnInv
    <3> QED
      BY <1>1, <2>3, <3>1 DEF BasesStopped
  <2> QED
    BY <1>10, <2>1, <2>2, <2>3
<1>11. CASE JoinThreads \/ JoinMain \/ JoinMainThrows \/ StopReturns
  BY <1>4, <1>11 DEF JoinThreads, JoinMain, JoinMainThrows, StopReturns, owner
<1>12. CASE Start \/ StartThrows
  <2>1. PICK l \in {"idle", "accepting"} : instance' = [instance EXCEPT !["app"].listener = l]
    BY <1>12 DEF Start, StartThrows
  <2>2. conn' = conn /\ at = "idle"
    BY <1>12 DEF Start, StartThrows
  <2> DEFINE x == [instance["app"] EXCEPT !.listener = l]
  <2>3. x \in [exists : BOOLEAN, listener : {"null", "idle", "accepting"}] /\ x.exists
    BY <1>1, <1>2
  <2> QED
    BY <1>2, <1>3, <2>1, <2>2, <2>3
<1>13. CASE StartAdminServer
  <2>1. instance' = [instance EXCEPT !["admin"].exists = TRUE]
    BY <1>13 DEF StartAdminServer
  <2>2. conn' = conn /\ at = "idle"
    BY <1>13 DEF StartAdminServer
  <2> DEFINE x == [instance["admin"] EXCEPT !.exists = TRUE]
  <2>3. x \in [exists : BOOLEAN, listener : {"null", "idle", "accepting"}] /\ x.exists
    BY <1>2
  <2> QED
    BY <1>2, <1>3, <2>1, <2>2, <2>3
<1>14. CASE StopAndWait \/ Destroy
  BY <1>4, <1>14 DEF StopAndWait, Destroy
<1>15. ASSUME NEW t \in Waiters, Wait(t) \/ WaitThrows(t) \/ WaitReturns(t)
       PROVE  InstanceInv'
  BY <1>4, <1>15 DEF Wait, WaitThrows, WaitReturns, owner
<1>16. ASSUME NEW c \in Conns, Serve(c) \/ ServeDangling(c)
       PROVE  InstanceInv'
  BY <1>2, <1>4, <1>16 DEF Serve, ServeDangling, owner
<1>17. ASSUME NEW i \in Instances, NEW c \in Conns, AcceptWithoutBase(i, c)
       PROVE  InstanceInv'
  BY <1>4, <1>17 DEF AcceptWithoutBase
<1>18. ASSUME NEW i \in Instances, NEW c \in Conns, NEW b \in Workers, Accept(i, c, b)
       PROVE  InstanceInv'
  <2>1. instance[i].exists
    BY <1>1, <1>18 DEF Accept, Accepted
  <2> QED
    BY <1>1, <1>2, <1>18, <2>1 DEF Accept, owner
<1> QED
  BY <1>5, <1>6, <1>7, <1>8, <1>9, <1>10, <1>11, <1>12, <1>13, <1>14, <1>15, <1>16, <1>17,
     <1>18 DEF Next, LoopStep, OwnerStep

\* What a start brings up is live and runs.
LEMMA BroughtUp ==
  ASSUME TypeOK, BringUpWorkers
  PROVE  /\ Bases \subseteq Bases'
         /\ Created = {} => Created' = 1..NBases /\ Bases' = Created'
<1>1. Bases \subseteq Bases'
  BY DEF BringUpWorkers, Bases, Created
<1>2. ASSUME Created = {}
      PROVE  Created' = 1..NBases /\ Bases' = Created'
  <2>1. NBases \in Nat /\ NBases >= 1 /\ MaxStarts \in Nat /\ MaxStarts >= 1
    BY LifeAssumption
  <2>2. NBases * MaxStarts \in Nat /\ NBases <= NBases * MaxStarts
    BY <2>1, Z3
  <2>3. 1..NBases \subseteq Workers
    BY <2>1, <2>2 DEF Workers
  <2>4. Cardinality(Created) = 0
    BY <1>2, FS_EmptySet
  <2>5. worker' = [b \in Workers |-> IF b \in 1..NBases THEN [base |-> "live", thread |-> "running"]
                                     ELSE worker[b]]
    BY <2>1, <2>4 DEF BringUpWorkers
  <2>6. \A b \in Workers : worker[b].thread = "none"
    BY <1>2 DEF Created
  <2> QED
    BY <2>3, <2>5, <2>6 DEF Created, Bases
<1> QED
  BY <1>1, <1>2

\* A thread that leaves or is joined stays one that was created, and its base
\* what it was.
LEMMA ThreadsAlone ==
  ASSUME TypeOK, JoinThreads \/ \E b \in Workers : WorkerLeaves(b)
  PROVE  Created' = Created /\ Bases' = Bases
<1>1. CASE JoinThreads
  BY <1>1 DEF JoinThreads, Created, Bases, TypeOK
<1>2. ASSUME NEW b \in Workers, WorkerLeaves(b)
      PROVE  Created' = Created /\ Bases' = Bases
  <2>1. worker' = [worker EXCEPT ![b].thread = "left"] /\ worker[b].thread = "running"
    BY <1>2 DEF WorkerLeaves
  <2>2. \A v \in Workers : /\ worker'[v].base = worker[v].base
                           /\ worker'[v].thread # "none" <=> worker[v].thread # "none"
    BY <2>1 DEF TypeOK
  <2>3. Created' = Created
    BY <2>2 DEF Created
  <2> QED
    BY <2>2, <2>3 DEF Created, Bases
<1> QED
  BY <1>1, <1>2

\* A base that is deleted takes its connections with it, and no other.
LEMMA BaseStopped ==
  ASSUME TypeOK, NEW b \in Workers, StopBase(b)
  PROVE  Created' = Created /\ Bases' = Bases \ {b}
<1>1. worker' = [worker EXCEPT ![b].base = "deleted"]
  BY DEF StopBase
<1>2. \A v \in Workers : /\ worker'[v].thread = worker[v].thread
                         /\ worker'[v].base = IF v = b THEN "deleted" ELSE worker[v].base
  BY <1>1 DEF TypeOK
<1> QED
  BY <1>2 DEF Created, Bases

\* A connection is handed to a base that is there, and is given up with it.
LEMMA StepConnInv == TypeOK /\ LifeInv /\ [Next]_vars => ConnInv'
<1> SUFFICES ASSUME TypeOK, LifeInv, [Next]_vars PROVE ConnInv'
  OBVIOUS
<1>1. ConnInv
  BY DEF LifeInv
<1>2. conn \in [Conns -> [phase : {"none", "ongoing", "over", "abandoned"},
                          host : Instances, worker : Workers]]
  BY DEF TypeOK
<1>3. ASSUME Bases \subseteq Bases', \A c \in Conns : conn'[c].phase = "ongoing" => conn'[c] = conn[c]
      PROVE  ConnInv'
  BY <1>1, <1>3 DEF ConnInv
<1>4. ASSUME worker' = worker
      PROVE  Bases' = Bases
  BY <1>4 DEF Bases, Created
<1>5. CASE UNCHANGED vars
  BY <1>3, <1>4, <1>5 DEF vars
<1>6. CASE RunNop \/ RunStartAdmin \/ StartAdminFails \/ RunStopServers \/ MainLeaves
  BY <1>3, <1>4, <1>6 DEF RunNop, RunStartAdmin, StartAdminFails, RunStopServers, MainLeaves
<1>7. ASSUME NEW b \in Workers, WorkerLeaves(b)
      PROVE  ConnInv'
  BY <1>3, <1>7, ThreadsAlone DEF WorkerLeaves
<1>8. ASSUME NEW b \in Workers, WorkerDies(b)
      PROVE  ConnInv'
  BY <1>3, <1>4, <1>8 DEF WorkerDies
<1>9. CASE StopListener \/ BasesStopped \/ JoinMain \/ JoinMainThrows \/ StopReturns
  BY <1>3, <1>4, <1>9 DEF StopListener, BasesStopped, JoinMain, JoinMainThrows, StopReturns
<1>10. ASSUME NEW b \in Workers, StopBase(b)
       PROVE  ConnInv'
  <2>1. Bases' = Bases \ {b}
    BY <1>10, BaseStopped
  <2>2. \A c \in Conns : conn'[c].phase = "ongoing" =>
          conn'[c] = conn[c] /\ conn[c].phase = "ongoing" /\ conn[c].worker # b
    BY <1>2, <1>10 DEF StopBase
  <2> QED
    BY <1>1, <2>1, <2>2 DEF ConnInv
<1>11. CASE JoinThreads
  BY <1>3, <1>11, ThreadsAlone DEF JoinThreads
<1>12. CASE Start \/ StartThrows
  BY <1>3, <1>12, BroughtUp DEF Start, StartThrows
<1>13. CASE StartAdminServer \/ StopAndWait \/ Destroy
  BY <1>3, <1>4, <1>13 DEF StartAdminServer, StopAndWait, Destroy
<1>14. ASSUME NEW t \in Waiters, Wait(t) \/ WaitThrows(t) \/ WaitReturns(t)
       PROVE  ConnInv'
  BY <1>3, <1>4, <1>14 DEF Wait, WaitThrows, WaitReturns
<1>15. ASSUME NEW c \in Conns, Serve(c) \/ ServeDangling(c)
       PROVE  ConnInv'
  BY <1>2, <1>3, <1>4, <1>15 DEF Serve, ServeDangling
<1>16. ASSUME NEW i \in Instances, NEW c \in Conns, AcceptWithoutBase(i, c)
       PROVE  ConnInv'
  BY <1>3, <1>4, <1>16 DEF AcceptWithoutBase
<1>17. ASSUME NEW i \in Instances, NEW c \in Conns, NEW b \in Workers, Accept(i, c, b)
       PROVE  ConnInv'
  <2>1. b \in Bases /\ Bases' = Bases
    BY <1>4, <1>17 DEF Accept
  <2>2. \A d \in Conns : conn'[d] = IF d = c THEN [phase |-> "ongoing", host |-> i, worker |-> b]
                                   ELSE conn[d]
    BY <1>2, <1>17 DEF Accept
  <2> QED
    BY <1>1, <2>1, <2>2 DEF ConnInv
<1> QED
  BY <1>5, <1>6, <1>7, <1>8, <1>9, <1>10, <1>11, <1>12, <1>13, <1>14, <1>15, <1>16, <1>17
     DEF Next, LoopStep, OwnerStep

\* A start that fails leaves its listener, at which the next one fails; and the
\* bases go only after the listener's loop has been told to stop.
LEMMA StepWorkersInv == TypeOK /\ LifeInv /\ [Next]_vars => WorkersInv'
<1> SUFFICES ASSUME TypeOK, LifeInv, [Next]_vars PROVE WorkersInv'
  OBVIOUS
<1>1. WorkersInv /\ LoopInv
  BY DEF LifeInv
<1>2. /\ instance \in [Instances -> [exists : BOOLEAN, listener : {"null", "idle", "accepting"}]]
      /\ Instances = {"app", "admin"}
      /\ main # "none" => started
  BY DEF TypeOK, Instances
<1>3. ASSUME started' = started, stopping \/ stopping' = stopping, stopping => stopping',
             Created' = Created, stopping' \/ Bases' = Bases,
             started \/ instance'["app"].listener = instance["app"].listener
      PROVE  WorkersInv'
  BY <1>1, <1>3 DEF WorkersInv
<1>4. ASSUME worker' = worker
      PROVE  Bases' = Bases /\ Created' = Created
  BY <1>4 DEF Bases, Created
<1>5. CASE UNCHANGED vars
  BY <1>3, <1>4, <1>5 DEF vars, flags, loop
<1>6. CASE RunNop \/ RunStartAdmin \/ StartAdminFails \/ RunStopServers \/ MainLeaves
  <2>1. main = "running"
    BY <1>6 DEF RunNop, RunStartAdmin, StartAdminFails, RunStopServers, MainLeaves, NextTask
  <2>2. started
    BY <1>2, <2>1
  <2> QED
    BY <1>3, <1>4, <1>6, <2>2
       DEF RunNop, RunStartAdmin, StartAdminFails, RunStopServers, MainLeaves, flags
<1>7. ASSUME NEW b \in Workers, WorkerLeaves(b)
      PROVE  WorkersInv'
  BY <1>3, <1>7, ThreadsAlone DEF WorkerLeaves, flags, loop
<1>8. ASSUME NEW b \in Workers, WorkerDies(b)
      PROVE  WorkersInv'
  BY <1>3, <1>4, <1>8 DEF WorkerDies, flags, loop
<1>9. CASE StopListener
  BY <1>1, <1>4, <1>9 DEF StopListener, WorkersInv, flags
<1>10. ASSUME NEW b \in Workers, StopBase(b)
       PROVE  WorkersInv'
  BY <1>1, <1>3, <1>10, BaseStopped DEF StopBase, LoopInv, flags, loop
<1>11. CASE JoinThreads
  BY <1>3, <1>11, ThreadsAlone DEF JoinThreads, flags, loop
<1>12. CASE BasesStopped \/ JoinMain \/ JoinMainThrows \/ StopReturns
  BY <1>3, <1>4, <1>12 DEF BasesStopped, JoinMain, JoinMainThrows, StopReturns, flags, loop
<1>13. CASE Start
  <2>1. Created = {}
    BY <1>1, <1>13 DEF Start, WorkersInv
  <2>2. Created' = 1..NBases /\ Bases' = Created' /\ started'
    BY <1>13, <2>1, BroughtUp DEF Start
  <2> QED
    BY <2>2 DEF WorkersInv
<1>14. CASE StartThrows
  <2>1. ~started'
    BY <1>14 DEF StartThrows, flags
  <2>2. instance'["app"].listener = "idle"
    BY <1>2, <1>14 DEF StartThrows
  <2> QED
    BY <2>1, <2>2 DEF WorkersInv
<1>15. CASE StartAdminServer
  BY <1>2, <1>3, <1>4, <1>15 DEF StartAdminServer, flags
<1>16. CASE StopAndWait \/ Destroy
  BY <1>3, <1>4, <1>16 DEF StopAndWait, Destroy, flags
<1>17. ASSUME NEW t \in Waiters, Wait(t) \/ WaitThrows(t) \/ WaitReturns(t)
       PROVE  WorkersInv'
  BY <1>3, <1>4, <1>17 DEF Wait, WaitThrows, WaitReturns, flags, loop
<1>18. ASSUME NEW c \in Conns, Serve(c) \/ ServeDangling(c)
       PROVE  WorkersInv'
  BY <1>3, <1>4, <1>18 DEF Serve, ServeDangling, flags, loop
<1>19. ASSUME NEW i \in Instances, NEW c \in Conns,
              AcceptWithoutBase(i, c) \/ \E b \in Workers : Accept(i, c, b)
       PROVE  WorkersInv'
  BY <1>3, <1>4, <1>19 DEF AcceptWithoutBase, Accept, flags, loop
<1> QED
  BY <1>5, <1>6, <1>7, <1>8, <1>9, <1>10, <1>11, <1>12, <1>13, <1>14, <1>15, <1>16, <1>17, <1>18,
     <1>19 DEF Next, LoopStep, OwnerStep

\* The loop is told to leave before the first base is deleted, and main_ is
\* joined after the last.
LEMMA StepLoopInv == TypeOK /\ LifeInv /\ [Next]_vars => LoopInv'
<1> SUFFICES ASSUME TypeOK, LifeInv, [Next]_vars PROVE LoopInv'
  OBVIOUS
<1>1. LoopInv /\ NotStarted /\ TasksInv
  BY DEF LifeInv
<1>2. returned \in [{"start", "stop", "wait", "admin"} -> Nat]
  BY DEF TypeOK
<1>3. ASSUME UNCHANGED <<shutdown, stopping, main, worker>>,
             returned'["wait"] = returned["wait"], returned'["stop"] = returned["stop"],
             "stop" \in threw' => "stop" \in threw,
             \/ at' \in {at, "terminated"}
             \/ /\ at \notin {"stopBases", "terminated"}
                /\ at' \notin {"stopBases", "joinThreads", "joinMain"}
      PROVE  LoopInv'
  <2>1. Bases' = Bases
    BY <1>3 DEF Bases, Created
  <2> QED
    BY <1>1, <1>3, <2>1 DEF LoopInv, Alive
<1>4. CASE UNCHANGED vars
  BY <1>3, <1>4 DEF vars, flags, loop, owner, history
<1>5. CASE LoopStep
  <2>0. ASSUME NEW task, NextTask(task)
        PROVE  at \notin {"stopBases", "terminated"}
    BY <1>1, <2>0 DEF NextTask, TasksInv, Alive, Stopping
  <2>1. CASE RunNop
    BY <1>2, <1>3, <2>0, <2>1 DEF RunNop, Returns, flags
  <2>2. CASE RunStartAdmin \/ StartAdminFails \/ RunStopServers
    BY <1>3, <2>0, <2>2 DEF RunStartAdmin, StartAdminFails, RunStopServers, flags, owner, history
  <2>3. CASE MainLeaves
    <3>1. Bases' = Bases
      BY <2>3 DEF MainLeaves, Bases, Created
    <3> QED
      BY <1>1, <2>3, <3>1 DEF MainLeaves, LoopInv, Alive, flags, owner, history
  <2>4. ASSUME NEW b \in Workers, WorkerLeaves(b)
        PROVE  LoopInv'
    BY <1>1, <2>4, ThreadsAlone DEF WorkerLeaves, LoopInv, Alive, flags, loop, owner, history
  <2>5. ASSUME NEW b \in Workers, WorkerDies(b)
        PROVE  LoopInv'
    BY <1>3, <2>5 DEF WorkerDies, flags, loop, history
  <2> QED
    BY <1>5, <2>1, <2>2, <2>3, <2>4, <2>5 DEF LoopStep
<1>6. CASE StopListener \/ BasesStopped
  <2>1. Bases' = Bases
    BY <1>6 DEF StopListener, BasesStopped, Bases, Created
  <2> QED
    BY <1>1, <1>6, <2>1 DEF StopListener, BasesStopped, LoopInv, Alive, flags, loop, history
<1>7. CASE JoinThreads \/ \E b \in Workers : StopBase(b)
  <2>1. CASE JoinThreads
    BY <1>1, <2>1, ThreadsAlone DEF JoinThreads, LoopInv, Alive, flags, loop, history
  <2>2. ASSUME NEW b \in Workers, StopBase(b)
        PROVE  LoopInv'
    BY <1>1, <2>2 DEF StopBase, LoopInv, flags, loop, owner, history
  <2> QED
    BY <1>7, <2>1, <2>2
<1>8. CASE JoinMain
  BY <1>3, <1>8 DEF JoinMain, flags, loop, owner, history
<1>9. CASE JoinMainThrows
  <2>1. Bases' = Bases
    BY <1>9 DEF JoinMainThrows, Bases, Created
  <2> QED
    BY <1>1, <1>9, <2>1 DEF JoinMainThrows, LoopInv, Alive, flags, loop
<1>10. CASE StopReturns
  <2>2. Bases' = Bases
    BY <1>10 DEF StopReturns, Bases, Created
  <2>1. returned'["stop"] > 0 /\ returned'["wait"] = returned["wait"]
    BY <1>2, <1>10 DEF StopReturns, Returns
  <2> QED
    BY <1>1, <1>10, <2>1, <2>2 DEF StopReturns, LoopInv, Alive
<1>11. CASE Start \/ StartThrows
  <2>1. ~stopping /\ ~stopping' /\ main' \in {"none", "running"} /\ ~shutdown /\ ~shutdown'
    BY <1>1, <1>11 DEF NotStarted, Start, StartThrows, flags, loop
  <2>2. main = "none" /\ threw' = {} /\ returned' = returned /\ at' \in {"idle", "nop"}
    BY <1>1, <1>11 DEF NotStarted, Start, StartThrows, owner, history
  <2> QED
    BY <1>1, <2>1, <2>2 DEF LoopInv
<1>12. CASE StartAdminServer
  BY <1>2, <1>3, <1>12 DEF StartAdminServer, Returns, flags, owner
<1>13. CASE StopAndWait \/ Destroy
  BY <1>3, <1>13 DEF StopAndWait, Destroy, flags, history
<1>14. ASSUME NEW t \in Waiters, Wait(t) \/ WaitThrows(t)
       PROVE  LoopInv'
  BY <1>3, <1>14 DEF Wait, WaitThrows, flags, loop, owner, history
<1>15. ASSUME NEW t \in Waiters, WaitReturns(t)
       PROVE  LoopInv'
  <2>1. returned'["stop"] = returned["stop"]
    BY <1>2, <1>15 DEF WaitReturns, Returns
  <2>2. Bases' = Bases
    BY <1>15 DEF WaitReturns, Bases, Created
  <2> QED
    BY <1>1, <1>15, <2>1, <2>2 DEF WaitReturns, LoopInv, Alive, flags, owner
<1>16. ASSUME NEW c \in Conns, Serve(c) \/ ServeDangling(c)
       PROVE  LoopInv'
  BY <1>3, <1>16 DEF Serve, ServeDangling, flags, loop, owner, history
<1>17. ASSUME NEW i \in Instances, NEW c \in Conns,
              AcceptWithoutBase(i, c) \/ \E b \in Workers : Accept(i, c, b)
       PROVE  LoopInv'
  BY <1>3, <1>17 DEF AcceptWithoutBase, Accept, flags, loop, owner, history
<1> QED
  BY <1>4, <1>5, <1>6, <1>7, <1>8, <1>9, <1>10, <1>11, <1>12, <1>13, <1>14, <1>15, <1>16, <1>17
     DEF Next, OwnerStep

\* While the owner stops, what would bring a listener up again is not queued;
\* afterwards no loop would run it (unless the join has thrown).
LEMMA StepListenerInv == TypeOK /\ LifeInv /\ [Next]_vars => ListenerInv'
<1> SUFFICES ASSUME TypeOK, LifeInv, [Next]_vars PROVE ListenerInv'
  OBVIOUS
<1>1. ListenerInv /\ LoopInv /\ NotStarted /\ TasksInv
  BY DEF LifeInv
<1>2. /\ instance \in [Instances -> [exists : BOOLEAN, listener : {"null", "idle", "accepting"}]]
      /\ Instances = {"app", "admin"}
  BY DEF TypeOK, Instances
<1>3. ASSUME \A i \in Instances : instance'[i].listener = instance[i].listener,
             UNCHANGED <<started, shutdown, stopping>>, threw \subseteq threw',
             at' = at \/ at' = "terminated"
      PROVE  ListenerInv'
  BY <1>1, <1>3 DEF ListenerInv, NullListeners, Stopping
<1>4. CASE UNCHANGED vars
  BY <1>3, <1>4 DEF vars, flags, loop, owner, history
<1>5. CASE RunNop
  <2>1. at = "nop"
    BY <1>1, <1>5, NextTaskTail DEF RunNop, NextTask, TasksInv
  <2> QED
    BY <1>1, <1>5, <2>1 DEF RunNop, ListenerInv, NullListeners, Stopping, flags
<1>6. CASE RunStartAdmin \/ StartAdminFails
  <2>1. NextTask("startAdmin")
    BY <1>6 DEF RunStartAdmin, StartAdminFails
  <2>2. ~Stopping /\ at # "terminated" /\ ~shutdown
    BY <1>1, <2>1 DEF NextTask, Alive, TasksInv, LoopInv
  <2>3. stopping => "stop" \in threw
    BY <1>1, <2>2 DEF ListenerInv, Stopping
  <2>4. at' = at \/ at' = "terminated"
    BY <1>6 DEF RunStartAdmin, StartAdminFails, owner
  <2>5. UNCHANGED <<started, shutdown, stopping, threw>>
    BY <1>6 DEF RunStartAdmin, StartAdminFails, flags, history
  <2> QED
    BY <1>1, <2>2, <2>3, <2>4, <2>5 DEF ListenerInv, Stopping
<1>7. CASE RunStopServers
  <2>1. NullListeners'
    BY <1>2, <1>7 DEF RunStopServers, NullListeners
  <2>2. NextTask("stopServers")
    BY <1>7 DEF RunStopServers
  <2>3. at = "stopServers" /\ main = "running"
    BY <1>1, <2>2, NextTaskTail DEF NextTask, TasksInv
  <2> QED
    BY <1>1, <1>7, <2>1, <2>3 DEF RunStopServers, ListenerInv, LoopInv, Stopping, flags, history
<1>8. CASE MainLeaves \/ \E b \in Workers : WorkerLeaves(b) \/ WorkerDies(b)
  BY <1>3, <1>8 DEF MainLeaves, WorkerLeaves, WorkerDies, flags, loop, owner, history
<1>9. CASE StopListener \/ (\E b \in Workers : StopBase(b)) \/ BasesStopped \/ JoinThreads
  BY <1>1, <1>9 DEF StopListener, StopBase, BasesStopped, JoinThreads, ListenerInv, NullListeners,
                    Stopping, flags, loop, owner, history
<1>10. CASE JoinMain
  BY <1>3, <1>10 DEF JoinMain, flags, loop, owner, history
<1>11. CASE JoinMainThrows
  <2>1. at' \in {"idle", "terminated"} /\ "stop" \in threw' /\ UNCHANGED <<instance, shutdown>>
    BY <1>11 DEF JoinMainThrows, flags
  <2> QED
    BY <1>1, <2>1 DEF ListenerInv, NullListeners, Stopping
<1>12. CASE StopReturns
  <2>1. at = "joinMain" /\ shutdown' /\ instance' = instance
    BY <1>12 DEF StopReturns
  <2> QED
    BY <1>1, <2>1 DEF ListenerInv, NullListeners, Stopping
<1>13. CASE Start \/ StartThrows
  <2>1. ~stopping' /\ ~shutdown' /\ at' \in {"idle", "nop"}
    BY <1>1, <1>13 DEF NotStarted, Start, StartThrows, flags, loop, owner
  <2> QED
    BY <2>1 DEF ListenerInv, Stopping
<1>14. CASE StartAdminServer
  BY <1>2, <1>3, <1>14 DEF StartAdminServer, flags, owner
<1>15. CASE StopAndWait \/ Destroy
  <2>1. /\ at' \in {"stopServers", "destroyed"} /\ at = "idle"
        /\ at' = "destroyed" => ~started \/ shutdown
        /\ UNCHANGED <<instance, started, shutdown, stopping, threw>>
    BY <1>15 DEF StopAndWait, Destroy, flags, history
  <2> QED
    BY <1>1, <2>1 DEF ListenerInv, NullListeners, Stopping
<1>16. ASSUME NEW t \in Waiters, Wait(t) \/ WaitThrows(t) \/ WaitReturns(t)
       PROVE  ListenerInv'
  BY <1>3, <1>16 DEF Wait, WaitThrows, WaitReturns, flags, loop, owner, history
<1>17. ASSUME NEW c \in Conns, Serve(c) \/ ServeDangling(c)
       PROVE  ListenerInv'
  BY <1>3, <1>17 DEF Serve, ServeDangling, flags, loop, owner, history
<1>18. ASSUME NEW i \in Instances, NEW c \in Conns,
              AcceptWithoutBase(i, c) \/ \E b \in Workers : Accept(i, c, b)
       PROVE  ListenerInv'
  BY <1>3, <1>18 DEF AcceptWithoutBase, Accept, flags, loop, owner, history
<1> QED
  BY <1>4, <1>5, <1>6, <1>7, <1>8, <1>9, <1>10, <1>11, <1>12, <1>13, <1>14, <1>15, <1>16, <1>17,
     <1>18 DEF Next, LoopStep, OwnerStep

\* Nobody starts workers once a start has returned, so those joined are all.
LEMMA StepThreadInv == TypeOK /\ LifeInv /\ [Next]_vars => ThreadInv'
<1> SUFFICES ASSUME TypeOK, LifeInv, [Next]_vars PROVE ThreadInv'
  OBVIOUS
<1>1. ThreadInv /\ NotStarted
  BY DEF LifeInv
<1>2. ASSUME UNCHANGED <<worker, shutdown>>, at' = "joinMain" => at = "joinMain"
      PROVE  ThreadInv'
  BY <1>1, <1>2 DEF ThreadInv, Created
<1>3. CASE UNCHANGED vars
  BY <1>2, <1>3 DEF vars, flags, owner
<1>4. CASE RunNop \/ RunStartAdmin \/ StartAdminFails \/ RunStopServers \/ MainLeaves
  BY <1>2, <1>4 DEF RunNop, RunStartAdmin, StartAdminFails, RunStopServers, MainLeaves, flags, owner
<1>5. ASSUME NEW b \in Workers, WorkerLeaves(b)
      PROVE  ThreadInv'
  \* A worker still runs: the owner has not come to join main_.
  <2>1. b \in Created /\ worker[b].thread = "running"
    BY <1>5 DEF WorkerLeaves, Created
  <2>2. at # "joinMain" /\ ~shutdown
    BY <1>1, <2>1 DEF ThreadInv
  <2> QED
    BY <1>5, <2>2 DEF WorkerLeaves, ThreadInv, flags, owner
<1>6. ASSUME NEW b \in Workers, WorkerDies(b)
      PROVE  ThreadInv'
  BY <1>2, <1>6 DEF WorkerDies, flags
<1>7. CASE (\E b \in Workers : StopBase(b)) \/ StopListener \/ BasesStopped \/ JoinMain
           \/ JoinMainThrows
  <2>1. ASSUME NEW b \in Workers, StopBase(b)
        PROVE  ThreadInv'
    <3>1. worker' = [worker EXCEPT ![b].base = "deleted"] /\ at' = at /\ shutdown' = shutdown
      BY <2>1 DEF StopBase, flags, owner
    <3>2. \A v \in Workers : worker'[v].thread = worker[v].thread
      BY <3>1 DEF TypeOK
    <3> QED
      BY <1>1, <3>1, <3>2 DEF ThreadInv, Created
  <2>2. CASE StopListener \/ BasesStopped \/ JoinMain \/ JoinMainThrows
    BY <1>2, <2>2 DEF StopListener, BasesStopped, JoinMain, JoinMainThrows, flags, owner
  <2> QED
    BY <1>7, <2>1, <2>2
<1>8. CASE JoinThreads
  <2>1. \A b \in Workers : worker'[b].thread \in {"none", "joined"}
    BY <1>8 DEF JoinThreads, Created, TypeOK
  <2> QED
    BY <2>1 DEF ThreadInv, Created
<1>9. CASE StopReturns
  BY <1>1, <1>9 DEF StopReturns, ThreadInv, Created
<1>10. CASE Start \/ StartThrows
  BY <1>1, <1>10 DEF Start, StartThrows, NotStarted, ThreadInv, flags, owner
<1>11. CASE StartAdminServer \/ StopAndWait \/ Destroy
  BY <1>2, <1>11 DEF StartAdminServer, StopAndWait, Destroy, flags, owner
<1>12. ASSUME NEW t \in Waiters, Wait(t) \/ WaitThrows(t) \/ WaitReturns(t)
       PROVE  ThreadInv'
  BY <1>2, <1>12 DEF Wait, WaitThrows, WaitReturns, flags, owner
<1>13. ASSUME NEW c \in Conns, Serve(c) \/ ServeDangling(c)
       PROVE  ThreadInv'
  BY <1>2, <1>13 DEF Serve, ServeDangling, flags, owner
<1>14. ASSUME NEW i \in Instances, NEW c \in Conns,
              AcceptWithoutBase(i, c) \/ \E b \in Workers : Accept(i, c, b)
       PROVE  ThreadInv'
  BY <1>2, <1>14 DEF AcceptWithoutBase, Accept, flags, owner
<1> QED
  BY <1>3, <1>4, <1>5, <1>6, <1>7, <1>8, <1>9, <1>10, <1>11, <1>12, <1>13, <1>14
     DEF Next, LoopStep, OwnerStep

\* A process that has ended takes no step.
LEMMA OnlyAlive == Next => Alive
BY DEF Next, Alive, LoopStep, RunNop, RunStartAdmin, StartAdminFails, RunStopServers, NextTask,
       MainLeaves, WorkerLeaves, WorkerDies, OwnerStep, StopListener, StopBase, BasesStopped,
       JoinThreads, JoinMain, JoinMainThrows, StopReturns, Start, StartThrows, StartAdminServer,
       StopAndWait, Destroy, Wait, WaitThrows, WaitReturns, MayWait, Serve, ServeDangling, Served,
       Accept, AcceptWithoutBase, Accepted

\* Each step that ends the process leaves behind why.  Only when a join has
\* thrown is there no base for a connection that is accepted: otherwise the
\* listener's loop is told to stop after the listeners are gone, and the bases
\* go after that.
LEMMA StepEnds == TypeOK /\ LifeInv /\ [Next]_vars => EndsForAReason'
<1> SUFFICES ASSUME TypeOK, LifeInv, [Next]_vars PROVE EndsForAReason'
  OBVIOUS
<1>1. EndsForAReason /\ InstanceInv /\ WorkersInv /\ ListenerInv
  BY DEF LifeInv
<1>2. CASE UNCHANGED vars
  BY <1>1, <1>2 DEF EndsForAReason, vars, flags, loop, owner, history
<1>3. CASE Next
  <2> SUFFICES ASSUME at' = "terminated" PROVE EndsForAReason'
    BY DEF EndsForAReason
  <2>1. at # "terminated"
    BY <1>3, OnlyAlive DEF Alive
  <2>2. CASE StartAdminFails
    BY <2>2 DEF StartAdminFails, EndsForAReason, TypeOK, Instances
  <2>3. ASSUME NEW b \in Workers, WorkerDies(b)
        PROVE  EndsForAReason'
    BY <2>3 DEF WorkerDies, EndsForAReason
  <2>4. CASE JoinMainThrows
    BY <2>4 DEF JoinMainThrows, EndsForAReason
  <2>5. ASSUME NEW c \in Conns, ServeDangling(c)
        PROVE  EndsForAReason'
    <3>1. conn[c].host = "admin" /\ ~instance["admin"].exists
      BY <1>1, <2>5 DEF ServeDangling, InstanceInv, TypeOK, Instances
    <3>2. conn'[c].phase = "over" /\ conn'[c].host = "admin" /\ instance' = instance
      BY <2>5, <3>1 DEF ServeDangling, TypeOK
    <3> QED
      BY <3>1, <3>2 DEF EndsForAReason
  <2>6. ASSUME NEW i \in Instances, NEW c \in Conns, AcceptWithoutBase(i, c)
        PROVE  EndsForAReason'
    <3>1. main = "running" /\ instance[i].listener = "accepting" /\ Bases = {}
      BY <2>6 DEF AcceptWithoutBase, Accepted
    <3>2. started /\ 1 \in 1..NBases
      BY <3>1, LifeAssumption DEF TypeOK
    <3>3. stopping
      BY <1>1, <3>1, <3>2 DEF WorkersInv
    <3>4. "stop" \in threw
      BY <1>1, <3>1, <3>3 DEF ListenerInv, NullListeners
    <3> QED
      BY <2>6, <3>4 DEF AcceptWithoutBase, EndsForAReason, history
  <2>7. ~LoopStep \/ StartAdminFails \/ \E b \in Workers : WorkerDies(b)
    BY <2>1 DEF LoopStep, RunNop, RunStartAdmin, RunStopServers, MainLeaves, WorkerLeaves, owner
  <2>8. ~OwnerStep \/ JoinMainThrows
    BY <2>1 DEF OwnerStep, StopListener, StopBase, BasesStopped, JoinThreads, JoinMain, StopReturns,
                owner
  <2>9. ~(Start \/ StartThrows \/ StartAdminServer \/ StopAndWait \/ Destroy)
    BY <2>1 DEF Start, StartThrows, StartAdminServer, StopAndWait, Destroy, owner
  <2>10. ASSUME NEW t \in Waiters PROVE ~(Wait(t) \/ WaitThrows(t) \/ WaitReturns(t))
    BY <2>1 DEF Wait, WaitThrows, WaitReturns, owner
  <2>11. ASSUME NEW c \in Conns PROVE ~Serve(c)
    BY <2>1 DEF Serve, owner
  <2>12. ASSUME NEW i \in Instances, NEW c \in Conns, NEW b \in Workers PROVE ~Accept(i, c, b)
    BY <2>1 DEF Accept, owner
  <2> QED
    BY <1>3, <2>2, <2>3, <2>4, <2>5, <2>6, <2>7, <2>8, <2>9, <2>10, <2>11, <2>12 DEF Next
<1> QED
  BY <1>2, <1>3

\* The inductive invariant holds of every reachable state.
LEMMA LifeInvariant == Spec => [](TypeOK /\ LifeInv)
<1>1. Init => TypeOK /\ LifeInv
  BY InitTypeOK, InitLifeInv
<1>2. TypeOK /\ LifeInv /\ [Next]_vars => (TypeOK /\ LifeInv)'
  BY StepTypeOK, StepNotStarted, StepTasksInv, StepInstanceInv, StepConnInv, StepWorkersInv,
     StepLoopInv, StepListenerInv, StepThreadInv, StepEnds DEF LifeInv
<1> QED
  BY <1>1, <1>2, PTL DEF Spec

-----------------------------------------------------------------------------
(***************************************************************************)
(* What follows from it.                                                   *)
(***************************************************************************)

\* When stopAndWait or wait has returned nothing listens and every thread has
\* been joined, and no listener outlives the loop it listens on, however many
\* starts failed before and however many threads wait (server.h:72-82).
THEOREM StopStops == Spec => []StoppedIsStopped
<1>1. TypeOK /\ LifeInv => StoppedIsStopped
  <2> SUFFICES ASSUME TypeOK, LifeInv PROVE StoppedIsStopped
    OBVIOUS
  <2>1. LoopInv /\ ListenerInv /\ ThreadInv
    BY DEF LifeInv
  <2>2. returned["stop"] \in Nat /\ returned["wait"] \in Nat
    BY DEF TypeOK
  <2>3. ASSUME returned["stop"] + returned["wait"] > 0, "stop" \notin threw
        PROVE  \A i \in Instances : instance[i].listener = "null"
    <3>1. CASE returned["stop"] > 0
      BY <2>1, <3>1 DEF LoopInv, ListenerInv, NullListeners
    <3>2. CASE returned["wait"] > 0
      BY <2>1, <2>3, <3>2 DEF LoopInv, ListenerInv, NullListeners
    <3> QED
      BY <2>2, <2>3, <3>1, <3>2
  <2>4. returned["stop"] > 0 =>
          main = "joined" /\ \A b \in Created : worker[b].thread = "joined"
    BY <2>1 DEF LoopInv, ThreadInv
  <2>5. at = "destroyed" /\ started => \A i \in Instances : instance[i].listener = "null"
    BY <2>1 DEF ListenerInv, NullListeners
  <2> QED
    BY <2>3, <2>4, <2>5 DEF StoppedIsStopped
<1> QED
  BY <1>1, LifeInvariant, PTL

\* No worker serves a connection of an instance that is gone, but for those of
\* the admin instance between the two halves of a stop (server.cc:170-184).
THEOREM NothingElseDangles == Spec => []OnlyAdminDangles
<1>1. TypeOK /\ LifeInv => OnlyAdminDangles
  BY DEF LifeInv, InstanceInv, OnlyAdminDangles, Served, TypeOK, Instances
<1> QED
  BY <1>1, LifeInvariant, PTL

\* The workers of a start that failed are never those of a server that is
\* started (server.cc:117-129).
THEOREM OneStartOnly == Spec => []WorkersOfOneStart
<1>1. TypeOK /\ LifeInv => WorkersOfOneStart
  BY DEF LifeInv, WorkersInv, WorkersOfOneStart
<1> QED
  BY <1>1, LifeInvariant, PTL

\* The process ends for one of four reasons, and accepting a connection for
\* which there is no base is none unless a join has thrown before.
THEOREM EndsOnlyForThose == Spec => []EndsForAReason
<1>1. TypeOK /\ LifeInv => EndsForAReason
  BY DEF LifeInv
<1> QED
  BY <1>1, LifeInvariant, PTL

\* From the moment the servers are stopped no connection is handed to a worker.
THEOREM StoppedAcceptsNothing == Spec => NothingAcceptedOnceStopped
<1> DEFINE Kept ==
      ServersStopped => \A c \in Conns : conn'[c].phase = "ongoing" => conn[c].phase = "ongoing"
<1>1. TypeOK /\ LifeInv /\ [Next]_vars => [Kept]_vars
  <2> SUFFICES ASSUME TypeOK, LifeInv, Next, ServersStopped,
                      NEW c \in Conns, conn'[c].phase = "ongoing"
               PROVE  conn[c].phase = "ongoing"
    OBVIOUS
  <2>1. LoopInv /\ ListenerInv
    BY DEF LifeInv
  \* Either nothing listens, or no base is left to hand a connection to.
  <2>2. ASSUME NEW i \in Instances, NEW d \in Conns, NEW b \in Workers
        PROVE  ~Accept(i, d, b)
    <3>1. NullListeners \/ Bases = {} \/ ~Alive
      BY <2>1 DEF ServersStopped, Stopping, LoopInv, ListenerInv
    <3> QED
      BY <3>1 DEF Accept, Accepted, NullListeners
  <2>3. CASE conn' = conn
    BY <2>3
  <2>4. ASSUME NEW b \in Workers, StopBase(b)
        PROVE  conn[c].phase = "ongoing"
    BY <2>4 DEF StopBase, TypeOK
  <2>5. ASSUME NEW d \in Conns, Serve(d) \/ ServeDangling(d)
        PROVE  conn[c].phase = "ongoing"
    <3>1. conn' = [conn EXCEPT ![d].phase = "over"]
      BY <2>5 DEF Serve, ServeDangling
    <3>2. conn'[d].phase = "over" /\ (c # d => conn'[c] = conn[c])
      BY <3>1 DEF TypeOK
    <3> QED
      BY <3>2
  <2>6. LoopStep => conn' = conn
    BY DEF LoopStep, RunNop, RunStartAdmin, StartAdminFails, RunStopServers, MainLeaves,
           WorkerLeaves, WorkerDies
  <2>7. OwnerStep => (\E b \in Workers : StopBase(b)) \/ conn' = conn
    BY DEF OwnerStep, StopListener, BasesStopped, JoinThreads, JoinMain, JoinMainThrows, StopReturns
  <2>8. Start \/ StartThrows \/ StartAdminServer \/ StopAndWait \/ Destroy => conn' = conn
    BY DEF Start, StartThrows, StartAdminServer, StopAndWait, Destroy
  <2>9. ASSUME NEW t \in Waiters, Wait(t) \/ WaitThrows(t) \/ WaitReturns(t)
        PROVE  conn' = conn
    BY <2>9 DEF Wait, WaitThrows, WaitReturns
  <2>10. ASSUME NEW i \in Instances, NEW d \in Conns, AcceptWithoutBase(i, d)
         PROVE  conn' = conn
    BY <2>10 DEF AcceptWithoutBase
  <2> QED
    BY <2>2, <2>3, <2>4, <2>5, <2>6, <2>7, <2>8, <2>9, <2>10 DEF Next
<1> QED
  BY <1>1, LifeInvariant, PTL DEF Spec, NothingAcceptedOnceStopped
=============================================================================

---------------------------- MODULE AgentController ----------------------------
(***************************************************************************)
(* agents/controller/agent_controller: a pool of workers on one priority   *)
(* queue.  The queue and the statuses belong to mutex_; running_ is an     *)
(* atomic of its own, which stop() writes without the mutex.               *)
(*                                                                         *)
(* pc[w] is where worker w stands:                                         *)
(*   none      no thread                                                   *)
(*   loop      about to read running_ at the head of the loop              *)
(*   lock      wants the mutex to wait for work (again, after a wake-up)   *)
(*   locked    holds it, about to evaluate the wait's predicate            *)
(*   blocking  holds it, found the predicate false, about to sleep         *)
(*   waiting   asleep on cv_, the mutex released                           *)
(*   mark, exec, report   with a task taken off the queue                  *)
(*   callback  after the report, in the completion callback                *)
(*   done      the thread function has returned                            *)
(***************************************************************************)
EXTENDS Naturals, FiniteSets

CONSTANTS Workers,          \* the worker_count_ threads
          Agents,           \* personas_
          Priorities,       \* HIGH = 0, NORMAL = 1, LOW = 2
          NoTask, Free,
          MaxTasks          \* bound: tasks submitted and not reported at one time

ASSUME PrioritiesAreNats == Priorities \subseteq Nat
ASSUME BoundIsNat == MaxTasks \in Nat

VARIABLES running,          \* running_
          mutex,            \* the worker holding mutex_ from one step to the next
          queue,            \* queue_
          held,             \* the task each worker took
          pc,
          owner,            \* the thread that calls start() and stop()
          status,           \* statuses_[agent].state
          outstanding       \* history: ids of the tasks submitted and not reported

agentVars == <<running, mutex, queue, held, pc, owner, status, outstanding>>

(* next_task_id_ never gives an id twice.  Here the id of a task whose     *)
(* report is done is given again, so that tasks may come without end.      *)
Tasks == [id : 1 .. MaxTasks, agent : Agents, priority : Priorities]
ASSUME WorkersAreFinite == IsFiniteSet(Workers) /\ Free \notin Workers
ASSUME NoTaskIsNone == NoTask \notin Tasks

AgentStates == {"IDLE", "RUNNING", "COMPLETED", "FAILED"}
WorkerPCs == {"none", "loop", "lock", "locked", "blocking", "waiting",
              "mark", "exec", "report", "callback", "done"}
Holding == {"mark", "exec", "report"}

Waiting == {w \in Workers : pc[w] = "waiting"}
Goto(w, where) == pc' = [pc EXCEPT ![w] = where]

AgentInit ==
  /\ running = FALSE
  /\ mutex = Free
  /\ queue = {}
  /\ held = [w \in Workers |-> NoTask]
  /\ pc = [w \in Workers |-> "none"]
  /\ owner = "idle"
  /\ status = [a \in Agents |-> "IDLE"]
  /\ outstanding = {}

-----------------------------------------------------------------------------
Enqueues(a, p) ==
  \E id \in (1 .. MaxTasks) \ outstanding :
    /\ outstanding' = outstanding \cup {id}
    /\ queue' = queue \cup {[id |-> id, agent |-> a, priority |-> p]}

(* A faulty submit_task that wakes nobody. *)
SubmitSilently(a, p) ==
  /\ mutex = Free
  /\ Enqueues(a, p)
  /\ UNCHANGED <<running, mutex, held, pc, owner, status>>

(* submit_task, by any thread (the autonomy loop, a command, a completion  *)
(* callback), in any state of the controller: queued and one sleeper woken *)
(* under the mutex.  An unknown agent is refused and changes nothing.      *)
Submit(a, p) ==
  /\ mutex = Free
  /\ Enqueues(a, p)
  /\ IF Waiting = {} THEN UNCHANGED pc ELSE \E w \in Waiting : Goto(w, "lock")
  /\ UNCHANGED <<running, mutex, held, owner, status>>

(* start: nothing when already running. *)
Start ==
  /\ owner = "idle" /\ ~running
  /\ running' = TRUE
  /\ pc' = [w \in Workers |-> "loop"]
  /\ UNCHANGED <<mutex, queue, held, owner, status, outstanding>>

(* stop: clear running_, notify_all, join; none of it takes the mutex. *)
StopClears ==
  /\ owner = "idle" /\ running
  /\ running' = FALSE
  /\ owner' = "notify"
  /\ UNCHANGED <<mutex, queue, held, pc, status, outstanding>>

StopNotifies ==
  /\ owner = "notify"
  /\ pc' = [w \in Workers |-> IF w \in Waiting THEN "lock" ELSE pc[w]]
  /\ owner' = "join"
  /\ UNCHANGED <<running, mutex, queue, held, status, outstanding>>

(* A faulty stop that returns as soon as one worker has. *)
StopJoinsOne ==
  /\ owner = "join"
  /\ \E w \in Workers : pc[w] = "done"
  /\ pc' = [w \in Workers |-> IF pc[w] = "done" THEN "none" ELSE pc[w]]
  /\ owner' = "idle"
  /\ UNCHANGED <<running, mutex, queue, held, status, outstanding>>

StopJoins ==
  /\ owner = "join"
  /\ \A w \in Workers : pc[w] = "done"
  /\ pc' = [w \in Workers |-> "none"]
  /\ owner' = "idle"
  /\ UNCHANGED <<running, mutex, queue, held, status, outstanding>>

-----------------------------------------------------------------------------
workerOnly == <<running, owner>>

(* while (running_.load()) *)
LoopHead(w) ==
  /\ pc[w] = "loop"
  /\ Goto(w, IF running THEN "lock" ELSE "done")
  /\ UNCHANGED <<mutex, queue, held, status, outstanding, workerOnly>>

Acquire(w) ==
  /\ pc[w] = "lock" /\ mutex = Free
  /\ mutex' = w
  /\ Goto(w, "locked")
  /\ UNCHANGED <<queue, held, status, outstanding, workerOnly>>

(* A faulty take that leaves the task in the queue, and one that takes the *)
(* least urgent.                                                           *)
TakeKeeps(w) ==
  /\ pc[w] = "locked"
  /\ \E t \in queue :
       /\ \A u \in queue : t.priority <= u.priority
       /\ held' = [held EXCEPT ![w] = t]
  /\ mutex' = Free
  /\ Goto(w, "mark")
  /\ UNCHANGED <<queue, status, outstanding, workerOnly>>

TakeLeastUrgent(w) ==
  /\ pc[w] = "locked"
  /\ \E t \in queue :
       /\ \A u \in queue : t.priority >= u.priority
       /\ queue' = queue \ {t}
       /\ held' = [held EXCEPT ![w] = t]
  /\ mutex' = Free
  /\ Goto(w, "mark")
  /\ UNCHANGED <<status, outstanding, workerOnly>>

(* The predicate holds because there is work: one of the most urgent tasks *)
(* is taken, running or not (the heap keeps no order among equals).        *)
Take(w) ==
  /\ pc[w] = "locked"
  /\ \E t \in queue :
       /\ \A u \in queue : t.priority <= u.priority
       /\ queue' = queue \ {t}
       /\ held' = [held EXCEPT ![w] = t]
  /\ mutex' = Free
  /\ Goto(w, "mark")
  /\ UNCHANGED <<status, outstanding, workerOnly>>

(* A faulty exit that pops from the empty queue. *)
LeaveTakesNothing(w) ==
  /\ pc[w] = "locked" /\ queue = {} /\ ~running
  /\ mutex' = Free
  /\ Goto(w, "mark")
  /\ UNCHANGED <<queue, held, status, outstanding, workerOnly>>

(* It holds because the pool is stopping and nothing is queued. *)
Leave(w) ==
  /\ pc[w] = "locked" /\ queue = {} /\ ~running
  /\ mutex' = Free
  /\ Goto(w, "done")
  /\ UNCHANGED <<queue, held, status, outstanding, workerOnly>>

(* It does not hold: wait() sleeps, releasing the mutex as it does. *)
FindsNothing(w) ==
  /\ pc[w] = "locked" /\ queue = {} /\ running
  /\ Goto(w, "blocking")
  /\ UNCHANGED <<mutex, queue, held, status, outstanding, workerOnly>>

Sleep(w) ==
  /\ pc[w] = "blocking"
  /\ mutex' = Free
  /\ Goto(w, "waiting")
  /\ UNCHANGED <<queue, held, status, outstanding, workerOnly>>

(* A condition variable may wake a sleeper for no reason. *)
WakeSpuriously(w) ==
  /\ pc[w] = "waiting"
  /\ Goto(w, "lock")
  /\ UNCHANGED <<mutex, queue, held, status, outstanding, workerOnly>>

MarkRunning(w) ==
  /\ pc[w] = "mark" /\ mutex = Free
  /\ status' = [status EXCEPT ![held[w].agent] = "RUNNING"]
  /\ Goto(w, "exec")
  /\ UNCHANGED <<mutex, queue, held, outstanding, workerOnly>>

(* execute_task: the persona is looked up under the mutex; inference and   *)
(* dispatch run without it.                                                *)
Execute(w) ==
  /\ pc[w] = "exec" /\ mutex = Free
  /\ Goto(w, "report")
  /\ UNCHANGED <<mutex, queue, held, status, outstanding, workerOnly>>

(* A faulty report that sets the status of a successful task only. *)
ReportSuccessOnly(w) ==
  /\ pc[w] = "report" /\ mutex = Free
  /\ \E ok \in BOOLEAN :
       status' = IF ok THEN [status EXCEPT ![held[w].agent] = "COMPLETED"] ELSE status
  /\ outstanding' = outstanding \ {held[w].id}
  /\ held' = [held EXCEPT ![w] = NoTask]
  /\ Goto(w, "callback")
  /\ UNCHANGED <<mutex, queue, workerOnly>>

Report(w) ==
  /\ pc[w] = "report" /\ mutex = Free
  /\ \E ok \in BOOLEAN :
       status' = [status EXCEPT ![held[w].agent] = IF ok THEN "COMPLETED" ELSE "FAILED"]
  /\ outstanding' = outstanding \ {held[w].id}
  /\ held' = [held EXCEPT ![w] = NoTask]
  /\ Goto(w, "callback")
  /\ UNCHANGED <<mutex, queue, workerOnly>>

(* The callback, copied out under the mutex and called without it. *)
CallBack(w) ==
  /\ pc[w] = "callback" /\ mutex = Free
  /\ Goto(w, "loop")
  /\ UNCHANGED <<mutex, queue, held, status, outstanding, workerOnly>>

WorkerStep(w) ==
  \/ LoopHead(w)
  \/ Acquire(w)
  \/ Take(w) \/ Leave(w) \/ FindsNothing(w) \/ Sleep(w)
  \/ MarkRunning(w) \/ Execute(w) \/ Report(w) \/ CallBack(w)

OwnerStep == StopNotifies \/ StopJoins

AgentNext ==
  \/ \E a \in Agents, p \in Priorities : Submit(a, p)
  \/ Start \/ StopClears \/ OwnerStep
  \/ \E w \in Workers : WorkerStep(w) \/ WakeSpuriously(w)

(* A worker that can go on does, and is granted a mutex that is free again *)
(* and again; a stop() that began goes on.  Nobody is bound to submit, to  *)
(* start or to stop.                                                       *)
AgentSpec ==
  /\ AgentInit /\ [][AgentNext]_agentVars
  /\ \A w \in Workers : SF_agentVars(WorkerStep(w))
  /\ WF_agentVars(OwnerStep)
-----------------------------------------------------------------------------
(* Types of agent_controller.h; a worker has a task exactly from the pop   *)
(* to the report, and the mutex exactly inside wait().                     *)
AgentTypeOK ==
  /\ running \in BOOLEAN
  /\ mutex \in Workers \cup {Free}
  /\ queue \subseteq Tasks
  /\ held \in [Workers -> Tasks \cup {NoTask}]
  /\ pc \in [Workers -> WorkerPCs]
  /\ \A w \in Workers : held[w] # NoTask <=> pc[w] \in Holding
  /\ \A w \in Workers : mutex = w <=> pc[w] \in {"locked", "blocking"}
  /\ owner \in {"idle", "notify", "join"}
  /\ status \in [Agents -> AgentStates]
  /\ outstanding \subseteq 1 .. MaxTasks

(* No task is lost and none is run twice, whatever the number of workers   *)
(* and whenever the pool is stopped and started: until it is reported each *)
(* is queued once or with one worker, and no longer (submit_task,          *)
(* worker_loop).                                                           *)
Carriers(id) == {w \in Workers : held[w] # NoTask /\ held[w].id = id}
Queued(id) == {t \in queue : t.id = id}
EachTaskOnce ==
  \A id \in 1 .. MaxTasks :
    Cardinality(Carriers(id)) + Cardinality(Queued(id)) = IF id \in outstanding THEN 1 ELSE 0

(* An agent shown as RUNNING has a worker on one of its tasks, also when   *)
(* two workers run the same agent and finish in any order (worker_loop).   *)
RunningMeansBusy ==
  \A a \in Agents : status[a] = "RUNNING" =>
    \E w \in Workers : pc[w] \in {"exec", "report"} /\ held[w].agent = a

(* When stop() has returned no worker is left: none holds a task or the    *)
(* mutex, and none is still in a callback (stop joins them all).  Tasks    *)
(* may well be left, although agent_controller.h says that stop drains the *)
(* queue: a worker that reads running_ false leaves, whatever is queued,   *)
(* and what is left is run when the pool is started again.                 *)
StoppedMeansIdle ==
  owner = "idle" /\ ~running => mutex = Free /\ \A w \in Workers : pc[w] = "none"

(* The pool is what TaskPool promises, however its threads interleave:     *)
(* most urgent first (TaskEntry::operator>), begun once, ended once, never *)
(* more under way than there are workers.                                  *)
UnderWay == {held[w] : w \in {v \in Workers : held[v] # NoTask}}

Pool == INSTANCE TaskPool
  WITH Capacity <- Cardinality(Workers), waiting <- queue, active <- UnderWay

KeepsPoolPromise == Pool!Spec

(* A task submitted to a pool that keeps running is reported unless it is  *)
(* overtaken again and again: no wake-up of submit_task is lost, between   *)
(* any two steps of wait().  Overtaken it may well be for ever, by tasks   *)
(* that keep coming and are as urgent: the heap is ordered by priority     *)
(* alone, nothing ages, and it keeps no order among equals.                *)
Overtaken(id) ==
  \E t \in Queued(id), w \in Workers : pc[w] = "mark" /\ held[w].priority <= t.priority

TaskServed ==
  \A id \in 1 .. MaxTasks : <>[](id \in outstanding /\ running) => []<>Overtaken(id)

(* What agent_controller.cpp says of stop(): it wakes all the workers and  *)
(* joins them.                                                             *)
StopReturns == owner = "notify" ~> owner = "idle"
=============================================================================

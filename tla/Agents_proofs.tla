---------------------------- MODULE Agents_proofs ----------------------------
(***************************************************************************)
(* Theorems about agents/controller: the worker pool, for any finite set   *)
(* of workers and any number of tasks at a time, which may come and be     *)
(* reported for ever; then the inference client its workers call, for any  *)
(* finite set of callers and any answers.                                  *)
(***************************************************************************)
EXTENDS AgentController, GraniteClient, FiniteSetTheorems, TLAPS

(* A task of each id is in one place only.                                 *)
Placed ==
  /\ \A t \in queue : t.id \in outstanding
  /\ \A w \in Workers : held[w] # NoTask => held[w].id \in outstanding
  /\ \A t, u \in queue : t.id = u.id => t = u
  /\ \A w \in Workers, t \in queue : held[w] # NoTask => held[w].id # t.id
  /\ \A w, v \in Workers : held[w] # NoTask /\ held[v] # NoTask /\ held[w].id = held[v].id => w = v
  /\ \A id \in outstanding :
       \/ \E t \in queue : t.id = id
       \/ \E w \in Workers : held[w] # NoTask /\ held[w].id = id

(* A stop() under way has cleared running_, and one that returned has left *)
(* no worker.                                                              *)
Joined ==
  /\ owner # "idle" => ~running
  /\ owner = "idle" /\ ~running => \A w \in Workers : pc[w] = "none"

IInv == AgentTypeOK /\ Placed /\ Joined /\ RunningMeansBusy

(* The controller starts with nothing queued and no worker.                *)
LEMMA InitEstablishes == AgentInit => IInv
<1> SUFFICES ASSUME AgentInit PROVE IInv
  OBVIOUS
<1> USE BoundIsNat, WorkersAreFinite DEF AgentInit
<1>1. AgentTypeOK
  <2>1. \A w \in Workers : /\ held[w] = NoTask /\ pc[w] = "none"
                           /\ mutex # w /\ pc[w] \notin Holding
    BY DEF Holding
  <2>2. /\ held \in [Workers -> Tasks \cup {NoTask}]
        /\ pc \in [Workers -> WorkerPCs]
        /\ status \in [Agents -> AgentStates]
    BY DEF WorkerPCs, AgentStates
  <2>3. QED
    BY <2>1, <2>2 DEF AgentTypeOK
<1>2. Placed /\ Joined /\ RunningMeansBusy
  BY DEF Placed, Joined, RunningMeansBusy
<1>3. QED
  BY <1>1, <1>2 DEF IInv

-----------------------------------------------------------------------------
(* A new task takes an id of its own; the worker it wakes holds nothing.   *)
LEMMA SubmitPreserves ==
  ASSUME IInv, NEW a \in Agents, NEW p \in Priorities, Submit(a, p)
  PROVE  IInv'
<1> USE BoundIsNat, WorkersAreFinite DEF Submit, IInv
<1>1. PICK id \in (1 .. MaxTasks) \ outstanding :
        /\ outstanding' = outstanding \cup {id}
        /\ queue' = queue \cup {[id |-> id, agent |-> a, priority |-> p]}
  BY DEF Enqueues
<1> DEFINE new == [id |-> id, agent |-> a, priority |-> p]
<1>2. new \in Tasks /\ new.id = id
  BY <1>1 DEF Tasks
<1>3. \/ UNCHANGED pc
      \/ \E w \in Workers : pc[w] = "waiting" /\ pc' = [pc EXCEPT ![w] = "lock"]
  BY DEF Goto, Waiting
<1>4. AgentTypeOK'
  <2>1. pc' \in [Workers -> WorkerPCs]
    BY <1>3 DEF AgentTypeOK, WorkerPCs
  <2>2. \A w \in Workers : /\ pc'[w] \in Holding <=> pc[w] \in Holding
                           /\ pc'[w] \in {"locked", "blocking"} <=> pc[w] \in {"locked", "blocking"}
    BY <1>3 DEF AgentTypeOK, Holding
  <2>3. QED
    BY <1>1, <1>2, <2>1, <2>2 DEF AgentTypeOK
<1>5. Placed'
  <2>1. \A t \in queue : t.id # id
    BY <1>1 DEF Placed
  <2>2. \A w \in Workers : held[w] # NoTask => held[w].id # id
    BY <1>1 DEF Placed
  <2>3. queue' = queue \cup {new} /\ held' = held
    BY <1>1
  <2> HIDE DEF new
  <2>4. /\ \A t, u \in queue' : t.id = u.id => t = u
        /\ \A w \in Workers, t \in queue' : held'[w] # NoTask => held'[w].id # t.id
    BY <1>2, <2>1, <2>2, <2>3 DEF Placed
  <2>5. \A k \in outstanding' :
          \/ \E t \in queue' : t.id = k
          \/ \E w \in Workers : held'[w] # NoTask /\ held'[w].id = k
    BY <1>1, <1>2, <2>3 DEF Placed
  <2>6. QED
    BY <1>1, <1>2, <2>3, <2>4, <2>5 DEF Placed
<1>6. Joined'
  BY <1>3 DEF Joined, AgentTypeOK
<1>7. RunningMeansBusy'
  BY <1>3 DEF RunningMeansBusy, AgentTypeOK
<1>8. QED
  BY <1>4, <1>5, <1>6, <1>7

(* start() and stop(): every worker begins, or none is left.               *)
LEMMA OwnerPreserves ==
  ASSUME IInv, Start \/ StopClears \/ OwnerStep
  PROVE  IInv'
<1> USE BoundIsNat DEF IInv
<1>1. CASE Start
  <2> USE <1>1 DEF Start
  <2>1. \A w \in Workers : pc[w] = "none" /\ pc'[w] = "loop" /\ held[w] = NoTask
    BY DEF Joined, AgentTypeOK, Holding
  <2>2. pc' \in [Workers -> WorkerPCs]
    BY DEF WorkerPCs, AgentTypeOK
  <2>3. AgentTypeOK'
    BY <2>1, <2>2 DEF AgentTypeOK, Holding
  <2>4. Placed' /\ Joined' /\ RunningMeansBusy'
    BY <2>1 DEF Placed, Joined, RunningMeansBusy, AgentTypeOK
  <2>5. QED
    BY <2>3, <2>4
<1>2. CASE StopClears
  <2> USE <1>2 DEF StopClears
  <2>1. AgentTypeOK'
    BY DEF AgentTypeOK
  <2>2. Placed' /\ Joined' /\ RunningMeansBusy'
    BY DEF Placed, Joined, RunningMeansBusy
  <2>3. QED
    BY <2>1, <2>2
<1>3. CASE StopNotifies
  <2> USE <1>3 DEF StopNotifies
  <2>1. \A w \in Workers : pc'[w] = IF pc[w] = "waiting" THEN "lock" ELSE pc[w]
    BY DEF AgentTypeOK, Waiting
  <2>2. pc' \in [Workers -> WorkerPCs]
    BY <2>1 DEF AgentTypeOK, WorkerPCs
  <2>3. AgentTypeOK'
    BY <2>1, <2>2 DEF AgentTypeOK, Holding
  <2>4. Placed' /\ Joined' /\ RunningMeansBusy'
    BY <2>1 DEF Placed, Joined, RunningMeansBusy, AgentTypeOK
  <2>5. QED
    BY <2>3, <2>4
<1>4. CASE StopJoins
  <2> USE <1>4 DEF StopJoins
  <2>1. \A w \in Workers : pc[w] = "done" /\ pc'[w] = "none"
    BY DEF AgentTypeOK
  <2>2. pc' \in [Workers -> WorkerPCs]
    BY <2>1 DEF AgentTypeOK, WorkerPCs
  <2>3. AgentTypeOK'
    BY <2>1, <2>2 DEF AgentTypeOK, Holding
  <2>4. Placed' /\ Joined' /\ RunningMeansBusy'
    BY <2>1 DEF Placed, Joined, RunningMeansBusy, AgentTypeOK
  <2>5. QED
    BY <2>3, <2>4
<1>5. QED
  BY <1>1, <1>2, <1>3, <1>4 DEF OwnerStep

-----------------------------------------------------------------------------
(* Steps of a worker that move no task: into and out of wait(), marking    *)
(* the agent, executing, calling back.                                     *)
LEMMA QuietStepPreserves ==
  ASSUME IInv, NEW w \in Workers,
         \/ LoopHead(w) \/ Acquire(w) \/ Leave(w) \/ FindsNothing(w) \/ Sleep(w)
         \/ MarkRunning(w) \/ Execute(w) \/ CallBack(w) \/ WakeSpuriously(w)
  PROVE  IInv'
<1> USE WorkersAreFinite DEF workerOnly
<1>1. /\ UNCHANGED <<queue, held, outstanding, running, owner>>
      /\ pc[w] # "none" /\ pc' = [pc EXCEPT ![w] = pc'[w]] /\ pc'[w] \in WorkerPCs
      /\ pc[w] \in Holding <=> pc'[w] \in Holding
      /\ pc[w] \in {"exec", "report"} => pc'[w] \in {"exec", "report"}
      /\ pc'[w] # "none"
  BY DEF IInv, AgentTypeOK, LoopHead, Acquire, Leave, FindsNothing, Sleep, MarkRunning, Execute,
         CallBack, WakeSpuriously, Goto, WorkerPCs, Holding
<1>2. /\ mutex' \in Workers \cup {Free}
      /\ \A v \in Workers : mutex' = v <=> pc'[v] \in {"locked", "blocking"}
  <2>1. CASE Acquire(w)
    BY <2>1, <1>1 DEF IInv, AgentTypeOK, Acquire, Goto
  <2>2. CASE Leave(w) \/ Sleep(w)
    BY <2>2, <1>1 DEF IInv, AgentTypeOK, Leave, Sleep, Goto
  <2>3. CASE FindsNothing(w)
    BY <2>3, <1>1 DEF IInv, AgentTypeOK, FindsNothing, Goto
  <2>4. CASE LoopHead(w) \/ MarkRunning(w) \/ Execute(w) \/ CallBack(w) \/ WakeSpuriously(w)
    BY <2>4, <1>1 DEF IInv, AgentTypeOK, LoopHead, MarkRunning, Execute, CallBack, WakeSpuriously, Goto
  <2>5. QED
    BY <2>1, <2>2, <2>3, <2>4
<1>3. /\ status' \in [Agents -> AgentStates]
      /\ RunningMeansBusy'
  <2>1. CASE MarkRunning(w)
    <3>1. held[w] \in Tasks /\ held[w].agent \in Agents
      BY <2>1 DEF IInv, AgentTypeOK, MarkRunning, Holding, Tasks
    <3>2. pc' = [pc EXCEPT ![w] = "exec"] /\ status' = [status EXCEPT ![held[w].agent] = "RUNNING"]
      BY <2>1 DEF MarkRunning, Goto
    <3>3. status' \in [Agents -> AgentStates]
      BY <3>1, <3>2 DEF IInv, AgentTypeOK, AgentStates
    <3>4. \A a \in Agents : status'[a] = "RUNNING" => a = held[w].agent \/ status[a] = "RUNNING"
      BY <3>1, <3>2 DEF IInv, AgentTypeOK
    <3>5. QED
      BY <1>1, <3>1, <3>2, <3>3, <3>4 DEF IInv, AgentTypeOK, RunningMeansBusy
  <2>2. CASE ~MarkRunning(w)
    <3>1. status' = status
      BY <2>2 DEF LoopHead, Acquire, Leave, FindsNothing, Sleep, Execute, CallBack, WakeSpuriously
    <3>2. QED
      BY <1>1, <3>1 DEF IInv, AgentTypeOK, RunningMeansBusy
  <2>3. QED
    BY <2>1, <2>2
<1>4. AgentTypeOK'
  <2>1. pc' \in [Workers -> WorkerPCs]
    BY <1>1 DEF IInv, AgentTypeOK
  <2>2. \A v \in Workers : held'[v] # NoTask <=> pc'[v] \in Holding
    BY <1>1 DEF IInv, AgentTypeOK
  <2>3. QED
    BY <1>1, <1>2, <1>3, <2>1, <2>2 DEF IInv, AgentTypeOK
<1>5. Placed'
  BY <1>1 DEF IInv, Placed
<1>6. Joined'
  BY <1>1 DEF IInv, Joined, AgentTypeOK
<1>7. QED
  BY <1>3, <1>4, <1>5, <1>6 DEF IInv

(* The task taken leaves the queue for the worker's hands.                 *)
LEMMA TakePreserves ==
  ASSUME IInv, NEW w \in Workers, Take(w)
  PROVE  IInv'
<1> USE WorkersAreFinite, NoTaskIsNone DEF workerOnly
<1>1. PICK t \in queue : queue' = queue \ {t} /\ held' = [held EXCEPT ![w] = t]
  BY DEF Take
<1>2. t \in Tasks /\ t # NoTask /\ held[w] = NoTask /\ pc[w] = "locked" /\ mutex = w
  BY <1>1 DEF Take, IInv, AgentTypeOK, Holding
<1>3. pc' = [pc EXCEPT ![w] = "mark"] /\ mutex' = Free
      /\ UNCHANGED <<status, outstanding, running, owner>>
  BY DEF Take, Goto
<1>4. AgentTypeOK'
  <2>1. /\ held' \in [Workers -> Tasks \cup {NoTask}]
        /\ pc' \in [Workers -> WorkerPCs]
    BY <1>1, <1>2, <1>3 DEF IInv, AgentTypeOK, WorkerPCs
  <2>2. \A v \in Workers : held'[v] # NoTask <=> pc'[v] \in Holding
    BY <1>1, <1>2, <1>3 DEF IInv, AgentTypeOK, Holding
  <2>3. \A v \in Workers : mutex' = v <=> pc'[v] \in {"locked", "blocking"}
    BY <1>2, <1>3 DEF IInv, AgentTypeOK
  <2>4. QED
    BY <1>1, <1>3, <2>1, <2>2, <2>3 DEF IInv, AgentTypeOK
<1>5. Placed'
  <2>1. \A v \in Workers : held'[v] = IF v = w THEN t ELSE held[v]
    BY <1>1 DEF IInv, AgentTypeOK
  <2>2. \A id \in outstanding :
          \/ \E u \in queue' : u.id = id
          \/ \E v \in Workers : held'[v] # NoTask /\ held'[v].id = id
    BY <1>1, <1>2, <2>1 DEF IInv, Placed
  <2>3. \A v, u \in Workers :
          held'[v] # NoTask /\ held'[u] # NoTask /\ held'[v].id = held'[u].id => v = u
    BY <1>1, <1>2, <2>1 DEF IInv, Placed
  <2>4. \A v \in Workers, u \in queue' : held'[v] # NoTask => held'[v].id # u.id
    BY <1>1, <1>2, <2>1 DEF IInv, Placed
  <2>5. QED
    BY <1>1, <1>3, <2>1, <2>2, <2>3, <2>4 DEF IInv, Placed
<1>6. Joined'
  BY <1>2, <1>3 DEF IInv, Joined, AgentTypeOK
<1>7. RunningMeansBusy'
  BY <1>1, <1>2, <1>3 DEF IInv, RunningMeansBusy, AgentTypeOK
<1>8. QED
  BY <1>4, <1>5, <1>6, <1>7 DEF IInv

(* The task reported is outstanding no more; its agent is not shown as RUNNING.       *)
LEMMA ReportPreserves ==
  ASSUME IInv, NEW w \in Workers, Report(w)
  PROVE  IInv'
<1> USE WorkersAreFinite, NoTaskIsNone DEF workerOnly
<1> DEFINE t == held[w]
<1>1. t \in Tasks /\ t # NoTask /\ t.agent \in Agents /\ pc[w] = "report"
  BY DEF Report, IInv, AgentTypeOK, Holding, Tasks
<1>2. /\ outstanding' = outstanding \ {t.id} /\ held' = [held EXCEPT ![w] = NoTask]
      /\ pc' = [pc EXCEPT ![w] = "callback"]
      /\ UNCHANGED <<mutex, queue, running, owner>>
  BY DEF Report, Goto
<1>3. /\ status' \in [Agents -> AgentStates]
      /\ status'[t.agent] # "RUNNING"
      /\ \A a \in Agents : a # t.agent => status'[a] = status[a]
  <2>1. PICK ok \in BOOLEAN :
          status' = [status EXCEPT ![t.agent] = IF ok THEN "COMPLETED" ELSE "FAILED"]
    BY DEF Report
  <2>2. QED
    BY <1>1, <2>1 DEF IInv, AgentTypeOK, AgentStates
<1>4. \A v \in Workers : /\ held'[v] = IF v = w THEN NoTask ELSE held[v]
                         /\ pc'[v] = IF v = w THEN "callback" ELSE pc[v]
  BY <1>2 DEF IInv, AgentTypeOK
<1>5. AgentTypeOK'
  <2>1. /\ held' \in [Workers -> Tasks \cup {NoTask}]
        /\ pc' \in [Workers -> WorkerPCs]
    BY <1>2 DEF IInv, AgentTypeOK, WorkerPCs
  <2>2. \A v \in Workers : held'[v] # NoTask <=> pc'[v] \in Holding
    BY <1>4 DEF IInv, AgentTypeOK, Holding
  <2>3. \A v \in Workers : mutex' = v <=> pc'[v] \in {"locked", "blocking"}
    BY <1>1, <1>2, <1>4 DEF IInv, AgentTypeOK
  <2>4. QED
    BY <1>2, <1>3, <2>1, <2>2, <2>3 DEF IInv, AgentTypeOK
<1>6. Placed'
  <2>1. \A id \in outstanding' :
          \/ \E u \in queue : u.id = id
          \/ \E v \in Workers : held'[v] # NoTask /\ held'[v].id = id
    BY <1>2, <1>4 DEF IInv, Placed
  <2>2. \A u \in queue : u.id \in outstanding'
    BY <1>1, <1>2 DEF IInv, Placed
  <2>3. \A v \in Workers : held'[v] # NoTask => held'[v].id \in outstanding'
    BY <1>1, <1>2, <1>4 DEF IInv, Placed
  <2>4. QED
    BY <1>2, <1>4, <2>1, <2>2, <2>3 DEF IInv, Placed
<1>7. Joined'
  BY <1>1, <1>2, <1>4 DEF IInv, Joined
<1>8. RunningMeansBusy'
  <2> SUFFICES ASSUME NEW a \in Agents, status'[a] = "RUNNING"
               PROVE  \E v \in Workers : pc'[v] \in {"exec", "report"} /\ held'[v].agent = a
    BY DEF RunningMeansBusy
  <2>1. a # t.agent /\ status[a] = "RUNNING"
    BY <1>3
  <2>2. PICK v \in Workers : pc[v] \in {"exec", "report"} /\ held[v].agent = a
    BY <2>1 DEF IInv, RunningMeansBusy
  <2>3. v # w
    BY <2>1, <2>2
  <2>4. QED
    BY <1>4, <2>2, <2>3
<1>9. QED
  BY <1>5, <1>6, <1>7, <1>8 DEF IInv

(* Every step of workers, submitters and the owner keeps the invariant.    *)
LEMMA NextPreserves == IInv /\ [AgentNext]_agentVars => IInv'
<1> SUFFICES ASSUME IInv, [AgentNext]_agentVars PROVE IInv'
  OBVIOUS
<1>1. CASE \E a \in Agents, p \in Priorities : Submit(a, p)
  BY <1>1, SubmitPreserves
<1>2. CASE Start \/ StopClears \/ OwnerStep
  BY <1>2, OwnerPreserves
<1>3. CASE \E w \in Workers : WorkerStep(w) \/ WakeSpuriously(w)
  BY <1>3, QuietStepPreserves, TakePreserves, ReportPreserves DEF WorkerStep
<1>4. CASE UNCHANGED agentVars
  BY <1>4 DEF agentVars, IInv, AgentTypeOK, Placed, Joined, RunningMeansBusy
<1>5. QED
  BY <1>1, <1>2, <1>3, <1>4 DEF AgentNext

(* The inductive invariant of the pool. *)
THEOREM InvariantHolds == AgentSpec => []IInv
BY InitEstablishes, NextPreserves, PTL DEF AgentSpec

-----------------------------------------------------------------------------
(* The pool stays within its types, and a worker has a task or the mutex   *)
(* only where it should (worker_loop).                                     *)
THEOREM TypeCorrect == AgentSpec => []AgentTypeOK
<1>1. IInv => AgentTypeOK
  BY DEF IInv
<1>2. QED
  BY <1>1, InvariantHolds, PTL

(* An agent shown as RUNNING is being run (worker_loop). *)
THEOREM RunningIsBusy == AgentSpec => []RunningMeansBusy
<1>1. IInv => RunningMeansBusy
  BY DEF IInv
<1>2. QED
  BY <1>1, InvariantHolds, PTL

(* When stop() has returned no worker is left (stop). *)
THEOREM StoppedIsIdle == AgentSpec => []StoppedMeansIdle
<1>1. IInv => StoppedMeansIdle
  BY WorkersAreFinite DEF IInv, StoppedMeansIdle, Joined, AgentTypeOK
<1>2. QED
  BY <1>1, InvariantHolds, PTL

(* No task is lost and none is run twice (submit_task, worker_loop). *)
THEOREM TasksAreRunOnce == AgentSpec => []EachTaskOnce
<1>1. IInv => EachTaskOnce
  <2> SUFFICES ASSUME IInv, NEW id \in 1 .. MaxTasks
               PROVE  Cardinality(Carriers(id)) + Cardinality(Queued(id))
                        = IF id \in outstanding THEN 1 ELSE 0
    BY DEF EachTaskOnce
  <2>1. CASE id \notin outstanding
    <3>1. Carriers(id) = {} /\ Queued(id) = {}
      BY <2>1 DEF IInv, Placed, Carriers, Queued
    <3>2. Cardinality(Carriers(id)) = 0 /\ Cardinality(Queued(id)) = 0
      BY <3>1, FS_EmptySet
    <3>3. QED
      BY <2>1, <3>2
  <2>2. CASE \E t \in queue : t.id = id
    <3>1. PICK t \in queue : t.id = id
      BY <2>2
    <3>2. Queued(id) = {t} /\ Carriers(id) = {} /\ id \in outstanding
      BY <3>1 DEF IInv, Placed, Carriers, Queued
    <3>3. Cardinality(Queued(id)) = 1 /\ Cardinality(Carriers(id)) = 0
      BY <3>2, FS_Singleton, FS_EmptySet
    <3>4. QED
      BY <3>2, <3>3
  <2>3. CASE \E w \in Workers : held[w] # NoTask /\ held[w].id = id
    <3>1. PICK w \in Workers : held[w] # NoTask /\ held[w].id = id
      BY <2>3
    <3>2. Carriers(id) = {w} /\ Queued(id) = {} /\ id \in outstanding
      BY <3>1 DEF IInv, Placed, Carriers, Queued
    <3>3. Cardinality(Carriers(id)) = 1 /\ Cardinality(Queued(id)) = 0
      BY <3>2, FS_Singleton, FS_EmptySet
    <3>4. QED
      BY <3>2, <3>3
  <2>4. QED
    BY <2>1, <2>2, <2>3 DEF IInv, Placed
<1>2. QED
  BY <1>1, InvariantHolds, PTL

-----------------------------------------------------------------------------
(* Fewer tasks are under way than there are workers when one of them is    *)
(* without a task: what they hold is the image of a smaller set.           *)
LEMMA RoomForOne ==
  ASSUME AgentTypeOK, NEW w \in Workers, held[w] = NoTask
  PROVE  Cardinality(UnderWay) < Cardinality(Workers)
<1> DEFINE busy == {v \in Workers : held[v] # NoTask}
           f == [v \in busy |-> held[v]]
<1>1. busy \subseteq Workers \ {w}
  OBVIOUS
<1>2. /\ IsFiniteSet(Workers \ {w})
      /\ Cardinality(Workers \ {w}) = Cardinality(Workers) - 1
      /\ Cardinality(Workers) \in Nat
  BY WorkersAreFinite, FS_RemoveElement, FS_CardinalityType
<1>3. /\ IsFiniteSet(busy)
      /\ Cardinality(busy) <= Cardinality(Workers \ {w})
  BY <1>1, <1>2, FS_Subset
<1>4. f \in Surjection(busy, UnderWay)
  BY DEF UnderWay, Surjection
<1>5. IsFiniteSet(UnderWay) /\ Cardinality(UnderWay) <= Cardinality(busy)
  BY <1>3, <1>4, FS_Surjection
<1>6. Cardinality(UnderWay) \in Nat /\ Cardinality(busy) \in Nat
  BY <1>3, <1>5, FS_CardinalityType
<1>7. QED
  BY <1>2, <1>3, <1>5, <1>6

(* The pool implements its abstract promise: a submission is an Enqueue, a *)
(* take a Begin, a report an End, and every other step of a thread is none *)
(* of the client's business (submit_task, worker_loop).                    *)
THEOREM PoolImplementsPromise == AgentSpec => KeepsPoolPromise
<1>1. AgentInit => Pool!Init
  BY DEF AgentInit, Pool!Init, UnderWay
<1>2. IInv /\ [AgentNext]_agentVars => [Pool!Next]_<<queue, UnderWay>>
  <2> SUFFICES ASSUME IInv, [AgentNext]_agentVars
               PROVE  Pool!Next \/ UNCHANGED <<queue, UnderWay>>
    OBVIOUS
  <2>1. CASE \E a \in Agents, p \in Priorities : Submit(a, p)
    <3>1. PICK a \in Agents, p \in Priorities : Submit(a, p)
      BY <2>1
    <3>2. PICK id \in (1 .. MaxTasks) \ outstanding :
            queue' = queue \cup {[id |-> id, agent |-> a, priority |-> p]}
      BY <3>1 DEF Submit, Enqueues
    <3> DEFINE new == [id |-> id, agent |-> a, priority |-> p]
    <3>3. new \in Tasks /\ new.id = id
      BY <3>2 DEF Tasks
    <3>4. new.id \notin Pool!Outstanding
      <4>1. \A t \in queue \cup UnderWay : t.id \in outstanding
        BY DEF IInv, Placed, UnderWay
      <4>2. QED
        BY <3>2, <3>3, <4>1 DEF Pool!Outstanding
    <3>5. UnderWay' = UnderWay
      BY <3>1 DEF Submit, UnderWay
    <3>6. QED
      BY <3>2, <3>3, <3>4, <3>5 DEF Pool!Next, Pool!Enqueue
  <2>2. CASE \E w \in Workers : Take(w)
    <3>1. PICK w \in Workers : Take(w)
      BY <2>2
    <3>2. PICK t \in queue : /\ \A u \in queue : t.priority <= u.priority
                            /\ queue' = queue \ {t}
                            /\ held' = [held EXCEPT ![w] = t]
      BY <3>1 DEF Take
    <3>3. /\ t \in Tasks /\ t # NoTask /\ held[w] = NoTask
          /\ \A v \in Workers : held'[v] = IF v = w THEN t ELSE held[v]
      BY <3>1, <3>2, NoTaskIsNone DEF Take, IInv, AgentTypeOK, Holding
    <3>4. UnderWay' = UnderWay \cup {t}
      BY <3>3 DEF UnderWay
    <3>5. Cardinality(UnderWay) < Cardinality(Workers)
      BY <3>3, RoomForOne DEF IInv
    <3>6. Pool!Begin(t)
      BY <3>2, <3>3, <3>4, <3>5 DEF Pool!Begin, Pool!Cardinality, Cardinality
    <3>7. QED
      BY <3>3, <3>6 DEF Pool!Next
  <2>3. CASE \E w \in Workers : Report(w)
    <3>1. PICK w \in Workers : Report(w)
      BY <2>3
    <3> DEFINE t == held[w]
    <3>2. /\ t \in Tasks /\ t # NoTask
          /\ queue' = queue
          /\ \A v \in Workers : held'[v] = IF v = w THEN NoTask ELSE held[v]
      BY <3>1 DEF Report, workerOnly, IInv, AgentTypeOK, Holding
    <3>3. \A v \in Workers \ {w} : held[v] # NoTask => held[v] # t
      BY <3>2 DEF IInv, Placed
    <3>4. UnderWay' = UnderWay \ {t} /\ t \in UnderWay
      BY <3>2, <3>3 DEF UnderWay
    <3>5. Pool!End(t)
      BY <3>2, <3>4 DEF Pool!End
    <3>6. QED
      BY <3>2, <3>5 DEF Pool!Next
  <2>4. CASE \/ Start \/ StopClears \/ OwnerStep \/ UNCHANGED agentVars
             \/ \E w \in Workers :
                  \/ LoopHead(w) \/ Acquire(w) \/ Leave(w) \/ FindsNothing(w) \/ Sleep(w)
                  \/ MarkRunning(w) \/ Execute(w) \/ CallBack(w) \/ WakeSpuriously(w)
    <3>1. UNCHANGED <<queue, held>>
      BY <2>4 DEF Start, StopClears, OwnerStep, StopNotifies, StopJoins, agentVars, LoopHead,
         Acquire, Leave, FindsNothing, Sleep, MarkRunning, Execute, CallBack, WakeSpuriously,
         workerOnly
    <3>2. UnderWay' = UnderWay
      BY <3>1 DEF UnderWay
    <3>3. QED
      BY <3>1, <3>2
  <2>5. QED
    BY <2>1, <2>2, <2>3, <2>4 DEF AgentNext, WorkerStep
<1>3. QED
  BY <1>1, <1>2, InvariantHolds, PTL DEF AgentSpec, KeepsPoolPromise, Pool!Spec

-----------------------------------------------------------------------------
(* --------------------------- inference client --------------------------- *)

(* The first NUL of a sentinel is its first character.                     *)
LEMMA LeastOfOne == Min({1}) = 1
  BY DEF Min

(* As C strings the sentinels are empty, ...                               *)
LEMMA SentinelsAreEmpty == CString(TRUNCATED) = <<>> /\ CString(DEADLINE) = <<>>
<1>1. CString(TRUNCATED) = <<>>
  <2>1. Len(TRUNCATED) = 2 /\ TRUNCATED[1] = NUL /\ TRUNCATED[2] # NUL
    BY DEF TRUNCATED, NUL
  <2>2. {i \in 1 .. Len(TRUNCATED) : TRUNCATED[i] = NUL} = {1}
    BY <2>1
  <2>3. Min({i \in 1 .. Len(TRUNCATED) : TRUNCATED[i] = NUL}) = 1
    BY <2>2, LeastOfOne
  <2> DEFINE first == SelectInSeq(TRUNCATED, LAMBDA c : c = NUL)
  <2>4. first = 1
    BY <2>2, <2>3 DEF SelectInSeq
  <2>5. CString(TRUNCATED) = IF first = 0 THEN TRUNCATED ELSE SubSeq(TRUNCATED, 1, first - 1)
    BY Zenon DEF CString
  <2> HIDE DEF first
  <2>6. QED
    BY <2>4, <2>5 DEF TRUNCATED, NUL
<1>2. CString(DEADLINE) = <<>>
  <2>1. Len(DEADLINE) = 2 /\ DEADLINE[1] = NUL /\ DEADLINE[2] # NUL
    BY DEF DEADLINE, NUL
  <2>2. {i \in 1 .. Len(DEADLINE) : DEADLINE[i] = NUL} = {1}
    BY <2>1
  <2>3. Min({i \in 1 .. Len(DEADLINE) : DEADLINE[i] = NUL}) = 1
    BY <2>2, LeastOfOne
  <2> DEFINE first == SelectInSeq(DEADLINE, LAMBDA c : c = NUL)
  <2>4. first = 1
    BY <2>2, <2>3 DEF SelectInSeq
  <2>5. CString(DEADLINE) = IF first = 0 THEN DEADLINE ELSE SubSeq(DEADLINE, 1, first - 1)
    BY Zenon DEF CString
  <2> HIDE DEF first
  <2>6. QED
    BY <2>4, <2>5 DEF DEADLINE, NUL
<1>3. QED
  BY <1>1, <1>2

(* ... and an empty string occurs in every string.                         *)
LEMMA EmptyOccurs == ASSUME NEW S, NEW s \in Seq(S) PROVE Occurs(<<>>, s)
<1>1. 1 \in 1 .. Len(s) + 1
  OBVIOUS
<1>2. Len(<<>>) = 0 /\ SubSeq(s, 1, 1 + 0 - 1) = <<>>
  OBVIOUS
<1>3. QED
  BY <1>1, <1>2 DEF Occurs

(* Whatever the server does, the request is reported as failed and stays   *)
(* in its model's counter (granite_client.cpp, the tests for sentinels).   *)
THEOREM NoAnswerIsUsed ==
  ASSUME NEW answer \in Answers
  PROVE  Verdict(Returned(answer)) = [ok |-> FALSE, counted_out |-> FALSE]
<1>1. Returned(answer) \in Seq({NUL, "DEADLINE", "half", answer})
  <2>1. Returned(answer) \in {<<>>, DEADLINE, <<"half">>, <<answer>>}
    BY SentinelsAreEmpty DEF Returned
  <2>2. /\ <<>> \in Seq({NUL, "DEADLINE", "half", answer})
        /\ <<NUL, "DEADLINE">> \in Seq({NUL, "DEADLINE", "half", answer})
        /\ <<"half">> \in Seq({NUL, "DEADLINE", "half", answer})
        /\ <<answer>> \in Seq({NUL, "DEADLINE", "half", answer})
    OBVIOUS
  <2>3. QED
    BY <2>1, <2>2 DEF DEADLINE
<1>2. Occurs(CString(TRUNCATED), Returned(answer))
  BY <1>1, SentinelsAreEmpty, EmptyOccurs
<1>3. QED
  BY <1>2 DEF Verdict
-----------------------------------------------------------------------------
AsyncCallers == {t \in Callers : callPC[t] # "idle" /\ job[t].async}

(* Beside the types and the counting: a counter is below the number of     *)
(* calls ever made and, once raised, never back at zero; the keep-alive    *)
(* thread is at a model only from the first one on; and a stop() under way *)
(* has cleared the flag.                                                   *)
GraniteInv ==
  /\ GraniteTypeOK /\ CallsAreCounted
  /\ \A tier \in Tiers : inflight[tier] <= calls
  /\ inflight_async <= calls
  /\ \A tier \in used : inflight[tier] > 0
  /\ keep.at \in {"tier", "dial", "ping"} => keep.n \in 1 .. 3
  /\ keeper = "join" => ~keep_alive_running
  /\ \A t \in Callers : callPC[t] = "settle" => job[t].async

Jobs == [model : Models, async : BOOLEAN, answer : Answers]
CallPCs == {"idle", "call", "judge", "settle"}

(* Each of the four model names is counted in one of the three counters.   *)
LEMMA TierType == ASSUME NEW m \in Models PROVE TierOf(m) \in Tiers
  BY DEF TierOf, Tiers

(* The keep-alive goes round three counters.                               *)
LEMMA OrderType == Len(KeepAliveOrder) = 3 /\ \A n \in 1 .. 3 : KeepAliveOrder[n] \in Tiers
  BY DEF KeepAliveOrder, Tiers

LEMMA NoJobType == NoJob \in Jobs
  BY AnswersKnown DEF NoJob, Models, Jobs

(* Callers are finitely many, so those in a call can be counted.           *)
LEMMA CallersAreCountable ==
  /\ \A tier : IsFiniteSet(Calling(tier)) /\ Cardinality(Calling(tier)) \in Nat
  /\ IsFiniteSet(AsyncCallers) /\ Cardinality(AsyncCallers) \in Nat
<1>1. \A S \in SUBSET Callers : IsFiniteSet(S) /\ Cardinality(S) \in Nat
  BY CallersAreFinite, FS_Subset, FS_CardinalityType
<1>2. (\A tier : Calling(tier) \in SUBSET Callers) /\ AsyncCallers \in SUBSET Callers
  BY DEF Calling, AsyncCallers
<1>3. QED
  BY <1>1, <1>2

(* No request, no thread: every counter is zero.                           *)
LEMMA GraniteInitEstablishes == GraniteInit => GraniteInv
<1> SUFFICES ASSUME GraniteInit PROVE GraniteInv
  OBVIOUS
<1>1. \A tier \in Tiers : Calling(tier) = {}
  BY DEF Calling, In, GraniteInit
<1>2. AsyncCallers = {}
  BY DEF AsyncCallers, GraniteInit
<1>3. Cardinality({}) = 0
  BY FS_EmptySet
<1>4. GraniteTypeOK
  <2>1. inflight_async \in 0 .. MaxCalls /\ Cardinality(AsyncCallers) <= inflight_async
    BY <1>2, <1>3, CallsBounded DEF GraniteInit
  <2>2. job \in [Callers -> Jobs]
    BY NoJobType DEF GraniteInit
  <2>3. inflight \in [Tiers -> 0 .. MaxCalls] /\ used \subseteq Tiers /\ calls \in 0 .. MaxCalls
    BY CallsBounded DEF GraniteInit
  <2>4. keep \in [at : {"none", "head", "tier", "dial", "ping", "sleep", "done"}, n : 0 .. Len(KeepAliveOrder)]
    BY OrderType DEF GraniteInit
  <2>5. /\ callPC \in [Callers -> CallPCs]
        /\ resp \in [answer : Answers, ok : BOOLEAN]
    BY AnswersKnown DEF GraniteInit, CallPCs
  <2>6. QED
    BY <2>1, <2>2, <2>3, <2>4, <2>5 DEF GraniteTypeOK, AsyncCallers, GraniteInit, Jobs, CallPCs
<1>5. CallsAreCounted
  BY <1>1, <1>3 DEF CallsAreCounted, Tiers, GraniteInit
<1>6. QED
  BY <1>4, <1>5 DEF GraniteInv, GraniteInit

-----------------------------------------------------------------------------
(* A call is counted in before it is one of those in progress.             *)
LEMMA GeneratePreserves ==
  ASSUME GraniteInv, NEW t \in Callers, NEW m \in Models, NEW async \in BOOLEAN, Generate(t, m, async)
  PROVE  GraniteInv'
<1> USE AnswersKnown, CallsBounded, OrderType DEF Generate, GraniteInv
<1>1. /\ TierOf(m) \in Tiers
      /\ callPC' = [callPC EXCEPT ![t] = "call"]
      /\ job' = [job EXCEPT ![t] = [model |-> m, async |-> async, answer |-> "unreachable"]]
      /\ inflight' = [inflight EXCEPT ![TierOf(m)] = @ + 1] /\ used' = used \cup {TierOf(m)}
      /\ calls \in Nat /\ calls' = calls + 1 /\ calls' \in 0 .. MaxCalls
  BY TierType DEF CallGoes, CountIn, NoJob, GraniteTypeOK
<1>2. ASSUME NEW tier \in Tiers
      PROVE  /\ inflight[tier] \in Nat
             /\ inflight'[tier] = inflight[tier] + (IF tier = TierOf(m) THEN 1 ELSE 0)
             /\ Cardinality(Calling(tier))' <= inflight'[tier]
             /\ inflight'[tier] <= calls'
             /\ tier \in used' => inflight'[tier] > 0
  <2>1. /\ inflight[tier] \in Nat /\ inflight[tier] <= calls
        /\ inflight'[tier] = inflight[tier] + (IF tier = TierOf(m) THEN 1 ELSE 0)
    BY <1>1 DEF GraniteTypeOK
  <2>2. CASE tier = TierOf(m)
    <3>1. Calling(tier)' = Calling(tier) \cup {t} /\ t \notin Calling(tier)
      BY <1>1, <2>2 DEF Calling, In, GraniteTypeOK
    <3>2. Cardinality(Calling(tier)') = Cardinality(Calling(tier)) + 1
      BY <3>1, CallersAreCountable, FS_AddElement
    <3>3. QED
      BY <1>1, <2>1, <2>2, <3>2, CallersAreCountable DEF CallsAreCounted
  <2>3. CASE tier # TierOf(m)
    <3>1. Calling(tier)' = Calling(tier)
      BY <1>1, <2>3 DEF Calling, In, GraniteTypeOK
    <3>2. QED
      BY <1>1, <2>1, <2>3, <3>1, CallersAreCountable DEF CallsAreCounted
  <2>4. QED
    BY <2>1, <2>2, <2>3
<1>3. /\ inflight_async' \in 0 .. MaxCalls /\ inflight_async' <= calls'
      /\ Cardinality(AsyncCallers)' <= inflight_async'
  <2>1. /\ inflight_async \in Nat /\ inflight_async <= calls
        /\ Cardinality(AsyncCallers) <= inflight_async
        /\ inflight_async' = inflight_async + (IF async THEN 1 ELSE 0)
    BY DEF GraniteTypeOK, AsyncCallers
  <2>2. CASE async
    <3>1. AsyncCallers' = AsyncCallers \cup {t} /\ t \notin AsyncCallers
      BY <1>1, <2>2 DEF AsyncCallers, GraniteTypeOK
    <3>2. Cardinality(AsyncCallers') = Cardinality(AsyncCallers) + 1
      BY <3>1, CallersAreCountable, FS_AddElement
    <3>3. QED
      BY <1>1, <2>1, <2>2, <3>2, CallersAreCountable
  <2>3. CASE ~async
    <3>1. AsyncCallers' = AsyncCallers
      BY <1>1, <2>3 DEF AsyncCallers, GraniteTypeOK
    <3>2. QED
      BY <1>1, <2>1, <2>3, <3>1, CallersAreCountable
  <2>4. QED
    BY <2>2, <2>3
<1>4. GraniteTypeOK'
  <2>1. inflight' \in [Tiers -> 0 .. MaxCalls] /\ used' \subseteq Tiers
    BY <1>1, <1>2 DEF GraniteTypeOK
  <2>2. job' \in [Callers -> Jobs]
    BY <1>1 DEF GraniteTypeOK, Jobs
  <2>3. callPC' \in [Callers -> CallPCs]
    BY <1>1 DEF GraniteTypeOK, CallPCs
  <2>4. QED
    BY <1>1, <1>3, <2>1, <2>2, <2>3 DEF GraniteTypeOK, AsyncCallers, keepVars, Jobs, CallPCs
<1>5. \A u \in Callers : callPC'[u] = "settle" => job'[u].async
  BY <1>1 DEF GraniteTypeOK
<1>6. \A tier \in used' : inflight'[tier] > 0
  BY <1>2, <1>4 DEF GraniteTypeOK
<1>7. QED
  BY <1>2, <1>3, <1>4, <1>5, <1>6 DEF CallsAreCounted, keepVars

(* A thread that is not to be had is counted all the same. *)
LEMMA NoThreadPreserves ==
  ASSUME GraniteInv, NEW t \in Callers, GetsNoThread(t)
  PROVE  GraniteInv'
<1> USE CallsBounded DEF GetsNoThread, GraniteInv, keepVars
<1>1. /\ UNCHANGED <<inflight, used, callPC, job, keep_alive_running, keep, keeper, resp>>
      /\ calls' = calls + 1 /\ calls \in Nat /\ calls' \in 0 .. MaxCalls
  BY DEF GraniteTypeOK
<1>2. (\A tier \in Tiers : Calling(tier)' = Calling(tier)) /\ AsyncCallers' = AsyncCallers
  BY <1>1 DEF Calling, In, AsyncCallers
<1>3. /\ inflight_async' \in 0 .. MaxCalls /\ inflight_async' <= calls'
      /\ Cardinality(AsyncCallers') <= inflight_async'
  <2>1. /\ inflight_async \in Nat /\ inflight_async <= calls /\ inflight_async' = inflight_async + 1
        /\ Cardinality(AsyncCallers) <= inflight_async
    BY DEF GraniteTypeOK, AsyncCallers
  <2>2. QED
    BY <1>1, <1>2, <2>1, CallersAreCountable
<1>4. GraniteTypeOK'
  BY <1>1, <1>2, <1>3 DEF GraniteTypeOK, AsyncCallers
<1>5. \A tier \in Tiers : inflight'[tier] <= calls'
  BY <1>1 DEF GraniteTypeOK
<1>6. QED
  BY <1>1, <1>2, <1>3, <1>4, <1>5 DEF CallsAreCounted

(* However a request ends it is counted out by nobody: no answer passes    *)
(* the tests for sentinels, and what throws goes past the decrements.      *)
LEMMA RequestEndPreserves ==
  ASSUME GraniteInv, NEW t \in Callers, ServerAnswers(t) \/ Judge(t) \/ GenerateThrows(t)
  PROVE  GraniteInv'
<1> USE DEF GraniteInv
<1>1. /\ callPC \in [Callers -> CallPCs] /\ job \in [Callers -> Jobs] /\ callPC[t] \in {"call", "judge"}
      /\ job[t].async \in BOOLEAN /\ job[t].answer \in Answers
  BY DEF GraniteTypeOK, Jobs, CallPCs, ServerAnswers, Judge, GenerateThrows
<1>2. UNCHANGED <<inflight, inflight_async, keepVars, used, calls>>
  <2>1. CASE Judge(t)
    <3> DEFINE v == Verdict(Returned(job[t].answer))
    <3>1. v.counted_out = FALSE
      BY <1>1, NoAnswerIsUsed
    <3>2. /\ inflight' = IF v.counted_out THEN [inflight EXCEPT ![TierOf(job[t].model)] = @ - 1]
                                         ELSE inflight
          /\ UNCHANGED <<inflight_async, keepVars, used, calls>>
      BY <2>1 DEF Judge
    <3> HIDE DEF v
    <3>3. QED
      BY <3>1, <3>2
  <2>2. CASE ServerAnswers(t) \/ GenerateThrows(t)
    BY <2>2 DEF ServerAnswers, GenerateThrows
  <2>3. QED
    BY <2>1, <2>2
<1>3. \E k \in Jobs, where \in {"idle", "judge", "settle"} :
        /\ callPC' = [callPC EXCEPT ![t] = where] /\ job' = [job EXCEPT ![t] = k]
        /\ where # "idle" => k.model = job[t].model /\ k.async = job[t].async
        /\ where = "settle" => k.async
  <2>1. CASE ServerAnswers(t)
    <3>1. PICK a \in Answers : job' = [job EXCEPT ![t].answer = a]
      BY <2>1 DEF ServerAnswers
    <3> DEFINE k == [job[t] EXCEPT !.answer = a]
    <3>2. k \in Jobs /\ k.model = job[t].model /\ k.async = job[t].async /\ job' = [job EXCEPT ![t] = k]
      BY <1>1, <3>1 DEF Jobs
    <3> HIDE DEF k
    <3>3. callPC' = [callPC EXCEPT ![t] = "judge"]
      BY <2>1 DEF ServerAnswers, CallGoes
    <3>4. QED
      BY <3>2, <3>3
  <2>2. CASE Judge(t) /\ job[t].async
    <3>1. callPC' = [callPC EXCEPT ![t] = "settle"] /\ job' = [job EXCEPT ![t] = job[t]]
      BY <2>2 DEF Judge, CallGoes
    <3>2. job[t] \in Jobs
      BY <1>1
    <3>3. QED
      BY <2>2, <3>1, <3>2
  <2>3. CASE (Judge(t) /\ ~job[t].async) \/ GenerateThrows(t)
    <3>1. callPC' = [callPC EXCEPT ![t] = "idle"] /\ job' = [job EXCEPT ![t] = NoJob]
      BY <2>3 DEF Judge, GenerateThrows, CallGoes
    <3>2. QED
      BY <3>1, NoJobType
  <2>4. QED
    BY <1>1, <2>1, <2>2, <2>3
<1>4. resp' \in [answer : Answers, ok : BOOLEAN]
  <2>1. CASE Judge(t)
    <3>1. Verdict(Returned(job[t].answer)).ok = FALSE
      BY <1>1, NoAnswerIsUsed
    <3>2. resp' = [answer |-> job[t].answer, ok |-> Verdict(Returned(job[t].answer)).ok]
      BY <2>1 DEF Judge
    <3>3. QED
      BY <1>1, <3>1, <3>2
  <2>2. CASE ServerAnswers(t) \/ GenerateThrows(t)
    BY <2>2 DEF ServerAnswers, GenerateThrows, GraniteTypeOK
  <2>3. QED
    BY <2>1, <2>2
<1>5. /\ callPC' \in [Callers -> CallPCs] /\ job' \in [Callers -> Jobs]
      /\ \A u \in Callers : callPC'[u] = "settle" => job'[u].async
  BY <1>1, <1>3 DEF CallPCs
<1>6. /\ \A tier \in Tiers : Calling(tier)' \subseteq Calling(tier)
      /\ AsyncCallers' \subseteq AsyncCallers
  BY <1>1, <1>3 DEF Calling, In, AsyncCallers
<1>7. /\ \A tier \in Tiers : Cardinality(Calling(tier)') <= inflight[tier]
      /\ Cardinality(AsyncCallers') <= inflight_async
  <2>1. /\ \A tier \in Tiers : Cardinality(Calling(tier)') <= Cardinality(Calling(tier))
        /\ \A tier \in Tiers : Cardinality(Calling(tier)') \in Nat
        /\ Cardinality(AsyncCallers') <= Cardinality(AsyncCallers) /\ Cardinality(AsyncCallers') \in Nat
    BY <1>6, CallersAreCountable, FS_Subset, FS_CardinalityType
  <2>2. /\ \A tier \in Tiers : Cardinality(Calling(tier)) <= inflight[tier] /\ inflight[tier] \in Nat
        /\ Cardinality(AsyncCallers) <= inflight_async /\ inflight_async \in Nat
    BY CallsBounded DEF GraniteTypeOK, CallsAreCounted, AsyncCallers
  <2>3. QED
    BY <2>1, <2>2, CallersAreCountable
<1>8. GraniteTypeOK'
  BY <1>2, <1>4, <1>5, <1>7 DEF GraniteTypeOK, AsyncCallers, keepVars, Jobs, CallPCs
<1>9. QED
  BY <1>2, <1>5, <1>7, <1>8 DEF CallsAreCounted, keepVars

(* An asynchronous call that ends leaves inflight_async_ by one.           *)
LEMMA SettlePreserves ==
  ASSUME GraniteInv, NEW t \in Callers, Settle(t)
  PROVE  GraniteInv'
<1> USE AnswersKnown, CallsBounded, OrderType DEF Settle, GraniteInv
<1>1. /\ callPC[t] = "settle" /\ callPC' = [callPC EXCEPT ![t] = "idle"]
      /\ job' = [job EXCEPT ![t] = NoJob] /\ inflight_async' = inflight_async - 1
      /\ UNCHANGED <<inflight, keepVars, resp, used, calls>>
  BY DEF CallGoes
<1>2. \A tier \in Tiers : Calling(tier)' = Calling(tier)
  BY <1>1 DEF Calling, In, GraniteTypeOK
<1>3. AsyncCallers' = AsyncCallers \ {t} /\ t \in AsyncCallers
  BY <1>1 DEF AsyncCallers, GraniteTypeOK
<1>4. /\ inflight_async' \in 0 .. MaxCalls /\ inflight_async' <= calls
      /\ Cardinality(AsyncCallers') <= inflight_async'
  <2>1. /\ inflight_async \in 0 .. MaxCalls /\ inflight_async <= calls /\ calls \in Nat
        /\ Cardinality(AsyncCallers) <= inflight_async
    BY DEF GraniteTypeOK, AsyncCallers
  <2>2. /\ IsFiniteSet(AsyncCallers') /\ Cardinality(AsyncCallers') = Cardinality(AsyncCallers) - 1
    BY <1>3, CallersAreCountable, FS_RemoveElement
  <2>3. Cardinality(AsyncCallers') \in Nat
    BY <2>2, FS_CardinalityType
  <2>4. QED
    BY <1>1, <2>1, <2>2, <2>3, CallersAreCountable
<1>5. GraniteTypeOK'
  <2>1. job' \in [Callers -> Jobs]
    BY <1>1, NoJobType DEF GraniteTypeOK, Jobs
  <2>2. callPC' \in [Callers -> CallPCs]
    BY <1>1 DEF GraniteTypeOK, CallPCs
  <2>3. QED
    BY <1>1, <1>4, <2>1, <2>2 DEF GraniteTypeOK, AsyncCallers, keepVars, Jobs, CallPCs
<1>6. \A u \in Callers : callPC'[u] = "settle" => job'[u].async
  BY <1>1 DEF GraniteTypeOK
<1>7. QED
  BY <1>1, <1>2, <1>4, <1>5, <1>6 DEF CallsAreCounted, keepVars

(* The keep-alive thread, its start and its stop touch no counter.         *)
LEMMA KeepAlivePreserves ==
  ASSUME GraniteInv,
         StartKeepAlive \/ StopKeepAlive \/ JoinKeepAlive \/ KeepAliveStep \/ UNCHANGED graniteVars
  PROVE  GraniteInv'
<1> USE OrderType DEF GraniteInv
<1>1. UNCHANGED generateVars
  BY DEF StartKeepAlive, StopKeepAlive, JoinKeepAlive, KeepAliveStep, KeepAliveHead, KeepAliveTier,
         KeepAlivePings, KeepAlivePinged, KeepAliveSleeps, NextTier, KeepGoes, graniteVars,
         generateVars
<1>2. (\A tier \in Tiers : Calling(tier)' = Calling(tier)) /\ AsyncCallers' = AsyncCallers
  BY <1>1 DEF generateVars, Calling, In, AsyncCallers
<1>3. /\ keep_alive_running' \in BOOLEAN
      /\ keep' \in [at : {"none", "head", "tier", "dial", "ping", "sleep", "done"}, n : 0 .. 3]
      /\ keeper' \in {"idle", "join"}
      /\ keep'.at = "none" <=> keeper' = "idle" /\ ~keep_alive_running'
      /\ keep'.at \in {"tier", "dial", "ping"} => keep'.n \in 1 .. 3
      /\ keeper' = "join" => ~keep_alive_running'
  <2> USE DEF GraniteTypeOK
  <2>1. CASE StartKeepAlive
    BY <2>1 DEF StartKeepAlive
  <2>2. CASE StopKeepAlive
    BY <2>2 DEF StopKeepAlive
  <2>3. CASE JoinKeepAlive
    BY <2>3 DEF JoinKeepAlive
  <2>4. CASE UNCHANGED graniteVars
    BY <2>4 DEF graniteVars
  <2>5. CASE KeepAliveStep
    <3>1. UNCHANGED <<keep_alive_running, keeper>> /\ keep.at # "none"
      BY <2>5 DEF KeepAliveStep, KeepAliveHead, KeepAliveTier, KeepAlivePings, KeepAlivePinged,
                  KeepAliveSleeps, NextTier, KeepGoes
    <3>2. \/ keep' = [at |-> "done", n |-> 0]
          \/ keep' = [at |-> "sleep", n |-> 0]
          \/ keep' = [at |-> "head", n |-> 0]
          \/ \E n \in 1 .. 3, where \in {"tier", "dial", "ping"} : keep' = [at |-> where, n |-> n]
      BY <2>5 DEF KeepAliveStep, KeepAliveHead, KeepAliveTier, KeepAlivePings, KeepAlivePinged,
                  KeepAliveSleeps, NextTier, KeepGoes
    <3>3. QED
      BY <3>1, <3>2
  <2>6. QED
    BY <2>1, <2>2, <2>3, <2>4, <2>5
<1>4. GraniteTypeOK'
  BY <1>1, <1>2, <1>3 DEF GraniteTypeOK, generateVars, AsyncCallers
<1>5. QED
  BY <1>1, <1>2, <1>3, <1>4 DEF CallsAreCounted, generateVars

-----------------------------------------------------------------------------
(* Every step of the callers, the server and the keep-alive keeps the      *)
(* invariant.                                                              *)
LEMMA GraniteStep == GraniteInv /\ [GraniteNext]_graniteVars => GraniteInv'
<1> SUFFICES ASSUME GraniteInv, [GraniteNext]_graniteVars PROVE GraniteInv'
  OBVIOUS
<1>1. ASSUME NEW t \in Callers, NEW m \in Models, NEW async \in BOOLEAN, Generate(t, m, async)
      PROVE  GraniteInv'
  BY <1>1, GeneratePreserves
<1>2. ASSUME NEW t \in Callers, CallStep(t) PROVE GraniteInv'
  BY <1>2, NoThreadPreserves, RequestEndPreserves, SettlePreserves DEF CallStep
<1>3. CASE StartKeepAlive \/ StopKeepAlive \/ JoinKeepAlive \/ KeepAliveStep \/ UNCHANGED graniteVars
  BY <1>3, KeepAlivePreserves
<1>4. QED
  BY <1>1, <1>2, <1>3 DEF GraniteNext

(* The inference client's counters and the keep-alive thread keep to their *)
(* invariant under every interleaving of calls, answers and pings.         *)
THEOREM ClientInvariantHolds == GraniteSpec => []GraniteInv
  BY GraniteInitEstablishes, GraniteStep, PTL DEF GraniteSpec

(* The types of granite_client.h hold, and every asynchronous call in      *)
(* progress is in inflight_async_.                                         *)
THEOREM ClientTypeCorrect == GraniteSpec => []GraniteTypeOK
<1>1. GraniteInv => GraniteTypeOK
  BY DEF GraniteInv
<1>2. QED
  BY <1>1, ClientInvariantHolds, PTL

(* No request in progress is missing from its model's counter.             *)
THEOREM RequestsAreCounted == GraniteSpec => []CallsAreCounted
<1>1. GraniteInv => CallsAreCounted
  BY DEF GraniteInv
<1>2. QED
  BY <1>1, ClientInvariantHolds, PTL

(* A model that was used once is never found idle by the keep-alive: no    *)
(* end of a request lets its counter come back to zero (generate, S2.3).   *)
THEOREM UsedIsNotPinged == GraniteSpec => UsedIsPingedNoMore
<1>1. ASSUME GraniteInv, [GraniteNext]_graniteVars, keep.at = "tier", keep'.at = "dial"
      PROVE  KeepAliveOrder[keep.n] \notin used
  <2>1. KeepAliveTier
    <3>1. CASE \E t \in Callers : CallStep(t) \/ \E m \in Models, async \in BOOLEAN : Generate(t, m, async)
      <4>1. UNCHANGED keep
        BY <3>1 DEF CallStep, GetsNoThread, ServerAnswers, GenerateThrows, Judge, Settle, Generate, keepVars
      <4>2. QED
        BY <1>1, <4>1
    <3>2. CASE StartKeepAlive \/ StopKeepAlive \/ JoinKeepAlive \/ UNCHANGED graniteVars
      <4>1. keep' = keep \/ keep' = [at |-> "head", n |-> 0] \/ keep' = [at |-> "none", n |-> 0]
        BY <3>2 DEF StartKeepAlive, StopKeepAlive, JoinKeepAlive, graniteVars
      <4>2. QED
        BY <1>1, <4>1
    <3>3. CASE KeepAliveHead \/ KeepAlivePings \/ KeepAlivePinged \/ KeepAliveSleeps
      BY <1>1, <3>3 DEF KeepAliveHead, KeepAlivePings, KeepAlivePinged, KeepAliveSleeps
    <3>4. QED
      BY <1>1, <3>1, <3>2, <3>3 DEF GraniteNext, KeepAliveStep
  <2>2. keep.n \in 1 .. 3 /\ ~(inflight[KeepAliveOrder[keep.n]] > 0)
    BY <1>1, <2>1, OrderType DEF KeepAliveTier, NextTier, KeepGoes, GraniteInv
  <2>3. QED
    BY <1>1, <2>2 DEF GraniteInv
<1>2. GraniteInv /\ [GraniteNext]_graniteVars =>
        [keep.at = "tier" /\ keep'.at = "dial" => KeepAliveOrder[keep.n] \notin used]_graniteVars
  BY <1>1
<1>3. QED
  BY <1>2, ClientInvariantHolds, PTL DEF GraniteSpec, UsedIsPingedNoMore
=============================================================================

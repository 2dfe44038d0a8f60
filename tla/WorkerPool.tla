----------------------------- MODULE WorkerPool -----------------------------
(***************************************************************************)
(* The thread pool of src/utils/workerPool.ts: a bounded queue ordered by  *)
(* priority, workers that are created on demand and replaced when a task   *)
(* times out or a thread dies.  Only processQueue hands a task to a        *)
(* worker, one per call, and only some events call it.                     *)
(*                                                                         *)
(* The map of workers is searched in the order they were created: it is a  *)
(* sequence here, of the task each works on.  An answer of a worker that   *)
(* is no longer in the map, and its exit event, find nothing to change.    *)
(***************************************************************************)
EXTENDS Naturals, FiniteSets, SequencesExt

CONSTANTS
  Tasks,        \* calls of execute
  UrgencyOf,    \* priority of each
  QueueSize,    \* options.queueSize
  PoolSizes,    \* <<minWorkers, maxWorkers>> of the options, and of resize
  Resizes,      \* how often resize is called
  MaxImmediates,  \* immediates that may be pending when a thread dies
  Nothing

ASSUME PoolAssumption ==
  /\ IsFiniteSet(Tasks) /\ Nothing \notin Tasks
  /\ UrgencyOf \in [Tasks -> Nat]
  /\ QueueSize \in Nat \ {0} /\ {Resizes, MaxImmediates} \subseteq Nat
  /\ \A s \in PoolSizes : s \in Nat \X (Nat \ {0}) /\ s[1] <= s[2]

VARIABLES
  workers,       \* currentTaskId of each, Nothing when it is not busy
  taskQueue, taskMap,
  immediates,    \* calls of processQueue that setImmediate holds
  poolSize,      \* <<options.minWorkers, options.maxWorkers>>
  shuttingDown,
  promise,       \* of each execute
  resized        \* history: number of calls of resize

poolVars == <<workers, taskQueue, taskMap, immediates, poolSize, shuttingDown, promise, resized>>

Answered == {"resolved", "rejected"}

PoolTypeOK ==
  /\ workers \in Seq(Tasks \cup {Nothing})
  /\ taskQueue \in Seq(Tasks) /\ taskMap \subseteq Tasks
  /\ immediates \in Nat /\ poolSize \in PoolSizes
  /\ shuttingDown \in BOOLEAN
  /\ promise \in [Tasks -> {"none", "open"} \cup Answered]
  /\ resized \in 0..Resizes

AllIdle(n) == [k \in 1..n |-> Nothing]

PoolInit ==
  /\ poolSize \in PoolSizes
  /\ workers = AllIdle(poolSize[1])
  /\ taskQueue = <<>> /\ taskMap = {} /\ immediates = 0
  /\ shuttingDown = FALSE
  /\ promise = [t \in Tasks |-> "none"]
  /\ resized = 0

-----------------------------------------------------------------------------
(* processQueue over a list of workers and a queue: a task for the first   *)
(* idle worker, else a new worker and another try later.                   *)
ProcessQueue(crew, queue, later) ==
  LET idle == SelectInSeq(crew, LAMBDA t : t = Nothing) IN
  IF shuttingDown \/ queue = <<>>
  THEN workers' = crew /\ taskQueue' = queue /\ immediates' = later
  ELSE \/ /\ idle # 0
          /\ workers' = [crew EXCEPT ![idle] = Head(queue)]
          /\ taskQueue' = Tail(queue)
          /\ immediates' = later
       \/ /\ idle = 0 /\ Len(crew) < poolSize[2]
          /\ workers' = Append(crew, Nothing)
          /\ taskQueue' = queue
          /\ immediates' = later + 1
       \/ /\ idle = 0 /\ Len(crew) >= poolSize[2]
          /\ workers' = crew /\ taskQueue' = queue /\ immediates' = later

Execute(t) ==
  LET lower == SelectInSeq(taskQueue, LAMBDA k : UrgencyOf[k] < UrgencyOf[t])
      place == IF lower = 0 THEN Len(taskQueue) + 1 ELSE lower
  IN
  /\ promise[t] = "none"
  /\ IF shuttingDown \/ Len(taskQueue) >= QueueSize
     THEN /\ promise' = [promise EXCEPT ![t] = "rejected"]
          /\ UNCHANGED <<workers, taskQueue, taskMap, immediates>>
     ELSE /\ promise' = [promise EXCEPT ![t] = "open"]
          /\ taskMap' = taskMap \cup {t}
          /\ ProcessQueue(workers, InsertAt(taskQueue, place, t), immediates)
  /\ UNCHANGED <<poolSize, shuttingDown, resized>>

(* setImmediate calls processQueue.                                        *)
Immediate ==
  /\ immediates > 0
  /\ ProcessQueue(workers, taskQueue, immediates - 1)
  /\ UNCHANGED <<taskMap, poolSize, shuttingDown, promise, resized>>

(* What if an answer did not look for the next task?                       *)
NobodyNext(crew) == workers' = crew /\ UNCHANGED <<taskQueue, immediates>>

(* handleWorkerResult goes on with the next task.                          *)
NextTask(crew) == ProcessQueue(crew, taskQueue, immediates)

WorkerAnswers(w) ==
  LET t == workers[w] IN
  /\ t # Nothing
  /\ IF t \in taskMap
     THEN /\ taskMap' = taskMap \ {t}
          /\ \E end \in Answered : promise' = [promise EXCEPT ![t] = end]
          /\ NextTask([workers EXCEPT ![w] = Nothing])
     ELSE /\ workers' = [workers EXCEPT ![w] = Nothing]
          /\ UNCHANGED <<taskQueue, taskMap, immediates, promise>>
  /\ UNCHANGED <<poolSize, shuttingDown, resized>>

(* What if the task of a dead worker were left to its caller?              *)
TaskForgotten(w) == UNCHANGED promise

(* The active task of a worker that goes is rejected.                      *)
TaskRejected(w) ==
  promise' = IF workers[w] \in taskMap THEN [promise EXCEPT ![workers[w]] = "rejected"]
                                       ELSE promise

(* What if a worker that goes were never replaced?                         *)
NotReplaced(crew) == crew

(* A worker that goes leaves at least minWorkers.                          *)
Refilled(crew) ==
  IF ~shuttingDown /\ Len(crew) < poolSize[1] THEN Append(crew, Nothing) ELSE crew

(* recycleWorker                                                           *)
Recycle(w) ==
  /\ TaskRejected(w)
  /\ taskMap' = taskMap \ {workers[w]}
  /\ ProcessQueue(Refilled(RemoveAt(workers, w)), taskQueue, immediates)
  /\ UNCHANGED <<poolSize, shuttingDown, resized>>

(* The error or the exit event of a thread.                                *)
WorkerDies(w) == immediates <= MaxImmediates /\ Recycle(w)

(* The timer of processQueue, which every end of the task clears.          *)
TaskTimesOut(w) == workers[w] \in taskMap /\ Recycle(w)

(* The idle check; every immediate is over long before idleTimeout.        *)
IdleTooLong(w) ==
  /\ workers[w] = Nothing /\ Len(workers) > poolSize[1]
  /\ immediates = 0 /\ ~shuttingDown
  /\ Recycle(w)

(* resize creates workers, but hands them nothing.                         *)
Resize(s) ==
  /\ resized < Resizes /\ s # poolSize
  /\ resized' = resized + 1
  /\ poolSize' = s
  /\ workers' = IF Len(workers) < s[1] THEN workers \o AllIdle(s[1] - Len(workers)) ELSE workers
  /\ UNCHANGED <<taskQueue, taskMap, immediates, shuttingDown, promise>>

Shutdown ==
  /\ ~shuttingDown
  /\ shuttingDown' = TRUE
  /\ taskQueue' = <<>>
  /\ promise' = [t \in Tasks |-> IF t \in taskMap THEN "rejected" ELSE promise[t]]
  /\ taskMap' = {}
  /\ UNCHANGED <<workers, immediates, poolSize, resized>>

(* The await in shutdown is over.                                          *)
WorkersTerminated ==
  /\ shuttingDown /\ workers # <<>>
  /\ workers' = <<>>
  /\ UNCHANGED <<taskQueue, taskMap, immediates, poolSize, shuttingDown, promise, resized>>

PoolNext ==
  \/ \E t \in Tasks : Execute(t)
  \/ Immediate
  \/ \E w \in DOMAIN workers : WorkerAnswers(w) \/ WorkerDies(w) \/ TaskTimesOut(w) \/ IdleTooLong(w)
  \/ \E s \in PoolSizes : Resize(s)
  \/ Shutdown
  \/ WorkersTerminated

PoolSpec == PoolInit /\ [][PoolNext]_poolVars

-----------------------------------------------------------------------------
(* The task map is what waits and what is worked on, once each: nothing is *)
(* worked on for a caller that was answered, and no entry leaks.           *)
TaskMapExact ==
  LET busy == IF shuttingDown THEN {} ELSE {w \in DOMAIN workers : workers[w] # Nothing}
  IN  /\ taskMap = ToSet(taskQueue) \cup {workers[w] : w \in busy}
      /\ Cardinality(taskMap) = Len(taskQueue) + Cardinality(busy)
      /\ taskMap = {t \in Tasks : promise[t] = "open"}

(* Workers stay within the sizes they were given, whoever dies when.       *)
CrewWithinSizes ==
  shuttingDown \/ resized > 0 \/ Len(workers) \in poolSize[1]..poolSize[2]

(* A task waits while a worker is idle only until an immediate that is     *)
(* pending, or after a resize, which wakes nobody.                         *)
WaitingMeansBusy ==
  taskQueue # <<>> /\ Nothing \in ToSet(workers) => immediates > 0 \/ resized > 0

(* The pool knows its tasks and its workers, and keeps neither waiting for *)
(* the other.                                                              *)
PoolSound == PoolTypeOK /\ TaskMapExact /\ CrewWithinSizes /\ WaitingMeansBusy

(* Timers fire and immediates run; workers need not answer.                *)
PoolFairness ==
  /\ WF_poolVars(Immediate)
  /\ WF_poolVars(\E w \in DOMAIN workers : TaskTimesOut(w))

(* What is owed: the ends of the tasks, resized or not, also of those      *)
(* whose worker is silent: a task that is never handed out has no timer of *)
(* its own.                                                                *)
Open == {t \in Tasks : promise[t] = "open"}
=============================================================================

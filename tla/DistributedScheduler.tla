------------------------ MODULE DistributedScheduler ------------------------
(***************************************************************************)
(* The task scheduler of src/cluster/scheduler.ts: a queue by priority,    *)
(* tasks dispatched to nodes, retries after a delay, expiry, and           *)
(* reassignment when a node leaves.                                        *)
(*                                                                         *)
(* The cluster is external: which nodes are online, and the "node.leave"   *)
(* of the own node, the only one the scheduler subscribes to that          *)
(* ClusterManager emits.  A run is a dispatched task, from the timer of    *)
(* its dispatch to the end of its handler; nothing stops one.  Loads are   *)
(* abstracted: a task goes to any node that is online.  Time is too: which *)
(* tasks are past expiresAt or taskTimeout is chosen at each cleanup.      *)
(***************************************************************************)
EXTENDS Naturals, FiniteSets, SequencesExt, Places

CONSTANTS
  GridTasks,
  UrgencyRank,     \* priority; 1 goes first
  GridNodes, OwnNode, Nowhere,
  GridQueueSize,   \* maxQueueSize
  RetryLimit,      \* maxRetries
  PerNode,         \* tasks per node and round, 5 in the code
  MaxLeaves        \* how often the own node leaves in a behaviour

ASSUME GridAssumption ==
  /\ IsFiniteSet(GridTasks)
  /\ UrgencyRank \in [GridTasks -> Nat]
  /\ OwnNode \in GridNodes /\ Nowhere \notin GridNodes
  /\ {GridQueueSize, RetryLimit, PerNode} \subseteq Nat \ {0} /\ MaxLeaves \in Nat

VARIABLES
  queuedTasks,    \* keys of taskQueue
  pendingTasks,
  runningTasks,   \* keys of runningTasks
  taskStatus, assignedNode, retryCount,
  runs,           \* runs of each task that are under way
  retryTimers,    \* timers of handleTaskFailure that are pending
  onlineNodes,
  ticking,        \* the intervals run
  leaves,         \* history: times the own node left
  starts,         \* history: runs started of each task
  overtaken       \* history: tasks taken from a run that went on

taskPart == <<queuedTasks, pendingTasks, runningTasks, taskStatus, assignedNode, retryCount,
              runs, retryTimers, starts, overtaken>>
gridVars == <<taskPart, onlineNodes, ticking, leaves>>

OpenStatus == {"pending", "running"}

GridTypeOK ==
  /\ queuedTasks \subseteq GridTasks /\ runningTasks \subseteq GridTasks
  /\ pendingTasks \in Seq(GridTasks)
  /\ taskStatus \in [GridTasks ->
       OpenStatus \cup {"none", "refused", "completed", "failed", "cancelled"}]
  /\ assignedNode \in [GridTasks -> GridNodes \cup {Nowhere}]
  /\ retryCount \in [GridTasks -> Nat]
  /\ runs \in [GridTasks -> Nat] /\ retryTimers \in [GridTasks -> Nat]
  /\ starts \in [GridTasks -> Nat]
  /\ onlineNodes \subseteq GridNodes /\ overtaken \subseteq GridTasks
  /\ ticking \in BOOLEAN /\ leaves \in 0..MaxLeaves

GridInit ==
  /\ queuedTasks = {} /\ pendingTasks = <<>> /\ runningTasks = {}
  /\ taskStatus = [t \in GridTasks |-> "none"]
  /\ assignedNode = [t \in GridTasks |-> Nowhere]
  /\ retryCount = [t \in GridTasks |-> 0]
  /\ runs = [t \in GridTasks |-> 0] /\ retryTimers = [t \in GridTasks |-> 0]
  /\ onlineNodes = GridNodes
  /\ ticking = TRUE
  /\ leaves = 0 /\ starts = [t \in GridTasks |-> 0] /\ overtaken = {}

-----------------------------------------------------------------------------
(* addToPendingQueue: before the first task in the queue of a later rank.  *)
Inserted(list, known, t) ==
  LET later == SelectInSeq(list, LAMBDA k : k \in known /\ UrgencyRank[k] > UrgencyRank[t])
  IN  InsertAt(list, IF later = 0 THEN Len(list) + 1 ELSE later, t)

(* Places of the list from which scheduleTasks starts a task: it is in the *)
(* queue and pending, and was not started from an earlier place.           *)
StartPlaces(s) ==
  {k \in DOMAIN s.list :
     /\ s.list[k] \in s.known /\ s.status[s.list[k]] = "pending"
     /\ \A n \in 1..k - 1 : s.list[n] # s.list[k]}

(* How much of the list a round takes off.                                 *)
RoundLength(s) ==
  IF onlineNodes = {} THEN 0
  ELSE Min({n \in 0..Len(s.list) :
              \/ n = Len(s.list)
              \/ Cardinality({k \in StartPlaces(s) : k <= n}) = PerNode * Cardinality(onlineNodes)})

(* What scheduleTasks makes of the queue, the running tasks and statuses.  *)
Round(s) ==
  LET started == {s.list[k] : k \in StartPlaces(s) \cap 1..RoundLength(s)}
  IN  [list    |-> SubSeq(s.list, RoundLength(s) + 1, Len(s.list)),
       known   |-> s.known \ started,
       running |-> s.running \cup started,
       status  |-> [t \in GridTasks |-> IF t \in started THEN "running" ELSE s.status[t]],
       started |-> started]

Now == [list |-> pendingTasks, known |-> queuedTasks, running |-> runningTasks,
        status |-> taskStatus, started |-> {}]

(* The state after a handler that ran a round is s.                        *)
Becomes(s) ==
  /\ pendingTasks' = s.list /\ queuedTasks' = s.known
  /\ runningTasks' = s.running /\ taskStatus' = s.status
  /\ runs' = [t \in GridTasks |-> runs[t] + IF t \in s.started THEN 1 ELSE 0]
  /\ starts' = [t \in GridTasks |-> starts[t] + IF t \in s.started THEN 1 ELSE 0]
  /\ \E to \in [s.started -> onlineNodes] :
       assignedNode' = [t \in GridTasks |-> IF t \in s.started THEN to[t] ELSE assignedNode[t]]

(* scheduleTasks, run by a handler that has left s.                        *)
Schedules(s) == \E before \in {s} : \E after \in {Round(before)} : Becomes(after)

(* Task t as it is put into the queue, with its status.                    *)
WithTask(t, status) ==
  [Now EXCEPT !.list = Inserted(pendingTasks, queuedTasks \cup {t}, t),
              !.known = @ \cup {t}, !.status[t] = status]

SubmitTask(t) ==
  /\ taskStatus[t] = "none"
  /\ IF Cardinality(queuedTasks) >= GridQueueSize
     THEN Becomes([Now EXCEPT !.status[t] = "refused"])
     ELSE Schedules(WithTask(t, "pending"))
  /\ UNCHANGED <<retryCount, retryTimers, overtaken, onlineNodes, ticking, leaves>>

(* cancelTask; a task that waits for its retry timer is in neither map.    *)
CancelTask(t) ==
  /\ t \in queuedTasks \cup runningTasks
  /\ taskStatus' = [taskStatus EXCEPT ![t] = "cancelled"]
  /\ IF t \in queuedTasks
     THEN /\ pendingTasks' = RemoveFirst(pendingTasks, t)
          /\ queuedTasks' = queuedTasks \ {t}
          /\ UNCHANGED runningTasks
     ELSE /\ runningTasks' = runningTasks \ {t}
          /\ UNCHANGED <<queuedTasks, pendingTasks>>
  /\ overtaken' = IF runs[t] > 0 THEN overtaken \cup {t} ELSE overtaken
  /\ UNCHANGED <<assignedNode, retryCount, runs, retryTimers, starts, onlineNodes, ticking, leaves>>

(* The list without the first place of each of the tasks.                  *)
WithoutFirst(list, tasks) ==
  AtPlaces(list, {k \in DOMAIN list : list[k] \in tasks => \E n \in 1..k - 1 : list[n] = list[k]})

(* cleanupExpiredTasks: of the tasks that are pending, E have expired and  *)
(* leave the list but not the queue; of those that run, R are overdue, but *)
(* go on running.                                                          *)
CleanedUp(s, E, R) ==
  [s EXCEPT !.list = WithoutFirst(@, E),
            !.running = @ \ R,
            !.status = [t \in GridTasks |-> IF t \in E THEN "cancelled"
                                            ELSE IF t \in R THEN "failed" ELSE @[t]]]

(* The interval of startProcessingLoop.                                    *)
IntervalTicks ==
  /\ ticking
  /\ \E s \in {Round(Now)} :
       \E E \in SUBSET {t \in s.known : s.status[t] = "pending"}, R \in SUBSET s.running :
         /\ Becomes(CleanedUp(s, E, R))
         /\ overtaken' = overtaken \cup R
  /\ UNCHANGED <<retryCount, retryTimers, onlineNodes, ticking, leaves>>

(* processTaskOnNode ends: whichever run it is, the task's entry goes.     *)
RunOver(t) ==
  /\ runs[t] > 0
  /\ runs' = [runs EXCEPT ![t] = @ - 1]
  /\ runningTasks' = runningTasks \ {t}
  /\ UNCHANGED <<queuedTasks, pendingTasks, starts, overtaken, onlineNodes, ticking, leaves>>

RunCompletes(t) ==
  /\ RunOver(t)
  /\ taskStatus' = [taskStatus EXCEPT ![t] = "completed"]
  /\ UNCHANGED <<assignedNode, retryCount, retryTimers>>

(* What if retries were counted from one too late?                         *)
OneRetryMore(t) == retryCount[t] + 1 > RetryLimit

(* What if a failed task that has retries left got no timer?               *)
NoTimer(t) == retryTimers

TimerSet(t) == [retryTimers EXCEPT ![t] = @ + 1]

OutOfRetries(t) == retryCount[t] + 1 >= RetryLimit

(* handleTaskFailure                                                       *)
RunFails(t) ==
  /\ RunOver(t)
  /\ retryCount' = [retryCount EXCEPT ![t] = @ + 1]
  /\ \/ /\ OutOfRetries(t)
        /\ taskStatus' = [taskStatus EXCEPT ![t] = "failed"]
        /\ UNCHANGED <<assignedNode, retryTimers>>
     \/ /\ ~OutOfRetries(t)
        /\ taskStatus' = [taskStatus EXCEPT ![t] = "pending"]
        /\ assignedNode' = [assignedNode EXCEPT ![t] = Nowhere]
        /\ retryTimers' = TimerSet(t)

RetryTimerFires(t) ==
  /\ retryTimers[t] > 0
  /\ retryTimers' = [retryTimers EXCEPT ![t] = @ - 1]
  /\ Schedules(WithTask(t, taskStatus[t]))
  /\ UNCHANGED <<retryCount, overtaken, onlineNodes, ticking, leaves>>

(* What if handleNodeLeave took the tasks away but did not queue them?     *)
NotRequeued(list, order) == list

(* handleNodeLeave puts its running tasks into the list one by one.        *)
Requeued(list, order) ==
  LET after[n \in 0..Len(order)] ==
        IF n = 0 THEN list
        ELSE Inserted(after[n - 1], queuedTasks \cup {order[k] : k \in 1..n}, order[n])
  IN  after[Len(order)]

(* The own node leaves, and its tasks are taken back while they run on.    *)
OwnNodeLeaves ==
  /\ OwnNode \in onlineNodes /\ leaves < MaxLeaves
  /\ onlineNodes' = onlineNodes \ {OwnNode}
  /\ leaves' = leaves + 1
  /\ LET mine == {t \in runningTasks : assignedNode[t] = OwnNode} IN
     /\ taskStatus' = [t \in GridTasks |-> IF t \in mine THEN "pending" ELSE taskStatus[t]]
     /\ assignedNode' = [t \in GridTasks |-> IF t \in mine THEN Nowhere ELSE assignedNode[t]]
     /\ retryCount' = [t \in GridTasks |-> retryCount[t] + IF t \in mine THEN 1 ELSE 0]
     /\ queuedTasks' = queuedTasks \cup mine
     /\ runningTasks' = runningTasks \ mine
     /\ \E order \in SetToSeqs(mine) : pendingTasks' = Requeued(pendingTasks, order)
     /\ overtaken' = overtaken \cup mine
  /\ UNCHANGED <<runs, retryTimers, starts, ticking>>

(* Nodes come, and others time out, of which the scheduler hears nothing.  *)
NodeOnline(n) ==
  /\ n \notin onlineNodes
  /\ onlineNodes' = onlineNodes \cup {n}
  /\ UNCHANGED <<taskPart, ticking, leaves>>

NodeOffline(n) ==
  /\ n \in onlineNodes \ {OwnNode}
  /\ onlineNodes' = onlineNodes \ {n}
  /\ UNCHANGED <<taskPart, ticking, leaves>>

(* stop clears the intervals; submissions and retries still schedule.      *)
StopGrid ==
  /\ ticking /\ ticking' = FALSE
  /\ UNCHANGED <<taskPart, onlineNodes, leaves>>

GridNext ==
  \/ \E t \in GridTasks :
       \/ SubmitTask(t) \/ CancelTask(t)
       \/ RunCompletes(t) \/ RunFails(t) \/ RetryTimerFires(t)
  \/ IntervalTicks \/ OwnNodeLeaves \/ StopGrid
  \/ \E n \in GridNodes : NodeOnline(n) \/ NodeOffline(n)

GridSpec == GridInit /\ [][GridNext]_gridVars

-----------------------------------------------------------------------------
(* No task is forgotten: one that is pending is in the list and the queue  *)
(* or has a timer that will put it there, one that is running has a run,   *)
(* whatever was cancelled, overdue, reassigned or answered late.           *)
OpenIsUnderWay ==
  \A t \in GridTasks :
    /\ taskStatus[t] = "pending" =>
         \/ t \in ToSet(pendingTasks) /\ t \in queuedTasks
         \/ retryTimers[t] > 0
    /\ taskStatus[t] = "running" => runs[t] > 0

(* A task is run no more often than its retries allow, and once more for   *)
(* each time its node left.                                                *)
StartsBounded == \A t \in GridTasks : starts[t] <= RetryLimit + leaves

(* As long as no run of a task was overtaken, the task is in one place: in *)
(* the list, with a timer or in its only run, and in none once it is over. *)
InOnePlace ==
  \A t \in GridTasks \ overtaken :
    /\ runs[t] + retryTimers[t] + Cardinality({k \in DOMAIN pendingTasks : pendingTasks[k] = t})
         = (IF taskStatus[t] \in OpenStatus THEN 1 ELSE 0)
    /\ t \in runningTasks <=> taskStatus[t] = "running"

(* The scheduler keeps hold of its tasks: none forgotten, none in two      *)
(* places, none started for ever.                                          *)
GridSound == GridTypeOK /\ OpenIsUnderWay /\ StartsBounded /\ InOnePlace

(* The interval ticks while there is something in the list, timers fire,   *)
(* handlers end.                                                           *)
GridFairness ==
  /\ WF_gridVars(pendingTasks # <<>> /\ IntervalTicks)
  /\ \A t \in GridTasks :
       /\ WF_gridVars(RunCompletes(t) \/ RunFails(t))
       /\ WF_gridVars(RetryTimerFires(t))

(* What is owed: the ends of the tasks, wherever nodes leave...            *)
OpenTasks == {t \in GridTasks : taskStatus[t] \in OpenStatus}

(* ... once a node stays online and the scheduler is not stopped.          *)
GridLeftOn == onlineNodes # {} /\ ticking
=============================================================================

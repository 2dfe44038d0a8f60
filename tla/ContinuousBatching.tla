------------------------- MODULE ContinuousBatching -------------------------
(***************************************************************************)
(* The batching scheduler of src/inference/continuousBatching.ts: a        *)
(* bounded queue ordered by priority, a drain that a timer runs, and jobs  *)
(* that run in parallel up to a limit that may be reconfigured.  The map   *)
(* of active jobs and the map of abort controllers are keyed by an id that *)
(* the caller may choose, so two jobs can share one.                       *)
(*                                                                         *)
(* drain has no await: it is one step.  What the executor does with a job  *)
(* is its answer; only whether the job was aborted before it matters.      *)
(***************************************************************************)
EXTENDS Naturals, FiniteSets, SequencesExt

CONSTANTS
  BatchJobs,       \* calls of submit
  BatchIds,        \* the ids they may carry
  IdOf,            \* id of each job
  PriorityOf,      \* priority of each job
  Concurrencies,   \* values of maxConcurrency it is configured with
  MaxQueueLength,
  Coalesces        \* maxWaitingTime > 0

ASSUME BatchAssumption ==
  /\ IsFiniteSet(BatchJobs)
  /\ IdOf \in [BatchJobs -> BatchIds]
  /\ PriorityOf \in [BatchJobs -> Nat]
  /\ IsFiniteSet(Concurrencies) /\ Concurrencies # {}
  /\ Concurrencies \subseteq Nat \ {0}
  /\ MaxQueueLength \in Nat \ {0}
  /\ Coalesces \in BOOLEAN

VARIABLES
  waiting,      \* this.queue
  active,       \* the job in each id's entry of this.active, {} without one
  aborted,      \* jobs that run and whose controller was aborted
  revoked,      \* jobs whose entry has the status that cancel sets; stop sets none
  drainTimer,   \* whether a drain is scheduled
  concurrency,  \* config.maxConcurrency
  fresh,        \* waiting jobs younger than maxWaitingTime
  job           \* what became of each job

batchVars == <<waiting, active, aborted, revoked, drainTimer, concurrency, fresh, job>>

BatchSettled == {"completed", "failed", "cancelled", "refused"}

BatchTypeOK ==
  /\ waiting \in Seq(BatchJobs)
  /\ active \in [BatchIds -> SUBSET BatchJobs]
  /\ aborted \subseteq BatchJobs /\ revoked \subseteq BatchJobs
  /\ drainTimer \in BOOLEAN
  /\ concurrency \in Concurrencies
  /\ fresh \subseteq BatchJobs
  /\ job \in [BatchJobs -> {"new", "waiting", "running"} \cup BatchSettled]

BatchInit ==
  /\ waiting = <<>>
  /\ active = [i \in BatchIds |-> {}]
  /\ aborted = {} /\ revoked = {}
  /\ drainTimer = FALSE
  /\ concurrency \in Concurrencies
  /\ fresh = {}
  /\ job = [j \in BatchJobs |-> "new"]

Entries(map)   == {i \in BatchIds : map[i] # {}}
ActiveSize(map) == Cardinality(Entries(map))
RunningJobs    == {j \in BatchJobs : job[j] = "running"}

-----------------------------------------------------------------------------
(* What if a job were put behind those of lower priority too?              *)
PlaceAtTheEnd(j) == Len(waiting) + 1

(* submit: before the first waiting job of lower priority.                 *)
Place(j) ==
  LET below == SelectInSeq(waiting, LAMBDA k : PriorityOf[k] < PriorityOf[j])
  IN  IF below = 0 THEN Len(waiting) + 1 ELSE below

Submit(j) ==
  /\ job[j] = "new"
  /\ IF Len(waiting) >= MaxQueueLength
     THEN /\ job' = [job EXCEPT ![j] = "refused"]
          /\ UNCHANGED <<waiting, drainTimer, fresh>>
     ELSE /\ job' = [job EXCEPT ![j] = "waiting"]
          /\ waiting' = InsertAt(waiting, Place(j), j)
          /\ fresh' = IF Coalesces THEN fresh \cup {j} ELSE fresh
          /\ drainTimer' = TRUE
  /\ UNCHANGED <<active, aborted, revoked, concurrency>>

(* maxWaitingTime passes for a waiting job.                                *)
Ages(j) ==
  /\ j \in fresh
  /\ fresh' = fresh \ {j}
  /\ UNCHANGED <<waiting, active, aborted, revoked, drainTimer, concurrency, job>>

(* this.active after the first n jobs of the queue have been started.      *)
MapAfter(n) ==
  [i \in BatchIds |->
     LET mine == {k \in 1..n : IdOf[waiting[k]] = i}
     IN  IF mine = {} THEN active[i] ELSE {waiting[Max(mine)]}]

(* shouldWaitToCoalesce, when the first n have been started.               *)
WaitsForMore(n) ==
  /\ Coalesces
  /\ Entries(MapAfter(n)) = {}
  /\ Len(waiting) - n \in 1..concurrency - 1
  /\ waiting[n + 1] \in fresh

(* drain starts jobs until the map is full or waiting for more pays.       *)
DrainStops(n) ==
  \/ n = Len(waiting)
  \/ ActiveSize(MapAfter(n)) >= concurrency
  \/ WaitsForMore(n)

(* What if the map's size were read once, before the loop?                 *)
StartedAtOnce == IF ActiveSize(active) >= concurrency THEN 0 ELSE Len(waiting)

(* How many jobs the loop of drain starts.                                 *)
StartCount == Min({n \in 0..Len(waiting) : DrainStops(n)})

(* The timer of scheduleDrain fires: drain, which schedules itself again   *)
(* when it leaves a queue though there is room.                            *)
Drain ==
  /\ drainTimer
  /\ \E n \in {StartCount} :
       LET started == {waiting[k] : k \in 1..n} IN
       /\ waiting' = SubSeq(waiting, n + 1, Len(waiting))
       /\ active' = MapAfter(n)
       /\ job' = [j \in BatchJobs |-> IF j \in started THEN "running" ELSE job[j]]
       /\ fresh' = fresh \ started
       /\ drainTimer' = (n < Len(waiting) /\ ActiveSize(MapAfter(n)) < concurrency)
  /\ UNCHANGED <<aborted, revoked, concurrency>>

(* What if a run that ends did not schedule a drain?                       *)
NoDrainAfterRun == drainTimer

(* The finally of runJob schedules a drain.                                *)
DrainAfterRun == TRUE

(* What if the entry of a run stayed?                                      *)
EntryStays(j) == active

EntryDeleted(j) == [active EXCEPT ![IdOf[j]] = {}]

(* runJob continues when the executor of j has answered or thrown: the     *)
(* finally deletes the entry of its id, whichever job is in it.            *)
RunEnds(j, end) ==
  /\ job[j] = "running"
  /\ job' = [job EXCEPT ![j] = end]
  /\ active' = EntryDeleted(j)
  /\ aborted' = aborted \ {j} /\ revoked' = revoked \ active[IdOf[j]]
  /\ drainTimer' = DrainAfterRun
  /\ UNCHANGED <<waiting, concurrency, fresh>>

(* An answer counts unless the run was aborted, or the status of the entry *)
(* of its id (which may be another job's) is that of a cancelled job.      *)
ExecutorAnswers(j) ==
  RunEnds(j, IF j \in aborted \/ active[IdOf[j]] \cap revoked # {}
             THEN "cancelled" ELSE "completed")

ExecutorThrows(j) == RunEnds(j, IF j \in aborted THEN "cancelled" ELSE "failed")

(* cancel: the first waiting job of that id, else the active one.          *)
CancelWaiting(i) ==
  LET at == SelectInSeq(waiting, LAMBDA k : IdOf[k] = i) IN
  /\ at # 0
  /\ job' = [job EXCEPT ![waiting[at]] = "cancelled"]
  /\ waiting' = RemoveAt(waiting, at)
  /\ fresh' = fresh \ {waiting[at]}
  /\ UNCHANGED <<active, aborted, revoked, drainTimer, concurrency>>

CancelActive(i) ==
  /\ \A k \in ToSet(waiting) : IdOf[k] # i
  /\ active[i] # {}
  /\ aborted' = aborted \cup active[i] /\ revoked' = revoked \cup active[i]
  /\ UNCHANGED <<waiting, active, drainTimer, concurrency, fresh, job>>

(* updateConfig                                                            *)
UpdateConfig(n) ==
  /\ concurrency' = n
  /\ drainTimer' = TRUE
  /\ UNCHANGED <<waiting, active, aborted, revoked, fresh, job>>

(* stop: the timer goes, the queue is rejected, every controller aborted.  *)
Stop ==
  /\ drainTimer' = FALSE
  /\ waiting' = <<>>
  /\ fresh' = {}
  /\ job' = [j \in BatchJobs |-> IF j \in ToSet(waiting) THEN "cancelled" ELSE job[j]]
  /\ aborted' = aborted \cup UNION {active[i] : i \in BatchIds}
  /\ UNCHANGED <<active, revoked, concurrency>>

Executor(j) == ExecutorAnswers(j) \/ ExecutorThrows(j)

BatchNext ==
  \/ \E j \in BatchJobs : Submit(j) \/ Ages(j) \/ Executor(j)
  \/ \E i \in BatchIds : CancelWaiting(i) \/ CancelActive(i)
  \/ \E n \in Concurrencies : UpdateConfig(n)
  \/ Drain
  \/ Stop

BatchSpec == BatchInit /\ [][BatchNext]_batchVars

-----------------------------------------------------------------------------
(* Two jobs of one id were both taken in.                                  *)
Clash == \E j, k \in BatchJobs :
  /\ j # k /\ IdOf[j] = IdOf[k]
  /\ {job[j], job[k]} \cap {"new", "waiting", "refused"} = {}

(* No more jobs run than the largest limit it was ever given, unless two   *)
(* jobs shared an id: the first of them to end takes the other's entry     *)
(* away, and the size drain compares no longer counts it.                  *)
BatchBounded ==
  \/ \E n \in Concurrencies : Cardinality(RunningJobs) <= n
  \/ Clash

(* The entries are of jobs that run, never of one that has ended: cancel   *)
(* and stop reach no finished job, and no entry keeps its room for ever.   *)
EntriesRun == \A i \in BatchIds : \A j \in active[i] : job[j] = "running" /\ IdOf[j] = i

(* No lost drain: a job that waits has a drain scheduled, or the map is    *)
(* full and one of the runs in it will schedule one when it ends.          *)
DrainPending ==
  waiting # <<>> => \/ drainTimer
                    \/ ActiveSize(active) >= concurrency

(* The batch is what runs, bounded, and never stands still with jobs       *)
(* waiting and room to run them.                                           *)
BatchingSound == BatchTypeOK /\ BatchBounded /\ EntriesRun /\ DrainPending

(* A job that starts leaves nobody behind who was to go first: waiting     *)
(* jobs have no higher priority than it.                                   *)
StartsByPriority ==
  [][\A j, k \in BatchJobs :
       /\ job[j] = "waiting" /\ job'[j] = "running"
       /\ job'[k] = "waiting"
       => PriorityOf[k] <= PriorityOf[j]]_batchVars

(* The timer fires; waiting times pass and executors answer, some at least *)
(* while any can.                                                          *)
BatchFairness ==
  WF_batchVars(Drain) /\ WF_batchVars(\E j \in BatchJobs : Ages(j) \/ Executor(j))

(* What is owed to the callers: the answers of the jobs taken in, whatever *)
(* is cancelled, stopped or reconfigured meanwhile and whoever shares an   *)
(* id.                                                                     *)
Unsettled == {j \in BatchJobs : job[j] \in {"waiting", "running"}}
=============================================================================

--------------------------- MODULE WorkerLifecycle ---------------------------
(***************************************************************************)
(* The worker process of one spawn-managed runtime (vLLM, llama.cpp, ...)  *)
(* in src/models/modelManager.ts: startRuntime and its awaits, stopRuntime, *)
(* deletion, the exit callback, the automatic restart with its timer and   *)
(* attempt count, the periodic health probe, and a restart of the gateway, *)
(* which keeps the persisted record and loses everything held in memory.   *)
(*                                                                         *)
(* Node runs one callback at a time, so an action is the code between two  *)
(* awaits.  Workers, operators and the answers of endpoints are chosen by  *)
(* the environment.                                                        *)
(***************************************************************************)
EXTENDS Naturals, FiniteSets

CONSTANTS
  Children,      \* process ids; an id is given out again once nobody refers to it
  MaxAttempts    \* workerRestartConfig.maxAttempts

ASSUME AttemptsAssumption == MaxAttempts \in Nat

None == "none"
ASSUME ChildrenAssumption == None \notin Children

VARIABLES
  status,       \* runtime.status, "deleted" once it left state.runtimes
  pid,          \* runtime.pid, persisted with the status
  processes,    \* processes.get(id)
  intentional,  \* intentionalStops.has(id)
  timer,        \* restartTimers.has(id)
  attempts,     \* restartAttempts.get(id)
  child,        \* what became of each process; a dead one awaits its exit event
  watched,      \* the processes whose exit event this gateway will hear
  stage,        \* where the startRuntime call that spawned the process stands
  auto,         \* the calls of startRuntime made by the restart timer
  probe,        \* a probeRuntime awaits, having seen pidAlive
  wanted,       \* history: what the operator asked for last
  hasty,        \* history: did the operator ever start beside a process that is left?
  streak        \* history: automatic restarts since a worker last came up

recordVars  == <<status, pid>>
restartVars == <<intentional, timer, attempts>>
historyVars == <<wanted, hasty, streak>>
vars == <<recordVars, processes, restartVars, child, watched, stage, auto, probe, historyVars>>

TypeOK ==
  /\ status \in {"stopped", "starting", "running", "error", "deleted"}
  /\ pid \in Children \cup {None}
  /\ processes \in Children \cup {None}
  /\ intentional \in BOOLEAN
  /\ timer \in BOOLEAN
  /\ attempts \in 0..MaxAttempts
  /\ child \in [Children -> {None, "up", "killed", "crashed", "stopped"}]
  /\ watched \subseteq Children
  /\ stage \in [Children -> {None, "delay", "probing"}]
  /\ auto \subseteq Children
  /\ probe \in {None, "alive", "dead"}
  /\ wanted \in {"up", "down", "refused"}
  /\ hasty \in BOOLEAN
  /\ streak \in 0..MaxAttempts + 1

Init ==
  /\ status = "stopped" /\ pid = None /\ processes = None
  /\ intentional = FALSE /\ timer = FALSE /\ attempts = 0
  /\ child = [c \in Children |-> None] /\ watched = {}
  /\ stage = [c \in Children |-> None] /\ auto = {}
  /\ probe = None
  /\ wanted = "down" /\ hasty = FALSE /\ streak = 0

Alive(c) == child[c] \in {"up", "killed"}

-----------------------------------------------------------------------------
(* startRuntime returns at once only for a runtime that runs a process it  *)
(* knows; otherwise it forgets a pending stop and a pending restart.       *)
StartProceeds ==
  /\ status # "deleted"
  /\ ~(status = "running" /\ processes # None)

(* What if clearRestartTimer did nothing?                                  *)
TimerKept == UNCHANGED timer

ClearRestartTimer == timer' = FALSE

(* The head of startRuntime, up to the delay that follows the spawn.       *)
Spawn(c) ==
  /\ StartProceeds
  /\ child[c] = None /\ stage[c] = None /\ pid # c
  /\ status' = "starting" /\ pid' = c /\ processes' = c
  /\ intentional' = FALSE /\ ClearRestartTimer
  /\ child' = [child EXCEPT ![c] = "up"]
  /\ watched' = watched \cup {c}
  /\ stage' = [stage EXCEPT ![c] = "delay"]
  /\ UNCHANGED <<attempts, probe>>

(* The operator asks for a start, whether or not a process is left.        *)
OperatorAsks(w) ==
  /\ wanted' = w /\ streak' = 0
  /\ hasty' = (hasty \/ \E c \in Children : child[c] # None)

OperatorStarts(c) ==
  /\ Spawn(c)
  /\ auto' = auto \ {c}
  /\ OperatorAsks("up")

(* The start throws before the spawn.  A worker that is not callable is    *)
(* recorded as an error; a spawn configuration that is rejected leaves the *)
(* record at "starting".                                                   *)
OperatorStartRefused ==
  /\ StartProceeds
  /\ status' \in {"error", "starting"}
  /\ intentional' = FALSE /\ ClearRestartTimer
  /\ OperatorAsks("refused")
  /\ UNCHANGED <<pid, processes, attempts, child, watched, stage, auto, probe>>

(* After the delay: go on to the probe unless the worker is known to be    *)
(* gone.  The .then of an automatic start forgets the attempts whichever   *)
(* way startRuntime returned; on a deleted runtime the call throws.        *)
DelayEnds(c) ==
  /\ stage[c] = "delay"
  /\ \/ /\ status = "deleted"
        /\ stage' = [stage EXCEPT ![c] = None]
        /\ UNCHANGED attempts
     \/ /\ status = "error" \/ (processes = None /\ status # "deleted")
        /\ stage' = [stage EXCEPT ![c] = None]
        /\ attempts' = IF c \in auto THEN 0 ELSE attempts
     \/ /\ status \notin {"error", "deleted"} /\ processes # None
        /\ stage' = [stage EXCEPT ![c] = "probing"]
        /\ UNCHANGED attempts
  /\ UNCHANGED <<recordVars, processes, intentional, timer, child, watched, auto, probe, historyVars>>

(* The probe of the endpoint returns: the record says running, whatever    *)
(* happened to the worker or to the runtime during the probe.              *)
StartAnswers(c) ==
  /\ stage[c] = "probing"
  /\ stage' = [stage EXCEPT ![c] = None]
  /\ IF status = "deleted"
     THEN UNCHANGED <<status, attempts, streak>>
     ELSE /\ status' = "running"
          /\ attempts' = IF c \in auto THEN 0 ELSE attempts
          /\ streak' = IF processes # None THEN 0 ELSE streak
  /\ UNCHANGED <<pid, processes, intentional, timer, child, watched, auto, probe, wanted, hasty>>

-----------------------------------------------------------------------------
(* stopRuntime: the process to kill is the mapped one, or else the one the *)
(* record names.                                                           *)
Target == IF processes # None THEN processes ELSE pid

(* What if stopRuntime forgot the process before it looked for its pid?    *)
KillNobody == UNCHANGED child

Kill == child' = [c \in Children |-> IF c = Target /\ child[c] = "up" THEN "killed" ELSE child[c]]

(* What if nothing were ever removed from the map of processes?            *)
MappingKept == UNCHANGED processes

Unmap == processes' = None

Stop(s) ==
  /\ status # "deleted"
  /\ intentional' = TRUE /\ ClearRestartTimer /\ attempts' = 0
  /\ Kill /\ Unmap
  /\ status' = s /\ pid' = None
  /\ wanted' = "down" /\ streak' = 0
  /\ UNCHANGED <<watched, stage, auto, probe, hasty>>

StopRuntime   == Stop("stopped")
DeleteRuntime == Stop("deleted")

-----------------------------------------------------------------------------
(* A worker dies, by itself or from the SIGTERM.  The exit event of a      *)
(* process spawned by an earlier gateway reaches nobody.                   *)
WorkerDies(c) ==
  /\ Alive(c)
  /\ child' = [child EXCEPT ![c] = IF c \notin watched THEN None
                                   ELSE IF @ = "up" THEN "crashed" ELSE "stopped"]
  /\ UNCHANGED <<recordVars, processes, restartVars, watched, stage, auto, probe, historyVars>>

(* What if the attempts were compared before, or after, the increment?     *)
OneAttemptMore(armed) ==
  /\ timer' = (armed \/ attempts <= MaxAttempts)
  /\ attempts' = IF attempts <= MaxAttempts THEN attempts + 1 ELSE attempts

OneAttemptLess(armed) ==
  /\ timer' = (armed \/ attempts + 1 < MaxAttempts)
  /\ attempts' = IF attempts + 1 < MaxAttempts THEN attempts + 1 ELSE attempts

(* scheduleWorkerAutoRestart: another attempt, unless they are used up; a  *)
(* timer already armed stays armed.                                        *)
ScheduleRestart(armed) ==
  /\ timer' = (armed \/ attempts < MaxAttempts)
  /\ attempts' = IF attempts < MaxAttempts THEN attempts + 1 ELSE attempts

(* The exit callback.  It unmaps the runtime's process, be it this one or  *)
(* another, and takes the exit for a crash unless a stop is on record.     *)
ExitHeard(c) ==
  /\ c \in watched /\ child[c] \in {"crashed", "stopped"}
  /\ child' = [child EXCEPT ![c] = None]
  /\ watched' = watched \ {c}
  /\ Unmap
  /\ \/ /\ status = "deleted"
        /\ UNCHANGED <<recordVars, restartVars>>
     \/ /\ status # "deleted" /\ (intentional \/ status = "stopped")
        /\ intentional' = FALSE
        /\ UNCHANGED <<recordVars, timer, attempts>>
     \/ /\ status \notin {"deleted", "stopped"} /\ ~intentional
        /\ status' = "error" /\ pid' = None
        /\ ScheduleRestart(timer)
        /\ UNCHANGED intentional
  /\ UNCHANGED <<stage, auto, probe, historyVars>>

(* The restart timer fires.  A start that throws is caught, recorded as an *)
(* error and scheduled again.                                              *)
AutoStarts(c) ==
  /\ timer /\ ~intentional
  /\ Spawn(c)
  /\ auto' = auto \cup {c}
  /\ streak' = IF streak <= MaxAttempts THEN streak + 1 ELSE streak
  /\ UNCHANGED <<wanted, hasty>>

AutoStartRefused ==
  /\ timer /\ ~intentional /\ StartProceeds
  /\ status' = "error"
  /\ ScheduleRestart(FALSE)
  /\ UNCHANGED <<pid, processes, intentional, child, watched, stage, auto, probe, historyVars>>

-----------------------------------------------------------------------------
(* probeRuntime: whether the pid is alive is read before the await and     *)
(* used after it, on whatever the record has become.                       *)
HealthProbeBegins ==
  /\ probe = None
  /\ status \notin {"stopped", "deleted"}
  /\ probe' = IF pid # None /\ ~Alive(pid) THEN "dead" ELSE "alive"
  /\ UNCHANGED <<recordVars, processes, restartVars, child, watched, stage, auto, historyVars>>

HealthProbeAnswers ==
  /\ probe # None
  /\ probe' = None
  /\ \/ UNCHANGED status
     \/ probe = "dead" /\ status # "deleted" /\ status' = "error"
  /\ UNCHANGED <<pid, processes, restartVars, child, watched, stage, auto, historyVars>>

(* The gateway goes away and comes back: the record was persisted by every *)
(* patchRuntime; maps, timers, pending calls and exit listeners are gone.  *)
GatewayRestarts ==
  /\ processes' = None
  /\ intentional' = FALSE /\ timer' = FALSE /\ attempts' = 0
  /\ child' = [c \in Children |-> IF Alive(c) THEN child[c] ELSE None]
  /\ watched' = {}
  /\ stage' = [c \in Children |-> None] /\ auto' = {}
  /\ probe' = None
  /\ streak' = 0
  /\ UNCHANGED <<recordVars, wanted, hasty>>

-----------------------------------------------------------------------------
Operator == OperatorStartRefused \/ StopRuntime \/ DeleteRuntime \/ \E c \in Children : OperatorStarts(c)

Gateway ==
  \/ \E c \in Children : DelayEnds(c) \/ StartAnswers(c) \/ ExitHeard(c) \/ AutoStarts(c)
  \/ AutoStartRefused \/ HealthProbeBegins \/ HealthProbeAnswers

SteadyNext == Operator \/ Gateway \/ \E c \in Children : WorkerDies(c)

Next == SteadyNext \/ GatewayRestarts

Spec == Init /\ [][Next]_vars

(***************************************************************************)
(* Fairness, while the gateway stays up: delays, timers and probes (each   *)
(* has a timeout) end, exit events are delivered, and a worker that got    *)
(* SIGTERM exits.  A worker need not crash and an operator need not act.   *)
(***************************************************************************)
SteadySpec ==
  /\ Init /\ [][SteadyNext]_vars
  /\ WF_vars(AutoStartRefused \/ \E c \in Children : AutoStarts(c))
  /\ \A c \in Children : /\ WF_vars(DelayEnds(c) \/ StartAnswers(c))
                         /\ WF_vars(ExitHeard(c))
                         /\ WF_vars(child[c] = "killed" /\ WorkerDies(c))

-----------------------------------------------------------------------------
(* A pending automatic restart excludes everything it could collide with   *)
(* (exit callback, scheduleWorkerAutoRestart, stopRuntime, startRuntime):  *)
(* no process is mapped, no stop is on record, no start has begun since.   *)
TimerSound ==
  timer => processes = None /\ ~intentional /\ status \in {"running", "error"}

(* The mapped process is one that can still be stopped and whose exit will *)
(* be heard (startRuntime, stopRuntime, exit callback): the map never      *)
(* names a process that was killed, was reaped or belongs to no listener.  *)
MappedIsWatched ==
  processes # None => processes \in watched /\ child[processes] \in {"up", "crashed"}

(* With an operator who starts a runtime only when its process is gone,    *)
(* automatic restarts never add a second process (scheduleWorkerAutoRestart, *)
(* startRuntime): there is at most one, dying ones included.               *)
OneWorker ==
  ~hasty => \A c, d \in Children : child[c] # None /\ child[d] # None => c = d

(* With that operator, a stop is final (stopRuntime, exit callback): no    *)
(* restart is pending until the next start, even when the stop interrupts  *)
(* a start whose probe then writes "running" over it.                      *)
StopIsFinal ==
  ~hasty => (wanted = "down" => ~timer)

(* A pending restart leads to a start, or the attempts are used up, or the *)
(* operator intervened (scheduleWorkerAutoRestart).                        *)
GivenUp == status = "error" /\ ~timer /\ attempts = MaxAttempts
RestartIsTried ==
  timer ~> (status \in {"starting", "stopped", "deleted"} \/ GivenUp \/ wanted = "refused")

(* Under that operator, whatever a stop or a deletion interrupts, the      *)
(* worker goes away and nothing brings it back by itself (stopRuntime).    *)
StoppedWorkerGoes ==
  (wanted = "down") ~> (hasty \/ wanted # "down" \/ \A c \in Children : child[c] = None)

(* workerRestartPolicy.ts:3: automatic restarts have an upper bound.       *)
RestartsCapped == streak <= MaxAttempts

(* modelManager.ts:285: the exit of a deliberately stopped worker does not *)
(* trigger an automatic restart; least of all of a runtime whose next      *)
(* worker is up.                                                           *)
StoppedExit == \E c \in Children : /\ child[c] = "stopped" /\ child'[c] = None
                                  /\ processes # None /\ child[processes] = "up"
DeliberateExitIgnored == [][StoppedExit => ~timer']_vars
=============================================================================

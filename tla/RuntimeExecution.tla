-------------------------- MODULE RuntimeExecution --------------------------
(***************************************************************************)
(* Execution of completions on one managed runtime                         *)
(* (src/models/modelManager.ts, class ManagedModelManager): the concurrency *)
(* slots, the bounded FIFO queue in front of them, the retries that keep a  *)
(* slot, the circuit breaker, and what stopping, deleting, restarting and  *)
(* probing the runtime do to the calls under way.                          *)
(*                                                                         *)
(* Node runs one callback at a time, so an action is the code between two  *)
(* awaits.  The upstream model server, the consumers of streams and the    *)
(* operator are the environment: they choose outcomes and timing.          *)
(***************************************************************************)
EXTENDS Integers, Sequences, FiniteSets

CONSTANTS
  Requests,          \* callers; each performs one completion after another
  Streaming,         \* the callers that use streamWithManagedRuntime
  MaxConcurrent,     \* runtime.maxConcurrentRequests
  MaxQueueSize,      \* runtime.maxQueueSize
  MaxRetries,        \* runtime.retryMaxRetries
  FailureThreshold   \* runtime.circuitBreakerFailures

ASSUME RequestsAssumption  == IsFiniteSet(Requests) /\ Streaming \subseteq Requests
ASSUME LimitsAssumption    ==
  /\ MaxConcurrent \in Nat \ {0}
  /\ MaxQueueSize \in Nat
  /\ MaxRetries \in Nat
  /\ FailureThreshold \in Nat \ {0}

(***************************************************************************)
(* executionState maps a runtime id to a RuntimeExecutionState object.     *)
(* Deleting the runtime drops the entry while calls still hold the object  *)
(* ("first"); a stream that was found before and begins after the deletion *)
(* makes ensureRuntimeState create another one ("later"), and no third one *)
(* can exist: nothing removes an entry once the runtime is gone.           *)
(***************************************************************************)
States == {"first", "later"}

VARIABLES
  status,               \* runtime.status: "down" is starting or error, "deleted"
                        \* is a runtime that left state.runtimes
  executionState,       \* the object the map holds for the id, or "none"
  inflight,             \* state.metrics.inflightRequests
  queue,                \* state.queue: the callers waiting for a slot
  consecutiveFailures,  \* state.metrics.consecutiveFailures, see CountFailure
  circuitState,         \* state.metrics.circuitState
  openUntil,            \* state.circuitOpenUntil: unset, in the future, or past
  phase,                \* where each caller's current completion stands
  home,                 \* the state object that completion holds
  attempt,              \* failed attempts of that completion
  probing               \* a probeRuntime is awaiting probeEndpoint

circuitVars == <<consecutiveFailures, circuitState, openUntil>>
callVars    == <<phase, home, attempt>>
vars == <<status, executionState, inflight, queue, circuitVars, callVars, probing>>

Phases == {"idle", "found", "queued", "running", "backoff", "yielded"}

TypeOK ==
  /\ status \in {"running", "down", "stopped", "deleted"}
  /\ executionState \in States \cup {"none"}
  /\ inflight \in [States -> Nat]
  /\ queue \in [States -> Seq(Requests)]
  /\ consecutiveFailures \in [States -> 0..FailureThreshold]
  /\ circuitState \in [States -> {"closed", "open", "half_open"}]
  /\ openUntil \in [States -> {"unset", "future", "past"}]
  /\ phase \in [Requests -> Phases]
  /\ home \in [Requests -> States]
  /\ attempt \in [Requests -> 0..MaxRetries]
  /\ probing \in BOOLEAN

Init ==
  /\ status = "running"
  /\ executionState = "first"
  /\ inflight = [s \in States |-> 0]
  /\ queue = [s \in States |-> <<>>]
  /\ consecutiveFailures = [s \in States |-> 0]
  /\ circuitState = [s \in States |-> "closed"]
  /\ openUntil = [s \in States |-> "unset"]
  /\ phase = [r \in Requests |-> "idle"]
  /\ home = [r \in Requests |-> "first"]
  /\ attempt = [r \in Requests |-> 0]
  /\ probing = FALSE

(* The phases in which a completion owns a slot: from the acquisition to   *)
(* the finally block, backoff delays between attempts included.            *)
Holding == {"running", "backoff", "yielded"}
Holders(s) == {r \in Requests : phase[r] \in Holding /\ home[r] = s}
Waiters(s) == {r \in Requests : phase[r] = "queued" /\ home[r] = s}

-----------------------------------------------------------------------------
(* ensureRuntimeState: the live object, or a new one under the old id.     *)
EnsuredState == IF executionState = "none" THEN "later" ELSE executionState

(***************************************************************************)
(* The synchronous head of executeRuntimeCompletion and of its streaming   *)
(* twin: ensure the state, consult the circuit, take a slot or a place in  *)
(* the queue, or refuse with circuit_open or queue_full.                   *)
(***************************************************************************)
CircuitOpen(s) == openUntil[s] = "future"

(* What if isCircuitOpen forgot to clear the cooldown it finds expired?    *)
CooldownKept(s) ==
  /\ circuitState' = [circuitState EXCEPT
        ![s] = CASE openUntil[s] = "future" -> "open"
                 [] openUntil[s] = "past"   -> "half_open"
                 [] OTHER                   -> @]
  /\ UNCHANGED <<openUntil, consecutiveFailures>>

(* isCircuitOpen writes the gauge as well: a cooldown that has passed      *)
(* turns into half_open, a pending one is reported open.                   *)
ConsultCircuit(s) ==
  /\ circuitState' = [circuitState EXCEPT
        ![s] = CASE openUntil[s] = "future" -> "open"
                 [] openUntil[s] = "past"   -> "half_open"
                 [] OTHER                   -> @]
  /\ openUntil' = [openUntil EXCEPT ![s] = IF @ = "past" THEN "unset" ELSE @]
  /\ UNCHANGED consecutiveFailures

TakeSlot(r, s) ==
  /\ inflight[s] < MaxConcurrent
  /\ inflight' = [inflight EXCEPT ![s] = @ + 1]
  /\ phase' = [phase EXCEPT ![r] = "running"]
  /\ home' = [home EXCEPT ![r] = s]
  /\ UNCHANGED queue

(* What if a waiting call were put at the head of the queue?               *)
JoinInFront(r, s) ==
  /\ inflight[s] >= MaxConcurrent
  /\ Len(queue[s]) < MaxQueueSize
  /\ queue' = [queue EXCEPT ![s] = <<r>> \o @]
  /\ phase' = [phase EXCEPT ![r] = "queued"]
  /\ home' = [home EXCEPT ![r] = s]
  /\ UNCHANGED inflight

JoinQueue(r, s) ==
  /\ inflight[s] >= MaxConcurrent
  /\ Len(queue[s]) < MaxQueueSize
  /\ queue' = [queue EXCEPT ![s] = Append(@, r)]
  /\ phase' = [phase EXCEPT ![r] = "queued"]
  /\ home' = [home EXCEPT ![r] = s]
  /\ UNCHANGED inflight

Refuse(r, s) ==
  /\ CircuitOpen(s) \/ (inflight[s] >= MaxConcurrent /\ Len(queue[s]) >= MaxQueueSize)
  /\ phase' = [phase EXCEPT ![r] = "idle"]
  /\ UNCHANGED <<inflight, queue, home>>

Enter(r) ==
  LET s == EnsuredState IN
  /\ executionState' = s
  /\ ConsultCircuit(s)
  /\ \/ ~CircuitOpen(s) /\ (TakeSlot(r, s) \/ JoinQueue(r, s))
     \/ Refuse(r, s)
  /\ UNCHANGED <<status, attempt, probing>>

(* completeWithManagedRuntime finds the runtime and enters in one go; the  *)
(* body of the stream generator only runs at the consumer's first next().  *)
Complete(r) ==
  /\ r \notin Streaming /\ phase[r] = "idle"
  /\ status = "running"
  /\ Enter(r)

FindStream(r) ==
  /\ r \in Streaming /\ phase[r] = "idle"
  /\ status = "running"
  /\ phase' = [phase EXCEPT ![r] = "found"]
  /\ UNCHANGED <<status, executionState, inflight, queue, circuitVars, home, attempt, probing>>

StartStream(r) ==
  /\ phase[r] = "found"
  /\ Enter(r)

-----------------------------------------------------------------------------
(***************************************************************************)
(* releaseRuntimeSlot and the drainQueue it ends with: free one slot, then *)
(* shift callers off the queue, taking their slots before they wake.       *)
(***************************************************************************)
Freed(s) == IF inflight[s] > 0 THEN inflight[s] - 1 ELSE 0

(* What if a release did not drain the queue?                              *)
NobodyWoken(s) == 0

DrainCount(s) ==
  IF Freed(s) >= MaxConcurrent THEN 0
  ELSE IF Len(queue[s]) < MaxConcurrent - Freed(s) THEN Len(queue[s])
  ELSE MaxConcurrent - Freed(s)

Woken(s) == {queue[s][i] : i \in 1..DrainCount(s)}

Release(r) ==
  LET s == home[r] IN
  /\ inflight' = [inflight EXCEPT ![s] = Freed(s) + DrainCount(s)]
  /\ queue' = [queue EXCEPT ![s] = SubSeq(@, DrainCount(s) + 1, Len(@))]
  /\ phase' = [c \in Requests |-> IF c = r THEN "idle"
                                  ELSE IF c \in Woken(s) THEN "running"
                                  ELSE phase[c]]
  /\ home' = [home EXCEPT ![r] = "first"]
  /\ attempt' = [attempt EXCEPT ![r] = 0]

(* updateMetricsOnError followed by maybeOpenCircuit, from a count of n.   *)
(* Counts above the threshold behave like the threshold.                   *)
CountFailure(s, n) ==
  IF n + 1 >= FailureThreshold
  THEN /\ consecutiveFailures' = [consecutiveFailures EXCEPT ![s] = FailureThreshold]
       /\ openUntil' = [openUntil EXCEPT ![s] = "future"]
       /\ circuitState' = [circuitState EXCEPT ![s] = "open"]
  ELSE /\ consecutiveFailures' = [consecutiveFailures EXCEPT ![s] = n + 1]
       /\ UNCHANGED <<openUntil, circuitState>>

(* updateMetricsOnSuccess, then patchRuntime, which throws when the runtime *)
(* has been deleted: the success is then counted as a failure.             *)
CountSuccess(s) ==
  IF status = "deleted" /\ FailureThreshold = 1
  THEN CountFailure(s, 0)
  ELSE /\ consecutiveFailures' = [consecutiveFailures EXCEPT ![s] =
                                    IF status = "deleted" THEN 1 ELSE 0]
       /\ circuitState' = [circuitState EXCEPT ![s] = "closed"]
       /\ UNCHANGED openUntil

(* What the end of a stream, and executeWithRetries, note on success.      *)
NoteAnswer(s) ==
  /\ consecutiveFailures' = [consecutiveFailures EXCEPT ![s] = 0]
  /\ circuitState' = [circuitState EXCEPT ![s] = IF @ = "half_open" THEN "closed" ELSE @]
  /\ UNCHANGED openUntil

-----------------------------------------------------------------------------
(* The upstream answers an attempt of a plain completion.  The return of   *)
(* executeWithRetries, the success bookkeeping of executeRuntimeCompletion *)
(* (which rewrites everything the former notes) and its finally block run  *)
(* in one drain of the microtask queue: one action.                        *)
CallSucceeds(r) ==
  /\ phase[r] = "running" /\ r \notin Streaming
  /\ CountSuccess(home[r])
  /\ Release(r)
  /\ UNCHANGED <<status, executionState, probing>>

(* What if the retry loop compared with <= instead of < ?                  *)
OneRetryMore(r) ==
  /\ phase[r] = "running" /\ r \notin Streaming
  /\ attempt[r] <= MaxRetries
  /\ attempt' = [attempt EXCEPT ![r] = @ + 1]
  /\ phase' = [phase EXCEPT ![r] = "backoff"]
  /\ UNCHANGED <<status, executionState, inflight, queue, circuitVars, home, probing>>

AttemptFails(r) ==
  /\ phase[r] = "running" /\ r \notin Streaming
  /\ attempt[r] < MaxRetries
  /\ attempt' = [attempt EXCEPT ![r] = @ + 1]
  /\ phase' = [phase EXCEPT ![r] = "backoff"]
  /\ UNCHANGED <<status, executionState, inflight, queue, circuitVars, home, probing>>

Retry(r) ==
  /\ phase[r] = "backoff"
  /\ phase' = [phase EXCEPT ![r] = "running"]
  /\ UNCHANGED <<status, executionState, inflight, queue, circuitVars, home, attempt, probing>>

(* The last attempt of a completion, or the only one of a stream, fails.   *)
CallFails(r) ==
  /\ phase[r] = "running"
  /\ r \in Streaming \/ attempt[r] = MaxRetries
  /\ CountFailure(home[r], consecutiveFailures[home[r]])
  /\ Release(r)
  /\ UNCHANGED <<status, executionState, probing>>

(* The upstream stream delivers its "finished" event.                      *)
StreamFinishes(r) ==
  /\ phase[r] = "running" /\ r \in Streaming
  /\ CountSuccess(home[r])
  /\ IF status = "deleted"
     THEN Release(r)
     ELSE /\ phase' = [phase EXCEPT ![r] = "yielded"]
          /\ UNCHANGED <<inflight, queue, home, attempt>>
  /\ UNCHANGED <<status, executionState, probing>>

(* The consumer drains the generator past the "finished" event.            *)
StreamEnds(r) ==
  /\ phase[r] = "yielded"
  /\ NoteAnswer(home[r])
  /\ Release(r)
  /\ UNCHANGED <<status, executionState, probing>>

(* What if the stream released its slot in a catch, not in a finally?      *)
AbandonedKeepsSlot(r) ==
  /\ phase[r] = "yielded" \/ (phase[r] = "running" /\ r \in Streaming)
  /\ phase' = [phase EXCEPT ![r] = "idle"]
  /\ UNCHANGED <<status, executionState, inflight, queue, circuitVars, home, attempt, probing>>

(* The consumer leaves its for-await loop: return() runs finally only.     *)
StreamAbandoned(r) ==
  /\ phase[r] = "yielded" \/ (phase[r] = "running" /\ r \in Streaming)
  /\ Release(r)
  /\ UNCHANGED <<status, executionState, circuitVars, probing>>

-----------------------------------------------------------------------------
(* Date.now() passes circuitOpenUntil.                                     *)
CooldownElapses(s) ==
  /\ openUntil[s] = "future"
  /\ openUntil' = [openUntil EXCEPT ![s] = "past"]
  /\ UNCHANGED <<status, executionState, inflight, queue, consecutiveFailures,
                 circuitState, callVars, probing>>

(* What if the rejected calls stayed in the queue, or were never told?     *)
RejectedStayQueued(s) ==
  /\ phase' = [r \in Requests |-> IF r \in Waiters(s) THEN "idle" ELSE phase[r]]
  /\ home' = [r \in Requests |-> IF r \in Waiters(s) THEN "first" ELSE home[r]]
  /\ UNCHANGED queue

DroppedSilently(s) ==
  /\ queue' = [queue EXCEPT ![s] = <<>>]
  /\ UNCHANGED <<phase, home>>

(* stopRuntime: everything it does to the calls is rejectQueuedRequests.   *)
RejectQueued(s) ==
  /\ queue' = [queue EXCEPT ![s] = <<>>]
  /\ phase' = [r \in Requests |-> IF r \in Waiters(s) THEN "idle" ELSE phase[r]]
  /\ home' = [r \in Requests |-> IF r \in Waiters(s) THEN "first" ELSE home[r]]

StopRuntime ==
  /\ status # "deleted"
  /\ RejectQueued(executionState)
  /\ status' = "stopped"
  /\ UNCHANGED <<executionState, inflight, circuitVars, attempt, probing>>

DeleteRuntime ==
  /\ status # "deleted"
  /\ RejectQueued(executionState)
  /\ status' = "deleted"
  /\ executionState' = "none"
  /\ UNCHANGED <<inflight, circuitVars, attempt, probing>>

(* The rest of the lifecycle as the calls see it (WorkerLifecycle has it   *)
(* in full): the worker exits, a probe finds it dead or a start begins; and *)
(* a start ends, which writes "running" even over an intervening stop.     *)
RuntimeDown ==
  /\ status \in {"running", "stopped"}
  /\ status' = "down"
  /\ UNCHANGED <<executionState, inflight, queue, circuitVars, callVars, probing>>

RuntimeUp ==
  /\ status \in {"stopped", "down"}
  /\ status' = "running"
  /\ UNCHANGED <<executionState, inflight, queue, circuitVars, callVars, probing>>

(* probeRuntime around its await.  A healthy answer closes the circuit of  *)
(* the object found before the await, even if the runtime has since gone;  *)
(* an unhealthy one may report a runtime down that was stopped meanwhile.  *)
ProbeBegins ==
  /\ ~probing
  /\ status \in {"running", "down"}
  /\ probing' = TRUE
  /\ UNCHANGED <<status, executionState, inflight, queue, circuitVars, callVars>>

ProbeAnswers ==
  /\ probing
  /\ probing' = FALSE
  /\ \/ /\ consecutiveFailures' = [consecutiveFailures EXCEPT !["first"] = 0]
        /\ circuitState' = [circuitState EXCEPT !["first"] = "closed"]
        /\ openUntil' = [openUntil EXCEPT !["first"] = "unset"]
        /\ UNCHANGED status
     \/ /\ UNCHANGED circuitVars
        /\ status' = status \/ (status # "deleted" /\ status' = "down")
  /\ UNCHANGED <<executionState, inflight, queue, callVars>>

-----------------------------------------------------------------------------
Call(r) ==
  \/ Complete(r) \/ FindStream(r) \/ StartStream(r)
  \/ CallSucceeds(r) \/ AttemptFails(r) \/ Retry(r) \/ CallFails(r)
  \/ StreamFinishes(r) \/ StreamEnds(r) \/ StreamAbandoned(r)

Next ==
  \/ \E r \in Requests : Call(r)
  \/ \E s \in States : CooldownElapses(s)
  \/ StopRuntime \/ DeleteRuntime \/ RuntimeDown \/ RuntimeUp
  \/ ProbeBegins \/ ProbeAnswers

Spec == Init /\ [][Next]_vars

(***************************************************************************)
(* Fairness.  Every attempt ends: completions carry                        *)
(* KGM_MODEL_RUNTIME_TIMEOUT_MS, streams a connect and an idle timeout, and *)
(* the consumers are for-await loops that pull until the end or leave.     *)
(* Backoff delays fire and microtasks run.  Nothing else is assumed: no    *)
(* caller has to call, no probe has to run and no runtime has to restart.  *)
(***************************************************************************)
Progress(r) ==
  \/ CallSucceeds(r) \/ AttemptFails(r) \/ Retry(r) \/ CallFails(r)
  \/ StreamFinishes(r) \/ StreamEnds(r) \/ StreamAbandoned(r)

FairSpec == Spec /\ \A r \in Requests : WF_vars(Progress(r))

-----------------------------------------------------------------------------
(* Slot accounting (acquireRuntimeSlot, drainQueue, releaseRuntimeSlot):   *)
(* inflightRequests counts exactly the calls between their acquisition and *)
(* their finally block, and never exceeds maxConcurrentRequests, whatever  *)
(* is stopped, deleted, abandoned or woken in between.                     *)
SlotConservation ==
  \A s \in States : /\ inflight[s] = Cardinality(Holders(s))
                    /\ inflight[s] <= MaxConcurrent

(* No lost wakeup (acquireRuntimeSlot, drainQueue): a call waits only      *)
(* while every slot is taken, so some later release will wake it.          *)
NoLostWakeup ==
  \A s \in States : queue[s] # <<>> => inflight[s] = MaxConcurrent

(* The queue is the waiting calls (acquireRuntimeSlot, rejectQueuedRequests): *)
(* each waiting call has exactly one entry in the queue of the state object *)
(* it holds, so none is left unsettled and none is woken twice.            *)
QueueExact ==
  \A s \in States :
    /\ {queue[s][i] : i \in 1..Len(queue[s])} = Waiters(s)
    /\ \A i, j \in 1..Len(queue[s]) : queue[s][i] = queue[s][j] => i = j
    /\ Len(queue[s]) <= MaxQueueSize

(* The admission of a state object is sound: its counter, its slots and    *)
(* its queue tell the same story.                                          *)
AdmissionSound == SlotConservation /\ NoLostWakeup /\ QueueExact

(* The gauge, the cooldown and the failure count of the breaker agree      *)
(* (isCircuitOpen, maybeOpenCircuit, updateMetricsOnSuccess, probeRuntime): *)
(* "open" is reported only with a cooldown to wait for, "half_open" only   *)
(* without one, and a count at the threshold is never reported "closed".   *)
CircuitCoherent ==
  \A s \in States :
    /\ circuitState[s] = "open" => openUntil[s] # "unset"
    /\ circuitState[s] = "half_open" => openUntil[s] = "unset"
    /\ consecutiveFailures[s] = FailureThreshold => circuitState[s] # "closed"

(* The refinement: the runtime's state object runs the bounded admission,  *)
(* with the calls that hold a slot for its holders and the queue for its   *)
(* line (acquireRuntimeSlot, releaseRuntimeSlot, rejectQueuedRequests).    *)
Admission == INSTANCE BoundedAdmission WITH
  Callers <- Requests, Limit <- MaxConcurrent, Bound <- MaxQueueSize,
  holders <- Holders("first"), waiting <- queue["first"]
ImplementsAdmission == Admission!Spec

(* A queued call does not wait for ever (drainQueue, rejectQueuedRequests): *)
(* it starts or is rejected, however many new callers keep arriving.       *)
QueuedCallsLeave ==
  \A r \in Requests : phase[r] = "queued" ~> phase[r] # "queued"

(* Deleting a runtime detaches its state object while calls hold it        *)
(* (deleteManagedEntity): those calls still give their slots back, and     *)
(* nothing is admitted through the detached object any more.               *)
DetachedStateDrains ==
  (status = "deleted") ~> [](Holders("first") = {} /\ inflight["first"] = 0)
=============================================================================

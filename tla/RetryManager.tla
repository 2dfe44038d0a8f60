---------------------------- MODULE RetryManager ----------------------------
(***************************************************************************)
(* RetryManager and its CircuitBreaker (src/errors/recovery.ts), and the   *)
(* wrapper of GlobalErrorHandler (src/errors/integration.ts), which share  *)
(* one manager per service: calls with levels to fall back to, calls       *)
(* wrapped by safeExecute, and a batch with its workers.  The breaker is   *)
(* asked before the first attempt of a call, and told of every one.        *)
(* Delays are any; that the reset time has passed since the last failure   *)
(* is a flag.  The statistics, what the monitor makes of the errors it is  *)
(* told, and callbacks that throw are left out.                            *)
(***************************************************************************)
EXTENDS Naturals, FiniteSets

CONSTANTS
  ChainCalls,         \* executeWithFallback, and with no Levels to fall
  Levels,             \* back to executeWithRetry
  SafeCalls,          \* safeExecute
  BatchItems,         \* 1..n, in order
  BatchWorkers,
  MaxAttempts, FailureThreshold, SuccessThreshold,
  DelaysOverflow      \* with "jitter", calculateDelay calls itself for ever

ASSUME RetryAssumption ==
  /\ MaxAttempts \in Nat \ {0} /\ FailureThreshold \in Nat \ {0}
  /\ SuccessThreshold \in Nat \ {0} /\ Levels \in Nat /\ DelaysOverflow \in BOOLEAN
  /\ IsFiniteSet(BatchItems) /\ BatchItems = 1..Cardinality(BatchItems)
  /\ IsFiniteSet(BatchWorkers) /\ BatchWorkers # {}
  /\ BatchWorkers \cap (ChainCalls \cup SafeCalls) = {}

VARIABLES
  breaker,       \* its state, failureCount, successCount, and whether it cooled
  attempts,      \* of calls and workers: phase, which attempt, which level
  nextItem,      \* the first item that is still in the queue
  item,          \* by worker: the item it has, or 0
  reported,      \* by item: how often its success, and its error, were told
  batchOver,
  monitor,       \* by safe call: the errors recorded
  earned,        \* history: successes told to the breaker since it became
                 \* half-open, or a failure was
  missed         \* history, by safe call: what failed, and refusals

retryVars == <<breaker, attempts, nextItem, item, reported, batchOver, monitor, earned, missed>>

Callers == ChainCalls \cup SafeCalls
Runs == Callers \cup BatchWorkers

(* Before executeWithRetry; an attempt runs; the delay before the next; a  *)
(* fallback of safeExecute; and the end.                                   *)
Phases == {"asking", "running", "waiting", "fallback", "answered", "failed"}

RetryTypeOK ==
  /\ breaker \in [state : {"closed", "open", "half_open"}, failures : Nat, successes : Nat, cooled : BOOLEAN]
  /\ attempts \in [Runs -> [phase : Phases, attempt : 1..MaxAttempts, level : 0..Levels]]
  /\ nextItem \in Nat /\ item \in [BatchWorkers -> BatchItems \cup {0}]
  /\ reported \in [BatchItems -> [success : Nat, error : Nat]]
  /\ batchOver \in BOOLEAN /\ earned \in Nat
  /\ monitor \in [SafeCalls -> Nat] /\ missed \in [SafeCalls -> Nat]

NewRun(level) == [phase |-> "asking", attempt |-> 1, level |-> level]

RetryInit ==
  /\ breaker = [state |-> "closed", failures |-> 0, successes |-> 0, cooled |-> FALSE]
  /\ attempts = [r \in Runs |-> NewRun(0)]
  /\ nextItem = 1 /\ item = [w \in BatchWorkers |-> 0]
  /\ reported = [i \in BatchItems |-> [success |-> 0, error |-> 0]]
  /\ batchOver = FALSE /\ earned = 0
  /\ monitor = [c \in SafeCalls |-> 0] /\ missed = [c \in SafeCalls |-> 0]

-----------------------------------------------------------------------------
CanExecute == breaker.state = "open" => breaker.cooled

Asked == [breaker EXCEPT !.state = IF @ = "open" THEN "half_open" ELSE @]

OnSuccess ==
  IF breaker.state # "half_open" THEN [breaker EXCEPT !.failures = IF @ = 0 THEN 0 ELSE @ - 1]
  ELSE IF breaker.successes + 1 < SuccessThreshold THEN [breaker EXCEPT !.successes = @ + 1]
  ELSE [state |-> "closed", failures |-> 0, successes |-> 0, cooled |-> FALSE]

(* What if the successes were kept when it opens again?                    *)
SuccessesKept(counted) == [counted EXCEPT !.state = "open"]

Reopened(counted) == [state |-> "open", failures |-> counted.failures, successes |-> 0, cooled |-> counted.cooled]

OnFailure ==
  LET counted == [state |-> breaker.state, failures |-> breaker.failures + 1,
                  successes |-> breaker.successes, cooled |-> FALSE]
  IN IF breaker.state = "half_open" THEN Reopened(counted)
     ELSE [counted EXCEPT !.state = IF counted.failures >= FailureThreshold THEN "open" ELSE @]

Cools ==
  /\ breaker.state = "open" /\ ~breaker.cooled
  /\ breaker' = [breaker EXCEPT !.cooled = TRUE]
  /\ UNCHANGED <<attempts, nextItem, item, reported, batchOver, monitor, earned, missed>>

-----------------------------------------------------------------------------
RunBecomes(r, phase) == attempts' = [attempts EXCEPT ![r].phase = phase]

OneMore(count, r) == [c \in SafeCalls |-> IF c = r THEN count[c] + 1 ELSE count[c]]

(* The item of a worker: the one it has, or the one it is about to take.   *)
ItemOf(w) == IF item[w] = 0 THEN nextItem ELSE item[w]

Reports(w, what) ==
  /\ reported' = [reported EXCEPT ![ItemOf(w)][what] = @ + 1]
  /\ item' = [item EXCEPT ![w] = 0]
  /\ attempts' = [attempts EXCEPT ![w] = NewRun(0)]

GoesDown(r) == attempts[r].level < Levels

(* executeWithRetry throws: the error of a safe call is recorded, and its  *)
(* fallback starts if it has one.                                          *)
Throws(r) ==
  /\ IF r \in BatchWorkers THEN Reports(r, "error")
     ELSE /\ IF r \in ChainCalls /\ GoesDown(r)
             THEN attempts' = [attempts EXCEPT ![r] = NewRun(@.level + 1)]
             ELSE \/ RunBecomes(r, "failed")
                  \/ r \in SafeCalls /\ RunBecomes(r, "fallback")
          /\ UNCHANGED <<reported, item>>
  /\ monitor' = OneMore(monitor, r)

(* The breaker is asked, once, before the first attempt.                   *)
Executes(r) ==
  /\ attempts[r].phase = "asking"
  /\ r \in BatchWorkers => nextItem \in BatchItems
  /\ nextItem' = IF r \in BatchWorkers THEN nextItem + 1 ELSE nextItem
  /\ IF CanExecute
     THEN /\ breaker' = Asked /\ earned' = IF breaker.state = "open" THEN 0 ELSE earned
          /\ RunBecomes(r, "running")
          /\ item' = IF r \in BatchWorkers THEN [item EXCEPT ![r] = nextItem] ELSE item
          /\ UNCHANGED <<reported, monitor, missed>>
     ELSE /\ Throws(r) /\ missed' = OneMore(missed, r)
          /\ UNCHANGED <<breaker, earned>>
  /\ UNCHANGED batchOver

Succeeds(r) ==
  /\ attempts[r].phase = "running"
  /\ breaker' = OnSuccess /\ earned' = earned + 1
  /\ IF r \in BatchWorkers THEN Reports(r, "success")
     ELSE RunBecomes(r, "answered") /\ UNCHANGED <<reported, item>>
  /\ UNCHANGED <<nextItem, batchOver, monitor, missed>>

(* An attempt fails: after a delay there is another, unless this was the   *)
(* last, the error may not be retried, or the delay cannot be computed.    *)
Fails(r) ==
  /\ attempts[r].phase = "running"
  /\ breaker' = OnFailure /\ earned' = 0 /\ missed' = OneMore(missed, r)
  /\ \/ Throws(r)
     \/ /\ attempts[r].attempt < MaxAttempts /\ ~DelaysOverflow
        /\ attempts' = [attempts EXCEPT ![r] = [phase |-> "waiting", attempt |-> @.attempt + 1, level |-> @.level]]
        /\ monitor' = OneMore(monitor, r)
        /\ UNCHANGED <<reported, item>>
  /\ UNCHANGED <<nextItem, batchOver>>

(* The next attempt does not ask the breaker.                              *)
DelayOver(r) ==
  /\ attempts[r].phase = "waiting"
  /\ RunBecomes(r, "running")
  /\ UNCHANGED <<breaker, nextItem, item, reported, batchOver, monitor, earned, missed>>

(* The fallback of a safe call is executed as it is.                       *)
FallbackEnds(r) ==
  /\ attempts[r].phase = "fallback"
  /\ \/ RunBecomes(r, "answered") /\ UNCHANGED <<monitor, missed>>
     \/ RunBecomes(r, "failed") /\ monitor' = OneMore(monitor, r) /\ missed' = OneMore(missed, r)
  /\ UNCHANGED <<breaker, nextItem, item, reported, batchOver, earned>>

WorkerIdle(w) == item[w] = 0 /\ nextItem \notin BatchItems

(* What if the batch were over with the first of its workers?              *)
AnyWorkerIdle == \E w \in BatchWorkers : WorkerIdle(w)

AllWorkersIdle == \A w \in BatchWorkers : WorkerIdle(w)

BatchOver ==
  /\ ~batchOver /\ AllWorkersIdle
  /\ batchOver' = TRUE
  /\ UNCHANGED <<breaker, attempts, nextItem, item, reported, monitor, earned, missed>>

RetryNext ==
  \/ Cools \/ BatchOver
  \/ \E r \in Runs : Executes(r) \/ Succeeds(r) \/ Fails(r) \/ DelayOver(r)
  \/ \E r \in SafeCalls : FallbackEnds(r)

RetrySpec == RetryInit /\ [][RetryNext]_retryVars

-----------------------------------------------------------------------------
(* A breaker that is not open all the way knows what it has been told: a   *)
(* closed one of too few failures to open, a half-open one of all the      *)
(* successes since it was, and of too few to close; an open one of none.   *)
BreakerKnows ==
  /\ breaker.state = "closed" => breaker.failures < FailureThreshold /\ breaker.successes = 0
  /\ breaker.state = "half_open" => breaker.successes = earned /\ earned < SuccessThreshold
  /\ breaker.state = "open" => breaker.successes = 0

(* Every item of a batch is with one worker or has been told of once, and  *)
(* of all of them when the batch is over.                                  *)
BatchTold ==
  /\ \A i \in BatchItems :
       LET told == reported[i].success + reported[i].error
           held == Cardinality({w \in BatchWorkers : item[w] = i})
       IN told + held = IF i < nextItem THEN 1 ELSE 0
  /\ batchOver => \A i \in BatchItems : reported[i].success + reported[i].error = 1

(* The monitor is told of everything that failed a safe call, once.        *)
ErrorsRecordedOnce == \A c \in SafeCalls : monitor[c] = missed[c]

(* Results of attempts that were let through before the breaker opened     *)
(* come at any time and count all the same; what it knows stays right.     *)
RetrySound == RetryTypeOK /\ BreakerKnows /\ BatchTold /\ ErrorsRecordedOnce
=============================================================================

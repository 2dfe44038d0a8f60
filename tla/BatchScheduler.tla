--------------------------- MODULE BatchScheduler ---------------------------
(***************************************************************************)
(* The prefill/decode scheduler of src/inference/scheduler.ts: a queue     *)
(* sorted by length, a batch, and a loop that fills the batch, awaits the  *)
(* backend and cleans up.  stop only clears a flag that the loop reads     *)
(* between two ticks, so that a start before then adds a second loop over  *)
(* the same batch.                                                         *)
(*                                                                         *)
(* An action is what runs between two awaits.  The backend answers every   *)
(* request it is given, or throws.  fillBatch's preemption cannot happen   *)
(* (its test repeats the negation of the loop's own) and is left out.      *)
(***************************************************************************)
EXTENDS Naturals, FiniteSets, SequencesExt

CONSTANTS
  Inferences,     \* calls of submit
  LengthOf,       \* priority of each: prompt and output tokens
  MaxBatchSize,
  MaxQueueSize,
  MaxTokens,      \* options.maxTokens
  MaxDecodeSteps, \* 512 in the code
  Loops           \* calls of start that find isRunning FALSE

ASSUME SchedulerAssumption ==
  /\ IsFiniteSet(Inferences) /\ LengthOf \in [Inferences -> Nat]
  /\ {MaxBatchSize, MaxQueueSize, MaxTokens, MaxDecodeSteps} \subseteq Nat \ {0}

VARIABLES
  line,       \* this.queue
  batch,      \* this.batch
  state,      \* request.state; "none" before submit, "REFUSED" when turned away
  outcome,    \* what the promise of each request settled to, if it did
  tokens,     \* request.tokensProcessed
  isRunning, backend,
  pc,         \* what each loop awaits
  work,       \* the requests it awaits it for
  mixed,      \* whether executeBatch saw requests to decode beside those to prefill
  steps,      \* decode steps of its executeBatch so far
  overlapped  \* history: two loops have been alive together

requestVars   == <<state, outcome, tokens>>
loopVars      == <<pc, work, mixed, steps, overlapped>>
schedulerVars == <<line, batch, requestVars, isRunning, backend, loopVars>>

SchedulerTypeOK ==
  /\ line \in Seq(Inferences)
  /\ batch \subseteq Inferences
  /\ state \in [Inferences ->
       {"none", "PENDING", "PREFILLING", "DECODING", "COMPLETED", "ERROR", "REFUSED"}]
  /\ outcome \in [Inferences -> {"none", "resolved", "rejected"}]
  /\ tokens \in [Inferences -> 0..MaxTokens]
  /\ {isRunning, backend, overlapped} \subseteq BOOLEAN
  /\ pc \in [Loops -> {"none", "delay", "prefill", "decode", "returned", "ended"}]
  /\ work \in [Loops -> SUBSET Inferences]
  /\ mixed \in [Loops -> BOOLEAN]
  /\ steps \in [Loops -> 0..MaxDecodeSteps - 1]

SchedulerInit ==
  /\ line = <<>> /\ batch = {}
  /\ state = [r \in Inferences |-> "none"]
  /\ outcome = [r \in Inferences |-> "none"]
  /\ tokens = [r \in Inferences |-> 0]
  /\ isRunning = FALSE /\ backend = FALSE
  /\ pc = [l \in Loops |-> "none"]
  /\ work = [l \in Loops |-> {}]
  /\ mixed = [l \in Loops |-> FALSE]
  /\ steps = [l \in Loops |-> 0]
  /\ overlapped = FALSE

AliveLoops(at) == {l \in Loops : at[l] \notin {"none", "ended"}}
InState(R, s)  == {r \in R : state[r] = s}

-----------------------------------------------------------------------------
(* submit: the sort is stable, so a request goes behind its equals.        *)
SortedIn(r) ==
  LET longer == SelectInSeq(line, LAMBDA k : LengthOf[k] > LengthOf[r])
  IN  InsertAt(line, IF longer = 0 THEN Len(line) + 1 ELSE longer, r)

SubmitInference(r) ==
  /\ state[r] = "none"
  /\ IF Len(line) >= MaxQueueSize
     THEN /\ state' = [state EXCEPT ![r] = "REFUSED"]
          /\ outcome' = [outcome EXCEPT ![r] = "rejected"]
          /\ UNCHANGED line
     ELSE /\ state' = [state EXCEPT ![r] = "PENDING"]
          /\ line' = SortedIn(r)
          /\ UNCHANGED outcome
  /\ UNCHANGED <<batch, tokens, isRunning, backend, loopVars>>

SetExecutionBackend ==
  /\ backend' = TRUE
  /\ UNCHANGED <<line, batch, requestVars, isRunning, loopVars>>

(* What if a failed step were not told to its callers?                     *)
OnlyResolved(R, o) ==
  [r \in Inferences |-> IF r \in R /\ outcome[r] = "none" /\ o = "resolved" THEN o ELSE outcome[r]]

(* The first reject or resolve of a promise counts.                        *)
SettledTo(R, o) == [r \in Inferences |-> IF r \in R /\ outcome[r] = "none" THEN o ELSE outcome[r]]

(* Loop l awaits what from now on.                                         *)
Awaits(l, what, R) ==
  /\ pc' = [pc EXCEPT ![l] = what]
  /\ work' = [work EXCEPT ![l] = R]
  /\ overlapped' = (overlapped \/ Cardinality(AliveLoops(pc')) > 1)

(* The next decode step, or the end of executeBatch, given the states.     *)
DecodeStep(l, st, count) ==
  LET decoding == {r \in batch : st[r] = "DECODING"} IN
  IF decoding = {} \/ count = MaxDecodeSteps
  THEN Awaits(l, "returned", {}) /\ steps' = [steps EXCEPT ![l] = 0]
  ELSE Awaits(l, "decode", decoding) /\ steps' = [steps EXCEPT ![l] = count]

(* scheduleTick up to its first await, on what is left of the batch:       *)
(* fillBatch, then executeBatch.                                           *)
Tick(l, kept) ==
  LET room  == MaxBatchSize - Cardinality(kept)
      taken == {line[k] : k \in 1..Min({room, Len(line)})}
      st    == [r \in Inferences |-> IF r \in taken THEN "PREFILLING" ELSE state[r]]
      full  == kept \cup taken
      prefills == {r \in full : st[r] = "PREFILLING"}
      decodes  == {r \in full : st[r] = "DECODING"}
  IN /\ line' = SubSeq(line, Cardinality(taken) + 1, Len(line))
     /\ state' = st
     /\ batch' = full
     /\ mixed' = [mixed EXCEPT ![l] = decodes # {}]
     /\ \/ (full = {} \/ ~backend)                   /\ Awaits(l, "delay", {})
        \/ full # {} /\ backend /\ prefills # {}     /\ Awaits(l, "prefill", prefills)
        \/ backend /\ prefills = {} /\ decodes # {}  /\ Awaits(l, "decode", decodes)
        \/ full # {} /\ backend /\ prefills = {} /\ decodes = {} /\ Awaits(l, "returned", {})
     /\ UNCHANGED <<outcome, tokens, backend, steps>>

(* The while of scheduleLoop.                                              *)
LoopOn(l, kept) ==
  /\ UNCHANGED isRunning
  /\ \/ isRunning /\ Tick(l, kept)
     \/ /\ ~isRunning
        /\ batch' = kept
        /\ Awaits(l, "ended", {})
        /\ UNCHANGED <<line, requestVars, backend, mixed, steps>>

(* start, whose loop runs its first tick at once.                          *)
StartLoop(l) ==
  /\ ~isRunning /\ pc[l] = "none"
  /\ isRunning' = TRUE
  /\ Tick(l, batch)

StopLoop ==
  /\ isRunning' = FALSE
  /\ UNCHANGED <<line, batch, requestVars, backend, loopVars>>

DelayOver(l) == pc[l] = "delay" /\ LoopOn(l, batch)

PrefillDone(l) ==
  /\ pc[l] = "prefill"
  /\ state' = [r \in Inferences |-> IF r \in work[l] THEN "DECODING" ELSE state[r]]
  /\ IF mixed[l] THEN DecodeStep(l, state', 0)
     ELSE Awaits(l, "returned", {}) /\ UNCHANGED steps
  /\ UNCHANGED <<line, batch, outcome, tokens, isRunning, backend, mixed>>

(* What if a failed step marked the whole batch?                           *)
WholeBatch(l) == batch

(* A failed prefill or decode step ends the requests it was given.         *)
Blamed(l) == work[l]

BackendThrows(l) ==
  /\ pc[l] \in {"prefill", "decode"}
  /\ state' = [r \in Inferences |-> IF r \in Blamed(l) THEN "ERROR" ELSE state[r]]
  /\ outcome' = SettledTo(Blamed(l), "rejected")
  /\ Awaits(l, "returned", {})
  /\ steps' = [steps EXCEPT ![l] = 0]
  /\ UNCHANGED <<line, batch, tokens, isRunning, backend, mixed>>

(* A decode step answers; F are those the backend says are finished.       *)
DecodeDone(l, F) ==
  /\ pc[l] = "decode"
  /\ tokens' = [r \in Inferences |-> IF r \in work[l] THEN Min({tokens[r] + 1, MaxTokens})
                                                      ELSE tokens[r]]
  /\ LET over == F \cup {r \in work[l] : tokens'[r] = MaxTokens} IN
     /\ state' = [r \in Inferences |-> IF r \in over THEN "COMPLETED" ELSE state[r]]
     /\ outcome' = SettledTo(over, "resolved")
  /\ DecodeStep(l, state', steps[l] + 1)
  /\ UNCHANGED <<line, batch, isRunning, backend, mixed>>

(* What if everything left the batch with the requests that are over?      *)
NothingKept == {}

(* cleanupCompletedRequests                                                *)
KeptInBatch == {r \in batch : state[r] \notin {"COMPLETED", "ERROR"}}

CleanUp(l) == pc[l] = "returned" /\ LoopOn(l, KeptInBatch)

LoopStep(l) ==
  \/ DelayOver(l) \/ PrefillDone(l) \/ BackendThrows(l) \/ CleanUp(l)
  \/ \E F \in SUBSET work[l] : DecodeDone(l, F)

SchedulerNext ==
  \/ \E r \in Inferences : SubmitInference(r)
  \/ SetExecutionBackend
  \/ StopLoop
  \/ \E l \in Loops : StartLoop(l) \/ LoopStep(l)

SchedulerSpec == SchedulerInit /\ [][SchedulerNext]_schedulerVars

-----------------------------------------------------------------------------
(* Nobody is lost: a request that was taken in and has no answer waits in  *)
(* the queue or is in the batch, and not in both, however many loops       *)
(* share the batch.                                                        *)
NobodyLost ==
  \A r \in Inferences :
    state[r] # "none" /\ outcome[r] = "none" => ((r \in ToSet(line)) # (r \in batch))

(* As long as one loop at a time was alive, a request's state tells what   *)
(* its caller was told: no batch failure marks a request that was answered *)
(* before, and no answered request is decoded on.                          *)
StateIsTheAnswer ==
  \/ overlapped
  \/ \A r \in Inferences :
       /\ outcome[r] = "resolved" <=> state[r] = "COMPLETED"
       /\ outcome[r] = "rejected" <=> state[r] \in {"ERROR", "REFUSED"}

(* Requests are neither lost nor told one thing and booked as another.     *)
InferencesSound == SchedulerTypeOK /\ NobodyLost /\ StateIsTheAnswer

(* Continuations of a loop are run; nobody must call start, stop, submit.  *)
SchedulerFairness == \A l \in Loops : WF_schedulerVars(LoopStep(l))

(* What is owed: the answers of the requests taken in, even by two loops   *)
(* that stop and start have left running...                                *)
Unanswered == {r \in Inferences : state[r] # "none" /\ outcome[r] = "none"}

(* ... once the scheduler is left running with a backend.                  *)
SchedulerLeftOn == isRunning /\ backend
=============================================================================

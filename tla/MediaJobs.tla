------------------------------ MODULE MediaJobs ------------------------------
(***************************************************************************)
(* Asynchronous video jobs: the in-memory store (src/openai/mediaJobs.ts), *)
(* the run that drives one job against its upstream                        *)
(* (startVideoGenerationJob and runVideoJob in src/openai/mediaCompat.ts,  *)
(* executeMediaProvider and pollMediaProvider in                           *)
(* src/openai/mediaProviderExecutor.ts) and the host that polls it.        *)
(*                                                                         *)
(* The store is in memory: a gateway that restarts is a new behaviour.     *)
(* Real time is counted in ticks; only its order against ttlMs matters.    *)
(***************************************************************************)
EXTENDS Integers, FiniteSets

CONSTANTS
  Jobs,        \* the job ids generateId will draw, each drawn once
  Providers,   \* video providers of the configuration
  Inline,      \* those with response.sync = false: polled by the executor
  Limit,       \* provider.maxConcurrent, of each provider
  MaxJobs,     \* maxJobs of the store
  TTL,         \* ttlMs of the store, in ticks
  MaxPolls     \* poll.maxAttempts

ASSUME JobsAssumption   == IsFiniteSet(Jobs) /\ Providers # {} /\ Inline \subseteq Providers
ASSUME LimitsAssumption ==
  /\ Limit \in [Providers -> Nat \ {0}]
  /\ MaxJobs \in Nat \ {0}
  /\ TTL \in Nat
  /\ MaxPolls \in Nat \ {0}

VARIABLES
  store,      \* keys of this.jobs
  created,    \* how many jobs have been created
  born,       \* the place of each job in the order of creation, 0 before it
  status,     \* job.status ("queued" is over before anyone can read it)
  age,        \* ticks since job.updated_at, no more than TTL + 1
  inFlight,   \* this.inFlight
  run,        \* where runVideoJob stands: none, creating or polling upstream
  provider,   \* the provider a run uses
  polls,      \* poll attempts its current run has had answered
  outcome,    \* how the run ended: none yet, completed, failed, threw
  told        \* what the host of the job was last answered

recordVars == <<store, created, born, status, age>>
runVars    == <<inFlight, run, provider, polls, outcome>>
vars       == <<recordVars, runVars, told>>

Final == {"completed", "failed"}

TypeOK ==
  /\ store \subseteq Jobs
  /\ created \in Nat
  /\ born \in [Jobs -> Nat]
  /\ status \in [Jobs -> {"processing"} \cup Final]
  /\ age \in [Jobs -> 0..TTL + 1]
  /\ inFlight \in Nat
  /\ run \in [Jobs -> {"none", "creating", "polling"}]
  /\ provider \in [Jobs -> Providers]
  /\ polls \in [Jobs -> 0..MaxPolls - 1]
  /\ outcome \in [Jobs -> {"none", "threw"} \cup Final]
  /\ told \in [Jobs -> {"none", "processing", "unknown"} \cup Final]

Init ==
  /\ store = {}
  /\ created = 0
  /\ born = [j \in Jobs |-> 0]
  /\ status = [j \in Jobs |-> "processing"]
  /\ age = [j \in Jobs |-> 0]
  /\ inFlight = 0
  /\ run = [j \in Jobs |-> "none"]
  /\ provider = [j \in Jobs |-> CHOOSE p \in Providers : TRUE]
  /\ polls = [j \in Jobs |-> 0]
  /\ outcome = [j \in Jobs |-> "none"]
  /\ told = [j \in Jobs |-> "none"]

Running    == {j \in Jobs : run[j] # "none"}
RunsOf(p)  == {j \in Running : provider[j] = p}

-----------------------------------------------------------------------------
(* sweep: what is left once the records older than ttlMs are deleted.      *)
Swept == {j \in store : age[j] <= TTL}

(* What if the newest record gave way, not the oldest?                     *)
NewestGivesWay(kept) ==
  IF Cardinality(kept) < MaxJobs THEN kept
  ELSE {j \in kept : \E k \in kept : born[k] > born[j]}

(* create evicts the oldest record when the store is full.  It was never   *)
(* fuller than that, so the loop deletes one at the most.                  *)
Evicted(kept) ==
  IF Cardinality(kept) < MaxJobs THEN kept
  ELSE {j \in kept : \E k \in kept : born[k] < born[j]}

(* What if the limit were compared with <= ?                               *)
HasSlotOrOneMore(p) == inFlight <= Limit[p]

(* tryAcquireSlot.  One counter serves all providers, whatever their limit. *)
HasSlot(p) == inFlight < Limit[p]

(* startVideoGenerationJob, which runs without an await: take a slot,      *)
(* create the record, begin the run, which writes "processing" at once,    *)
(* and answer 202 with the record.  Refusals (429 and others) do nothing.  *)
Start(j, p) ==
  /\ born[j] = 0
  /\ HasSlot(p)
  /\ provider' = [provider EXCEPT ![j] = p]
  /\ inFlight' = inFlight + 1
  /\ store' = Evicted(Swept) \cup {j}
  /\ created' = created + 1
  /\ born' = [born EXCEPT ![j] = created + 1]
  /\ age' = [age EXCEPT ![j] = 0]
  /\ run' = [run EXCEPT ![j] = "creating"]
  /\ told' = [told EXCEPT ![j] = "processing"]
  /\ UNCHANGED <<status, polls, outcome>>

(* update: a record that is gone is not written, and nobody is told.       *)
Update(j, s) ==
  /\ status' = [status EXCEPT ![j] = IF j \in store THEN s ELSE @]
  /\ age' = [age EXCEPT ![j] = IF j \in store THEN 0 ELSE @]

(* The run's promise settles and its finally handler gives the slot back.  *)
EndRun(j, o) ==
  /\ run' = [run EXCEPT ![j] = "none"]
  /\ outcome' = [outcome EXCEPT ![j] = o]
  /\ polls' = [polls EXCEPT ![j] = 0]
  /\ inFlight' = IF inFlight > 0 THEN inFlight - 1 ELSE 0
  /\ UNCHANGED provider

(* What if a failed run went on, for want of a return after the update?    *)
FailureGoesOn(j, o) ==
  /\ run[j] # "none"
  /\ Update(j, o)
  /\ IF o = "failed" /\ run[j] = "creating"
     THEN run' = [run EXCEPT ![j] = "polling"] /\ UNCHANGED <<inFlight, outcome, provider, polls>>
     ELSE EndRun(j, o)
  /\ UNCHANGED <<store, created, born, told>>

Settles(j, o) ==
  /\ run[j] # "none"
  /\ Update(j, o)
  /\ EndRun(j, o)
  /\ UNCHANGED <<store, created, born, told>>

(* The create request is answered with a task still under way.  A provider *)
(* that is not polled inline has its upstream_job_id recorded first.       *)
PollingBegins(j) ==
  /\ run[j] = "creating"
  /\ run' = [run EXCEPT ![j] = "polling"]
  /\ IF provider[j] \in Inline THEN UNCHANGED <<status, age>> ELSE Update(j, status[j])
  /\ UNCHANGED <<store, created, born, inFlight, provider, polls, outcome, told>>

(* What if the count of attempts began anew when it reached its maximum?   *)
PollsForEver(j) ==
  /\ run[j] = "polling"
  /\ polls' = [polls EXCEPT ![j] = IF @ + 1 < MaxPolls THEN @ + 1 ELSE 0]
  /\ UNCHANGED <<recordVars, inFlight, run, provider, outcome, told>>

(* What if one attempt too many were made?                                 *)
OneAttemptMore(j) ==
  /\ run[j] = "polling"
  /\ polls[j] + 1 <= MaxPolls
  /\ polls' = [polls EXCEPT ![j] = @ + 1]
  /\ UNCHANGED <<recordVars, inFlight, run, provider, outcome, told>>

(* A poll finds the task pending.  When it was the last attempt, the run   *)
(* fails with media_poll_timeout, which Settles covers.                    *)
StillPending(j) ==
  /\ run[j] = "polling"
  /\ polls[j] + 1 < MaxPolls
  /\ polls' = [polls EXCEPT ![j] = @ + 1]
  /\ UNCHANGED <<recordVars, inFlight, run, provider, outcome, told>>

(* What if the slot were given back after the run, not in a finally?       *)
ThrowKeepsSlot(j) ==
  /\ run[j] # "none"
  /\ run' = [run EXCEPT ![j] = "none"]
  /\ outcome' = [outcome EXCEPT ![j] = "threw"]
  /\ polls' = [polls EXCEPT ![j] = 0]
  /\ UNCHANGED <<recordVars, inFlight, provider, told>>

(* httpOnce renders path, query, headers and body, and signs, outside its  *)
(* try block: a missing template variable makes runVideoJob reject.  The   *)
(* slot is given back, the record stays as it is, and the rejection, which *)
(* nobody handles, begins a graceful shutdown; the requests and runs under *)
(* way still end.                                                          *)
Throws(j) ==
  /\ run[j] # "none"
  /\ EndRun(j, "threw")
  /\ UNCHANGED <<recordVars, told>>

-----------------------------------------------------------------------------
(* GET /v1/kgm/media/jobs/:id by the host that owns the job (getForCaller): *)
(* get sweeps first, and a record that is gone is an unknown job.          *)
HostPolls(j) ==
  /\ born[j] > 0
  /\ store' = Swept
  /\ told' = [told EXCEPT ![j] = IF j \in Swept THEN status[j] ELSE "unknown"]
  /\ UNCHANGED <<created, born, status, age, runVars>>

Tick ==
  /\ \E j \in Jobs : born[j] > 0 /\ age[j] <= TTL
  /\ age' = [j \in Jobs |-> IF born[j] > 0 /\ age[j] <= TTL THEN age[j] + 1 ELSE age[j]]
  /\ UNCHANGED <<store, created, born, status, runVars, told>>

RunStep(j) ==
  \/ \E o \in Final : Settles(j, o)
  \/ PollingBegins(j) \/ StillPending(j) \/ Throws(j)

Next ==
  \/ \E j \in Jobs : \/ \E p \in Providers : Start(j, p)
                     \/ RunStep(j)
                     \/ HostPolls(j)
  \/ Tick

Spec == Init /\ [][Next]_vars

(* Every upstream request carries provider.timeoutMs and every poll delay  *)
(* is a timer, so a run takes its next step.  Hosts need not poll.         *)
FairSpec == Spec /\ \A j \in Jobs : WF_vars(RunStep(j))

-----------------------------------------------------------------------------
(* Slots (tryAcquireSlot, releaseSlot): the counter is the number of runs  *)
(* under way, whether they end well, fail or throw and whether or not      *)
(* their record survives; and no provider runs more than its own limit,    *)
(* although one counter serves them all.                                   *)
SlotsAreRuns ==
  /\ inFlight = Cardinality(Running)
  /\ \A p \in Providers : Cardinality(RunsOf(p)) <= Limit[p]

(* What a host is told of an end is how the run ended (runVideoJob): no    *)
(* "failed" that turns into "completed", no end reported before it.        *)
ToldTheTruth ==
  \A j \in Jobs : told[j] \in Final => told[j] = outcome[j]

(* Retention (create, sweep, update): a job stays pollable until its record *)
(* has gone unwritten for longer than ttlMs or maxJobs newer ones came.    *)
KeptWhileFresh ==
  /\ Cardinality(store) <= MaxJobs
  /\ \A j \in Jobs : born[j] > 0 =>
       j \in store \/ age[j] > TTL \/ created - born[j] >= MaxJobs

(* Every run ends and gives its slot back (runVideoJob, pollMediaProvider): *)
(* an upstream that stays pending for ever does not keep it.               *)
RunsEnd == \A j \in Jobs : run[j] # "none" ~> run[j] = "none"

(* Refuted.  errorFromThrown (mediaProviderExecutor.ts) has a failure for  *)
(* a missing template variable, and hosts poll "until completed|failed"    *)
(* (head of mediaJobs.ts): a processing record has a run that will end it. *)
ProcessingHasRun ==
  \A j \in store : status[j] = "processing" => run[j] # "none"
=============================================================================

# Verification of the Yueli KGM gateway

Yueli KGM is a self-hosted gateway that speaks the OpenAI and Anthropic
protocols in front of managed model runtimes (vLLM, SGLang, llama.cpp, MLX, a
native core) and cloud providers. It is a single Node process: one callback
runs at a time, and everything between two `await`s, `yield`s or timer firings
is atomic. What can go wrong is therefore what happens *between* them, and that
is what these TLA+ modules are about: requests that queue, retry, fail over and
are abandoned while runtimes are started, stopped, deleted, probed and
restarted; batches, pools and plans that take work in and owe its end; caches,
windows, budgets and files that several calls change in turns; processes that
end in the middle of a write; and pages whose answers overtake each other.

Paths below are those of the repository; its root is `src/` here, so the
TypeScript sources are under `src/src/`.

## 1. Inventory

| Component (source) | State | Hard behaviour | What makes it correct |
|---|---|---|---|
| Managed runtime execution (`models/modelManager.ts`) | per runtime: in-flight count, queue of resolvers, breaker fields | wakeups against arrivals, abandoned streams, calls holding the object of a deleted runtime | slots and queue consistent, nobody waits for ever, breaker fields agree |
| Worker lifecycle (`models/modelManager.ts`, `workerRestartPolicy.ts`) | persisted record, process map, stop flags, restart timers | actions on a runtime caused by an older process; stop during a start; stale probe results | no orphaned process, a stop is final, restarts are tried |
| Model catalogue (`models/modelManager.ts`) | records in memory, one file (shard) each, pulls, downloaded files | a crash between any two writes, migration of the older catalogue, overlapping pulls | no record vanishes, a ready artifact is whole |
| Auto routing (`llm/autoRoutingClient.ts`, `routingFailure.ts`, `routing/`) | candidates, audit entries | failures after partial delivery, different failures along the chain | one voice per stream, pinned model kept, right order, metered once |
| Upstream clients (`llm/client.ts`, `third-party.ts`, `utils/connectionPool.ts`, `utils/apiKeyRouter.ts`) | HTTP agents with their counts | an agent replaced while in use | counts are the requests until a stale release, no destroyed agent is handed out |
| Error recovery (`errors/recovery.ts`, `integration.ts`) | breaker, attempts, batches | results of attempts let in before the breaker opened | the breaker knows what it was told, items told once |
| HTTP APIs (`server/http.ts`, `httpAccess.ts`, `openai/`, `anthropic/`) | rate windows, rounds of tools, open blocks, frames | bursts at a window's edge, pieces of tool calls, readers who leave, silence | limits respected, streams well-formed, whole and ended |
| Admin (`admin/opsStore.ts`, `recordOpsUsage.ts`) | keys, budgets, usage | check, await, charge | overdrawn by overlap only |
| Media jobs (`openai/mediaJobs.ts`, `mediaCompat.ts`, `mediaProviderExecutor.ts`) | records, slot counter, runs | records that go before their run ends, runs that throw | slots are the runs, hosts learn the truth |
| Native API runs (`scheduler/fsm.ts`) and teams (`agents/multiAgentRuntime.ts`) | rounds, session log, memory | tools and memories that throw, other requests in the same session | ends within its rounds, what is logged was done |
| DAG scheduler (`tools/dagScheduler.ts`) | groups, permits, cache of results | timeouts that do not cancel, partial failure | dependencies first, each result once |
| Worker pool (`utils/workerPool.ts`) | workers, queue | timeout against answer, idle worker with a waiting task | each task settled once |
| Inference schedulers (`inference/scheduler.ts`, `continuousBatching.ts`) | queues, batches, maps by id | two loops after stop and start, duplicate ids | each request settled once, batch bounded |
| Native engine (`native/backend.ts`) | batch, order, two caches under one budget | cancellation inside a turn, duplicate ids | batch bounded, pages counted once |
| Core in its own process (`native/rustIntegration.ts`) | process, handlers, pipes | exit with requests open, lines of an older core | every call ends, handlers are those of open calls |
| Paged KV cache (`inference/pagedKvCache.ts`) | blocks, reference counts, tables | copy on write, eviction of blocks in use | counts cover references |
| Hot swap (`inference/hotSwap.ts`) | loaded models, LRU queue, active model | check before an await, use after it | map and queue agree, active model loaded |
| Distributed tasks (`cluster/scheduler.ts`) | queue, running tasks, retry timers | late completions, reassignment, expiry | each task in one place, ends |
| Configuration (`core/configStore.ts`, `routing/routingHistoryStore.ts`) | configuration, its file, history, secrets, skills | redacted secrets coming back, stale pages, writes that fail or are cut | secrets kept, file is current, history finds what is in effect |
| Playground (`playground/kce-task-manager.js`, `script.js`) | tasks, selection, panes; the page's copy of rules | answers that come for another selection, refreshes against saves | the detail is the selected task's, the panes too once its diagrams are drawn, saved rules stay |
| Cluster membership, KCE, memory, model configuration, SDK, CLI, helpers | – | see "Not modelled" | – |

How they interact: an HTTP handler authenticates a request, asks the limiter and
the budgets, and hands it to a compatible API or to the native API; both run
rounds of model and tools over the auto router, which picks a candidate and
calls a provider client (through the pool of agents) or
`ModelManager.completeWithManagedRuntime` / `streamWithManagedRuntime`; the
manager admits the call to the runtime's slots and calls the worker's endpoint,
the native engine or the core in its process. Operators start, stop, pull and
delete through other handlers of the same process; `setInterval` probes,
`setTimeout` restarts and child-process `exit` events act on the same records.
Pages of the playground load, show and save the configuration.

`PROJECT.json` lists the same components with their status and, under
`hazards`, what is hard to test, each at its line with the properties aimed at it.

## 2. Plan

Done: RuntimeExecution with BoundedAdmission; WorkerLifecycle; StreamFailover;
MediaJobs; the caches (PagedKvCache, HotSwap, NativeKvBudget); the batchers
(ContinuousBatching, BatchScheduler, NativeScheduler); WorkerPool, DagScheduler,
DistributedScheduler, RustCore; the front door (RateLimiter, FrontDoor); the
compatible APIs (ToolRounds, CompatStream, SseDelivery); IntentLoop and
MultiAgent; ModelCatalog; RetryManager, ConnectionPool; ConfigStore; TaskPanel
and RoutingPanel.

Left: the composition of RuntimeExecution and WorkerLifecycle (a lifecycle whose
status the calls see, in place of the coarse status of RuntimeExecution); the
memory and context stores; the media pages of the playground. Every safety and
action property that a passing run checks is proved (section 6).

## 3. Modules

Every module's head says what is abstracted, and `PROJECT.json` maps each of its
definitions to the lines it stands for. An action is one synchronous stretch of
the code: what runs between two awaits, yields or timer firings.

### Managed runtimes

**BoundedAdmission** (abstract): what a runtime promises its callers: at most
`Limit` holders, at most `Bound` in line, first come first served, the slot of a
call that ends goes straight to the head of the line, and the whole line may be
dismissed.

**RuntimeExecution**: `executeRuntimeCompletion` and its streaming twin for one runtime.

| Model | Code |
|---|---|
| `inflight`, `queue` | `state.metrics.inflightRequests`, `state.queue` |
| `consecutiveFailures`, `circuitState`, `openUntil` | the breaker fields; `openUntil` is unset, in the future or past |
| `executionState` | the map entry of the runtime: the first object, none after a deletion, or the later one a stale call creates |
| `home[r]` | the object the call's closure holds |
| `phase[r]` | `found`: a stream object exists, its body has not run; `queued`: awaits its resolver; `running`: awaits the upstream; `backoff`: awaits the retry delay; `yielded`: "finished" was yielded and the generator is suspended there |
| `status` | running, down (error, starting), stopped, deleted |

`Complete`/`StartStream` do everything up to the first await. The ends of calls
include the bookkeeping, the `finally` block and the drain it ends with: the
waiter's slot is taken before it wakes, so its continuation adds nothing and is
part of the action. `RuntimeDown` and `RuntimeUp` stand for the lifecycle as the
calls see it. Abstracted: prompts, results, latencies; failure counts above the
threshold behave like the threshold.

**WorkerLifecycle**: one spawn-managed runtime, its processes and the operator.

| Model | Code |
|---|---|
| `status`, `pid`, `processes` | the persisted record; `processes.get(id)` |
| `intentional`, `timer`, `attempts` | `intentionalStops`, `restartTimers`, `restartAttempts` |
| `child[c]`, `watched` | a process; those this gateway instance has an exit listener for |
| `stage[c]`, `auto`, `probe` | where the `startRuntime` call that spawned `c` stands; starts made by the restart timer; probes with the liveness read before their await |
| `wanted`, `hasty`, `streak` | history only: what the operator asked for last, whether a start was ever asked for beside a process that is left, automatic restarts since a worker came up |

`ExitHeard` is the exit callback as written: it unmaps *the runtime's* process,
whichever exited. `GatewayRestarts` keeps the record and forgets the rest.
`hasty` is about the operator, not the code. Not in the model: runtimes without
a process of ours; `spawn` failing asynchronously, which ends the gateway.

**ModelCatalog**: `catalog` is what the process holds, `shards` the files,
`older` the monolithic file that `Migrates` replaces, `pull` the downloads,
`file` what they wrote. `Crash` may come at any write of a save (`SavedPartly`):
one shard is torn, those after it are as they were. `used`, `dropped`, `lost`,
`cut` are history. `MaxPulls` and `MaxCrashes` bound a behaviour.

### Routing and upstreams

**StreamFailover**: one request through the auto router. A candidate is its
model, provider and whether it is the configured default; scores are the order
of the list, and failure classes that are ordered alike are one class. `Select`
is `selectCandidate` for all lists `buildCandidates` can return. `Announce`,
`Token`, `CandidateFails`, `Answers` are the events of the candidate that
executes; `started` is `emittedStarted` or `fallbackStarted`. `AnswerUnwritten`
is `wrapResult` throwing because the audit file cannot be written.

**RetryManager**: `attempts[r]` is where the call, safe call or worker of a batch
`r` stands, `breaker` the circuit breaker they share; time is a flag (`cooled`).
**ConnectionPool**: `agentOf[o]` is the map entry of an origin, `using[u]` the
origin and agent a request got; release gives back the origin only, so a request
that holds an earlier agent lowers the count of the later one: `short` records
those agents (history), and what is claimed of counts and of agents in use
excepts them. `MaxAgents` bounds how many agents are made.

### Requests

**RateLimiter**: `stamps[i]` is the list of an identity (told apart by time and
place), `grants` the history of all it was let through for. **FrontDoor**: stages
of a request around the awaits of `http.ts`; `lastAuth` is the one field all
requests share. `together[k]` is the most requests of a key that were
between their check and their charge at once. `Window`, `SweepEvery` stand for 60 s and 64
calls; `LastTime` bounds a behaviour.

**ToolRounds** (the run that is not streamed) and **CompatStream** (the streamed
one, chunk by chunk: `out` is what the reader was given, `message` what the
Anthropic layer made of it, its gathered calls and its blocks): CompatStream implements ToolRounds (`ImplementsRounds`) where tools run in
rounds. **SseDelivery**: `sendSse` and the relay of an upstream's events, with
their timers, the reader leaving and frames lost after it. `MaxHeard`, `MaxFrames`
bound a behaviour.

**IntentLoop**: the rounds of the native API's runs, with what is written to the
session log and the memory. **MultiAgent**: teams over those runs.

**MediaJobs**: the store of video jobs, the runs that fill it and the hosts that
poll it. `store`, `created`, `born`: the keys of `jobs` and the order of
`created_at`; `inFlight`: the counter of `tryAcquireSlot`/`releaseSlot`; `run`,
`provider`, `polls`: where `runVideoJob` stands; `outcome`, `told`: history.
`Start` has no await. `Settles` is an update and the `finally`; an update of a
record that is gone does nothing. `Throws` is the path out of `httpOnce` before
its `try`.

### Work that is taken in

**ContinuousBatching**: jobs with ids that callers may share, the two maps keyed
by them, and the drain that a timer runs. **BatchScheduler**: the prefill/decode
loop; `stop` only clears a flag, so `Loops` of them may be under way.
**NativeScheduler**: a turn of the native engine's loop, which has no await, is
taken apart into actions, and `Outside` keeps everything else out meanwhile.
**WorkerPool**: `workers` is the map in the order of creation; `immediates` are
the scheduled calls of `processQueue` (`MaxImmediates`), `Resizes` bounds
`resize`. **DagScheduler**: groups, the semaphore and its line, retries,
timeouts, the cache that plans share. **DistributedScheduler**: the queue by
urgency, runs on the nodes, retry timers, expiry, and the own node leaving
(`MaxLeaves`). **RustCore**: starts, completions, streams, switches and stops of a core;
`pipes` are the cores whose output may still be read.

### Caches and loaded models

**PagedKvCache**: blocks, counts, tables, one call per action (`MaxDrawn`,
`MaxRefs` bound a behaviour). **HotSwap**: what a call does between two awaits;
a model loaded again is a new object. **NativeKvBudget**: prompt and session
cache under one page budget; `recency` is the order by `lastTouched`.

### Configuration and pages

**ConfigStore**: the configuration in effect, its file and the history, what
pages show and send back, the environment, and the end of the process within a
write. `outdated` and `mishap` say that somebody saved over what they had not
seen, and that a write was not whole. `MaxSaves`, `LastSecond` bound a behaviour.
**TaskPanel**: the tasks, the selection, the two panes and the trace arrays that
results share; `MaxRuns`, `MaxDrawings`. **RoutingPanel**: the page's copy of the
rules, refreshes (`Refreshes`) and saves (`RuleSaves`) on their way; `raced` says
that a save met another or a refresh.

### MC modules

`MCRuntimeExecution`, `MCWorkerLifecycle`, `MCStreamFailover` and `MCMediaJobs`
give constants their values. `MCResources` and `MCSchedulers` put the parts that
share nothing side by side: a behaviour picks one (`part`) and the others keep
still, so that the states of a run are the sum of the parts' states and not the
product. Invariants are conditional on the part; the properties of `MCSchedulers`
with fairness hold of the other parts because before they begin none of the steps
assumed to be taken is possible in them.

## 4. Runs

| Run | Bounds | Shows |
|---|---|---|
| `RuntimeExecution` | 5 callers (2 streams), 2 slots, 2 places, 1 retry, threshold 2; fair | slots, queue and breaker consistent; `ImplementsAdmission`; `QueuedCallsLeave`, `DetachedStateDrains` |
| `WorkerLifecycle_safety` | 3 processes, 2 attempts, any operator; symmetric | `TimerSound`, `MappedIsWatched`; `OneWorker`, `StopIsFinal` while the operator is not hasty |
| `WorkerLifecycle_recovery` | 2 processes, 2 attempts, any operator, no gateway restart; fair | `RestartIsTried`, `StoppedWorkerGoes` |
| `WorkerLifecycle_restartcap`, `_stopexit` | 2 processes, gateway restarts too | refute `RestartsCapped`, `DeliberateExitIgnored` |
| `StreamFailover_chain` | lists of up to 4 (5 with a direct target), 2 models, 2 providers or none; symmetric | `PinKept`, `ChainSound`, `ReplacedBeforeToken`; `AuditTellsOutcome` while writes succeed |
| `StreamFailover_voices` | lists of up to 3 | refutes `OneVoice` |
| `MediaJobs_safety` | 3 jobs, 2 providers (limits 1 and 2), 2 records, expiry after the first tick, 2 polls; fair | `SlotsAreRuns`, `ToldTheTruth`, `KeptWhileFresh`, `RunsEnd` |
| `MediaJobs_orphan` | the same, expiry after the second tick; symmetric | refutes `ProcessingHasRun` |
| `Resources` | KV: 2 requests, 2 pages, 2 blocks; swap: 3 models, 2 calls, 2 places; budget: 4 prompts, 2 sessions, 6 pages; limiter and door: 4 requests, 2 per window of 2, a sweep every 2 calls; grid: 2 tasks, 2 nodes, 2 retries; catalogue: 4 artifacts, 1 runtime, 4 pulls (2 at once in a behaviour), 1 crash; retries: 1 chain, 1 safe call, 2 workers, 2 items; connections: 2 origins, 3 users, 2 per agent, 4 agents; configuration: 2 pages, 3 saves, 2 versions of history; tasks: 2 tasks, 2 runs, 2 drawings; rules: 2 rules, 1 refresh, 2 saves | `ModelCachesSound`, `AccountsSound`, `PlacesSound`, `RecordsSound`, `UpstreamsSound`, `PagesSound`, `TakenWhenDue`, `RefusedWhenDue` |
| `Resources_attribution` | the same | refutes `ChargedToCaller` |
| `Schedulers` | batching: 4 jobs, two of one id, two of higher priority, 2 places; batches of 2, 2 tokens, 2 loops; native: 3 requests, an id twice; pool: 3 tasks, 1 or 2 workers, 1 resize; DAG: 3 plans, 5 calls, 1 permit, 2 attempts, cache of 1; grid: 2 tasks on 1 node; core: 2 cores, one call of a kind; chat: 3 pieces, 2 tool calls; SSE: 4 frames; runs and teams of 2 rounds and 2 hops; fair | `BatchersSound`, `ToolsSound`, `CoreSound`, `StreamsSound`, `AgentsSound`, `StartsByPriority`, `ImplementsRounds`, `WorkEnds` |

Why the bounds suffice. Admission, windows, pools and queues distinguish "room",
"full" and "one too many, with one behind it": two places and one or two callers
more reach all of them. Three processes are an old, a dying and a new one. Five
candidates are the failed one, three others (one more than the chain takes) and
the default. Three jobs over two records evict once, with records that expire
before and after. Two loops, two cores, two drawings and two saves are an old one
that goes on beside its successor, which is all the code can confuse; one crash at every
write is every place a process can end. Deadlock is not checked where the system
really may stop: all requests ended, a deleted runtime with no call left, bounds
of a behaviour reached.

Fairness, as the code justifies it. RuntimeExecution: attempts end
(`KGM_MODEL_RUNTIME_TIMEOUT_MS`, connection and idle timeouts of streams), retry
delays elapse, and stream consumers, `for await` loops, pull on or leave; nobody
has to call, probe or restart. WorkerLifecycle: delays, timers and probes (2.5 s)
end, exit events are delivered, a process that got SIGTERM exits. MediaJobs:
upstream requests carry `timeoutMs` and poll delays are timers. ContinuousBatching:
the drain timer fires; while jobs run, some executor answers or some waiting time
passes. BatchScheduler, NativeScheduler, DagScheduler, MultiAgent: the
continuation that is due is run (its backend, tool, model or memory answers,
throws or is timed out). WorkerPool: immediates run and task timers fire - workers
need not answer. DistributedScheduler: the interval ticks while something is
queued, handlers end, retry timers fire. RustCore: timers fire and a stream's
consumer or its next token goes on; the core need not answer. CompatStream: the
model's stream and the tools end, the reader goes on or leaves. SseDelivery: the
relay's idle timer, and its reader once the client is gone. `WorkEnds` is asked once
the scheduler and a node are left on (`<>[]LeftOn => (Owing ~> ~Owing)`), and the sets of
what is owed say which calls the code lets hang.

## 5. What the runs found

* **The restart cap is never reached** by a worker that dies within the start-up
  delay: `startRuntime` resolves with status `error`, and the `.then` clears the
  attempts (`RestartsCapped`).
* **Stop then start**: the old worker's exit event unmaps the new worker, writes
  `error` over it and arms a restart; the new process is orphaned
  (`DeliberateExitIgnored`). Two concurrent starts spawn two workers.
* **Two candidates in one stream**: the fallback loop goes on after a fallback
  candidate has delivered tokens, against its own comment (`OneVoice`).
* **A run that throws leaves a record processing for ever**: a missing template
  variable is thrown outside the `try` that would make it a failure
  (`ProcessingHasRun`).
* **A request is charged to another's key**: the auth of the last request checked
  is kept in one field and read after an await (`ChargedToCaller`).

Visible in the models, without contradicting a statement of the repository:

* Managed runtimes: a success resets the gauge `circuitState` but not the
  cooldown, so it says "closed" while calls are refused; calls queued before the
  breaker opened still run; a runtime stopped during the final probe of a start is
  recorded as running.
* Routing: authentication failures of fallback candidates do change the route; an
  audit write that fails makes the router execute an answered request again; a
  stream its client leaves is not metered.
* Media jobs: a job whose run is under way becomes unknown to its host when its
  record expires or is evicted, and its result is dropped.
* Catalogue: a crash while shards are rewritten tears one, which is skipped at
  load and then pruned; overlapping pulls of one source truncate each other's
  file, and the earlier can mark it ready; deleting an artifact deletes the first
  of its runtimes only; a new record is not saved before its first patch; a ready
  record whose file a crash cut is never pulled again.
* Error recovery: "jitter" delays recurse for ever, so the first retryable
  failure throws a RangeError; half-open lets every caller in; retries do not ask
  the breaker; the levels of a chain share it, so the primary's failures can
  refuse every fallback; `recordRecovery` is called on failure.
* Connections: a request beyond `maxConnections` destroys the agent the others
  use; a stale release makes an agent in use look unused, and the cleanup then
  destroys it under its request (`a \in short` in `DestroyedWhenDue`); pools made
  after `destroy` are never cleaned.
* Caches: a write to a shared block goes to the block itself; loads that overlap
  exceed the limit of loaded models.
* Batchers and pools: two loops over one batch after stop and start; a native id
  used twice forgets a request; `resize` wakes nobody; permits of the DAG's
  semaphore fall below zero.
* Core: a stream whose core died polls for ever; a start that meets the ready
  line of another core can hang; a consumer that leaves keeps its listener; tokens of the last
  10 ms before the end may never be yielded.
* Streams: plain-text final answers of live rounds do not reach a chat client as
  content; tool calls of later rounds reuse index 0, so the Anthropic layer makes
  one `tool_use` block of them; a call whose pieces are split by the first text
  becomes two blocks; for Responses a piece of a call without arguments is not
  passed on yet counts as told, so a call that takes none is run and its output
  given although the reader never got the call (`silent`); a direct stream never runs skills where the other run does;
  `sendSse` notices its timers only at the next event; an upstream `[DONE]`
  followed by an error or silence, or in a last line without its end, gets a second one.
* Native API: a tool whose result the memory failed on is missing from the
  session log; the last tool result of the last round is never shown to the model.
* Configuration: `reloadFromDisk` before the first save drops what only the
  environment set; a providers' update reloads without the skills; a file cut by
  a crash keeps the gateway from starting, an empty one gives defaults; an update
  whose write fails is answered 500 but in effect; versions have a resolution of one
  second; an unreadable history is replaced at the next record; renaming a
  connector loses its secret.
* Playground: a run that ends takes the selection; the graph of another task
  stays when the selected result has no plan; overlapping runs share a trace; the
  refresh discards unsaved rules, and an older answer that ends after a save
  makes the next save drop the saved rule.

Not modelled, and why. The cluster (`cluster/cluster.ts`): `sendToNode` hands
every message to the sending instance's own handler by a timer, so nothing
crosses a process, and nothing instantiates the class. Key rotation
(`apiKeyRouter.ts`): the gateway only registers keys and takes them round robin;
the reports that would cool a key down are called by nothing. `memory/`,
`cache/layeredCache.ts`: the gate on writes is not wired in, the layered cache is
used by an optimisation only; a candidate for later. KCE, embedding, rerank,
model configuration, SDK, CLI, schema, parsing: transformations of data without
concurrent state. The Python worker, the Prisma schema and the Markdown package
run outside the gateway.

## 6. Proofs

TLAPS proves, for every value of the constants that the assumptions allow:

`RequestProofs` (of RuntimeExecution, for any callers and limits)
* `TypeCorrect`, and `AdmissionCorrect`: `Spec => []AdmissionSound`. A release
  hands its slot to the head of the queue, so the counter is right only if the queue
  holds exactly the waiting calls, and a wakeup is not lost only if the counter is
  right: none is inductive alone. Every action is one of five moves (nothing, take,
  join, release, reject); one lemma per move shows that it preserves the invariant.
* `CircuitCorrect`: `CircuitCoherent`, inductive with the types.
* `AdmissionRefined`: `Spec => ImplementsAdmission`, by the same moves: each is a
  step of BoundedAdmission or a stutter.

`RequestProofs` (of StreamFailover, with lists of any length)
* `RoutingTypeCorrect`, `PinCorrect`, `ChainCorrect`, `TokenCorrect`, `AuditCorrect` from
  `FailoverInv`, which speaks of the line `tried \o chain` as a whole: it has no
  candidate twice (`LineSound`), the first was chosen alone (`FirstAlone`), the
  default is in it unless it was tried (`NetSound`), and who spoke is the one that
  executes (`SpokeSound`). `ChainShape` and `NewLine` say what ordering and cutting
  the chain leave of it.

`MediaJobsProofs`
* `TypeCorrect`; `SlotsCorrect` from `SlotInv`: a job that was not created has no
  run, so a start adds exactly one run and an end removes one.
* `TruthCorrect` from `TruthInv`: records with an end agree with the outcome, and
  a run under way has none, so an end is written once.
* `RetentionCorrect` from `RetentionInv`: creation numbers inject the stored jobs
  into an interval, so a full store without a job older than `k` means that enough
  jobs came after `k`.

`WorkProofs`
* `AgentsCorrect` from `AgentsInv`. Of each run some number of results is logged
  (`RunTold`), which is all it has but one that is being remembered or was when the
  memory threw (`Fits`), and the memory has the successes among them (`Memorized`).
  A round is aimed where all before were, or nowhere so far (`Aimed`). `TeamOK`: how
  far a team is fixes what its two runs may be doing, and a specialist still at work
  means a supervisor that has logged nothing, which keeps them apart in the log.
  `OwnPlaces` and `OthersPlaces` say what an entry changes for its run and for others.
* `CoreCorrect` from `CoreInv`: pipes are those of cores that were started, buffered
  tokens were made, and a ready line that another core's start overheard is known.
* `TypeCorrect`, `TimerCorrect` (inductive as stated) and `MappedCorrect`.
* `OneWorkerCorrect` and `StopIsFinalCorrect` from `PatientInv`: with an
  operator who was never hasty all processes and pending starts are one, a pending
  restart means that none exists, and a stop on record or a wanted stop excludes a
  timer and a process that crashed unnoticed.

`SequenceFacts` and `StoreProofs` hold what the others rest on: facts about
sequences of distinct members (`RemovedHas`, `InsertedHas`, `DroppedHas`,
`AtPlacesIs`: what a sequence keeps when members go in and out), and the invariants
of the parts that MCResources composes, of which one is a theorem of its own:
* `ConfigCorrect` from `ConfigInv`: while nothing was cut or failed, file, history,
  registry and the configuration agree (`Agreed`), and a page that is not outdated
  shows what is in effect, so that placeholders sent back stand for the secrets that are there.

`ResourcesProofs` (a step of the sum is a step of one part, or leaves it alone)
* `AccountsCorrect`. `LimiterInv`: the list of an identity restricted to the window
  is the grants within the window, and the next place at this time is free, so what
  sweeps and refusals drop was out of every window to come. `DoorInv`: what is spent and may still be charged stays
  below the limit by what was known together (`Overlap`).
* `RecordsCorrect`. `CatalogInv`: a record is where the process or a restart will
  look (`WhereRecordsAre`), a pull under way knows whose record and file it has
  (`PullsKnow`), crashes pay for what is torn or lost (`CrashesCost`). `CrashLeaves`
  says what a crash within a save leaves of the shards, `SavingKeeps` that a whole
  save is nothing but progress; with `ConfigInv` for the configuration.
* `UpstreamsCorrect`. `BreakerInv`; `BatchInv`: a worker at an item holds it alone
  and the next item has been taken by nobody; `MonitorInv`. `ConnectionInv`: agents
  of two origins are apart, whoever holds an agent of the pool got it for its origin
  (`HeldWhereMade`), and the count of an agent that is not in `short` is exactly the
  requests that hold it (`CountExact`).
* `PagesCorrect`: the sequence pane is never another task's; the graph pane is
  the selected task's only for a result with a plan, with no drawing under way and
  none drawn over another; a saved rule stays unless a save raced. `PanelInv`: runs are numbered in order and have their own traces
  (`RunsInv`), and panes belong to the selected result or a drawing for it is under
  way (`PaneInv`). `RoutingInv`: without a race the gateway's answer on its way is its rules, and one
  save is under way.
* `ModelCachesCorrect`. `KvInv`: what was drawn and is in memory is in the records
  and in the queue once (`RecordsAgree`), and counts the places of the tables and the
  callers that refer to it (`Covered`). `SwapInv`: while calls did not cross, one
  runs at a time, takes apart nothing that is active and loads nothing that is
  loaded (`OneAtATime`, `TakesApart`), so the active model stays. `BudgetInv`: an entry
  is there once, and the pages counted are those of the entries as a set of
  pairs, so that taking entries out takes their pages and no others.
* `TakenCorrect`: its action properties, from `KvInv` and `BudgetInv`. Of the caches a
  step leaves out the oldest and keeps the order of the others, and what each of its
  parts keeps, they keep together (`OrderGoesOn`).
* `PlacesCorrect` from `GridInv`, which says of one task at a time (`TaskOK`) that it
  is under way while open, and unless it was overtaken in one place (`Alone`), and
  that its starts, timers and its entry in the queue are paid for by retries and
  leaves (`StartsBudgeted`). A round (`RoundOf`), a cleanup (`CleanupKeeps`) and a
  leave (`OwnLeft`) are then what they make of one task, whatever becomes of the others.
* `RefusalsAreDue`: the action properties, from the same invariants. An agent that
  a request holds is destroyed for a new one or with the pool: by `CountExact` the
  cleanup, which goes by the count, takes such an agent only if it is in `short`.

`SchedulersProofs` (a behaviour of the sum runs one part)
* `RoundsRefined`: `SchedulersSpec => ImplementsRounds`, where an announced call is
  one that is decided, whose trace is not yet there. `RoundsInv`: the last trace
  is that of the call under way, so that replacing it is what ToolRounds does.
* `StreamsCorrect`. `ChatInv`: what the Anthropic layer has is a function of no
  state but the chunks, up to their order (`LayerOK`): each call told is gathered or in a block, a
  call is in two only if a block was opened between its pieces, and one that is in
  a block came before another was opened (`Shut`), which is why gathering it again
  is harmless. `RoundTold`: outputs are as many as the rounds behind, and a call of
  this round was told before it runs, or its round is in `silent`, which no round of
  chat is. The blocks are claimed for chat, whose chunks the layer reads. One lemma per kind of chunk (`OtherChunk`,
  `CallChunk`, `OpenChunk`, `FinishChunk`). `DeliveryInv`: while a connection waits, nothing but
  data and the upstream's own [DONE] is on the wire.
* `BatchersCorrect` from one invariant per batcher. `BatchInv`: the queue is the
  jobs that wait, each once and by priority (`QueueInv`), and unless ids clashed
  every job that runs has its entry. `InferInv`: a request is in the line, in the
  batch or answered (`LineInv`), and while one loop is alive what it awaits is in the
  state that step is for (`RightStates`), so that nobody is answered twice. `NativeInv`:
  this turn's admissions have a request and a place each (`RoomInv`), and unless ids
  met the order has the ids of the active requests, each once (`IdsInv`).
* `StartsInOrder`: drain starts the head of a queue that `QueueInv` keeps sorted.

`ToolsProofs`
* `ToolsCorrect`: `SchedulersSpec => []ToolsSound`. `PoolInv`: until a shutdown, what
  is in the task map waits or has a worker, one of the two and once (`Shared`), and
  while no resize was made a queue that is not empty has as many immediates pending
  as there are idle workers (`Woken`): one alone would not do, since each wakes only one.
  `DagInv` says of one plan at a time (`OnePlan`) that what it is through with is over
  and closed under dependencies and all it has not come to is untouched (`GroupsFit`),
  that its line is the queued calls, once each (`QueueFits`), and that those going are
  within the number (`RoomFits`). That last is kept by handing over: whoever ends lets in one
  at most (`EndStays`), so the count of permits, which goes wrong, is not needed.
  `CacheFits` and `Told`: what is in the cache and what was handed out is the success
  of a call that is over, and what is over does not begin again (`TruthStays`).
  A plan without a next group is through (`ThroughIsComplete`): if not, the calls left would each
  wait for another of them, which `Sortable` rules out.

Assumptions on constants: limits and bounds are natural numbers, positive where
the code divides or indexes by them; sets of callers, processes, jobs, users,
items are finite; the values that stand for "none" are none of the values they
stand beside. TLC evaluates them in the runs.

Model-checked only:
* liveness (`QueuedCallsLeave`, `DetachedStateDrains`, `RestartIsTried`,
  `StoppedWorkerGoes`, `RunsEnd`, `WorkEnds`), which the prover does not reach;
* the findings: a property that a run refutes is shown by its counterexample.

## 7. Mutants

Each property is paired in `PROJECT.json` with a faulty variant of a definition
(a drain that is forgotten, an off-by-one of the retry loop, a cooldown that is
not cleared, a timer that is not cancelled, a pin that is forgotten, ...). The
variants are the operators introduced by a comment "What if ...?"; with one in
place of its original, TLC finds the property violated.

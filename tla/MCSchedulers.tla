---------------------------- MODULE MCSchedulers ----------------------------
(***************************************************************************)
(* What takes requests in and owes each an answer, on small instances: the *)
(* two batchers, the loop of the native engine, the worker pool, the DAG   *)
(* scheduler, the distributed tasks and the core in a process of its own.  *)
(* The parts share nothing, so a behaviour picks one and the others keep   *)
(* still; before it begins, none of the steps that are assumed to be taken *)
(* is possible in any part.  The calls of a core share nothing but the     *)
(* core, so a behaviour has one kind of them beside starts and stops.      *)
(***************************************************************************)
EXTENDS ContinuousBatching, BatchScheduler, NativeScheduler, WorkerPool, DagScheduler,
        DistributedScheduler, RustCore, CompatStream, SseDelivery, MultiAgent, TLC

CONSTANTS j1, j2, j3, j4, r1, r2, n1, n2, n3, t1, t2, t3, x1, x2, x3, x4, x5, P1, P2, P3, g1, g2, i1, s1, w1, k1,
          d1, d2, m1, m2

(* Two jobs of one id, two of higher priority.                             *)
MCIdOf       == (j1 :> "a") @@ (j2 :> "a") @@ (j3 :> "b") @@ (j4 :> "c")
MCPriorityOf == (j1 :> 0) @@ (j2 :> 1) @@ (j3 :> 0) @@ (j4 :> 1)

(* An empty prompt and one that has to be prefilled.                       *)
MCLengthOf == (r1 :> 0) @@ (r2 :> 1)

(* Ids that differ, and an id that comes twice.                            *)
MCRequestIds == {(n1 :> 1) @@ (n2 :> 2) @@ (n3 :> 3), (n1 :> 1) @@ (n2 :> 3) @@ (n3 :> 3)}

MCUrgencyOf == (t1 :> 0) @@ (t2 :> 1) @@ (t3 :> 0)
MCPoolSizes == {<<1, 2>>, <<2, 2>>, <<0, 1>>}

(* Two calls with one key and a third that needs both; a call without an   *)
(* executor; a call that depends on something its plan does not have.      *)
MCPlanOf    == (x1 :> P1) @@ (x2 :> P1) @@ (x3 :> P1) @@ (x4 :> P2) @@ (x5 :> P3)
MCDependsOn == [c \in Calls |-> CASE c = x3 -> {x1, x2} [] c = x5 -> {"missing"} [] OTHER -> {}]
MCKeyOf     == [c \in Calls |-> IF c \in {x3, x5} THEN 2 ELSE 1]

MCUrgencyRank == (g1 :> 5) @@ (g2 :> 1)

(* A team of two hops, a supervisor alone, and requests of their own.      *)
MCRuns   == {d1, d2} \cup (Teams \X (1..2))
MCRounds == [r \in Runs |-> IF r \in {d1, <<m1, 1>>} THEN 2 ELSE 1]
MCHops   == [t \in Teams |-> 2]

VARIABLE part

parts == <<batchVars, schedulerVars, nativeVars, poolVars, dagVars, gridVars,
           coreVars, compatVars, sseVars, agentVars, part>>

SchedulersInit ==
  /\ part \in {"batching", "scheduler", "native", "pool", "dag", "grid",
              "asks", "streams", "switches", "stops", "chat", "sse",
              "runs", "teams"}
  /\ BatchInit /\ SchedulerInit /\ NativeInit /\ PoolInit /\ DagInit /\ GridInit
  /\ CoreInit /\ CompatInit /\ DeliveryInit /\ AgentsInit
  /\ part # "batching" => concurrency = 1
  /\ part # "native" => requestId[n2] = 2
  /\ part # "pool" => poolSize = <<2, 2>>
  /\ part # "chat" => chat /\ ~direct
  /\ part # "sse" => ~relay /\ ~appendDone /\ ~idleOn

OneKindOfCall ==
  \/ part = "asks" /\ UNCHANGED <<streamPart, switch, stopCall>>
  \/ part = "streams" /\ UNCHANGED <<askPart, switch, stopCall>>
  \/ part = "switches" /\ UNCHANGED <<askPart, streamPart, stopCall>>
  \/ part = "stops" /\ UNCHANGED <<askPart, streamPart, switch>>

(* Two requests, the second of which names no runtime; one of the teams    *)
(* beside one request, where no routing names a runtime.                   *)
OneKindOfRun ==
  \/ part = "runs" /\ UNCHANGED <<teamStatus, affinity[d2]>>
  \/ part = "teams" /\ UNCHANGED <<runState[d1], affinity>>
     /\ \E t \in Teams : teamStatus'[t] = "none"

answeringVars == <<compatVars, sseVars, agentVars>>

SchedulersNext ==
  /\ UNCHANGED part
  /\ \/ /\ UNCHANGED answeringVars
        /\ \/ part = "batching" /\ BatchNext
              /\ UNCHANGED <<schedulerVars, nativeVars, poolVars, dagVars, gridVars, coreVars>>
           \/ part = "scheduler" /\ SchedulerNext
              /\ UNCHANGED <<batchVars, nativeVars, poolVars, dagVars, gridVars, coreVars>>
           \/ part = "native" /\ NativeNext
              /\ UNCHANGED <<batchVars, schedulerVars, poolVars, dagVars, gridVars, coreVars>>
           \/ part = "pool" /\ PoolNext
              /\ UNCHANGED <<batchVars, schedulerVars, nativeVars, dagVars, gridVars, coreVars>>
           \/ part = "dag" /\ DagNext
              /\ UNCHANGED <<batchVars, schedulerVars, nativeVars, poolVars, gridVars, coreVars>>
           \/ part = "grid" /\ GridNext
              /\ UNCHANGED <<batchVars, schedulerVars, nativeVars, poolVars, dagVars, coreVars>>
           \/ CoreNext /\ OneKindOfCall
              /\ UNCHANGED <<batchVars, schedulerVars, nativeVars, poolVars, dagVars, gridVars>>
     \/ /\ UNCHANGED <<batchVars, schedulerVars, nativeVars, poolVars, dagVars, gridVars, coreVars>>
        /\ \/ part = "chat" /\ CompatNext /\ UNCHANGED <<sseVars, agentVars>>
           \/ part = "sse" /\ DeliveryNext /\ UNCHANGED <<compatVars, agentVars>>
           \/ AgentsNext /\ OneKindOfRun /\ UNCHANGED <<compatVars, sseVars>>

(* The fairness that each part states of itself.                           *)
SchedulersSpec ==
  /\ SchedulersInit /\ [][SchedulersNext]_parts
  /\ BatchFairness /\ SchedulerFairness /\ NativeFairness /\ PoolFairness /\ DagFairness
  /\ GridFairness /\ CoreFairness /\ DeliveryFairness
  /\ AgentFairness
  /\ WF_compatVars(part = "chat" /\ StreamGoes)

(* The queues, batches and maps of the three batchers of inferences agree  *)
(* with each other and with what became of the requests.                   *)
BatchersSound ==
  /\ part = "batching"  => BatchingSound
  /\ part = "scheduler" => InferencesSound
  /\ part = "native"    => NativeSound

(* So do the pool's tasks and workers, and the calls, permits and cache of *)
(* plans of tool calls.                                                    *)
ToolsSound ==
  /\ part = "pool" => PoolSound
  /\ part = "dag"  => DagSound

(* What the readers of streamed answers get, as chunks, as blocks and on   *)
(* the wire, is well-formed, and complete but for the calls that the       *)
(* Responses API does not tell.                                            *)
StreamsSound ==
  /\ part = "chat" => CompatSound
  /\ part = "sse"  => DeliverySound

(* What the parts owe to their callers.                                    *)
Owing ==
  \/ Unsettled # {} \/ Unanswered # {} \/ UnderWay # {} \/ Open # {}
  \/ Unfinished # {} \/ OpenTasks # {} \/ Owed # {}
  \/ (part = "chat" /\ StreamOpenEnded) \/ DeliveryOwed
  \/ AgentsOwed

LeftOn == (part = "scheduler" => SchedulerLeftOn) /\ (part = "grid" => GridLeftOn)

(* What was taken in is settled, in every part: batch jobs, inferences,    *)
(* native requests, pool tasks, plans of tool calls, distributed tasks and *)
(* calls of a core, as far as each part promises it (see the sets above    *)
(* where they are defined) and once the two parts that can be left without *)
(* anyone to do the work are left on.                                      *)
WorkEnds == <>[]LeftOn => (Owing ~> ~Owing)
=============================================================================

----------------------------- MODULE IntentLoop -----------------------------
(***************************************************************************)
(* The runs of the native API (Scheduler of src/scheduler/fsm.ts): rounds  *)
(* in which the model answers or has one tool or skill executed.  Runs     *)
(* share the session log they append to, and the memory.                   *)
(*                                                                         *)
(* The model, the tools, the context builder and the memory are external:  *)
(* they answer or throw.  Texts and the artifacts that long outputs are    *)
(* replaced by are left out.                                               *)
(***************************************************************************)
EXTENDS Naturals, Sequences, FiniteSets, SequencesExt

CONSTANTS
  Runs,
  Allowed, Forbidden,   \* tools: in toolPolicy.allowed, and others
  MaxRounds,            \* of a run, toolPolicy.maxRounds
  HasSkills,            \* there is a skill runtime
  HasMemory,            \* there are a memory store and an embedder
  Runtimes, NoRuntime   \* what a routing trace may name as selected

ASSUME LoopAssumption ==
  /\ MaxRounds \in [Runs -> Nat] /\ HasSkills \in BOOLEAN /\ HasMemory \in BOOLEAN
  /\ Allowed \cap Forbidden = {} /\ NoRuntime \notin Runtimes

VARIABLES
  runState,
  runRound,
  toolResults,     \* of a run: which succeeded
  affinity,        \* metadata.native_runtime_id
  target,          \* routing.target.runtimeId
  targeted,        \* history: the runtime each completion was asked of
  sessionLog,      \* entries, with the run that made them
  memoryChunks     \* memory: the run and the number of the result

intentVars == <<runState, runRound, toolResults, affinity, target, targeted, sessionLog, memoryChunks>>

Answers == {"final", "invalid", "skill"} \cup Allowed \cup Forbidden

LoopTypeOK ==
  /\ runState \in [Runs -> {"new", "building", "asking", "executing", "remembering",
                            "returned", "threw"}]
  /\ \A r \in Runs : runRound[r] \in 0..MaxRounds[r]
  /\ toolResults \in [Runs -> Seq(BOOLEAN)]
  /\ affinity \in [Runs -> Runtimes \cup {NoRuntime}]
  /\ target \in [Runs -> Runtimes \cup {NoRuntime}]
  /\ targeted \in [Runs -> Seq(Runtimes \cup {NoRuntime})]
  /\ sessionLog \in Seq([run : Runs, type : {"input", "tool", "final"}])
  /\ \A c \in memoryChunks : c[1] \in Runs /\ c[2] \in 1..MaxRounds[c[1]]

LoopInit ==
  /\ runState = [r \in Runs |-> "new"]
  /\ runRound = [r \in Runs |-> 0]
  /\ toolResults = [r \in Runs |-> <<>>]
  /\ affinity = [r \in Runs |-> NoRuntime]
  /\ target = [r \in Runs |-> NoRuntime]
  /\ targeted = [r \in Runs |-> <<>>]
  /\ sessionLog = <<>> /\ memoryChunks = {}

Entry(r, type) == [run |-> r, type |-> type]
Logs(r, types) == sessionLog' = sessionLog \o [k \in DOMAIN types |-> Entry(r, types[k])]

(* A request may name a runtime as its target, in its metadata, or both.   *)
RunArrives(r, named, aimed) ==
  /\ runState[r] = "new"
  /\ runState' = [runState EXCEPT ![r] = "building"]
  /\ affinity' = [affinity EXCEPT ![r] = IF named # NoRuntime THEN named ELSE aimed]
  /\ target' = [target EXCEPT ![r] = aimed]
  /\ Logs(r, <<"input">>)
  /\ UNCHANGED <<runRound, toolResults, targeted, memoryChunks>>

(* What if only an answer of the model were logged?                        *)
LogsAnswer(why) == IF why = "final" THEN <<"final">> ELSE <<>>

(* finalize, for whatever reason.                                          *)
LogsFinal(why) == <<"final">>

(* The next round of run r, whose target is t,  or the end of its rounds;  *)
(* before, the given entries are logged.                                   *)
GoesOnAs(r, t, entries) ==
  IF runRound[r] < MaxRounds[r]
  THEN /\ runState' = [runState EXCEPT ![r] = "asking"]
       /\ runRound' = [runRound EXCEPT ![r] = @ + 1]
       /\ targeted' = [targeted EXCEPT ![r] = Append(@, t)]
       /\ Logs(r, entries)
  ELSE /\ runState' = [runState EXCEPT ![r] = "returned"]
       /\ Logs(r, entries \o LogsFinal("rounds"))
       /\ UNCHANGED <<runRound, targeted>>

ContextBuilt(r) ==
  /\ runState[r] = "building"
  /\ GoesOnAs(r, target[r], <<>>)
  /\ UNCHANGED <<toolResults, affinity, target, memoryChunks>>

(* The context builder, the model or the memory throws, and so does the    *)
(* run; a tool that throws does not.                                       *)
RunThrows(r) ==
  /\ runState[r] \in {"building", "asking", "remembering"}
  /\ runState' = [runState EXCEPT ![r] = "threw"]
  /\ UNCHANGED <<runRound, toolResults, affinity, target, targeted, sessionLog, memoryChunks>>

(* What if a run followed the routing of every round?                      *)
EveryRouting(r, selected) == selected # NoRuntime

(* A run keeps the first runtime that a round of it was routed to, if its  *)
(* request named none.                                                     *)
FirstRouting(r, selected) == selected # NoRuntime /\ affinity[r] = NoRuntime

(* An answer, one that fails the schema and a call that is not allowed end *)
(* the run; a skill without a skill runtime is a result that failed.       *)
ModelAnswers(r, answer, selected) ==
  /\ runState[r] = "asking"
  /\ IF FirstRouting(r, selected)
     THEN /\ affinity' = [affinity EXCEPT ![r] = selected]
          /\ target' = [target EXCEPT ![r] = selected]
     ELSE UNCHANGED <<affinity, target>>
  /\ \/ /\ answer \in {"final", "invalid"} \cup Forbidden
        /\ runState' = [runState EXCEPT ![r] = "returned"]
        /\ Logs(r, LogsFinal(answer))
        /\ UNCHANGED <<runRound, targeted, toolResults>>
     \/ /\ answer \in Allowed \/ (answer = "skill" /\ HasSkills)
        /\ runState' = [runState EXCEPT ![r] = "executing"]
        /\ UNCHANGED <<runRound, targeted, toolResults, sessionLog>>
     \/ /\ answer = "skill" /\ ~HasSkills
        /\ toolResults' = [toolResults EXCEPT ![r] = Append(@, FALSE)]
        /\ GoesOnAs(r, target'[r], <<"tool">>)
  /\ UNCHANGED memoryChunks

(* What is executed ends; a success is remembered before it is logged.     *)
ToolEnds(r, ok) ==
  /\ runState[r] = "executing"
  /\ toolResults' = [toolResults EXCEPT ![r] = Append(@, ok)]
  /\ IF ok /\ HasMemory
     THEN /\ runState' = [runState EXCEPT ![r] = "remembering"]
          /\ UNCHANGED <<runRound, targeted, sessionLog>>
     ELSE GoesOnAs(r, target[r], <<"tool">>)
  /\ UNCHANGED <<affinity, target, memoryChunks>>

Remembered(r) ==
  /\ runState[r] = "remembering"
  /\ memoryChunks' = memoryChunks \cup {<<r, Len(toolResults[r])>>}
  /\ GoesOnAs(r, target[r], <<"tool">>)
  /\ UNCHANGED <<toolResults, affinity, target>>

RunGoesOn(r) ==
  \/ ContextBuilt(r) \/ RunThrows(r) \/ Remembered(r)
  \/ \E a \in Answers, t \in Runtimes \cup {NoRuntime} : ModelAnswers(r, a, t)
  \/ \E ok \in BOOLEAN : ToolEnds(r, ok)

LoopNext ==
  \E r \in Runs :
    \/ \E t, u \in Runtimes \cup {NoRuntime} : RunArrives(r, t, u)
    \/ RunGoesOn(r)

LoopSpec == LoopInit /\ [][LoopNext]_intentVars

-----------------------------------------------------------------------------
(* Places of a run's entries, and of its results, in the session's log.    *)
EntriesOf(r) == {k \in DOMAIN sessionLog : sessionLog[k].run = r}
InLog(r)     == {k \in EntriesOf(r) : sessionLog[k].type = "tool"}

IsFirst(k, places) == \A n \in places : k <= n
IsLast(k, places)  == \A n \in places : k >= n

(* The session tells of each run, whichever others write between: its      *)
(* input, its results in order, and its end if and only if it returned;    *)
(* a result is missing from it only while it is being remembered, or when  *)
(* the memory failed and the run with it.                                  *)
SessionTells ==
  \A r \in Runs :
    /\ runState[r] = "new" <=> EntriesOf(r) = {}
    /\ \A k \in EntriesOf(r) :
         sessionLog[k].type = (IF IsFirst(k, EntriesOf(r)) THEN "input"
                               ELSE IF IsLast(k, EntriesOf(r)) /\ runState[r] = "returned" THEN "final"
                               ELSE "tool")
    /\ runState[r] = "returned" => Cardinality(EntriesOf(r)) = Len(toolResults[r]) + 2
    /\ Len(toolResults[r]) - Cardinality(InLog(r)) \in
         (IF runState[r] = "remembering" THEN {1} ELSE IF runState[r] = "threw" THEN {0, 1} ELSE {0})

(* What a run has remembered is what it executed with success and logged.  *)
MemoryTells ==
  HasMemory =>
    \A r \in Runs : {k \in 1..MaxRounds[r] : <<r, k>> \in memoryChunks}
                      = {k \in DOMAIN toolResults[r] : toolResults[r][k] /\ k <= Cardinality(InLog(r))}

(* Once a completion of a run was aimed at a runtime, all that follow are: *)
(* its rounds find their prefix where it is cached.                        *)
RuntimeStays ==
  \A r \in Runs : \A i, j \in DOMAIN targeted[r] :
    i < j /\ targeted[r][i] # NoRuntime => targeted[r][j] = targeted[r][i]

LoopSound == LoopTypeOK /\ SessionTells /\ MemoryTells /\ RuntimeStays
=============================================================================

----------------------------- MODULE MultiAgent -----------------------------
(***************************************************************************)
(* Multi-agent runs (MultiAgentRuntime of                                  *)
(* src/agents/multiAgentRuntime.ts) over the runs of IntentLoop: a         *)
(* specialist works, then the supervisor synthesizes, each in a run of its *)
(* own, in one session that other requests may write to as well.           *)
(*                                                                         *)
(* Which specialist suits a goal is left out: it is the first hop's agent. *)
(***************************************************************************)
EXTENDS IntentLoop

CONSTANTS
  Teams,
  Alone,        \* teams whose supervisor has no specialist
  MaxHops       \* maxAgentHops of a team, once it was bounded

ASSUME TeamAssumption ==
  /\ MaxHops \in [Teams -> 1..2] /\ Alone \subseteq Teams
  /\ Teams \X (1..2) \subseteq Runs

VARIABLES
  teamStatus,
  hops,         \* steps of a run, by their hop
  handoffs,
  finalAnswer   \* the hop it is the output of, or 0

teamVars  == <<teamStatus, hops, handoffs, finalAnswer>>
agentVars == <<intentVars, teamVars>>

TeamTypeOK ==
  /\ teamStatus \in [Teams -> {"none", "running", "completed", "failed"}]
  /\ hops \in [Teams -> Seq(1..2)]
  /\ handoffs \in [Teams -> Seq({"to specialist", "to supervisor"})]
  /\ finalAnswer \in [Teams -> 0..2]

AgentsInit ==
  /\ LoopInit
  /\ teamStatus = [t \in Teams |-> "none"]
  /\ hops = [t \in Teams |-> <<>>]
  /\ handoffs = [t \in Teams |-> <<>>]
  /\ finalAnswer = [t \in Teams |-> 0]

HopArrives(t, hop) == RunArrives(<<t, hop>>, NoRuntime, NoRuntime)

(* start: the run begins before anything is awaited.                       *)
TeamStarts(t) ==
  /\ teamStatus[t] = "none"
  /\ teamStatus' = [teamStatus EXCEPT ![t] = "running"]
  /\ HopArrives(t, 1)
  /\ UNCHANGED <<hops, handoffs, finalAnswer>>

HopDone(t, hop) ==
  /\ teamStatus[t] = "running"
  /\ Len(hops[t]) = hop - 1 /\ runState[<<t, hop>>] = "returned"
  /\ hops' = [hops EXCEPT ![t] = Append(@, hop)]

Completes(t, hop) ==
  /\ finalAnswer' = [finalAnswer EXCEPT ![t] = hop]
  /\ teamStatus' = [teamStatus EXCEPT ![t] = "completed"]
  /\ UNCHANGED intentVars

(* What if a team always had two hops?                                     *)
AlwaysTwo(t) == TRUE

Synthesizes(t) == MaxHops[t] > 1 /\ t \notin Alone

SpecialistDone(t) ==
  /\ HopDone(t, 1)
  /\ handoffs' = [handoffs EXCEPT ![t] = Append(@, "to specialist")]
  /\ IF Synthesizes(t)
     THEN HopArrives(t, 2) /\ UNCHANGED <<teamStatus, finalAnswer>>
     ELSE Completes(t, 1)

SupervisorDone(t) ==
  /\ HopDone(t, 2)
  /\ handoffs' = [handoffs EXCEPT ![t] = Append(@, "to supervisor")]
  /\ Completes(t, 2)

(* What if a hop that threw left its team as it was?                       *)
StaysAsItWas(t) == teamStatus

Failed(t) == [teamStatus EXCEPT ![t] = "failed"]

HopThrows(t) ==
  /\ teamStatus[t] = "running"
  /\ runState[<<t, Len(hops[t]) + 1>>] = "threw"
  /\ teamStatus' = Failed(t)
  /\ UNCHANGED <<intentVars, hops, handoffs, finalAnswer>>

OfTeams == Teams \X (1..2)

AgentsGoOn ==
  \/ \E r \in Runs : RunGoesOn(r) /\ UNCHANGED teamVars
  \/ \E t \in Teams : SpecialistDone(t) \/ SupervisorDone(t) \/ HopThrows(t)

AgentsNext ==
  \/ AgentsGoOn
  \/ \E t \in Teams : TeamStarts(t)
  \/ /\ \E r \in Runs \ OfTeams, t, u \in Runtimes \cup {NoRuntime} : RunArrives(r, t, u)
     /\ UNCHANGED teamVars

AgentsSpec == AgentsInit /\ [][AgentsNext]_agentVars

-----------------------------------------------------------------------------
BegunHops(t) == {h \in 1..2 : runState[<<t, h>>] # "new"}

(* A team that completed answers with the output of its last hop, took no  *)
(* more hops than it was allowed, and each was handed off; one that failed *)
(* has no answer; and no hop is under way once a team has ended.           *)
TeamsTell ==
  \A t \in Teams :
    /\ Len(hops[t]) <= (IF t \in Alone THEN 1 ELSE MaxHops[t])
    /\ Len(handoffs[t]) = Len(hops[t])
    /\ teamStatus[t] = "completed" <=> finalAnswer[t] # 0
    /\ finalAnswer[t] # 0 => finalAnswer[t] = Len(hops[t]) /\ Cardinality(BegunHops(t)) = finalAnswer[t]
    /\ teamStatus[t] \in {"completed", "failed"} =>
         \A h \in BegunHops(t) : runState[<<t, h>>] \in {"returned", "threw"}

(* In the log of the session, a supervisor begins when its specialist has  *)
(* ended.                                                                  *)
OneHopAtATime ==
  \A j, k \in DOMAIN sessionLog, t \in Teams :
    sessionLog[j].run = <<t, 1>> /\ sessionLog[k].run = <<t, 2>> => j < k

(* What the runs of agents leave behind, in the session, the memory and    *)
(* the record of the team, is what they did.                               *)
AgentsSound == LoopSound /\ TeamTypeOK /\ TeamsTell /\ OneHopAtATime

(* Models, tools and memories answer or throw; continuations are run.      *)
AgentFairness == WF_agentVars(AgentsGoOn)

(* What is owed: an end of every run and of every team.                    *)
AgentsOwed ==
  \/ \E r \in Runs : runState[r] \notin {"new", "returned", "threw"}
  \/ \E t \in Teams : teamStatus[t] = "running"
=============================================================================

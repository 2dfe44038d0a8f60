--------------------------- MODULE ConnectionPool ---------------------------
(***************************************************************************)
(* ConnectionPoolManager (src/utils/connectionPool.ts): one HTTP agent per *)
(* origin, the count of the requests that use it, and its replacement when *)
(* it is full or was idle for long.  A request gives back an origin, not   *)
(* the agent that it got.  That an agent was not used for the idle timeout *)
(* is a flag.  The sockets of agents are left out.                         *)
(***************************************************************************)
EXTENDS Naturals, FiniteSets

CONSTANTS Origins, PoolUsers, MaxConnections, NoAgent,
          MaxAgents   \* bound on the agents made

ASSUME ConnectionAssumption ==
  /\ MaxConnections \in Nat \ {0} /\ MaxAgents \in Nat /\ IsFiniteSet(PoolUsers)
  /\ NoAgent \notin [agent : Nat, active : Nat, idle : BOOLEAN]
  /\ NoAgent \notin [origin : Origins, agent : Nat]

VARIABLES
  agentOf,      \* by origin: what the pool has: agent, activeRequests, idle
  using,        \* by user: origin and agent, or NoAgent
  agents,       \* how many were made; they are numbered
  destroyed,
  cleaning,     \* the cleanup timer is set
  short         \* history: agents whose count a request with another lowered

connectionVars == <<agentOf, using, agents, destroyed, cleaning, short>>

Pooled == {o \in Origins : agentOf[o] # NoAgent}
UsersOf(o)   == {u \in PoolUsers : using[u] # NoAgent /\ using[u].origin = o}
UsersWith(a) == {u \in PoolUsers : using[u] # NoAgent /\ using[u].agent = a}

ConnectionTypeOK ==
  /\ \A o \in Pooled : agentOf[o] \in [agent : 1..agents, active : 0..MaxConnections, idle : BOOLEAN]
  /\ \A u \in PoolUsers : using[u] = NoAgent \/ using[u] \in [origin : Origins, agent : 1..agents]
  /\ agents \in Nat /\ destroyed \subseteq 1..agents /\ cleaning \in BOOLEAN
  /\ short \subseteq 1..agents

ConnectionInit ==
  /\ agentOf = [o \in Origins |-> NoAgent] /\ using = [u \in PoolUsers |-> NoAgent]
  /\ agents = 0 /\ destroyed = {} /\ cleaning = TRUE /\ short = {}

Healthy(o) == ~agentOf[o].idle /\ agentOf[o].active < MaxConnections

(* What if a request released what is no longer there?                     *)
ReleasedBelow(active) == active - 1

Released(active) == IF active = 0 THEN 0 ELSE active - 1

(* getConnection: the agent that is there, or another in its place.        *)
GetConnection(u, o) ==
  /\ using[u] = NoAgent
  /\ IF o \in Pooled /\ Healthy(o)
     THEN /\ agentOf' = [agentOf EXCEPT ![o] = [agent |-> @.agent, active |-> @.active + 1, idle |-> FALSE]]
          /\ using' = [using EXCEPT ![u] = [origin |-> o, agent |-> agentOf[o].agent]]
          /\ UNCHANGED <<agents, destroyed>>
     ELSE /\ agents < MaxAgents /\ agents' = agents + 1
          /\ agentOf' = [agentOf EXCEPT ![o] = [agent |-> agents', active |-> 1, idle |-> FALSE]]
          /\ using' = [using EXCEPT ![u] = [origin |-> o, agent |-> agents']]
          /\ destroyed' = IF o \in Pooled THEN destroyed \cup {agentOf[o].agent} ELSE destroyed
  /\ UNCHANGED <<cleaning, short>>

(* The agent that the pool has for this origin is not the one given back.  *)
Stale(u) ==
  LET o == using[u].origin
  IN  o \in Pooled /\ agentOf[o].active > 0 /\ agentOf[o].agent # using[u].agent

(* releaseConnection: one less for whichever agent the pool has by now.    *)
ReleaseConnection(u) ==
  /\ using[u] # NoAgent
  /\ LET o == using[u].origin
     IN /\ agentOf' = IF o \in Pooled THEN [agentOf EXCEPT ![o].active = Released(@)] ELSE agentOf
        /\ short' = IF Stale(u) THEN short \cup {agentOf[o].agent} ELSE short
  /\ using' = [using EXCEPT ![u] = NoAgent]
  /\ UNCHANGED <<agents, destroyed, cleaning>>

(* The idle timeout passes after the last getConnection of an origin.      *)
Idles(o) ==
  /\ o \in Pooled /\ ~agentOf[o].idle
  /\ agentOf' = [agentOf EXCEPT ![o].idle = TRUE]
  /\ UNCHANGED <<using, agents, destroyed, cleaning, short>>

(* What if agents were cleaned up whoever uses them?                       *)
IdleAtAll(o) == agentOf[o].idle

Expired(o) == agentOf[o].idle /\ agentOf[o].active = 0

CleanupExpired ==
  LET gone == {o \in Pooled : Expired(o)}
  IN /\ cleaning /\ gone # {}
     /\ agentOf' = [o \in Origins |-> IF o \in gone THEN NoAgent ELSE agentOf[o]]
     /\ destroyed' = destroyed \cup {agentOf[o].agent : o \in gone}
     /\ UNCHANGED <<using, agents, cleaning, short>>

DestroyPool ==
  /\ cleaning' = FALSE
  /\ destroyed' = destroyed \cup {agentOf[o].agent : o \in Pooled}
  /\ agentOf' = [o \in Origins |-> NoAgent]
  /\ UNCHANGED <<using, agents, short>>

ConnectionNext ==
  \/ \E u \in PoolUsers : ReleaseConnection(u) \/ \E o \in Origins : GetConnection(u, o)
  \/ \E o \in Origins : Idles(o)
  \/ CleanupExpired \/ DestroyPool

ConnectionSpec == ConnectionInit /\ [][ConnectionNext]_connectionVars

-----------------------------------------------------------------------------
(* The agent of the pool is not destroyed.  Its count is that of the       *)
(* requests that hold it, until one that holds an earlier agent of the     *)
(* origin is given back: then it may be less.                              *)
ConnectionsSound ==
  /\ ConnectionTypeOK
  /\ \A o \in Pooled :
       LET a == agentOf[o].agent
       IN  /\ a \notin destroyed
           /\ agentOf[o].active <= Cardinality(UsersOf(o))
           /\ a \in short \/ agentOf[o].active = Cardinality(UsersWith(a))

(* An agent that a request holds is destroyed only for a new one, when it  *)
(* is full or was not used for long; or with the whole pool; or after its  *)
(* count was lowered by a request that holds an earlier one: the cleanup   *)
(* then takes it for unused.                                               *)
DestroyedWhenDue ==
  [][\A o \in Pooled :
       LET a == agentOf[o].agent
       IN  a \in destroyed' \ destroyed /\ UsersWith(a) # {} =>
             \/ ~Healthy(o) /\ agents' > agents
             \/ ~cleaning' /\ Pooled' = {}
             \/ a \in short]_connectionVars
=============================================================================

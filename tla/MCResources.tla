---------------------------- MODULE MCResources ----------------------------
(***************************************************************************)
(* What the gateway keeps count of, on small instances: the paged KV       *)
(* cache, the hot-swapped models, the KV pages of the native engine, the   *)
(* rate limiter and the keys and budgets of the front door, the places and *)
(* retries of distributed tasks, the records of managed models, the        *)
(* failures and the connections of upstreams, the configuration, and what  *)
(* the pages of the playground show.  The parts share nothing, so a        *)
(* behaviour picks one and the others keep still.                          *)
(***************************************************************************)
EXTENDS PagedKvCache, HotSwap, NativeKvBudget, FrontDoor, DistributedScheduler,
        ModelCatalog, RetryManager, ConnectionPool, ConfigStore, TaskPanel,
        RoutingPanel, TLC

CONSTANTS m1, m2, m3, p1, p2, p3, p4, h1, h2, h3, h4, v1, g1, g2,
          a1, a2, a3, a4, q1, f1, f2, f3, f4, k1, k2, w1, w2, c1, s1, t1, t2, e1, e2

(* A system prompt of a page, p1, which p2 and p4 extend, and another.     *)
MCPagesOf == (p1 :> 1) @@ (p2 :> 2) @@ (p3 :> 1) @@ (p4 :> 3)
MCExtends == {<<p, p>> : p \in Prompts} \cup {<<p2, p1>>, <<p4, p1>>, <<p4, p2>>}

(* Three requests of one key with a budget of one unit, and the master's.  *)
MCOwner == (h1 :> v1) @@ (h2 :> v1) @@ (h3 :> Master) @@ (h4 :> v1)
MCLimit == (v1 :> 1) @@ (Master :> 1)

(* The second task is more urgent than the first.                          *)
MCUrgencyRank == (g1 :> 5) @@ (g2 :> 1)

(* Two pulls of one source, whose artifact may be deleted between them, of *)
(* which an older catalogue holds one that runs; a local one, and Ollama's. *)
MCSourceOf     == (a1 :> "hub") @@ (a2 :> "hub") @@ (a3 :> "local") @@ (a4 :> "ollama")
MCPulledSource == (f1 :> "hub") @@ (f2 :> "hub") @@ (f3 :> "local") @@ (f4 :> "ollama")
MCOldCatalogs  == {(a1 :> [status |-> "ready", tagged |-> FALSE]) @@ (q1 :> NewRuntime(a1)) @@ Empty}

VARIABLE part

pageVars == <<configVars, panelVars, routingVars>>

parts == <<kvVars, swapVars, budgetVars, frontVars, gridVars, catalogVars, retryVars,
           connectionVars, pageVars, part>>

ResourcesInit ==
  /\ part \in {"kv", "swap", "budget", "limiter", "door", "grid", "catalog", "retry",
              "connections", "config", "tasks", "rules"}
  /\ KvInit /\ SwapInit /\ BudgetInit /\ DoorInit /\ GridInit /\ CatalogInit
  /\ RetryInit /\ ConnectionInit /\ ConfigInit /\ PanelInit /\ RoutingInit
  /\ part # "catalog" => older = Absent
  /\ part # "config" => configFile = config

ResourcesNext ==
  /\ UNCHANGED part
  /\ \/ part = "kv" /\ KvNext
        /\ UNCHANGED <<swapVars, budgetVars, frontVars, gridVars, catalogVars, retryVars, connectionVars, pageVars>>
     \/ part = "swap" /\ SwapNext
        /\ UNCHANGED <<kvVars, budgetVars, frontVars, gridVars, catalogVars, retryVars, connectionVars, pageVars>>
     \/ part = "budget" /\ BudgetNext
        /\ UNCHANGED <<kvVars, swapVars, frontVars, gridVars, catalogVars, retryVars, connectionVars, pageVars>>
     \/ part = "limiter" /\ LimiterNext
        /\ UNCHANGED <<kvVars, swapVars, budgetVars, doorVars, gridVars, catalogVars, retryVars, connectionVars, pageVars>>
     \/ part = "door" /\ DoorNext
        /\ UNCHANGED <<kvVars, swapVars, budgetVars, gridVars, catalogVars, retryVars, connectionVars, pageVars>>
     \/ part = "grid" /\ GridNext
        /\ UNCHANGED <<kvVars, swapVars, budgetVars, frontVars, catalogVars, retryVars, connectionVars, pageVars>>
     \/ part = "catalog" /\ CatalogNext
        /\ UNCHANGED <<kvVars, swapVars, budgetVars, frontVars, gridVars, retryVars, connectionVars, pageVars>>
     \/ part = "retry" /\ RetryNext
        /\ UNCHANGED <<kvVars, swapVars, budgetVars, frontVars, gridVars, catalogVars, connectionVars, pageVars>>
     \/ part = "connections" /\ ConnectionNext
        /\ UNCHANGED <<kvVars, swapVars, budgetVars, frontVars, gridVars, catalogVars, retryVars, pageVars>>
     \/ /\ UNCHANGED <<kvVars, swapVars, budgetVars, frontVars, gridVars, catalogVars, retryVars, connectionVars>>
        /\ \/ part = "config" /\ ConfigNext  /\ UNCHANGED <<panelVars, routingVars>>
           \/ part = "tasks"  /\ PanelNext   /\ UNCHANGED <<configVars, routingVars>>
           \/ part = "rules"  /\ RoutingNext /\ UNCHANGED <<configVars, panelVars>>

ResourcesSpec == ResourcesInit /\ [][ResourcesNext]_parts

(* What is cached is accounted for: every block of the KV cache by its     *)
(* readers, every place for a model by a model that is loaded or loading,  *)
(* every page of the native caches by an entry.                            *)
ModelCachesSound ==
  /\ part = "kv" => KvSound
  /\ part = "swap" => SwapSound
  /\ part = "budget" => CachesSound

(* Callers are admitted and charged as their keys allow.                   *)
AccountsSound == part \in {"limiter", "door"} => DoorSound

(* Places on the nodes of the grid are held by the tasks that run there.   *)
PlacesSound == part = "grid" => GridSound

(* What a restart and a caller find in the catalogue is what there is, and *)
(* the configuration they find is the one that was saved.                  *)
RecordsSound ==
  /\ part = "catalog" => CatalogSound
  /\ part = "config"  => ConfigSound

(* What the playground shows of the selected task is that task's, in the   *)
(* graph pane only for a result with a plan whose drawing is the only one  *)
(* and done; a rule that was saved stays unless a save raced.              *)
PagesSound ==
  /\ part = "tasks" => TasksShown
  /\ part = "rules" => SavedRulesStay

(* What is known of an upstream is what happened to the calls to it, and   *)
(* of an agent the requests that hold it, as long as none with an earlier  *)
(* agent was given back.                                                   *)
UpstreamsSound ==
  /\ part = "retry" => RetrySound
  /\ part = "connections" => ConnectionsSound

(* What is taken from a cache is due: only an eviction takes a block that  *)
(* is referred to, and the oldest entry goes first.                        *)
TakenWhenDue == OnlyEvictionDangles /\ OldestGoes

(* What is refused or cut off is due: the limiter refuses only in a full   *)
(* window, and an agent that a request holds is destroyed only for a new   *)
(* one or with the pool, unless a request with another lowered its count.  *)
RefusedWhenDue == RefusalIsDue /\ DestroyedWhenDue
=============================================================================

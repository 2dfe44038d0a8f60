------------------------------ MODULE FrontDoor ------------------------------
(***************************************************************************)
(* What a request passes before it is served (src/server/httpAccess.ts,    *)
(* src/server/http.ts) and what it is charged for after                    *)
(* (src/admin/opsStore.ts, src/admin/recordOpsUsage.ts): the key is looked *)
(* up, the rate limiter asked, the budgets checked, and the usage recorded *)
(* for the key that getLastAuth names.                                     *)
(*                                                                         *)
(* Once the store of keys and budgets is there, the awaits between these   *)
(* steps are microtasks, which no new request interrupts; before, requests *)
(* gather at the awaits of its first connection and go on in any order.    *)
(* A request costs one unit; limits are those of hard budgets, and their   *)
(* period is the whole behaviour.                                          *)
(***************************************************************************)
EXTENDS RateLimiter

CONSTANTS
  HttpRequests,
  Owner,        \* the key each comes with; not one of VirtualKeys: none, or master
  VirtualKeys,
  Master, Anonymous,
  OnPaidPath,   \* requests for INFERENCE_BUDGET_PREFIXES
  KeyRequired,  \* config.apiKey is set
  Limit         \* hard limit of each key

ASSUME DoorAssumption ==
  /\ IsFiniteSet(HttpRequests) /\ OnPaidPath \subseteq HttpRequests
  /\ Identities = VirtualKeys \cup {Master, Anonymous}
  /\ Anonymous \notin VirtualKeys \cup {Master}
  /\ Owner \in [HttpRequests -> Identities]
  /\ KeyRequired \in BOOLEAN
  /\ Limit \in [VirtualKeys \cup {Master} -> Nat]

VARIABLES
  store,        \* the connection of getOpsStore: "connecting", "ready", "broken"
  enabled,      \* virtual keys that are not revoked
  lastAuth,     \* this.lastAuth, shared by all requests
  stage,        \* where each request stands
  auth,         \* its own auth, once it is known
  caller,       \* the key its async context runs under
  spent,        \* usage recorded for each key
  together      \* history: most requests of a key between its check and its charge

doorVars == <<store, enabled, lastAuth, stage, auth, caller, spent, together>>
frontVars == <<limiterVars, doorVars>>

Waiting == {"resolving", "budget"}
Gone    == {"unauthorized", "limited", "over budget", "served"}

DoorTypeOK ==
  /\ LimiterTypeOK
  /\ store \in {"connecting", "ready", "broken"}
  /\ enabled \subseteq VirtualKeys
  /\ {lastAuth} \cup {auth[r] : r \in HttpRequests} \cup {caller[r] : r \in HttpRequests}
       \subseteq Identities
  /\ stage \in [HttpRequests -> {"new", "returning", "running"} \cup Waiting \cup Gone]
  /\ spent \in [Identities -> Nat] /\ together \in [Identities -> Nat]

DoorInit ==
  /\ LimiterInit
  /\ store = "connecting" /\ enabled = VirtualKeys
  /\ lastAuth = Anonymous
  /\ stage = [r \in HttpRequests |-> "new"]
  /\ auth = [r \in HttpRequests |-> Anonymous]
  /\ caller = [r \in HttpRequests |-> Anonymous]
  /\ spent = [k \in Identities |-> 0]
  /\ together = [k \in Identities |-> 0]

-----------------------------------------------------------------------------
(* Requests of key k that have passed its check and are not charged yet.   *)
Uncharged(k) == {r \in HttpRequests : stage[r] \in {"returning", "running"} /\ auth[r] = k}

Stage(r, s) ==
  /\ stage' = [stage EXCEPT ![r] = s]
  /\ together' = [k \in Identities |->
       LET n == Cardinality(Uncharged(k)') IN IF n > together[k] THEN n ELSE together[k]]

(* checkAsync once the auth is known: lastAuth, and finishCheck.           *)
Known(r, k) ==
  /\ auth' = [auth EXCEPT ![r] = k]
  /\ lastAuth' = k
  /\ \/ /\ KeyRequired /\ k = Anonymous
        /\ Stage(r, "unauthorized")
        /\ UNCHANGED limiterVars
     \/ /\ ~(KeyRequired /\ k = Anonymous)
        /\ Allow(k)
        /\ Stage(r, IF ~verdict'.ok THEN "limited"
                    ELSE IF r \in OnPaidPath /\ k # Anonymous THEN "budget"
                    ELSE "returning")
  /\ UNCHANGED <<store, enabled, caller, spent>>

(* A new request; no microtask of another is pending.                      *)
Quiet ==
  \A r \in HttpRequests :
    stage[r] # "returning" /\ (stage[r] \in Waiting => store = "connecting")

Arrive(r) ==
  /\ stage[r] = "new" /\ Quiet
  /\ IF Owner[r] \in VirtualKeys
     THEN /\ UNCHANGED auth
          /\ Stage(r, "resolving")
          /\ UNCHANGED <<limiterVars, store, enabled, lastAuth, caller, spent>>
     ELSE Known(r, Owner[r])

StoreConnects(end) ==
  /\ store = "connecting" /\ Quiet
  /\ store' = end
  /\ UNCHANGED <<limiterVars, enabled, lastAuth, stage, auth, caller, spent, together>>

(* resolveVirtualKey answers; a broken store knows no key.                 *)
KeyResolved(r) ==
  /\ stage[r] = "resolving" /\ store # "connecting"
  /\ Known(r, IF store = "ready" /\ Owner[r] \in enabled THEN Owner[r] ELSE Anonymous)

(* What if a budget were exceeded only beyond its limit?                   *)
BeyondLimit(k) == spent[k] > Limit[k]

(* getBudgetStatuses: what is spent has reached the limit.                 *)
Exceeded(k) == spent[k] >= Limit[k]

(* checkBudget answers; without a store it lets everything through.        *)
BudgetChecked(r) ==
  /\ stage[r] = "budget" /\ store # "connecting"
  /\ UNCHANGED auth
  /\ Stage(r, IF store = "ready" /\ Exceeded(auth[r]) THEN "over budget" ELSE "returning")
  /\ UNCHANGED <<limiterVars, store, enabled, lastAuth, caller, spent>>

(* The caller of checkAsync goes on, and asks whose request this is.       *)
Enter(r) ==
  /\ stage[r] = "returning"
  /\ UNCHANGED auth
  /\ Stage(r, "running")
  /\ caller' = [caller EXCEPT ![r] = lastAuth]
  /\ UNCHANGED <<limiterVars, store, enabled, lastAuth, auth, spent>>

(* The response is over; recordOpsUsage charges it, or fails to.           *)
Served(r) ==
  /\ stage[r] = "running" /\ Quiet
  /\ UNCHANGED auth
  /\ Stage(r, "served")
  /\ \/ store = "ready" /\ r \in OnPaidPath /\ spent' = [spent EXCEPT ![caller[r]] = @ + 1]
     \/ UNCHANGED spent
  /\ UNCHANGED <<limiterVars, store, enabled, lastAuth, caller>>

Revoke(k) ==
  /\ k \in enabled /\ Quiet
  /\ enabled' = enabled \ {k}
  /\ UNCHANGED <<limiterVars, store, lastAuth, stage, auth, caller, spent, together>>

DoorNext ==
  \/ \E r \in HttpRequests :
       Arrive(r) \/ KeyResolved(r) \/ BudgetChecked(r) \/ Enter(r) \/ Served(r)
  \/ \E end \in {"ready", "broken"} : StoreConnects(end)
  \/ \E k \in VirtualKeys : Revoke(k)
  \/ LimiterTick /\ UNCHANGED doorVars

DoorSpec == DoorInit /\ [][DoorNext]_frontVars

-----------------------------------------------------------------------------
(* A budget is overdrawn only by requests that were under way together     *)
(* when it was reached: as many as there were, less one.  (As long as each *)
(* request is charged to its own key: see ChargedToCaller.)                *)
OverdrawnByOverlap ==
  \/ \E r \in HttpRequests : caller[r] # Anonymous /\ caller[r] # auth[r]
  \/ \A k \in VirtualKeys \cup {Master} :
       Limit[k] > 0 /\ spent[k] > 0 => spent[k] < Limit[k] + together[k]

(* The door lets in what it may: in every window no more than RateMax of   *)
(* one identity, and beyond a budget only what was under way.              *)
DoorSound == DoorTypeOK /\ WindowKept /\ OverdrawnByOverlap

(* Auth is request-scoped, as opsAuthContext.ts says: what a request costs *)
(* is charged to the key it came with.                                     *)
ChargedToCaller ==
  \A r \in HttpRequests : stage[r] \in {"running", "served"} => caller[r] = auth[r]
=============================================================================

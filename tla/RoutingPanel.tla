---------------------------- MODULE RoutingPanel ----------------------------
(***************************************************************************)
(* The task rules of the playground's routing page (playground/script.js): *)
(* rules are added to and removed from the page's copy of the              *)
(* configuration, a save posts the copy as it is, and refreshes - when the *)
(* page is opened, every 25 seconds, on a click, after each save - put the *)
(* gateway's in its place.  Requests overtake each other on their way.     *)
(* The gateway replaces the list of rules (mergeAutoRoutingConfig of       *)
(* src/core/configStore.ts).  The form's other fields go the same way and  *)
(* are left out; one operator edits.                                       *)
(***************************************************************************)
EXTENDS Naturals, FiniteSets

CONSTANTS
  Rules,
  Refreshes, RuleSaves      \* bounds: requests of the two kinds under way

VARIABLES
  posted,      \* autoRouting.taskRoutes of the gateway
  edited,      \* autoRoutingConfig.taskRoutes of the page
  refresh,     \* by refresh: where it is, and what the gateway answered
  ruleSave,    \* by save: where it is, and the rules it carries
  made,        \* history: rules that were added, by the operator
  kept,        \* history: rules that the operator was told are saved
  raced        \* history: a save began while another was under way, or
               \* reached the gateway before a refresh with an older
               \* answer ended

routingVars == <<posted, edited, refresh, ruleSave, made, kept, raced>>

Free == [at |-> "free", rules |-> {}]

RoutingInit ==
  /\ posted = {} /\ edited = {}
  /\ refresh = [f \in Refreshes |-> Free]
  /\ ruleSave = [w \in RuleSaves |-> Free]
  /\ made = {} /\ kept = {} /\ raced = FALSE

(* addTaskRouteRule and removeTaskRouteRule.                               *)
AddTaskRouteRule(r) ==
  /\ r \notin made
  /\ edited' = edited \cup {r} /\ made' = made \cup {r}
  /\ UNCHANGED <<posted, refresh, ruleSave, kept, raced>>
RemoveTaskRouteRule(r) ==
  /\ r \in edited
  /\ edited' = edited \ {r} /\ kept' = kept \ {r}
  /\ UNCHANGED <<posted, refresh, ruleSave, made, raced>>

(* loadAutoRoutingOverview, and loadServerConfigBundle: all requests are   *)
(* answered before any is looked at.                                       *)
RefreshBegins(f) ==
  /\ refresh[f].at = "free"
  /\ refresh' = [refresh EXCEPT ![f].at = "asked"]
  /\ UNCHANGED <<posted, edited, ruleSave, made, kept, raced>>
RefreshAnswered(f) ==
  /\ refresh[f].at = "asked"
  /\ refresh' = [refresh EXCEPT ![f] = [at |-> "answered", rules |-> posted]]
  /\ UNCHANGED <<posted, edited, ruleSave, made, kept, raced>>
RefreshEnds(f) ==
  /\ refresh[f].at = "answered"
  /\ edited' = refresh[f].rules
  /\ refresh' = [refresh EXCEPT ![f] = Free]
  /\ UNCHANGED <<posted, ruleSave, made, kept, raced>>
(* What if a refresh that fails left the page with an empty list?          *)
RefreshEmpties(f) ==
  /\ refresh[f].at # "free"
  /\ edited' = {}
  /\ refresh' = [refresh EXCEPT ![f] = Free]
  /\ UNCHANGED <<posted, ruleSave, made, kept, raced>>

RefreshFails(f) ==
  /\ refresh[f].at # "free"
  /\ refresh' = [refresh EXCEPT ![f] = Free]
  /\ UNCHANGED <<posted, edited, ruleSave, made, kept, raced>>

(* saveAutoRoutingConfig: the body is made before the request.             *)
SaveBegins(w) ==
  /\ ruleSave[w].at = "free"
  /\ ruleSave' = [ruleSave EXCEPT ![w] = [at |-> "asked", rules |-> edited]]
  /\ raced' = (raced \/ \E v \in RuleSaves : ruleSave[v].at # "free")
  /\ UNCHANGED <<posted, edited, refresh, made, kept>>
SaveReaches(w) ==
  /\ ruleSave[w].at = "asked"
  /\ posted' = ruleSave[w].rules
  /\ ruleSave' = [ruleSave EXCEPT ![w].at = "answered"]
  /\ raced' = (raced \/ \E f \in Refreshes : refresh[f].at = "answered")
  /\ UNCHANGED <<edited, refresh, made, kept>>

(* The answer is the page's copy now, and a refresh begins.                *)
SaveEnds(w, f) ==
  /\ ruleSave[w].at = "answered" /\ refresh[f].at = "free"
  /\ edited' = ruleSave[w].rules
  /\ kept' = kept \cup (ruleSave[w].rules \cap posted)
  /\ refresh' = [refresh EXCEPT ![f].at = "asked"]
  /\ ruleSave' = [ruleSave EXCEPT ![w] = Free]
  /\ UNCHANGED <<posted, made, raced>>
SaveFails(w) ==
  /\ ruleSave[w].at # "free"
  /\ ruleSave' = [ruleSave EXCEPT ![w] = Free]
  /\ UNCHANGED <<posted, edited, refresh, made, kept, raced>>

RoutingNext ==
  \/ \E r \in Rules : AddTaskRouteRule(r) \/ RemoveTaskRouteRule(r)
  \/ \E f \in Refreshes : RefreshBegins(f) \/ RefreshAnswered(f) \/ RefreshEnds(f) \/ RefreshFails(f)
  \/ \E w \in RuleSaves : SaveBegins(w) \/ SaveReaches(w) \/ SaveFails(w)
                          \/ \E f \in Refreshes : SaveEnds(w, f)

-----------------------------------------------------------------------------
(* A rule that the operator was told is saved is in the gateway until the  *)
(* operator removes it - whatever refreshes discarded on the page in the   *)
(* meantime, and whatever edits were saved after it - unless a save raced  *)
(* another one or a refresh.                                               *)
SavedRulesStay == ~raced => kept \subseteq posted

=============================================================================

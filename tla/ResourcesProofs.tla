--------------------------- MODULE ResourcesProofs ---------------------------
(***************************************************************************)
(* What the parts composed in MCResources keep, for every value of their   *)
(* constants: each part has an inductive invariant of its own, and as the  *)
(* parts share nothing, the invariant of their sum is that the part that   *)
(* runs has its own.                                                       *)
(***************************************************************************)
EXTENDS MCResources, StoreProofs

(***************************************************************************)
(* The rules of the routing page.                                          *)
(***************************************************************************)
SaveUnder(w)  == ruleSave[w].at # "free"
SaveDone(w)   == ruleSave[w].at = "answered"

RoutingTypeOK ==
  /\ posted \subseteq Rules /\ edited \subseteq Rules /\ kept \subseteq Rules
  /\ refresh \in [Refreshes -> [at : {"free", "asked", "answered"}, rules : SUBSET Rules]]
  /\ ruleSave \in [RuleSaves -> [at : {"free", "asked", "answered"}, rules : SUBSET Rules]]
  /\ raced \in BOOLEAN

(* Unless a save raced, one is under way at most; what the operator was    *)
(* told is saved is on the page, in the answers to refreshes and in what   *)
(* a save carries; and a save that was answered is what the gateway has.   *)
Told ==
  /\ kept \subseteq posted /\ kept \subseteq edited
  /\ \A f \in Refreshes : refresh[f].at = "answered" => kept \subseteq refresh[f].rules
  /\ \A w \in RuleSaves : SaveUnder(w) => kept \subseteq ruleSave[w].rules
OneSave ==
  /\ \A v, w \in RuleSaves : SaveUnder(v) /\ SaveUnder(w) => v = w
  /\ \A w \in RuleSaves : SaveDone(w) =>
       /\ posted = ruleSave[w].rules
       /\ \A f \in Refreshes : refresh[f].at = "answered" => refresh[f].rules = posted

RoutingInv == RoutingTypeOK /\ (~raced => Told /\ OneSave)

LEMMA RulesStep == RoutingInv /\ [RoutingNext]_routingVars => RoutingInv'
<1> SUFFICES ASSUME RoutingInv, [RoutingNext]_routingVars PROVE RoutingInv'
  OBVIOUS
<1> USE DEF RoutingInv, RoutingTypeOK, Told, OneSave, SaveUnder, SaveDone
<1>1. ASSUME NEW r \in Rules, AddTaskRouteRule(r) PROVE RoutingInv'
  BY <1>1 DEF AddTaskRouteRule
<1>2. ASSUME NEW r \in Rules, RemoveTaskRouteRule(r) PROVE RoutingInv'
  BY <1>2 DEF RemoveTaskRouteRule
<1>3. ASSUME NEW f \in Refreshes, RefreshBegins(f) PROVE RoutingInv'
  BY <1>3 DEF RefreshBegins
<1>4. ASSUME NEW f \in Refreshes, RefreshAnswered(f) PROVE RoutingInv'
  BY <1>4 DEF RefreshAnswered
<1>5. ASSUME NEW f \in Refreshes, RefreshEnds(f) PROVE RoutingInv'
  BY <1>5 DEF RefreshEnds, Free
<1>6. ASSUME NEW f \in Refreshes, RefreshFails(f) PROVE RoutingInv'
  BY <1>6 DEF RefreshFails, Free
<1>7. ASSUME NEW w \in RuleSaves, SaveBegins(w) PROVE RoutingInv'
  BY <1>7 DEF SaveBegins
<1>8. ASSUME NEW w \in RuleSaves, SaveReaches(w) PROVE RoutingInv'
  BY ZenonT(60), <1>8 DEF SaveReaches
<1>9. ASSUME NEW w \in RuleSaves, SaveFails(w) PROVE RoutingInv'
  BY <1>9 DEF SaveFails, Free
<1>10. ASSUME NEW w \in RuleSaves, NEW f \in Refreshes, SaveEnds(w, f) PROVE RoutingInv'
  BY <1>10 DEF SaveEnds, Free
<1>11. CASE UNCHANGED routingVars
  BY <1>11 DEF routingVars
<1> HIDE DEF RoutingInv
<1> QED
  BY <1>1, <1>2, <1>3, <1>4, <1>5, <1>6, <1>7, <1>8, <1>9, <1>10, <1>11 DEF RoutingNext

LEMMA RulesStart == RoutingInit => RoutingInv
<1> SUFFICES ASSUME RoutingInit PROVE RoutingInv
  OBVIOUS
<1>1. Free \in [at : {"free", "asked", "answered"}, rules : SUBSET Rules]
  BY DEF Free
<1>2. RoutingTypeOK
  BY <1>1 DEF RoutingInit, RoutingTypeOK
<1>3. Told /\ OneSave
  BY DEF RoutingInit, Free, Told, OneSave, SaveUnder, SaveDone
<1> QED BY <1>2, <1>3 DEF RoutingInv

LEMMA RulesPart ==
  ASSUME [ResourcesNext]_parts PROVE part' = part /\ (part = "rules" => [RoutingNext]_routingVars)
<1>1. CASE UNCHANGED parts
  BY <1>1 DEF parts, pageVars, routingVars
<1>2. CASE ResourcesNext
  BY <1>2 DEF ResourcesNext, pageVars
<1> QED BY <1>1, <1>2

LEMMA RulesHold == RoutingInv => SavedRulesStay
BY DEF RoutingInv, Told, SavedRulesStay


(***************************************************************************)
(* The tasks of the playground, and their runs.                            *)
(***************************************************************************)
RunRecord == [task : PanelTasks \cup {NoTask}, end : {"none", "under way", "planned", "unplanned", "failed"},
              trace : Arrays \cup {NoTrace}]

PanelTypeOK ==
  /\ listed \subseteq PanelTasks /\ selected \in PanelTasks \cup {NoTask}
  /\ panelStatus \in [PanelTasks -> {"new", "pending", "running", "completed", "error"}]
  /\ panelResult \in [PanelTasks -> 0..MaxRuns]
  /\ panelRuns \in [RunIds -> RunRecord]
  /\ clientTrace \in Arrays \cup {NoTrace}
  /\ arrays \in [Arrays -> SUBSET RunIds]
  /\ \A d \in drawings : d = [of |-> d.of, at |-> d.at, plan |-> d.plan, number |-> d.number]
  /\ overlapped \in BOOLEAN /\ drawnOver \in BOOLEAN

RunsInOrder == \E n \in 0..MaxRuns : Begun = 1..n

RunsRun ==
  /\ \A r \in Under : panelStatus[panelRuns[r].task] = "running"
  /\ \A t \in PanelTasks : panelResult[t] # 0 => panelResult[t] \in Begun \ Under
  /\ \A t \in PanelTasks : panelStatus[t] = "new" => panelResult[t] = 0 /\ t \notin listed

DrawnForIt ==
  ~drawnOver =>
    /\ \A d, e \in drawings : d = e
    /\ selected # NoTask /\ panelResult[selected] # 0 =>
         /\ \A d \in drawings : d.of = panelResult[selected]
         /\ Planned(panelResult[selected]) =>
              \/ dagPane \in {FailedDiagram, panelResult[selected]}
              \/ \E d \in drawings : d.at = "sequence" /\ d.plan

Traced ==
  ~overlapped =>
    /\ \A q, r \in Under : q = r
    /\ \A r \in Under : clientTrace = <<"begun", r>>
    /\ \A r \in RunIds : arrays[<<"answer", r>>] = {}
    /\ \A r \in RunIds : arrays[<<"begun", r>>] = IF r \in Begun /\ panelRuns[r].end = "failed" THEN {r} ELSE {}
    /\ \A r \in Begun \ Under :
         TraceOf(r) = IF panelRuns[r].end = "failed" THEN <<"begun", r>> ELSE <<"answer", r>>


(* What does not depend on the panes and drawings.                         *)
RunsInv == PanelTypeOK /\ RunOnce /\ RunsInOrder /\ RunsRun /\ Traced

LEMMA SelectsTypes ==
  ASSUME PanelTypeOK, NEW t \in PanelTasks, NEW L, NEW status, NEW result, NEW ends,
         Selects(t, L, status, result, ends)
  PROVE  /\ selected' \in PanelTasks \cup {NoTask}
         /\ \A d \in drawings' : d = [of |-> d.of, at |-> d.at, plan |-> d.plan, number |-> d.number]
         /\ drawnOver' \in BOOLEAN
<1>1. CASE ~StillListed(t, L)
  BY <1>1 DEF Selects, PanelTypeOK
<1>2. CASE StillListed(t, L) /\ result[t] # 0
  <2>1. selected' = t /\ drawings' = drawings \cup {Drawing(result[t], ends[result[t]])}
        /\ drawnOver' = (drawnOver \/ drawings # {})
    BY <1>2 DEF Selects
  <2>2. drawnOver' \in BOOLEAN
    BY <2>1, Zenon
  <2> QED BY <2>1, <2>2 DEF Drawing, PanelTypeOK
<1>3. CASE StillListed(t, L) /\ result[t] = 0
  BY <1>3 DEF Selects, PanelTypeOK
<1> QED BY <1>1, <1>2, <1>3

LEMMA CreateKeepsRuns == ASSUME RunsInv, NEW t \in PanelTasks, CreateNewTask(t) PROVE RunsInv'
<1> USE DEF RunsInv
<1>1. PanelTypeOK'
  <2>1. PICK L, status : L = listed' /\ status = panelStatus' OBVIOUS
  <2>2. Selects(t, L, status, panelResult, RunEnd)
    BY <2>1 DEF CreateNewTask
  <2>3. PICK result, ends : result = panelResult /\ ends = RunEnd OBVIOUS
  <2>4. Selects(t, L, status, result, ends)
    BY <2>2, <2>3
  <2> HIDE DEF RunsInv
  <2>5. /\ selected' \in PanelTasks \cup {NoTask}
        /\ \A d \in drawings' : d = [of |-> d.of, at |-> d.at, plan |-> d.plan, number |-> d.number]
        /\ drawnOver' \in BOOLEAN
    BY <2>4, SelectsTypes DEF RunsInv
  <2>6. /\ listed' \subseteq PanelTasks
        /\ panelStatus' \in [PanelTasks -> {"new", "pending", "running", "completed", "error"}]
    BY DEF PanelTypeOK, CreateNewTask, RunsInv
  <2>7. UNCHANGED <<panelResult, panelRuns, clientTrace, arrays, overlapped>>
    BY DEF CreateNewTask
  <2>8. PanelTypeOK
    BY DEF RunsInv
  <2> QED BY <2>5, <2>6, <2>7, <2>8 DEF PanelTypeOK
<1>2. Begun' = Begun /\ Under' = Under
  BY DEF CreateNewTask, Begun, Under
<1>3. RunOnce' /\ RunsInOrder'
  BY <1>2 DEF RunOnce, RunsInOrder, CreateNewTask
<1>4. RunsRun'
  <2>1. /\ panelStatus[t] = "new" /\ listed' = listed \cup {t} /\ UNCHANGED <<panelRuns, panelResult>>
        /\ \A k \in PanelTasks : panelStatus'[k] = IF k = t THEN "pending" ELSE panelStatus[k]
    BY DEF CreateNewTask, PanelTypeOK
  <2>2. \A r \in Under : panelRuns[r].task # t /\ panelRuns[r].task \in PanelTasks
    BY <2>1 DEF RunsRun, Under, Begun, PanelTypeOK, RunRecord
  <2> QED BY <1>2, <2>1, <2>2 DEF RunsRun
<1>5. Traced'
  BY <1>2 DEF Traced, CreateNewTask, TraceOf
<1> QED BY <1>1, <1>3, <1>4, <1>5

(* Actions that leave the runs and the statuses alone.                     *)
LEMMA RunsKept ==
  ASSUME RunsInv, listed' \subseteq listed,
         UNCHANGED <<panelStatus, panelResult, panelRuns, clientTrace, arrays, overlapped>>,
         selected' \in PanelTasks \cup {NoTask},
         \A d \in drawings' : d = [of |-> d.of, at |-> d.at, plan |-> d.plan, number |-> d.number],
         drawnOver' \in BOOLEAN
  PROVE  RunsInv'
<1>1. PanelTypeOK'
  BY DEF PanelTypeOK, RunsInv
<1>2. Begun' = Begun /\ Under' = Under
  BY DEF Begun, Under
<1>3. RunOnce' /\ RunsInOrder' /\ RunsRun' /\ Traced'
  BY <1>2 DEF RunOnce, RunsInOrder, RunsRun, Traced, TraceOf, RunsInv
<1> QED BY <1>1, <1>3 DEF RunsInv

LEMMA SelectKeepsRuns == ASSUME RunsInv, NEW t \in PanelTasks, SelectTask(t) PROVE RunsInv'
<1>1. PICK L, status, result, ends : L = listed /\ status = panelStatus /\ result = panelResult /\ ends = RunEnd
  OBVIOUS
<1>2. Selects(t, L, status, result, ends)
  BY <1>1 DEF SelectTask
<1>3. /\ selected' \in PanelTasks \cup {NoTask}
      /\ \A d \in drawings' : d = [of |-> d.of, at |-> d.at, plan |-> d.plan, number |-> d.number]
      /\ drawnOver' \in BOOLEAN
  BY <1>2, SelectsTypes DEF RunsInv
<1> QED BY <1>3, RunsKept DEF SelectTask

LEMMA ClearKeepsRuns == ASSUME RunsInv, ClearAllTasks PROVE RunsInv'
<1>1. drawnOver' \in BOOLEAN /\ selected' \in PanelTasks \cup {NoTask} /\ listed' \subseteq listed /\ drawings' = drawings
  BY DEF ClearAllTasks, RunsInv, PanelTypeOK
<1>2. UNCHANGED <<panelStatus, panelResult, panelRuns, clientTrace, arrays, overlapped>>
  BY DEF ClearAllTasks
<1>3. \A d \in drawings' : d = [of |-> d.of, at |-> d.at, plan |-> d.plan, number |-> d.number]
  BY <1>1 DEF RunsInv, PanelTypeOK
<1> QED BY <1>1, <1>2, <1>3, RunsKept

LEMMA DrawnKeepsRuns ==
  ASSUME RunsInv, NEW d \in drawings, NEW fails \in BOOLEAN, SequenceDrawn(d, fails) \/ DagDrawn(d, fails)
  PROVE  RunsInv'
<1>1. d = [of |-> d.of, at |-> d.at, plan |-> d.plan, number |-> d.number]
  BY DEF RunsInv, PanelTypeOK
<1>2. [d EXCEPT !.at = "dag"] = [of |-> d.of, at |-> "dag", plan |-> d.plan, number |-> d.number]
  BY <1>1
<1>3. drawings' \subseteq drawings \cup {[d EXCEPT !.at = "dag"]}
  BY DEF SequenceDrawn, DagDrawn
<1>4. \A k \in drawings' : k = [of |-> k.of, at |-> k.at, plan |-> k.plan, number |-> k.number]
  BY <1>2, <1>3 DEF RunsInv, PanelTypeOK
<1>5. drawnOver' \in BOOLEAN /\ selected' \in PanelTasks \cup {NoTask} /\ listed' \subseteq listed
  BY DEF SequenceDrawn, DagDrawn, RunsInv, PanelTypeOK
<1>6. UNCHANGED <<panelStatus, panelResult, panelRuns, clientTrace, arrays, overlapped>>
  BY DEF SequenceDrawn, DagDrawn
<1> QED BY <1>4, <1>5, <1>6, RunsKept

LEMMA RunBeginsNext ==
  ASSUME RunsInv, RunCurrentTask
  PROVE  \E r \in RunIds :
           /\ r \notin Begun /\ Begun' = Begun \cup {r} /\ Under' = Under \cup {r}
           /\ \E n \in 0..MaxRuns : Begun' = 1..n
           /\ panelRuns' = [panelRuns EXCEPT ![r] = [task |-> selected, end |-> "under way", trace |-> NoTrace]]
           /\ clientTrace' = <<"begun", r>>
<1>1. PICK n \in 0..MaxRuns : Begun = 1..n
  BY DEF RunsInv, RunsInOrder
<1>2. MaxRuns \in Nat
  BY PanelAssumption
<1>3. Cardinality(1..n) = n
  <2>1. IF 1 > n THEN Cardinality(1..n) = 0 ELSE Cardinality(1..n) = n - 1 + 1
    BY FS_Interval, <1>2
  <2> QED BY <2>1, <1>2
<1>4. /\ panelRuns' = [panelRuns EXCEPT ![n + 1] = [task |-> selected, end |-> "under way", trace |-> NoTrace]]
      /\ clientTrace' = <<"begun", n + 1>>
  BY <1>1, <1>3 DEF RunCurrentTask
<1>5. n \in Nat /\ n + 1 <= MaxRuns
  <2>1. n \in Nat
    BY <1>2
  <2>2. n + 1 <= MaxRuns
    BY <1>1, <1>3 DEF RunCurrentTask
  <2> QED BY <2>1, <2>2
<1>6. n + 1 \in RunIds /\ n + 1 \notin Begun /\ n + 1 \in 0..MaxRuns
  <2>1. n + 1 \in 1..MaxRuns /\ n + 1 \in 0..MaxRuns
    BY <1>2, <1>5
  <2>2. n + 1 \notin 1..n
    BY <1>5
  <2> QED BY <1>1, <2>1, <2>2 DEF RunIds
<1>7. selected # NoTask
  BY DEF RunCurrentTask
<1>8. /\ panelRuns'[n + 1].task = selected /\ panelRuns'[n + 1].end = "under way"
      /\ \A q \in RunIds \ {n + 1} : panelRuns'[q] = panelRuns[q]
  BY <1>4, <1>6 DEF RunsInv, PanelTypeOK
<1>9. Begun' = Begun \cup {n + 1}
  BY <1>6, <1>7, <1>8 DEF Begun
<1>10. Under' = Under \cup {n + 1}
  <2>1. \A q \in Begun : q \in RunIds \ {n + 1}
    BY <1>6 DEF Begun
  <2> QED BY <1>8, <1>9, <2>1 DEF Under
<1>11. Begun' = 1..n + 1
  BY <1>1, <1>2, <1>9
<1> QED BY <1>4, <1>6, <1>9, <1>10, <1>11

LEMMA RunKeepsRuns == ASSUME RunsInv, RunCurrentTask PROVE RunsInv'
<1>1. PICK r \in RunIds :
           /\ r \notin Begun /\ Begun' = Begun \cup {r} /\ Under' = Under \cup {r}
           /\ \E n \in 0..MaxRuns : Begun' = 1..n
           /\ panelRuns' = [panelRuns EXCEPT ![r] = [task |-> selected, end |-> "under way", trace |-> NoTrace]]
           /\ clientTrace' = <<"begun", r>>
  BY RunBeginsNext
<1>2. PICK L, status, result, ends : L = listed /\ status = panelStatus' /\ result = panelResult /\ ends = RunEnd
  OBVIOUS
<1>3. /\ selected \in PanelTasks /\ panelStatus[selected] # "running"
      /\ panelStatus' = [panelStatus EXCEPT ![selected] = "running"]
      /\ UNCHANGED <<listed, panelResult, arrays>>
  BY DEF RunCurrentTask, RunsInv, PanelTypeOK
<1>4. Selects(selected, L, status, result, ends)
  BY <1>2 DEF RunCurrentTask
<1>5. PICK t \in PanelTasks : t = selected
  BY <1>3
<1>6. /\ selected' \in PanelTasks \cup {NoTask}
      /\ \A d \in drawings' : d = [of |-> d.of, at |-> d.at, plan |-> d.plan, number |-> d.number]
      /\ drawnOver' \in BOOLEAN
  <2>1. Selects(t, L, status, result, ends)
    BY <1>4, <1>5
  <2> QED BY <2>1, SelectsTypes DEF RunsInv
<1>7. overlapped' = (overlapped \/ Under # {})
  BY DEF RunCurrentTask
<1>8. PanelTypeOK'
  <2>1. overlapped' \in BOOLEAN
    BY <1>7, Zenon
  <2>2. [task |-> selected, end |-> "under way", trace |-> NoTrace] \in RunRecord
    BY <1>3 DEF RunRecord
  <2>3. panelRuns' \in [RunIds -> RunRecord]
    BY <1>1, <2>2 DEF RunsInv, PanelTypeOK
  <2>4. panelStatus' \in [PanelTasks -> {"new", "pending", "running", "completed", "error"}]
    BY <1>3 DEF RunsInv, PanelTypeOK
  <2>5. clientTrace' \in Arrays \cup {NoTrace}
    BY <1>1 DEF Arrays
  <2> QED BY <1>3, <1>6, <2>1, <2>3, <2>4, <2>5 DEF RunsInv, PanelTypeOK
<1>9. /\ panelRuns'[r].task = selected /\ panelRuns'[r].end = "under way"
      /\ \A q \in RunIds \ {r} : panelRuns'[q] = panelRuns[q]
  BY <1>1 DEF RunsInv, PanelTypeOK
<1>10. \A k \in PanelTasks : panelStatus'[k] = IF k = selected THEN "running" ELSE panelStatus[k]
  BY <1>3 DEF RunsInv, PanelTypeOK
<1>11. \A q \in Under : q \in RunIds /\ q # r /\ panelRuns[q].task \in PanelTasks /\ panelRuns[q].task # selected
  <2>1. \A q \in Under : q \in RunIds /\ q # r /\ panelRuns[q].task # NoTask
    BY <1>1 DEF Under, Begun
  <2>2. \A q \in RunIds : panelRuns[q].task \in PanelTasks \cup {NoTask}
    BY DEF RunsInv, PanelTypeOK, RunRecord
  <2> QED BY <1>3, <2>1, <2>2 DEF RunsInv, RunsRun
<1>12. RunOnce'
  <2>1. \A q \in Under : panelRuns'[q].task = panelRuns[q].task /\ panelRuns'[q].task # panelRuns'[r].task
    BY <1>9, <1>11
  <2>2. Under' = Under \cup {r} /\ \A p, q \in Under : panelRuns[q].task = panelRuns[p].task => q = p
    BY <1>1 DEF RunsInv, RunOnce
  <2> QED BY <2>1, <2>2 DEF RunOnce
<1>13. RunsInOrder'
  BY <1>1 DEF RunsInOrder
<1>14. RunsRun'
  <2>1. \A q \in Under : panelRuns'[q].task = panelRuns[q].task
    BY <1>9, <1>11
  <2>2. \A q \in Under' : panelStatus'[panelRuns'[q].task] = "running"
    <3>1. Under' = Under \cup {r} /\ \A q \in Under : panelStatus[panelRuns[q].task] = "running"
      BY <1>1 DEF RunsInv, RunsRun
    <3>2. \A q \in Under : panelStatus'[panelRuns'[q].task] = "running"
      BY <1>10, <1>11, <2>1, <3>1
    <3>3. panelStatus'[panelRuns'[r].task] = "running"
      BY <1>3, <1>9, <1>10
    <3> QED BY <3>1, <3>2, <3>3
  <2>3. \A k \in PanelTasks : panelResult'[k] # 0 => panelResult'[k] \in Begun' \ Under'
    BY <1>1, <1>3 DEF RunsInv, RunsRun
  <2>4. \A k \in PanelTasks : panelStatus'[k] = "new" => panelResult'[k] = 0 /\ k \notin listed'
    BY <1>3, <1>10 DEF RunsInv, RunsRun
  <2> QED BY <2>2, <2>3, <2>4 DEF RunsRun
<1>15. Traced'
  <2> SUFFICES ASSUME ~overlapped' PROVE Traced'
    BY DEF Traced
  <2>1. ~overlapped /\ Under = {} /\ Under' = {r}
    BY <1>1, <1>7
  <2>2. \A q \in Begun' \ Under' : q # r /\ q \in Begun \ Under /\ q \in RunIds
    BY <1>1 DEF Begun
  <2>3. Begun \subseteq RunIds
    BY DEF Begun
  <2> QED BY ZenonT(60), <1>1, <1>3, <1>9, <2>1, <2>2, <2>3 DEF RunsInv, Traced, TraceOf
<1> QED BY <1>8, <1>12, <1>13, <1>14, <1>15 DEF RunsInv

(* The run r of task t ends: its result is t's.                            *)
RunEnds(r, t, end) ==
  /\ r \in Under /\ t = panelRuns[r].task /\ t \in PanelTasks
  /\ Under' = Under \ {r} /\ Begun' = Begun /\ r \in Begun
  /\ panelRuns'[r].task = t /\ panelRuns'[r].end = end
  /\ \A q \in RunIds \ {r} : panelRuns'[q] = panelRuns[q]
  /\ panelResult' = [panelResult EXCEPT ![t] = r]
  /\ UNCHANGED <<listed, overlapped>>

LEMMA EndedRuns ==
  ASSUME RunsInv, NEW r \in Under, NEW status, NEW end \in {"planned", "unplanned", "failed"}, NEW trace,
         Ended(r, status, end, trace)
  PROVE  RunEnds(r, panelRuns[r].task, end)
<1> DEFINE t == panelRuns[r].task
<1>1. r \in RunIds /\ t # NoTask /\ t \in PanelTasks
  BY DEF Under, Begun, RunsInv, PanelTypeOK, RunRecord
<1>2. panelRuns' = [panelRuns EXCEPT ![r] = [task |-> t, end |-> end, trace |-> trace]]
  BY DEF Ended
<1>3. /\ panelRuns'[r].task = t /\ panelRuns'[r].end = end
      /\ \A q \in RunIds \ {r} : panelRuns'[q] = panelRuns[q]
  BY <1>1, <1>2 DEF RunsInv, PanelTypeOK
<1>4. Begun' = Begun
  BY <1>1, <1>3 DEF Begun
<1>5. Under' = Under \ {r}
  <2>1. \A q \in Begun : q \in RunIds
    BY DEF Begun
  <2> QED BY <1>3, <1>4, <2>1 DEF Under
<1>6. panelResult' = [panelResult EXCEPT ![t] = r] /\ UNCHANGED <<listed, overlapped>>
  BY DEF Ended
<1> QED BY <1>1, <1>3, <1>4, <1>5, <1>6 DEF RunEnds, Under

LEMMA EndedKeepsRuns ==
  ASSUME RunsInv, NEW r \in Under, NEW status \in {"completed", "error"},
         NEW end \in {"planned", "unplanned", "failed"}, NEW trace \in Arrays \cup {NoTrace},
         Ended(r, status, end, trace)
  PROVE  /\ RunOnce' /\ RunsInOrder' /\ RunsRun'
         /\ clientTrace' \in Arrays \cup {NoTrace} /\ arrays' \in [Arrays -> SUBSET RunIds] => PanelTypeOK'
<1>1. PICK t : t = panelRuns[r].task
  OBVIOUS
<1>2. RunEnds(r, t, end)
  BY <1>1, EndedRuns
<1>3. /\ panelStatus' = [panelStatus EXCEPT ![t] = status]
      /\ panelRuns' = [panelRuns EXCEPT ![r] = [task |-> t, end |-> end, trace |-> trace]]
  BY <1>1 DEF Ended
<1>4. /\ t \in PanelTasks /\ r \in RunIds /\ t # NoTask /\ r # 0
  <2>1. t \in PanelTasks /\ r \in RunIds
    BY <1>2 DEF RunEnds, Under, Begun
  <2> QED BY <2>1, PanelAssumption DEF RunIds
<1>5. /\ \A k \in PanelTasks : panelStatus'[k] = IF k = t THEN status ELSE panelStatus[k]
      /\ \A k \in PanelTasks : panelResult'[k] = IF k = t THEN r ELSE panelResult[k]
  BY <1>2, <1>3, <1>4 DEF RunsInv, PanelTypeOK, RunEnds
<1>6. \A q \in Under' : q \in Under /\ panelRuns'[q].task = panelRuns[q].task /\ panelRuns[q].task # t
                        /\ panelRuns[q].task \in PanelTasks
  <2>1. \A q \in Under' : q \in Under /\ q # r /\ q \in RunIds /\ panelRuns[q].task # NoTask
    BY <1>2 DEF RunEnds, Under, Begun
  <2>2. \A q \in RunIds : panelRuns[q].task \in PanelTasks \cup {NoTask}
    BY DEF RunsInv, PanelTypeOK, RunRecord
  <2>3. \A q \in Under' : panelRuns[q].task # t
    BY <1>1, <2>1 DEF RunsInv, RunOnce
  <2> QED BY <1>2, <2>1, <2>2, <2>3 DEF RunEnds
<1>7. RunOnce'
  BY <1>6 DEF RunsInv, RunOnce
<1>8. RunsInOrder'
  BY <1>2 DEF RunsInv, RunsInOrder, RunEnds
<1>9. RunsRun'
  <2>1. \A q \in Under' : panelStatus'[panelRuns'[q].task] = "running"
    BY <1>5, <1>6 DEF RunsInv, RunsRun
  <2>2. \A k \in PanelTasks : panelResult'[k] # 0 => panelResult'[k] \in Begun' \ Under'
    BY <1>2, <1>5 DEF RunsInv, RunsRun, RunEnds
  <2>3. \A k \in PanelTasks : panelStatus'[k] = "new" => panelResult'[k] = 0 /\ k \notin listed'
    BY <1>2, <1>5 DEF RunsInv, RunsRun, RunEnds
  <2> QED BY <2>1, <2>2, <2>3 DEF RunsRun
<1>10. ASSUME clientTrace' \in Arrays \cup {NoTrace} /\ arrays' \in [Arrays -> SUBSET RunIds] PROVE PanelTypeOK'
  <2>1. PICK L, st, result, ends :
          L = listed /\ st = panelStatus' /\ result = panelResult' /\ ends = [RunEnd EXCEPT ![r] = end]
    OBVIOUS
  <2>2. Selects(t, L, st, result, ends)
    BY <1>1, <2>1 DEF Ended
  <2>3. /\ selected' \in PanelTasks \cup {NoTask}
        /\ \A d \in drawings' : d = [of |-> d.of, at |-> d.at, plan |-> d.plan, number |-> d.number]
        /\ drawnOver' \in BOOLEAN
    BY <1>4, <2>2, SelectsTypes DEF RunsInv
  <2>4. [task |-> t, end |-> end, trace |-> trace] \in RunRecord
    BY <1>4 DEF RunRecord
  <2>5. panelRuns' \in [RunIds -> RunRecord]
    BY <1>3, <2>4 DEF RunsInv, PanelTypeOK
  <2>6. panelStatus' \in [PanelTasks -> {"new", "pending", "running", "completed", "error"}]
    BY <1>3 DEF RunsInv, PanelTypeOK
  <2>7. panelResult' \in [PanelTasks -> 0..MaxRuns]
    <3>1. r \in 0..MaxRuns
      BY <1>4, PanelAssumption DEF RunIds
    <3> QED BY <1>2, <3>1 DEF RunsInv, PanelTypeOK, RunEnds
  <2>8. listed' \subseteq PanelTasks /\ overlapped' \in BOOLEAN
    BY <1>2 DEF RunEnds, RunsInv, PanelTypeOK
  <2> QED BY <1>10, <2>3, <2>5, <2>6, <2>7, <2>8 DEF PanelTypeOK
<1> QED BY <1>7, <1>8, <1>9, <1>10

LEMMA AnswersKeepsRuns ==
  ASSUME RunsInv, NEW r \in RunIds, NEW end \in {"planned", "unplanned"}, ComputeAnswers(r, end) PROVE RunsInv'
<1>1. PICK trace : trace = <<"answer", r>>
  OBVIOUS
<1>2. r \in Under /\ Ended(r, "completed", end, trace) /\ trace \in Arrays
      /\ clientTrace' = trace /\ UNCHANGED arrays
  BY <1>1 DEF ComputeAnswers, Arrays
<1>3. end \in {"planned", "unplanned", "failed"}
  OBVIOUS
<1>4. RunOnce' /\ RunsInOrder' /\ RunsRun' /\ PanelTypeOK'
  <2>1. clientTrace' \in Arrays \cup {NoTrace} /\ arrays' \in [Arrays -> SUBSET RunIds]
    BY <1>2 DEF RunsInv, PanelTypeOK
  <2> QED BY <1>2, <1>3, <2>1, EndedKeepsRuns
<1>5. RunEnds(r, panelRuns[r].task, end) /\ panelRuns'[r].trace = trace
  <2>1. panelRuns'[r].trace = trace
    BY <1>2 DEF Ended, RunsInv, PanelTypeOK
  <2> QED BY <1>2, <1>3, <2>1, EndedRuns
<1>6. Traced'
  <2> SUFFICES ASSUME ~overlapped' PROVE Traced'
    BY DEF Traced
  <2>1. ~overlapped /\ Under = {r} /\ Under' = {} /\ Begun' = Begun /\ r \in Begun /\ Begun \subseteq RunIds
    BY <1>5 DEF RunsInv, Traced, RunEnds, Begun
  <2>2. /\ \A q \in RunIds \ {r} : panelRuns'[q] = panelRuns[q]
        /\ panelRuns'[r].end = end /\ panelRuns[r].end # "failed" /\ end # "failed"
    BY <1>5 DEF RunEnds, Under
  <2>3. \A q \in RunIds : arrays'[<<"begun", q>>] = IF q \in Begun' /\ panelRuns'[q].end = "failed" THEN {q} ELSE {}
    BY <1>2, <2>1, <2>2 DEF RunsInv, Traced
  <2>4. \A q \in Begun' \ Under' :
         panelRuns'[q].trace = IF panelRuns'[q].end = "failed" THEN <<"begun", q>> ELSE <<"answer", q>>
    BY ZenonT(60), <1>1, <1>5, <2>1, <2>2 DEF RunsInv, Traced, TraceOf
  <2> QED BY <1>2, <2>1, <2>3, <2>4 DEF RunsInv, Traced, TraceOf
<1> QED BY <1>4, <1>6 DEF RunsInv

LEMMA FailsKeepsRuns == ASSUME RunsInv, NEW r \in RunIds, ComputeFails(r) PROVE RunsInv'
<1>1. PICK trace : trace = clientTrace
  OBVIOUS
<1>2. r \in Under /\ Ended(r, "error", "failed", trace) /\ trace \in Arrays \cup {NoTrace}
      /\ clientTrace' = trace
  BY <1>1 DEF ComputeFails, RunsInv, PanelTypeOK
<1>3. arrays' = [arrays EXCEPT ![trace] = @ \cup {r}]
  BY <1>1 DEF ComputeFails
<1>4. RunOnce' /\ RunsInOrder' /\ RunsRun' /\ PanelTypeOK'
  <2>1. arrays' \in [Arrays -> SUBSET RunIds]
    <3>1. arrays \in [Arrays -> SUBSET RunIds]
      BY DEF RunsInv, PanelTypeOK
    <3>2. trace \in Arrays => arrays[trace] \cup {r} \in SUBSET RunIds
      BY <3>1
    <3> QED BY <1>3, <3>1, <3>2
  <2> QED BY <1>2, <2>1, EndedKeepsRuns
<1>5. RunEnds(r, panelRuns[r].task, "failed") /\ panelRuns'[r].trace = trace
  <2>1. panelRuns'[r].trace = trace
    BY <1>2 DEF Ended, RunsInv, PanelTypeOK
  <2> QED BY <1>2, <2>1, EndedRuns
<1>6. Traced'
  <2> SUFFICES ASSUME ~overlapped' PROVE Traced'
    BY DEF Traced
  <2>1. ~overlapped /\ Under = {r} /\ Under' = {} /\ Begun' = Begun /\ r \in Begun /\ Begun \subseteq RunIds
    BY <1>5 DEF RunsInv, Traced, RunEnds, Begun
  <2>2. /\ \A q \in RunIds \ {r} : panelRuns'[q] = panelRuns[q]
        /\ panelRuns'[r].end = "failed" /\ panelRuns[r].end # "failed"
    BY <1>5 DEF RunEnds, Under
  <2>3. trace = <<"begun", r>> /\ trace \in Arrays
    BY <1>1, <2>1 DEF RunsInv, Traced, Arrays
  <2>4. \A a \in Arrays : arrays'[a] = IF a = <<"begun", r>> THEN arrays[a] \cup {r} ELSE arrays[a]
    BY <1>3, <2>3 DEF RunsInv, PanelTypeOK
  <2>5. arrays[<<"begun", r>>] = {}
    BY <2>1, <2>2 DEF RunsInv, Traced
  <2>6. \A q \in RunIds : <<"begun", q>> \in Arrays /\ <<"answer", q>> \in Arrays
    BY DEF Arrays
  <2>7. \A q \in RunIds : arrays'[<<"begun", q>>] = IF q \in Begun' /\ panelRuns'[q].end = "failed" THEN {q} ELSE {}
    <3>1. \A q \in RunIds : arrays[<<"begun", q>>] = IF q \in Begun /\ panelRuns[q].end = "failed" THEN {q} ELSE {}
      BY <2>1 DEF RunsInv, Traced
    <3>2. arrays'[<<"begun", r>>] = {r}
      BY <2>4, <2>5, <2>6
    <3>3. \A q \in RunIds \ {r} : arrays'[<<"begun", q>>] = arrays[<<"begun", q>>]
      BY <2>4, <2>6
    <3> QED BY ZenonT(60), <2>1, <2>2, <3>1, <3>2, <3>3
  <2>8. \A q \in RunIds : arrays'[<<"answer", q>>] = {}
    BY <2>1, <2>4, <2>6 DEF RunsInv, Traced
  <2>9. \A q \in Begun' \ Under' :
         panelRuns'[q].trace = IF panelRuns'[q].end = "failed" THEN <<"begun", q>> ELSE <<"answer", q>>
    BY ZenonT(60), <1>5, <2>1, <2>2, <2>3 DEF RunsInv, Traced, TraceOf
  <2> QED BY <2>1, <2>7, <2>8, <2>9 DEF Traced, TraceOf
<1> QED BY <1>4, <1>6 DEF RunsInv

PaneInv == DetailIsTrue /\ SequenceIsOwn /\ DrawnForIt

(* A selection shows its task, whatever it changed of it before.           *)
LEMMA SelectsShow ==
  ASSUME PaneInv, PanelTypeOK, NEW t \in PanelTasks, NEW L, NEW status, NEW result, NEW ends,
         L = listed' /\ status = panelStatus' /\ result = panelResult',
         panelResult'[t] # 0 => ends[panelResult'[t]] = panelRuns'[panelResult'[t]].end,
         Selects(t, L, status, result, ends),
         listed \subseteq listed', panelResult' \in [PanelTasks -> 0..MaxRuns],
         \A k \in PanelTasks \ {t} : /\ panelStatus'[k] = panelStatus[k] /\ panelResult'[k] = panelResult[k]
                                     /\ panelResult[k] # 0 =>
                                          panelRuns'[panelResult[k]].end = panelRuns[panelResult[k]].end
  PROVE  PaneInv'
<1>1. t # NoTask
  BY PanelAssumption
<1>2. CASE t \notin listed'
  <2>1. UNCHANGED <<selected, detail, drawings, sequencePane, dagPane, drawnOver>>
    BY <1>2 DEF Selects, StillListed
  <2>2. selected = NoTask \/ (selected \in PanelTasks \ {t} /\ selected \in listed)
    BY <1>2 DEF PaneInv, DetailIsTrue, PanelTypeOK
  <2>3. DetailIsTrue'
    BY <2>1, <2>2 DEF PaneInv, DetailIsTrue
  <2>4. SequenceIsOwn'
    BY <2>1, <2>2 DEF PaneInv, SequenceIsOwn, FailedDiagram
  <2>5. DrawnForIt'
    BY <2>1, <2>2 DEF PaneInv, DrawnForIt, FailedDiagram, Planned
  <2> QED BY <2>3, <2>4, <2>5 DEF PaneInv
<1>3. CASE t \in listed'
  <2>1. selected' = t /\ detail' = panelStatus'[t]
    BY <1>3 DEF Selects, StillListed
  <2>2. DetailIsTrue'
    BY <1>1, <1>3, <2>1 DEF DetailIsTrue
  <2>3. CASE panelResult'[t] # 0
    <3>1. PICK d : d = Drawing(result[t], ends[result[t]])
      OBVIOUS
    <3>2. /\ drawings' = drawings \cup {d} /\ drawnOver' = (drawnOver \/ drawings # {})
          /\ sequencePane' = panelResult'[t]
      BY <1>3, <2>3, <3>1 DEF Selects, StillListed
    <3>3. d.of = panelResult'[t] /\ d.at = "sequence" /\ d.plan = (ends[panelResult'[t]] = "planned")
      BY <3>1 DEF Drawing
    <3>4. panelResult'[t] \in RunIds
      BY <2>3, PanelAssumption DEF RunIds
    <3>5. Planned(panelResult[t])' => d.plan
      BY <2>3, <3>3 DEF Planned
    <3>6. SequenceIsOwn'
      BY <2>1, <3>2 DEF SequenceIsOwn
    <3>7. DrawnForIt'
      <4> SUFFICES ASSUME ~drawnOver' PROVE DrawnForIt'
        BY DEF DrawnForIt
      <4>1. drawings' = {d}
        BY <3>2
      <4> QED BY <2>1, <3>3, <3>5, <4>1 DEF DrawnForIt
    <3> QED BY <2>2, <3>6, <3>7 DEF PaneInv
  <2>4. CASE panelResult'[t] = 0
    <3>1. /\ sequencePane' = 0 /\ UNCHANGED <<drawings, drawnOver>>
      BY <1>3, <2>4 DEF Selects, StillListed, NoDiagram
    <3>2. SequenceIsOwn'
      BY <2>1, <2>4, <3>1 DEF SequenceIsOwn
    <3>3. DrawnForIt'
      BY <2>1, <2>4, <3>1 DEF DrawnForIt, PaneInv
    <3> QED BY <2>2, <3>2, <3>3 DEF PaneInv
  <2> QED BY <2>3, <2>4
<1> QED BY <1>2, <1>3

LEMMA CreateShows == ASSUME RunsInv, PaneInv, NEW t \in PanelTasks, CreateNewTask(t) PROVE PaneInv'
<1>1. PICK L, status, result, ends : L = listed' /\ status = panelStatus' /\ result = panelResult' /\ ends = RunEnd
  OBVIOUS
<1>2. PanelTypeOK BY DEF RunsInv
<1>3. /\ listed' = listed \cup {t} /\ panelStatus' = [panelStatus EXCEPT ![t] = "pending"]
      /\ UNCHANGED <<panelResult, panelRuns>>
  BY DEF CreateNewTask
<1>4. Selects(t, L, status, result, ends)
  BY <1>1, <1>3 DEF CreateNewTask
<1>5. panelResult'[t] # 0 => ends[panelResult'[t]] = panelRuns'[panelResult'[t]].end
  BY <1>1, <1>2, <1>3 DEF RunEnd, RunsInv, RunsRun, Begun
<1>6. /\ panelResult' \in [PanelTasks -> 0..MaxRuns] /\ listed \subseteq listed'
      /\ \A k \in PanelTasks \ {t} : panelStatus'[k] = panelStatus[k]
  BY <1>2, <1>3 DEF PanelTypeOK
<1> QED BY <1>1, <1>2, <1>3, <1>4, <1>5, <1>6, SelectsShow

LEMMA SelectShows == ASSUME RunsInv, PaneInv, NEW t \in PanelTasks, SelectTask(t) PROVE PaneInv'
<1>1. PICK L, status, result, ends : L = listed' /\ status = panelStatus' /\ result = panelResult' /\ ends = RunEnd
  OBVIOUS
<1>2. PanelTypeOK BY DEF RunsInv
<1>3. UNCHANGED <<listed, panelStatus, panelResult, panelRuns>>
  BY DEF SelectTask
<1>4. Selects(t, L, status, result, ends)
  BY <1>1, <1>3 DEF SelectTask
<1>5. panelResult'[t] # 0 => ends[panelResult'[t]] = panelRuns'[panelResult'[t]].end
  BY <1>1, <1>2, <1>3 DEF RunEnd, RunsInv, RunsRun, Begun
<1>6. panelResult' \in [PanelTasks -> 0..MaxRuns]
  BY <1>2, <1>3 DEF PanelTypeOK
<1> QED BY <1>1, <1>2, <1>3, <1>4, <1>5, <1>6, SelectsShow

(* The run that begins is no result yet.                                   *)
LEMMA RunShows == ASSUME RunsInv, PaneInv, RunCurrentTask PROVE PaneInv'
<1>1. PICK r \in RunIds :
           /\ r \notin Begun /\ Begun' = Begun \cup {r} /\ Under' = Under \cup {r}
           /\ \E n \in 0..MaxRuns : Begun' = 1..n
           /\ panelRuns' = [panelRuns EXCEPT ![r] = [task |-> selected, end |-> "under way", trace |-> NoTrace]]
           /\ clientTrace' = <<"begun", r>>
  BY RunBeginsNext
<1>2. PanelTypeOK BY DEF RunsInv
<1>3. PICK t \in PanelTasks : t = selected
  BY DEF RunCurrentTask, RunsInv, PanelTypeOK
<1>4. /\ panelStatus' = [panelStatus EXCEPT ![t] = "running"] /\ UNCHANGED <<listed, panelResult>>
      /\ \A q \in RunIds \ {r} : panelRuns'[q] = panelRuns[q]
  BY <1>1, <1>2, <1>3 DEF RunCurrentTask, PanelTypeOK
<1>5. PICK L, status, result, ends : L = listed' /\ status = panelStatus' /\ result = panelResult' /\ ends = RunEnd
  OBVIOUS
<1>6. Selects(t, L, status, result, ends)
  BY <1>3, <1>4, <1>5 DEF RunCurrentTask
<1>7. /\ panelResult' \in [PanelTasks -> 0..MaxRuns]
      /\ \A k \in PanelTasks \ {t} : panelStatus'[k] = panelStatus[k]
      /\ \A k \in PanelTasks : panelResult[k] # 0 => panelResult[k] \in RunIds \ {r}
  BY <1>1, <1>2, <1>4 DEF PanelTypeOK, RunsInv, RunsRun, Begun
<1>8. panelResult'[t] # 0 => ends[panelResult'[t]] = panelRuns'[panelResult'[t]].end
  BY <1>4, <1>5, <1>7 DEF RunEnd
<1>9. \A k \in PanelTasks \ {t} : panelResult[k] # 0 =>
        panelRuns'[panelResult[k]].end = panelRuns[panelResult[k]].end
  BY <1>4, <1>7
<1> QED BY <1>2, <1>4, <1>5, <1>6, <1>7, <1>8, <1>9, SelectsShow

LEMMA EndedShows ==
  ASSUME RunsInv, PaneInv, NEW r \in Under, NEW st \in {"completed", "error"},
         NEW end \in {"planned", "unplanned", "failed"}, NEW trace,
         Ended(r, st, end, trace), PanelTypeOK'
  PROVE  PaneInv'
<1>1. PICK t : t = panelRuns[r].task
  OBVIOUS
<1>2. RunEnds(r, t, end)
  BY <1>1, EndedRuns
<1>3. PanelTypeOK BY DEF RunsInv
<1>4. PICK L, status, result, ends :
        L = listed' /\ status = panelStatus' /\ result = panelResult' /\ ends = [RunEnd EXCEPT ![r] = end]
  OBVIOUS
<1>5. /\ t \in PanelTasks /\ r \in RunIds /\ listed' = listed /\ panelResult'[t] = r
      /\ panelStatus' = [panelStatus EXCEPT ![t] = st] /\ panelRuns'[r].end = end
      /\ \A q \in RunIds \ {r} : panelRuns'[q] = panelRuns[q]
  BY <1>1, <1>2, <1>3 DEF RunEnds, Ended, PanelTypeOK, Begun
<1>6. Selects(t, L, status, result, ends)
  BY <1>1, <1>4, <1>5 DEF Ended
<1>7. panelResult'[t] # 0 => ends[panelResult'[t]] = panelRuns'[panelResult'[t]].end
  BY <1>4, <1>5 DEF RunEnd
<1>8. panelResult' \in [PanelTasks -> 0..MaxRuns] /\ listed \subseteq listed'
  BY <1>5 DEF PanelTypeOK
<1>9. \A k \in PanelTasks \ {t} : panelStatus'[k] = panelStatus[k] /\ panelResult'[k] = panelResult[k]
  BY <1>2, <1>3, <1>5 DEF RunEnds, PanelTypeOK
<1>10. \A k \in PanelTasks : panelResult[k] # 0 => panelResult[k] \in RunIds \ {r}
  BY DEF RunsInv, RunsRun, Begun
<1>11. \A k \in PanelTasks \ {t} : panelResult[k] # 0 =>
         panelRuns'[panelResult[k]].end = panelRuns[panelResult[k]].end
  BY <1>5, <1>10
<1> QED BY <1>3, <1>4, <1>5, <1>6, <1>7, <1>8, <1>9, <1>11, SelectsShow

LEMMA DrawnShows ==
  ASSUME RunsInv, PaneInv, NEW d \in drawings, NEW fails \in BOOLEAN, SequenceDrawn(d, fails) \/ DagDrawn(d, fails)
  PROVE  PaneInv'
<1>1. UNCHANGED <<listed, selected, detail, panelStatus, panelResult, panelRuns, drawnOver>>
  BY DEF SequenceDrawn, DagDrawn
<1>2. DetailIsTrue'
  BY <1>1 DEF PaneInv, DetailIsTrue
<1>3. sequencePane' \in {sequencePane, FailedDiagram}
  BY DEF SequenceDrawn, DagDrawn
<1>4. SequenceIsOwn'
  BY <1>1, <1>3 DEF PaneInv, SequenceIsOwn, FailedDiagram
<1>5. DrawnForIt'
  <2> SUFFICES ASSUME ~drawnOver' PROVE DrawnForIt'
    BY DEF DrawnForIt
  <2>1. ~drawnOver /\ drawings = {d}
    BY <1>1 DEF PaneInv, DrawnForIt
  <2>2. PICK e : e = [d EXCEPT !.at = "dag"]
    OBVIOUS
  <2>3. d = [of |-> d.of, at |-> d.at, plan |-> d.plan, number |-> d.number]
    BY DEF RunsInv, PanelTypeOK
  <2>4. e.of = d.of
    BY <2>2, <2>3
  <2>5. CASE SequenceDrawn(d, fails) /\ d.plan
    <3>1. dagPane' = d.of /\ drawings' = {e}
      BY <2>1, <2>2, <2>5 DEF SequenceDrawn
    <3> QED BY <1>1, <2>1, <2>4, <3>1 DEF PaneInv, DrawnForIt
  <2>6. CASE SequenceDrawn(d, fails) /\ ~d.plan
    <3>1. dagPane' = dagPane /\ drawings' = {}
      BY <2>1, <2>6 DEF SequenceDrawn
    <3> QED BY <1>1, <2>1, <2>6, <3>1 DEF PaneInv, DrawnForIt, Planned, FailedDiagram
  <2>7. CASE DagDrawn(d, fails)
    <3>1. dagPane' \in {dagPane, FailedDiagram} /\ drawings' = {} /\ d.at = "dag"
      BY <2>1, <2>7 DEF DagDrawn
    <3> QED BY <1>1, <2>1, <3>1 DEF PaneInv, DrawnForIt, Planned, FailedDiagram
  <2> QED BY <2>5, <2>6, <2>7
<1> QED BY <1>2, <1>4, <1>5 DEF PaneInv

LEMMA ClearShows == ASSUME RunsInv, PaneInv, ClearAllTasks PROVE PaneInv'
<1>1. selected' = NoTask /\ detail' = "hidden" /\ UNCHANGED <<drawings, drawnOver>>
  BY DEF ClearAllTasks
<1> QED BY <1>1 DEF PaneInv, DetailIsTrue, SequenceIsOwn, DrawnForIt

PanelInv == RunsInv /\ PaneInv

LEMMA PanelStep == PanelInv /\ [PanelNext]_panelVars => PanelInv'
<1> SUFFICES ASSUME RunsInv, PaneInv, [PanelNext]_panelVars PROVE RunsInv' /\ PaneInv'
  BY DEF PanelInv
<1>1. ASSUME NEW t \in PanelTasks, CreateNewTask(t) PROVE RunsInv' /\ PaneInv'
  BY <1>1, CreateKeepsRuns, CreateShows
<1>2. ASSUME NEW t \in PanelTasks, SelectTask(t) PROVE RunsInv' /\ PaneInv'
  BY <1>2, SelectKeepsRuns, SelectShows
<1>3. CASE RunCurrentTask
  BY <1>3, RunKeepsRuns, RunShows
<1>4. CASE ClearAllTasks
  BY <1>4, ClearKeepsRuns, ClearShows
<1>5. ASSUME NEW r \in RunIds, ComputeFails(r) PROVE RunsInv' /\ PaneInv'
  <2>1. RunsInv'
    BY <1>5, FailsKeepsRuns
  <2>2. PICK trace : trace = clientTrace
    OBVIOUS
  <2>3. r \in Under /\ Ended(r, "error", "failed", trace) /\ PanelTypeOK'
    BY <1>5, <2>1, <2>2 DEF ComputeFails, RunsInv
  <2> QED BY <2>1, <2>3, EndedShows
<1>6. ASSUME NEW r \in RunIds, NEW end \in {"planned", "unplanned"}, ComputeAnswers(r, end) PROVE RunsInv' /\ PaneInv'
  <2>1. RunsInv'
    BY <1>6, AnswersKeepsRuns
  <2>2. PICK trace : trace = clientTrace'
    OBVIOUS
  <2>3. r \in Under /\ Ended(r, "completed", end, trace) /\ PanelTypeOK'
    BY <1>6, <2>1, <2>2 DEF ComputeAnswers, RunsInv
  <2> QED BY <2>1, <2>3, EndedShows
<1>7. ASSUME NEW d \in drawings, NEW fails \in BOOLEAN, SequenceDrawn(d, fails) \/ DagDrawn(d, fails)
      PROVE RunsInv' /\ PaneInv'
  BY <1>7, DrawnKeepsRuns, DrawnShows
<1>8. CASE UNCHANGED panelVars
  <2>1. RunsInv'
    BY <1>8 DEF panelVars, RunsInv, PanelTypeOK, RunOnce, RunsInOrder, RunsRun, Traced, Begun, Under, TraceOf
  <2>2. PaneInv'
    BY <1>8 DEF panelVars, PaneInv, DetailIsTrue, SequenceIsOwn, DrawnForIt, Planned, FailedDiagram
  <2> QED BY <2>1, <2>2
<1> QED BY <1>1, <1>2, <1>3, <1>4, <1>5, <1>6, <1>7, <1>8 DEF PanelNext

LEMMA PanelStart == PanelInit => PanelInv
<1> SUFFICES ASSUME PanelInit PROVE PanelInv
  OBVIOUS
<1>1. Begun = {} /\ Under = {}
  BY DEF PanelInit, Begun, Under, NoRun
<1>2. PanelTypeOK
  <2>1. NoRun \in RunRecord
    BY DEF NoRun, RunRecord
  <2>2. panelResult \in [PanelTasks -> 0..MaxRuns]
    BY PanelAssumption DEF PanelInit
  <2> QED BY <2>1, <2>2 DEF PanelInit, PanelTypeOK
<1>3. RunOnce /\ RunsRun
  BY <1>1 DEF PanelInit, RunOnce, RunsRun
<1>4. RunsInOrder
  <2>1. 0 \in 0..MaxRuns /\ {} = 1..0
    BY PanelAssumption
  <2> QED BY <1>1, <2>1 DEF RunsInOrder
<1>5. Traced
  <2>1. \A a \in Arrays : arrays[a] = {}
    BY DEF PanelInit
  <2>2. \A r \in RunIds : <<"begun", r>> \in Arrays /\ <<"answer", r>> \in Arrays
    BY DEF Arrays
  <2> QED BY <1>1, <2>1, <2>2 DEF Traced
<1>6. PaneInv
  BY PanelAssumption DEF PanelInit, PaneInv, DetailIsTrue, SequenceIsOwn, DrawnForIt
<1> QED BY <1>2, <1>3, <1>4, <1>5, <1>6 DEF PanelInv, RunsInv

LEMMA PanelShown == PanelInv => TasksShown
<1> SUFFICES ASSUME PanelInv PROVE TasksShown
  OBVIOUS
<1>1. GraphIsOwn
  BY DEF PanelInv, PaneInv, DrawnForIt, GraphIsOwn
<1>2. TraceIsOwn
  <2>1. \A r \in Begun : r \in RunIds
    BY DEF Begun
  <2> QED BY <2>1 DEF PanelInv, RunsInv, Traced, TraceIsOwn
<1> QED BY <1>1, <1>2 DEF PanelInv, PaneInv, RunsInv, TasksShown

LEMMA TasksPart ==
  ASSUME [ResourcesNext]_parts PROVE part' = part /\ (part = "tasks" => [PanelNext]_panelVars)
<1>1. CASE UNCHANGED parts
  BY <1>1 DEF parts, pageVars, panelVars
<1>2. CASE ResourcesNext
  BY <1>2 DEF ResourcesNext, pageVars
<1> QED BY <1>1, <1>2

(* However runs and drawings overtake each other, the detail and the       *)
(* sequence pane are of the selected task; the graph pane is so only for a *)
(* result that has a plan, with no drawing under way and none drawn over   *)
(* another.  A rule it said is saved stays saved unless a save raced with  *)
(* another or with a refresh.                                              *)
THEOREM PagesCorrect == ResourcesSpec => []PagesSound
<1> DEFINE I == (part = "tasks" => PanelInv) /\ (part = "rules" => RoutingInv)
<1>1. ResourcesInit => I
  BY PanelStart, RulesStart DEF ResourcesInit
<1>2. I /\ [ResourcesNext]_parts => I'
  BY TasksPart, RulesPart, PanelStep, RulesStep
<1>3. I => PagesSound
  BY PanelShown, RulesHold DEF PagesSound
<1>4. QED
  BY <1>1, <1>2, <1>3, PTL DEF ResourcesSpec


(***************************************************************************)
(* The connection pool.                                                    *)
(***************************************************************************)
AgentsApart ==
  \A o, p \in Pooled : agentOf[o].agent = agentOf[p].agent => o = p

(* Who holds an agent of the pool got it for the origin that has it.       *)
HeldWhereMade ==
  \A o \in Pooled, u \in PoolUsers :
    using[u] # NoAgent /\ using[u].agent = agentOf[o].agent => using[u].origin = o

CountIs(o) == agentOf[o].agent \in short \/ agentOf[o].active = Cardinality(UsersWith(agentOf[o].agent))

CountExact == \A o \in Pooled : CountIs(o)

ConnectionInv ==
  /\ agentOf = [o \in Origins |-> agentOf[o]] /\ using = [u \in PoolUsers |-> using[u]]
  /\ ConnectionsSound /\ AgentsApart /\ HeldWhereMade

LEMMA UsersFinite ==
  /\ \A o : IsFiniteSet(UsersOf(o)) /\ Cardinality(UsersOf(o)) \in Nat
  /\ \A a : IsFiniteSet(UsersWith(a)) /\ Cardinality(UsersWith(a)) \in Nat
<1>1. (\A o : UsersOf(o) \subseteq PoolUsers) /\ (\A a : UsersWith(a) \subseteq PoolUsers)
  BY DEF UsersOf, UsersWith
<1> QED BY <1>1, ConnectionAssumption, FS_Subset, FS_CardinalityType

LEMMA NoAgentApart ==
  ASSUME NEW n \in Nat, NEW k \in Nat, NEW o \in Origins
  PROVE  [agent |-> n, active |-> k, idle |-> FALSE] # NoAgent /\ [origin |-> o, agent |-> n] # NoAgent
<1>1. [agent |-> n, active |-> k, idle |-> FALSE] \in [agent : Nat, active : Nat, idle : BOOLEAN]
  OBVIOUS
<1>2. [origin |-> o, agent |-> n] \in [origin : Origins, agent : Nat]
  OBVIOUS
<1> QED BY <1>1, <1>2, ConnectionAssumption

(* What a step makes of the requests of an origin and with an agent.       *)
LEMMA OneUserMore ==
  ASSUME NEW u \in PoolUsers, NEW o \in Origins, NEW a, using[u] = NoAgent,
         [origin |-> o, agent |-> a] # NoAgent, using = [v \in PoolUsers |-> using[v]],
         using' = [using EXCEPT ![u] = [origin |-> o, agent |-> a]]
  PROVE  /\ Cardinality(UsersOf(o))' = Cardinality(UsersOf(o)) + 1
         /\ \A p \in Origins \ {o} : Cardinality(UsersOf(p))' = Cardinality(UsersOf(p))
         /\ Cardinality(UsersWith(a))' = Cardinality(UsersWith(a)) + 1
         /\ \A b : b # a => Cardinality(UsersWith(b))' = Cardinality(UsersWith(b))
<1>1. UsersOf(o)' = UsersOf(o) \cup {u} /\ u \notin UsersOf(o)
  BY DEF UsersOf
<1>2. \A p \in Origins \ {o} : UsersOf(p)' = UsersOf(p)
  BY DEF UsersOf
<1>3. Cardinality(UsersOf(o) \cup {u}) = Cardinality(UsersOf(o)) + 1
  BY <1>1, UsersFinite, FS_AddElement
<1>4. UsersWith(a)' = UsersWith(a) \cup {u} /\ u \notin UsersWith(a)
  BY DEF UsersWith
<1>5. \A b : b # a => UsersWith(b)' = UsersWith(b)
  BY DEF UsersWith
<1>6. Cardinality(UsersWith(a) \cup {u}) = Cardinality(UsersWith(a)) + 1
  BY <1>4, UsersFinite, FS_AddElement
<1> QED BY <1>1, <1>2, <1>3, <1>4, <1>5, <1>6

LEMMA OneUserLess ==
  ASSUME NEW u \in PoolUsers, NEW o \in Origins, NEW a, using[u] # NoAgent,
         using[u].origin = o, using[u].agent = a,
         using = [v \in PoolUsers |-> using[v]], using' = [using EXCEPT ![u] = NoAgent]
  PROVE  /\ Cardinality(UsersOf(o))' = Cardinality(UsersOf(o)) - 1
         /\ \A p \in Origins \ {o} : Cardinality(UsersOf(p))' = Cardinality(UsersOf(p))
         /\ Cardinality(UsersWith(a))' = Cardinality(UsersWith(a)) - 1
         /\ \A b : b # a => Cardinality(UsersWith(b))' = Cardinality(UsersWith(b))
<1>1. UsersOf(o)' = UsersOf(o) \ {u} /\ u \in UsersOf(o)
  BY DEF UsersOf
<1>2. \A p \in Origins \ {o} : UsersOf(p)' = UsersOf(p)
  BY DEF UsersOf
<1>3. Cardinality(UsersOf(o) \ {u}) = Cardinality(UsersOf(o)) - 1
  BY <1>1, UsersFinite, FS_RemoveElement
<1>4. UsersWith(a)' = UsersWith(a) \ {u} /\ u \in UsersWith(a)
  BY DEF UsersWith
<1>5. \A b : b # a => UsersWith(b)' = UsersWith(b)
  BY DEF UsersWith
<1>6. Cardinality(UsersWith(a) \ {u}) = Cardinality(UsersWith(a)) - 1
  BY <1>4, UsersFinite, FS_RemoveElement
<1> QED BY <1>1, <1>2, <1>3, <1>4, <1>5, <1>6

LEMMA GetKeeps ==
  ASSUME ConnectionInv, NEW u \in PoolUsers, NEW o \in Origins, GetConnection(u, o)
  PROVE  ConnectionInv'
<1> USE DEF ConnectionInv, ConnectionsSound, ConnectionTypeOK
<1>1. CASE o \in Pooled /\ Healthy(o)
  <2>1. PICK n, k : n = agentOf[o].agent /\ k = agentOf[o].active
    OBVIOUS
  <2>2. n \in 1..agents /\ k \in 0..MaxConnections /\ k < MaxConnections /\ k + 1 \in 0..MaxConnections
    BY <1>1, <2>1, ConnectionAssumption DEF Healthy
  <2>3. /\ agentOf' = [agentOf EXCEPT ![o] = [agent |-> n, active |-> k + 1, idle |-> FALSE]]
        /\ using' = [using EXCEPT ![u] = [origin |-> o, agent |-> n]]
        /\ UNCHANGED <<agents, destroyed, cleaning, short>> /\ using[u] = NoAgent
    BY <1>1, <2>1 DEF GetConnection
  <2>4. [agent |-> n, active |-> k + 1, idle |-> FALSE] # NoAgent /\ [origin |-> o, agent |-> n] # NoAgent
    <3>1. n \in Nat /\ k + 1 \in Nat
      BY <2>2
    <3> QED BY <3>1, NoAgentApart
  <2>5. Pooled' = Pooled
    BY <1>1, <2>3, <2>4 DEF Pooled
  <2>6. Cardinality(UsersOf(o))' = Cardinality(UsersOf(o)) + 1
        /\ (\A p \in Origins \ {o} : Cardinality(UsersOf(p))' = Cardinality(UsersOf(p)))
        /\ Cardinality(UsersWith(n))' = Cardinality(UsersWith(n)) + 1
        /\ \A b : b # n => Cardinality(UsersWith(b))' = Cardinality(UsersWith(b))
    <3>1. using = [v \in PoolUsers |-> using[v]] /\ using[u] = NoAgent
          /\ using' = [using EXCEPT ![u] = [origin |-> o, agent |-> n]]
          /\ [origin |-> o, agent |-> n] # NoAgent
      BY <2>3, <2>4
    <3> HIDE DEF ConnectionInv, ConnectionsSound, ConnectionTypeOK
    <3> QED BY <3>1, OneUserMore
  <2>7. AgentsApart'
    BY <1>1, <2>1, <2>3, <2>5 DEF AgentsApart, Pooled
  <2>8. ConnectionTypeOK'
    BY <2>2, <2>3, <2>5 DEF Pooled
  <2>9. \A p \in Pooled' : agentOf'[p].agent \notin destroyed'
    BY <1>1, <2>1, <2>3, <2>5 DEF Pooled
  <2>10. \A p \in Pooled' : agentOf'[p].active <= Cardinality(UsersOf(p))'
    BY <1>1, <2>1, <2>2, <2>3, <2>5, <2>6, UsersFinite DEF Pooled
  <2>11. HeldWhereMade'
    BY <1>1, <2>1, <2>3, <2>5 DEF HeldWhereMade, AgentsApart, Pooled
  <2>12. CountExact'
    <3>1. \A p \in Pooled \ {o} : agentOf[p].agent # n
      BY <1>1, <2>1 DEF AgentsApart
    <3>2. n \in short \/ k = Cardinality(UsersWith(n))
      BY <1>1, <2>1
    <3>3. agentOf'[o].agent = n /\ agentOf'[o].active = k + 1 /\ \A p \in Pooled \ {o} : agentOf'[p] = agentOf[p]
      BY <1>1, <2>3 DEF Pooled
    <3>4. n \in short' \/ k + 1 = Cardinality(UsersWith(n))'
      BY <2>3, <2>6, <3>2
    <3>5. ASSUME NEW p \in Pooled \ {o}
          PROVE  CountIs(p)'
      <4>1. PICK b : b = agentOf[p].agent
        OBVIOUS
      <4>2. b \in short \/ agentOf[p].active = Cardinality(UsersWith(b))
        BY <4>1
      <4>3. Cardinality(UsersWith(b))' = Cardinality(UsersWith(b)) /\ agentOf'[p].agent = b
        BY <2>6, <3>1, <3>3, <4>1
      <4>4. b \in short' \/ agentOf'[p].active = Cardinality(UsersWith(b))'
        BY <2>3, <3>3, <4>2, <4>3
      <4> QED BY <4>3, <4>4 DEF CountIs
    <3>6. CountIs(o)'
      BY <3>3, <3>4 DEF CountIs
    <3> QED BY <2>5, <3>5, <3>6 DEF CountExact
  <2> QED BY <2>3, <2>7, <2>8, <2>9, <2>10, <2>11, <2>12 DEF CountExact, CountIs
<1>2. CASE ~(o \in Pooled /\ Healthy(o))
  <2>1. PICK n : n = agents + 1
    OBVIOUS
  <2>3. /\ agentOf' = [agentOf EXCEPT ![o] = [agent |-> n, active |-> 1, idle |-> FALSE]]
        /\ using' = [using EXCEPT ![u] = [origin |-> o, agent |-> n]]
        /\ destroyed' \subseteq destroyed \cup (IF o \in Pooled THEN {agentOf[o].agent} ELSE {})
        /\ agents' = n /\ UNCHANGED <<cleaning, short>> /\ using[u] = NoAgent
    BY <1>2, <2>1 DEF GetConnection
  <2>2. n \in Nat /\ n >= 1 /\ \A k \in 1..agents : k \in 1..n /\ k # n
    BY <2>1
  <2>4. [agent |-> n, active |-> 1, idle |-> FALSE] # NoAgent /\ [origin |-> o, agent |-> n] # NoAgent
    BY <2>2, NoAgentApart
  <2>5. Pooled' = Pooled \cup {o}
    BY <2>3, <2>4 DEF Pooled
  <2>6. Cardinality(UsersOf(o))' = Cardinality(UsersOf(o)) + 1
        /\ (\A p \in Origins \ {o} : Cardinality(UsersOf(p))' = Cardinality(UsersOf(p)))
        /\ Cardinality(UsersWith(n))' = Cardinality(UsersWith(n)) + 1
        /\ \A b : b # n => Cardinality(UsersWith(b))' = Cardinality(UsersWith(b))
    <3>1. using = [v \in PoolUsers |-> using[v]] /\ using[u] = NoAgent
          /\ using' = [using EXCEPT ![u] = [origin |-> o, agent |-> n]]
          /\ [origin |-> o, agent |-> n] # NoAgent
      BY <2>3, <2>4
    <3> HIDE DEF ConnectionInv, ConnectionsSound, ConnectionTypeOK
    <3> QED BY <3>1, OneUserMore
  <2>7. AgentsApart'
    BY <2>2, <2>3, <2>5 DEF AgentsApart, Pooled
  <2>8. ConnectionTypeOK'
    <3>1. 1 \in 0..MaxConnections
      BY ConnectionAssumption
    <3>2. destroyed' \subseteq 1..n /\ short' \subseteq 1..n
      BY <2>2, <2>3
    <3> QED BY <2>2, <2>3, <2>5, <3>1, <3>2 DEF Pooled
  <2>9. \A p \in Pooled' : agentOf'[p].agent \notin destroyed'
    BY <2>2, <2>3, <2>5 DEF Pooled, AgentsApart
  <2>10. \A p \in Pooled' : agentOf'[p].active <= Cardinality(UsersOf(p))'
    BY <2>3, <2>5, <2>6, UsersFinite DEF Pooled
  <2>11. \A v \in PoolUsers : using[v] # NoAgent => using[v].agent # n
    BY <2>2
  <2>12. HeldWhereMade'
    BY <2>2, <2>3, <2>5, <2>11 DEF HeldWhereMade, Pooled
  <2>13. CountExact'
    <3>1. \A p \in Pooled \ {o} : agentOf[p].agent # n
      BY <2>2
    <3>2. UsersWith(n) = {}
      BY <2>11 DEF UsersWith
    <3>3. agentOf'[o].agent = n /\ agentOf'[o].active = 1 /\ \A p \in Pooled \ {o} : agentOf'[p] = agentOf[p]
      BY <2>3 DEF Pooled
    <3>4. Cardinality(UsersWith(n))' = 1
      BY <2>6, <3>2, FS_EmptySet
    <3>5. ASSUME NEW p \in Pooled \ {o}
          PROVE  CountIs(p)'
      <4>1. PICK b : b = agentOf[p].agent
        OBVIOUS
      <4>2. b \in short \/ agentOf[p].active = Cardinality(UsersWith(b))
        BY <4>1
      <4>3. Cardinality(UsersWith(b))' = Cardinality(UsersWith(b)) /\ agentOf'[p].agent = b
        BY <2>6, <3>1, <3>3, <4>1
      <4>4. b \in short' \/ agentOf'[p].active = Cardinality(UsersWith(b))'
        BY <2>3, <3>3, <4>2, <4>3
      <4> QED BY <4>3, <4>4 DEF CountIs
    <3>6. CountIs(o)'
      BY <3>3, <3>4 DEF CountIs
    <3> QED BY <2>5, <3>5, <3>6 DEF CountExact
  <2> QED BY <2>3, <2>7, <2>8, <2>9, <2>10, <2>12, <2>13 DEF CountExact, CountIs
<1> QED BY <1>1, <1>2

LEMMA ReleaseKeeps == ASSUME ConnectionInv, NEW u \in PoolUsers, ReleaseConnection(u) PROVE ConnectionInv'
<1> USE DEF ConnectionInv, ConnectionsSound, ConnectionTypeOK
<1>1. PICK o \in Origins : o = using[u].origin
  BY DEF ReleaseConnection
<1>2. /\ using' = [using EXCEPT ![u] = NoAgent] /\ using[u] # NoAgent
      /\ UNCHANGED <<agents, destroyed, cleaning>>
  BY DEF ReleaseConnection
<1>0. PICK a : a = using[u].agent
  OBVIOUS
<1>3. /\ Cardinality(UsersOf(o))' = Cardinality(UsersOf(o)) - 1
      /\ \A p \in Origins \ {o} : Cardinality(UsersOf(p))' = Cardinality(UsersOf(p))
      /\ Cardinality(UsersWith(a))' = Cardinality(UsersWith(a)) - 1
      /\ \A b : b # a => Cardinality(UsersWith(b))' = Cardinality(UsersWith(b))
  BY <1>0, <1>1, <1>2, OneUserLess
<1>7. short \subseteq short' /\ short' \subseteq 1..agents
  BY <1>1 DEF ReleaseConnection, Stale
<1>8. \A v \in PoolUsers : using'[v] # NoAgent => using[v] = using'[v]
  BY <1>2
(* The other origins' agents are none that u holds.                        *)
<1>9. ASSUME NEW p \in Pooled \ {o}, agentOf'[p] = agentOf[p]
      PROVE  CountIs(p)'
  <2>1. PICK b : b = agentOf[p].agent
    OBVIOUS
  <2>2. b # a
    BY <1>0, <1>1, <1>2, <2>1 DEF HeldWhereMade
  <2>3. b \in short \/ agentOf[p].active = Cardinality(UsersWith(b))
    BY <2>1
  <2>4. b \in short' \/ agentOf'[p].active = Cardinality(UsersWith(b))'
    BY <1>3, <1>7, <1>9, <2>2, <2>3
  <2> QED BY <1>9, <2>1, <2>4 DEF CountIs
<1>4. Cardinality(UsersOf(o)) >= 1
  <2>1. UsersOf(o) # {}
    BY <1>1, <1>2 DEF UsersOf
  <2> QED BY <2>1, UsersFinite, FS_EmptySet
<1>5. CASE o \in Pooled
  <2>1. PICK n, k, i : n = agentOf[o].agent /\ k = agentOf[o].active /\ i = agentOf[o].idle
    OBVIOUS
  <2>2. n \in 1..agents /\ k \in 0..MaxConnections /\ Released(k) \in 0..MaxConnections /\ Released(k) <= k
        /\ (k > 0 => Released(k) = k - 1) /\ agentOf[o] = [agent |-> n, active |-> k, idle |-> i] /\ i \in BOOLEAN
    BY <1>5, <2>1, ConnectionAssumption DEF Released
  <2>3. agentOf' = [agentOf EXCEPT ![o].active = Released(k)]
    BY <1>1, <1>5, <2>1 DEF ReleaseConnection
  <2>4. agentOf'[o] = [agent |-> n, active |-> Released(k), idle |-> i]
        /\ \A p \in Origins \ {o} : agentOf'[p] = agentOf[p]
    BY <2>2, <2>3
  <2>5. agentOf'[o] # NoAgent
    <3>1. n \in Nat /\ Released(k) \in Nat
      BY <2>2
    <3>2. agentOf'[o] \in [agent : Nat, active : Nat, idle : BOOLEAN]
      BY <2>2, <2>4, <3>1
    <3> QED BY <3>2, ConnectionAssumption
  <2>6. Pooled' = Pooled
    BY <1>5, <2>4, <2>5 DEF Pooled
  <2>7. AgentsApart'
    BY <1>5, <2>1, <2>4, <2>6 DEF AgentsApart, Pooled
  <2>8. ConnectionTypeOK'
    BY <1>2, <1>7, <2>2, <2>4, <2>6 DEF Pooled
  <2>9. \A p \in Pooled' : agentOf'[p].agent \notin destroyed'
    BY <1>2, <1>5, <2>1, <2>4, <2>6 DEF Pooled
  <2>10. \A p \in Pooled' : agentOf'[p].active <= Cardinality(UsersOf(p))'
    BY <1>3, <1>4, <1>5, <2>1, <2>2, <2>4, <2>6, UsersFinite DEF Pooled
  <2>11. agentOf' = [p \in Origins |-> agentOf'[p]] /\ using' = [v \in PoolUsers |-> using'[v]]
    BY <1>2, <2>3
  <2>12. HeldWhereMade'
    BY <1>5, <1>8, <2>1, <2>4, <2>6 DEF HeldWhereMade, Pooled
  <2>13. n \in short \/ k = Cardinality(UsersWith(n))
    BY <1>5, <2>1
  <2>14. n \in short' \/ Released(k) = Cardinality(UsersWith(n))'
    <3>1. CASE a = n
      <4>1. u \in UsersWith(n)
        BY <1>0, <1>2, <3>1 DEF UsersWith
      <4>2. Cardinality(UsersWith(n)) # 0
        BY <4>1, UsersFinite, FS_EmptySet
      <4>3. k = Cardinality(UsersWith(n)) => k > 0
        BY <4>2, UsersFinite
      <4> QED BY <1>3, <1>7, <2>2, <2>13, <3>1, <4>3
    <3>2. CASE a # n /\ k > 0
      BY <1>0, <1>1, <1>5, <2>1, <3>2 DEF ReleaseConnection, Stale
    <3>3. CASE a # n /\ k = 0
      <4>1. Released(k) = k
        BY <3>3 DEF Released
      <4> QED BY <1>3, <1>7, <2>13, <3>3, <4>1
    <3>4. k = 0 \/ k > 0
      BY <2>2
    <3> QED BY <3>1, <3>2, <3>3, <3>4
  <2>15. CountExact'
    <3>1. agentOf'[o].agent = n /\ agentOf'[o].active = Released(k)
      BY <2>4
    <3>2. \A p \in Pooled \ {o} : agentOf'[p] = agentOf[p]
      BY <2>4 DEF Pooled
    <3>3. CountIs(o)'
      BY <2>14, <3>1 DEF CountIs
    <3>4. \A p \in Pooled \ {o} : CountIs(p)'
      BY <1>9, <3>2
    <3> QED BY <2>6, <3>3, <3>4 DEF CountExact
  <2> QED BY <2>7, <2>8, <2>9, <2>10, <2>11, <2>12, <2>15 DEF CountExact, CountIs
<1>6. CASE o \notin Pooled
  <2>1. agentOf' = agentOf
    BY <1>1, <1>6 DEF ReleaseConnection
  <2>2. Pooled' = Pooled /\ AgentsApart'
    BY <2>1 DEF Pooled, AgentsApart
  <2>3. ConnectionTypeOK'
    BY <1>2, <1>7, <2>1, <2>2
  <2>4. \A p \in Pooled : p \in Origins \ {o}
    BY <1>6 DEF Pooled
  <2>5. \A p \in Pooled' : agentOf'[p].agent \notin destroyed' /\ agentOf'[p].active <= Cardinality(UsersOf(p))'
    BY <1>2, <1>3, <2>1, <2>2, <2>4
  <2>6. agentOf' = [p \in Origins |-> agentOf'[p]] /\ using' = [v \in PoolUsers |-> using'[v]]
    BY <1>2, <2>1
  <2>7. HeldWhereMade'
    BY <1>8, <2>1, <2>2 DEF HeldWhereMade
  <2>8. CountExact'
    <3>1. \A p \in Pooled : p \in Pooled \ {o} /\ agentOf'[p] = agentOf[p]
      BY <1>6, <2>1
    <3>2. \A p \in Pooled : CountIs(p)'
      BY <1>9, <3>1
    <3> QED BY <2>2, <3>2 DEF CountExact
  <2> QED BY <2>2, <2>3, <2>5, <2>6, <2>7, <2>8 DEF CountExact, CountIs
<1> QED BY <1>5, <1>6

(* What else changes no user, and leaves the entries that stay as they are *)
(* but for their flag.                                                     *)
LEMMA EntriesStay ==
  ASSUME ConnectionInv, UNCHANGED <<using, agents, short>>, cleaning' \in BOOLEAN,
         agentOf' = [o \in Origins |-> agentOf'[o]], Pooled' \subseteq Pooled,
         \A o \in Pooled' : /\ agentOf'[o].agent = agentOf[o].agent /\ agentOf'[o].active = agentOf[o].active
                            /\ agentOf'[o] = [agent |-> agentOf[o].agent, active |-> agentOf[o].active,
                                              idle |-> agentOf'[o].idle]
                            /\ agentOf'[o].idle \in BOOLEAN,
         destroyed' \subseteq destroyed \cup {agentOf[o].agent : o \in Pooled \ Pooled'}
  PROVE  ConnectionInv'
<1> USE DEF ConnectionInv, ConnectionsSound, ConnectionTypeOK
<1>1. (\A o : UsersOf(o)' = UsersOf(o)) /\ (\A a : UsersWith(a)' = UsersWith(a))
  BY DEF UsersOf, UsersWith
<1>2. AgentsApart'
  BY ZenonT(60) DEF AgentsApart
<1>3. \A o \in Pooled : agentOf[o].agent \in 1..agents /\ agentOf[o].active \in 0..MaxConnections
  OBVIOUS
<1>4. ASSUME NEW o \in Pooled' PROVE agentOf'[o] \in [agent : 1..agents, active : 0..MaxConnections, idle : BOOLEAN]
  <2>1. PICK n, k, i : n = agentOf[o].agent /\ k = agentOf[o].active /\ i = agentOf'[o].idle
    OBVIOUS
  <2>2. n \in 1..agents /\ k \in 0..MaxConnections
    BY <1>3, <2>1
  <2>3. agentOf'[o] = [agent |-> n, active |-> k, idle |-> i] /\ i \in BOOLEAN
    BY <2>1
  <2>4. [agent |-> n, active |-> k, idle |-> i] \in [agent : 1..agents, active : 0..MaxConnections, idle : BOOLEAN]
    BY <2>2, <2>3
  <2> QED BY <2>3, <2>4
<1>5. destroyed' \subseteq 1..agents
  BY <1>3
<1>6. ASSUME NEW o \in Pooled' PROVE agentOf'[o].agent \notin destroyed'
  <2>1. agentOf'[o].agent = agentOf[o].agent /\ o \in Pooled
    OBVIOUS
  <2>2. \A p \in Pooled \ Pooled' : agentOf[p].agent # agentOf[o].agent
    BY <2>1 DEF AgentsApart
  <2>3. agentOf[o].agent \notin destroyed
    BY <2>1
  <2> QED BY <2>1, <2>2, <2>3
<1>7. \A o \in Pooled' : agentOf'[o].active <= Cardinality(UsersOf(o))'
  BY <1>1
<1>8. HeldWhereMade'
  <2>1. \A o \in Pooled' : o \in Pooled /\ agentOf'[o].agent = agentOf[o].agent
    OBVIOUS
  <2> QED BY <2>1 DEF HeldWhereMade
<1>9. CountExact'
  <2>1. CountExact
    BY DEF CountExact, CountIs
  <2> QED BY <1>1, <2>1 DEF CountExact, CountIs
<1> QED BY <1>2, <1>4, <1>5, <1>6, <1>7, <1>8, <1>9 DEF CountExact, CountIs

LEMMA IdlesKeeps == ASSUME ConnectionInv, NEW o \in Origins, Idles(o) PROVE ConnectionInv'
<1> USE DEF ConnectionInv, ConnectionsSound, ConnectionTypeOK
<1>1. PICK n, k, i : n = agentOf[o].agent /\ k = agentOf[o].active /\ i = agentOf[o].idle
  OBVIOUS
<1>2. o \in Pooled /\ n \in 1..agents /\ k \in 0..MaxConnections
      /\ agentOf[o] = [agent |-> n, active |-> k, idle |-> i] /\ UNCHANGED <<using, agents, destroyed, cleaning, short>>
      /\ agentOf' = [agentOf EXCEPT ![o].idle = TRUE]
  BY <1>1 DEF Idles
<1>3. agentOf'[o] = [agent |-> n, active |-> k, idle |-> TRUE]
      /\ \A p \in Origins \ {o} : agentOf'[p] = agentOf[p]
  <2>1. PICK j : j = TRUE
    OBVIOUS
  <2>2. agentOf' = [agentOf EXCEPT ![o].idle = j] /\ agentOf[o] = [agent |-> n, active |-> k, idle |-> i]
    BY <1>2, <2>1
  <2>3. agentOf'[o] = [agent |-> n, active |-> k, idle |-> j] /\ \A p \in Origins \ {o} : agentOf'[p] = agentOf[p]
    BY <2>2
  <2> QED BY <2>1, <2>3
<1>4. Pooled' \subseteq Pooled
  BY <1>2, <1>3 DEF Pooled
<1>5. agentOf' = [p \in Origins |-> agentOf'[p]]
  BY <1>2
<1>6. \A p \in Pooled' : p \in Origins /\ p \in Pooled /\ agentOf[p] \in [agent : 1..agents, active : 0..MaxConnections, idle : BOOLEAN]
  BY <1>4 DEF Pooled
<1>7. \A p \in Pooled' : /\ agentOf'[p].agent = agentOf[p].agent /\ agentOf'[p].active = agentOf[p].active
                         /\ agentOf'[p] = [agent |-> agentOf[p].agent, active |-> agentOf[p].active,
                                              idle |-> agentOf'[p].idle]
                         /\ agentOf'[p].idle \in BOOLEAN
  <2>1. agentOf'[o].agent = agentOf[o].agent /\ agentOf'[o].active = agentOf[o].active
        /\ agentOf'[o] = [agent |-> agentOf[o].agent, active |-> agentOf[o].active, idle |-> agentOf'[o].idle]
        /\ agentOf'[o].idle \in BOOLEAN
    BY <1>1, <1>3
  <2>2. \A p \in Pooled' \ {o} : agentOf'[p] = agentOf[p]
    BY <1>3, <1>6
  <2> QED BY <1>6, <2>1, <2>2
<1> HIDE DEF ConnectionInv
<1>8. cleaning' \in BOOLEAN /\ destroyed' \subseteq destroyed
  BY <1>2 DEF ConnectionInv
<1> QED BY <1>2, <1>4, <1>5, <1>7, <1>8, EntriesStay

LEMMA GoneKeeps ==
  ASSUME ConnectionInv, NEW gone \in SUBSET Pooled, UNCHANGED <<using, agents, short>>, cleaning' \in BOOLEAN,
         agentOf' = [o \in Origins |-> IF o \in gone THEN NoAgent ELSE agentOf[o]],
         destroyed' = destroyed \cup {agentOf[o].agent : o \in gone}
  PROVE  ConnectionInv'
<1>1. Pooled' = Pooled \ gone
  BY DEF Pooled
<1>2. \A o \in Pooled' : o \in Origins /\ agentOf'[o] = agentOf[o]
        /\ agentOf[o] \in [agent : 1..agents, active : 0..MaxConnections, idle : BOOLEAN]
  BY <1>1 DEF Pooled, ConnectionInv, ConnectionsSound, ConnectionTypeOK
<1>3. destroyed' \subseteq destroyed \cup {agentOf[o].agent : o \in Pooled \ Pooled'}
  BY <1>1
<1>4. Pooled' \subseteq Pooled
  BY <1>1
<1>5. agentOf' = [o \in Origins |-> agentOf'[o]]
  OBVIOUS
<1>6. \A o \in Pooled' : /\ agentOf'[o].agent = agentOf[o].agent /\ agentOf'[o].active = agentOf[o].active
                         /\ agentOf'[o] = [agent |-> agentOf[o].agent, active |-> agentOf[o].active,
                                              idle |-> agentOf'[o].idle]
                         /\ agentOf'[o].idle \in BOOLEAN
  BY <1>2
<1> QED BY <1>3, <1>4, <1>5, <1>6, EntriesStay

LEMMA ConnectionStep == ConnectionInv /\ [ConnectionNext]_connectionVars => ConnectionInv'
<1> SUFFICES ASSUME ConnectionInv, [ConnectionNext]_connectionVars PROVE ConnectionInv'
  OBVIOUS
<1>1. ASSUME NEW u \in PoolUsers, ReleaseConnection(u) PROVE ConnectionInv'
  BY <1>1, ReleaseKeeps
<1>2. ASSUME NEW u \in PoolUsers, NEW o \in Origins, GetConnection(u, o) PROVE ConnectionInv'
  BY <1>2, GetKeeps
<1>3. ASSUME NEW o \in Origins, Idles(o) PROVE ConnectionInv'
  BY <1>3, IdlesKeeps
<1>4. CASE CleanupExpired
  <2>1. PICK gone \in SUBSET Pooled : gone = {o \in Pooled : Expired(o)}
    OBVIOUS
  <2>2. /\ UNCHANGED <<using, agents, cleaning, short>>
        /\ agentOf' = [o \in Origins |-> IF o \in gone THEN NoAgent ELSE agentOf[o]]
        /\ destroyed' = destroyed \cup {agentOf[o].agent : o \in gone}
    BY <1>4, <2>1 DEF CleanupExpired
  <2>3. cleaning' \in BOOLEAN
    BY <2>2 DEF ConnectionInv, ConnectionsSound, ConnectionTypeOK
  <2> QED BY <2>2, <2>3, GoneKeeps
<1>5. CASE DestroyPool
  <2>1. PICK gone \in SUBSET Pooled : gone = Pooled
    OBVIOUS
  <2>2. /\ UNCHANGED <<using, agents, short>> /\ cleaning' = FALSE
        /\ destroyed' = destroyed \cup {agentOf[o].agent : o \in gone}
        /\ agentOf' = [o \in Origins |-> NoAgent]
    BY <1>5, <2>1 DEF DestroyPool
  <2>3. agentOf' = [o \in Origins |-> IF o \in gone THEN NoAgent ELSE agentOf[o]]
    BY <2>1, <2>2 DEF Pooled
  <2>4. cleaning' \in BOOLEAN
    BY <2>2
  <2> QED BY <2>2, <2>3, <2>4, GoneKeeps
<1>6. CASE UNCHANGED connectionVars
  <2>1. UNCHANGED <<agentOf, using, agents, destroyed, cleaning, short>>
    BY <1>6 DEF connectionVars
  <2>2. Pooled' = Pooled /\ (\A o : UsersOf(o)' = UsersOf(o)) /\ (\A a : UsersWith(a)' = UsersWith(a))
    BY <2>1 DEF Pooled, UsersOf, UsersWith
  <2>3. AgentsApart' /\ HeldWhereMade' /\ ConnectionTypeOK'
    BY <2>1, <2>2 DEF ConnectionInv, ConnectionsSound, ConnectionTypeOK, AgentsApart, HeldWhereMade
  <2>4. ConnectionsSound'
    BY <2>1, <2>2, <2>3 DEF ConnectionInv, ConnectionsSound
  <2> QED BY <2>1, <2>3, <2>4 DEF ConnectionInv
<1> QED BY <1>1, <1>2, <1>3, <1>4, <1>5, <1>6 DEF ConnectionNext

LEMMA ConnectionStart == ConnectionInit => ConnectionInv
<1> SUFFICES ASSUME ConnectionInit PROVE ConnectionInv
  OBVIOUS
<1>1. Pooled = {}
  BY DEF ConnectionInit, Pooled
<1>2. ConnectionTypeOK
  BY <1>1 DEF ConnectionInit, ConnectionTypeOK
<1> QED BY <1>1, <1>2 DEF ConnectionInit, ConnectionInv, ConnectionsSound, AgentsApart, HeldWhereMade

(* Between the requests that hold an agent and its end.                    *)
LEMMA DestroyedWhenDueStep ==
  ASSUME ConnectionInv, [ConnectionNext]_connectionVars, NEW o \in Pooled, NEW a, a = agentOf[o].agent,
         a \in destroyed' \ destroyed, UsersWith(a) # {}
  PROVE  (~Healthy(o) /\ agents' > agents) \/ (~cleaning' /\ Pooled' = {}) \/ a \in short
<1>1. ASSUME NEW u \in PoolUsers, NEW p \in Origins, GetConnection(u, p)
      PROVE ~Healthy(o) /\ agents' > agents
  <2>1. p \in Pooled /\ ~Healthy(p) /\ agentOf[o].agent = agentOf[p].agent /\ agents' = agents + 1
    BY <1>1 DEF GetConnection
  <2>2. o = p
    BY <2>1 DEF ConnectionInv, AgentsApart
  <2> QED BY <2>1, <2>2 DEF ConnectionInv, ConnectionsSound, ConnectionTypeOK
<1>2. CASE CleanupExpired
  <2>1. PICK p \in Pooled : Expired(p) /\ agentOf[o].agent = agentOf[p].agent
    BY <1>2 DEF CleanupExpired
  <2>2. o = p
    BY <2>1 DEF ConnectionInv, AgentsApart
  <2>3. agentOf[o].active = 0
    BY <2>1, <2>2 DEF Expired
  <2>4. Cardinality(UsersWith(a)) # 0
    BY UsersFinite, FS_EmptySet
  <2> QED BY <2>3, <2>4 DEF ConnectionInv, ConnectionsSound
<1>3. CASE DestroyPool
  BY <1>3 DEF DestroyPool, Pooled
<1>4. destroyed' # destroyed
  OBVIOUS
<1> QED BY <1>1, <1>2, <1>3, <1>4
     DEF ConnectionNext, ReleaseConnection, Idles, connectionVars

(***************************************************************************)
(* The breaker.                                                            *)
(***************************************************************************)
BreakerTypeOK ==
  /\ breaker \in [state : {"closed", "open", "half_open"}, failures : Nat, successes : Nat, cooled : BOOLEAN]
  /\ earned \in Nat

BreakerInv == BreakerTypeOK /\ BreakerKnows

LEMMA BreakerRecord ==
  ASSUME BreakerTypeOK
  PROVE  /\ breaker = [state |-> breaker.state, failures |-> breaker.failures,
                       successes |-> breaker.successes, cooled |-> breaker.cooled]
         /\ breaker.state \in {"closed", "open", "half_open"} /\ breaker.failures \in Nat
         /\ breaker.successes \in Nat /\ breaker.cooled \in BOOLEAN
  BY DEF BreakerTypeOK

LEMMA AskedKnows ==
  ASSUME BreakerInv, CanExecute, breaker' = Asked, earned' = IF breaker.state = "open" THEN 0 ELSE earned
  PROVE  BreakerInv'
<1> PICK s, f, n, c : s = breaker.state /\ f = breaker.failures /\ n = breaker.successes /\ c = breaker.cooled
  OBVIOUS
<1>1. /\ breaker = [state |-> s, failures |-> f, successes |-> n, cooled |-> c]
      /\ s \in {"closed", "open", "half_open"} /\ f \in Nat /\ n \in Nat /\ c \in BOOLEAN /\ earned \in Nat
  BY BreakerRecord DEF BreakerInv, BreakerTypeOK
<1>2. breaker' = [state |-> IF s = "open" THEN "half_open" ELSE s, failures |-> f, successes |-> n, cooled |-> c]
  BY <1>1 DEF Asked
<1>3. BreakerTypeOK'
  BY <1>1, <1>2 DEF BreakerTypeOK
<1>4. BreakerKnows'
  BY <1>1, <1>2, RetryAssumption DEF BreakerInv, BreakerKnows
<1> QED BY <1>3, <1>4 DEF BreakerInv

LEMMA SuccessKnows ==
  ASSUME BreakerInv, breaker' = OnSuccess, earned' = earned + 1
  PROVE  BreakerInv'
<1> PICK s, f, n, c : s = breaker.state /\ f = breaker.failures /\ n = breaker.successes /\ c = breaker.cooled
  OBVIOUS
<1>1. /\ breaker = [state |-> s, failures |-> f, successes |-> n, cooled |-> c]
      /\ s \in {"closed", "open", "half_open"} /\ f \in Nat /\ n \in Nat /\ c \in BOOLEAN /\ earned \in Nat
  BY BreakerRecord DEF BreakerInv, BreakerTypeOK
<1>2. CASE s # "half_open"
  <2>1. PICK m : m = IF f = 0 THEN 0 ELSE f - 1
    OBVIOUS
  <2>2. breaker' = [state |-> s, failures |-> m, successes |-> n, cooled |-> c] /\ m \in Nat /\ m <= f
    BY <1>1, <1>2, <2>1 DEF OnSuccess
  <2>3. BreakerTypeOK'
    BY <1>1, <2>2 DEF BreakerTypeOK
  <2>4. BreakerKnows'
    BY <1>1, <1>2, <2>2, RetryAssumption DEF BreakerInv, BreakerKnows
  <2> QED BY <2>3, <2>4 DEF BreakerInv
<1>3. CASE s = "half_open" /\ n + 1 < SuccessThreshold
  <2>1. breaker' = [state |-> s, failures |-> f, successes |-> n + 1, cooled |-> c]
    BY <1>1, <1>3 DEF OnSuccess
  <2>2. BreakerTypeOK'
    BY <1>1, <2>1 DEF BreakerTypeOK
  <2>3. BreakerKnows'
    BY <1>1, <1>3, <2>1, RetryAssumption DEF BreakerInv, BreakerKnows
  <2> QED BY <2>2, <2>3 DEF BreakerInv
<1>4. CASE s = "half_open" /\ ~(n + 1 < SuccessThreshold)
  <2>1. breaker' = [state |-> "closed", failures |-> 0, successes |-> 0, cooled |-> FALSE]
    BY <1>1, <1>4 DEF OnSuccess
  <2>2. BreakerTypeOK'
    BY <1>1, <2>1 DEF BreakerTypeOK
  <2>3. BreakerKnows'
    BY <1>1, <2>1, RetryAssumption DEF BreakerKnows
  <2> QED BY <2>2, <2>3 DEF BreakerInv
<1> QED BY <1>2, <1>3, <1>4

LEMMA FailureKnows ==
  ASSUME BreakerInv, breaker' = OnFailure, earned' = 0
  PROVE  BreakerInv'
<1> PICK s, f, n, c : s = breaker.state /\ f = breaker.failures /\ n = breaker.successes /\ c = breaker.cooled
  OBVIOUS
<1>1. /\ breaker = [state |-> s, failures |-> f, successes |-> n, cooled |-> c]
      /\ s \in {"closed", "open", "half_open"} /\ f \in Nat /\ n \in Nat /\ c \in BOOLEAN /\ earned \in Nat
  BY BreakerRecord DEF BreakerInv, BreakerTypeOK
<1>2. CASE s = "half_open"
  <2>1. PICK no \in BOOLEAN : no = FALSE
    OBVIOUS
  <2>2. breaker' = [state |-> "open", failures |-> f + 1, successes |-> 0, cooled |-> no]
    BY <1>1, <1>2, <2>1 DEF OnFailure, Reopened
  <2>4. BreakerTypeOK'
    <3>1. f + 1 \in Nat
      BY <1>1, <2>1
    <3> QED BY <2>2, <3>1 DEF BreakerTypeOK
  <2>3. BreakerKnows'
    BY <2>2 DEF BreakerKnows
  <2> QED BY <2>3, <2>4 DEF BreakerInv
<1>3. CASE s # "half_open"
  <2>1. PICK no \in BOOLEAN : no = FALSE
    OBVIOUS
  <2>6. PICK to : to = (IF f + 1 >= FailureThreshold THEN "open" ELSE s)
    OBVIOUS
  <2>2. breaker' = [[state |-> s, failures |-> f + 1, successes |-> n, cooled |-> no] EXCEPT !.state = to]
    BY <1>1, <1>3, <2>1, <2>6 DEF OnFailure
  <2>3. breaker' = [state |-> to, failures |-> f + 1, successes |-> n, cooled |-> no]
    BY <2>2
  <2>4. BreakerTypeOK'
    <3>1. f + 1 \in Nat /\ to \in {"closed", "open", "half_open"}
      BY <1>1, <2>6
    <3> QED BY <1>1, <2>3, <3>1 DEF BreakerTypeOK
  <2>5. BreakerKnows'
    BY <1>1, <1>3, <2>6, <2>3, RetryAssumption DEF BreakerInv, BreakerKnows
  <2> QED BY <2>4, <2>5 DEF BreakerInv
<1> QED BY <1>2, <1>3

LEMMA CoolsKnows == ASSUME BreakerInv, Cools PROVE BreakerInv'
<1> PICK s, f, n, c, yes : s = breaker.state /\ f = breaker.failures /\ n = breaker.successes /\ c = breaker.cooled
                           /\ yes = TRUE
  OBVIOUS
<1>1. /\ breaker = [state |-> s, failures |-> f, successes |-> n, cooled |-> c]
      /\ s \in {"closed", "open", "half_open"} /\ f \in Nat /\ n \in Nat /\ c \in BOOLEAN /\ earned \in Nat
  BY BreakerRecord DEF BreakerInv, BreakerTypeOK
<1>2. breaker' = [breaker EXCEPT !.cooled = yes] /\ earned' = earned
  BY DEF Cools
<1>3. breaker' = [state |-> s, failures |-> f, successes |-> n, cooled |-> yes]
  BY <1>1, <1>2
<1>4. BreakerTypeOK'
  BY <1>1, <1>2, <1>3 DEF BreakerTypeOK
<1>5. BreakerKnows'
  BY <1>1, <1>2, <1>3 DEF BreakerInv, BreakerKnows
<1> QED BY <1>4, <1>5 DEF BreakerInv

(***************************************************************************)
(* The calls and the workers.                                              *)
(***************************************************************************)
Attempt == [phase : Phases, attempt : 1..MaxAttempts, level : 0..Levels]

TellingsOf(i) == reported[i].success + reported[i].error
HeldBy(i) == {w \in BatchWorkers : item[w] = i}

BatchTypeOK ==
  /\ attempts \in [Runs -> Attempt]
  /\ nextItem \in Nat /\ nextItem >= 1 /\ item \in [BatchWorkers -> BatchItems \cup {0}]
  /\ reported \in [BatchItems -> [success : Nat, error : Nat]]
  /\ batchOver \in BOOLEAN

(* A worker has an item while it runs, and asks for one when it has none.  *)
WorkersAt ==
  \A w \in BatchWorkers : IF item[w] = 0 THEN attempts[w].phase = "asking"
                                         ELSE attempts[w].phase \in {"running", "waiting"}

EachItemOnce == \A i \in BatchItems : TellingsOf(i) + Cardinality(HeldBy(i)) = IF i < nextItem THEN 1 ELSE 0

BatchInv ==
  /\ BatchTypeOK /\ WorkersAt /\ EachItemOnce
  /\ batchOver => AllWorkersIdle

LEMMA HoldersFinite == \A i : IsFiniteSet(HeldBy(i)) /\ Cardinality(HeldBy(i)) \in Nat
<1>1. \A i : HeldBy(i) \subseteq BatchWorkers
  BY DEF HeldBy
<1> QED BY <1>1, RetryAssumption, FS_Subset, FS_CardinalityType

LEMMA ItemsAreNumbers == \A i \in BatchItems : i \in Nat /\ i >= 1
<1>1. Cardinality(BatchItems) \in Nat
  BY RetryAssumption, FS_CardinalityType
<1> QED BY <1>1, RetryAssumption

LEMMA PhaseChanges ==
  ASSUME attempts \in [Runs -> Attempt], NEW r \in Runs, NEW p \in Phases, RunBecomes(r, p)
  PROVE  /\ attempts' \in [Runs -> Attempt] /\ attempts'[r].phase = p
         /\ \A q \in Runs \ {r} : attempts'[q] = attempts[q]
<1>1. attempts' = [attempts EXCEPT ![r].phase = p]
  BY DEF RunBecomes
<1> QED BY <1>1 DEF Attempt

LEMMA StartsAgain ==
  ASSUME attempts \in [Runs -> Attempt], NEW r \in Runs, NEW n \in 0..Levels,
         attempts' = [attempts EXCEPT ![r] = NewRun(n)]
  PROVE  /\ attempts' \in [Runs -> Attempt] /\ attempts'[r].phase = "asking"
         /\ \A q \in Runs \ {r} : attempts'[q] = attempts[q]
<1>1. NewRun(n) \in Attempt /\ NewRun(n).phase = "asking"
  BY RetryAssumption DEF NewRun, Attempt, Phases
<1> QED BY <1>1

LEMMA ThrowsOn ==
  ASSUME attempts \in [Runs -> Attempt], NEW r \in Runs, Throws(r)
  PROVE  /\ attempts' \in [Runs -> Attempt]
         /\ r \in BatchWorkers => attempts'[r].phase = "asking"
         /\ \A q \in Runs \ {r} : attempts'[q] = attempts[q]
<1>1. 0 \in 0..Levels
  BY RetryAssumption
<1>2. CASE r \in BatchWorkers
  <2>1. attempts' = [attempts EXCEPT ![r] = NewRun(0)]
    BY <1>2 DEF Throws, Reports
  <2> QED BY <1>1, <2>1, StartsAgain
<1>3. CASE r \notin BatchWorkers /\ r \in ChainCalls /\ GoesDown(r)
  <2>1. attempts[r].level + 1 \in 0..Levels
    BY <1>3, RetryAssumption DEF GoesDown, Attempt
  <2>2. attempts' = [attempts EXCEPT ![r] = NewRun(attempts[r].level + 1)]
    BY <1>3 DEF Throws
  <2>3. PICK n \in 0..Levels : n = attempts[r].level + 1
    BY <2>1
  <2>4. attempts' = [attempts EXCEPT ![r] = NewRun(n)]
    BY <2>2, <2>3
  <2> QED BY <1>3, <2>4, StartsAgain
<1>4. CASE r \notin BatchWorkers /\ ~(r \in ChainCalls /\ GoesDown(r))
  <2>1. RunBecomes(r, "failed") \/ RunBecomes(r, "fallback")
    BY <1>4 DEF Throws
  <2>2. "failed" \in Phases /\ "fallback" \in Phases
    BY DEF Phases
  <2> QED BY <1>4, <2>1, <2>2, PhaseChanges
<1> QED BY <1>2, <1>3, <1>4

RetryAction(r) ==
  Executes(r) \/ Succeeds(r) \/ Fails(r) \/ DelayOver(r) \/ (r \in SafeCalls /\ FallbackEnds(r))

LEMMA AttemptsMove ==
  ASSUME attempts \in [Runs -> Attempt], NEW r \in Runs, RetryAction(r)
  PROVE  /\ attempts' \in [Runs -> Attempt]
         /\ \A q \in Runs \ {r} : attempts'[q] = attempts[q]
<1>1. {"running", "answered", "failed"} \subseteq Phases
  BY DEF Phases
<1>2. CASE Executes(r)
  BY <1>1, <1>2, PhaseChanges, ThrowsOn DEF Executes
<1>3. CASE Succeeds(r)
  <2>1. CASE r \in BatchWorkers
    <3>1. attempts' = [attempts EXCEPT ![r] = NewRun(0)] /\ 0 \in 0..Levels
      BY <1>3, <2>1, RetryAssumption DEF Succeeds, Reports
    <3> QED BY <3>1, StartsAgain
  <2>2. CASE r \notin BatchWorkers
    BY <1>1, <1>3, <2>2, PhaseChanges DEF Succeeds
  <2> QED BY <2>1, <2>2
<1>4. CASE Fails(r)
  <2>1. CASE Throws(r)
    BY <2>1, ThrowsOn
  <2>2. CASE ~Throws(r)
    <3>1. PICK k, l : k = attempts[r].attempt /\ l = attempts[r].level
      OBVIOUS
    <3>2. /\ attempts' = [attempts EXCEPT ![r] = [phase |-> "waiting", attempt |-> k + 1, level |-> l]]
          /\ k < MaxAttempts
      BY <1>4, <2>2, <3>1 DEF Fails
    <3>3. k \in 1..MaxAttempts /\ l \in 0..Levels
      BY <3>1 DEF Attempt
    <3>4. k + 1 \in 1..MaxAttempts
      BY <3>2, <3>3, RetryAssumption
    <3>5. [phase |-> "waiting", attempt |-> k + 1, level |-> l] \in Attempt
      BY <3>3, <3>4 DEF Attempt, Phases
    <3> QED BY <3>2, <3>5
  <2> QED BY <2>1, <2>2
<1>5. CASE DelayOver(r)
  BY <1>1, <1>5, PhaseChanges DEF DelayOver
<1>6. CASE FallbackEnds(r)
  BY <1>1, <1>6, PhaseChanges DEF FallbackEnds
<1> QED BY <1>2, <1>3, <1>4, <1>5, <1>6 DEF RetryAction

(***************************************************************************)
(* The batch.                                                              *)
(***************************************************************************)
Takes(w) ==
  /\ item[w] = 0 /\ nextItem \in BatchItems /\ nextItem' = nextItem + 1
  /\ item' = [item EXCEPT ![w] = nextItem] /\ UNCHANGED <<reported, batchOver>>

LEMMA ItemTaken ==
  ASSUME BatchInv, NEW w \in BatchWorkers, Takes(w), attempts' \in [Runs -> Attempt],
         \A q \in Runs \ {w} : attempts'[q] = attempts[q], attempts'[w].phase = "running"
  PROVE  BatchInv'
<1> PICK n : n = nextItem
  OBVIOUS
<1>1. n \in BatchItems /\ n \in Nat /\ n >= 1 /\ nextItem' = n + 1 /\ item' = [item EXCEPT ![w] = n]
      /\ item[w] = 0 /\ UNCHANGED <<reported, batchOver>>
  BY ItemsAreNumbers DEF Takes
<1>2. BatchTypeOK'
  BY <1>1 DEF BatchInv, BatchTypeOK
<1>3. WorkersAt'
  <2>1. \A v \in BatchWorkers : v \in Runs
    BY DEF Runs
  <2> QED BY <1>1, <2>1 DEF BatchInv, BatchTypeOK, WorkersAt
<1>4. HeldBy(n)' = HeldBy(n) \cup {w} /\ w \notin HeldBy(n) /\ \A i \in BatchItems \ {n} : HeldBy(i)' = HeldBy(i)
  BY <1>1, ItemsAreNumbers DEF HeldBy, BatchInv, BatchTypeOK
<1>5. Cardinality(HeldBy(n) \cup {w}) = Cardinality(HeldBy(n)) + 1
  BY <1>4, HoldersFinite, FS_AddElement
<1>6. \A i \in BatchItems : TellingsOf(i)' = TellingsOf(i) /\ TellingsOf(i) \in Nat
  BY <1>1 DEF TellingsOf, BatchInv, BatchTypeOK
<1>7. EachItemOnce'
  <2>1. TellingsOf(n) + Cardinality(HeldBy(n)) = 0
    BY <1>1 DEF BatchInv, EachItemOnce
  <2>2. TellingsOf(n) + (Cardinality(HeldBy(n)) + 1) = 1
    BY <1>1, <1>6, <2>1, HoldersFinite
  <2>3. \A i \in BatchItems \ {n} : (i < n) <=> (i < n + 1)
    BY <1>1, ItemsAreNumbers
  <2>4. \A i \in BatchItems \ {n} : TellingsOf(i) + Cardinality(HeldBy(i)) = IF i < n + 1 THEN 1 ELSE 0
    BY <2>3 DEF BatchInv, EachItemOnce
  <2>5. n < n + 1
    BY <1>1
  <2> QED BY <1>1, <1>4, <1>5, <1>6, <2>2, <2>4, <2>5 DEF EachItemOnce
<1>8. ~batchOver'
  BY <1>1 DEF BatchInv, AllWorkersIdle, WorkerIdle
<1> QED BY <1>2, <1>3, <1>7, <1>8 DEF BatchInv

LEMMA ToldOnceMore ==
  ASSUME reported \in [BatchItems -> [success : Nat, error : Nat]], NEW i \in BatchItems,
         NEW what \in {"success", "error"}, reported' = [reported EXCEPT ![i][what] = @ + 1]
  PROVE  /\ reported' \in [BatchItems -> [success : Nat, error : Nat]]
         /\ TellingsOf(i)' = TellingsOf(i) + 1 /\ \A j \in BatchItems \ {i} : TellingsOf(j)' = TellingsOf(j)
<1>1. PICK a \in Nat, b \in Nat : reported[i] = [success |-> a, error |-> b]
  OBVIOUS
<1>2. \A j \in BatchItems \ {i} : reported'[j] = reported[j]
  OBVIOUS
<1>3. CASE what = "success"
  <2>1. reported' = [reported EXCEPT ![i].success = @ + 1]
    BY <1>3
  <2>2. reported'[i] = [success |-> a + 1, error |-> b]
    BY <1>1, <2>1
  <2>3. (a + 1) + b = (a + b) + 1
    OBVIOUS
  <2> QED BY <1>1, <1>2, <2>1, <2>2, <2>3 DEF TellingsOf
<1>4. CASE what = "error"
  <2>1. reported' = [reported EXCEPT ![i].error = @ + 1]
    BY <1>4
  <2>2. reported'[i] = [success |-> a, error |-> b + 1]
    BY <1>1, <2>1
  <2>3. a + (b + 1) = (a + b) + 1
    OBVIOUS
  <2> QED BY <1>1, <1>2, <2>1, <2>2, <2>3 DEF TellingsOf
<1> QED BY <1>3, <1>4

LEMMA ItemTold ==
  ASSUME BatchInv, NEW w \in BatchWorkers, NEW what \in {"success", "error"}, Reports(w, what),
         item[w] # 0, nextItem' = nextItem, UNCHANGED batchOver
  PROVE  BatchInv'
<1> PICK i : i = item[w]
  OBVIOUS
<1>1. i \in BatchItems /\ i \in Nat /\ i >= 1
  BY ItemsAreNumbers DEF BatchInv, BatchTypeOK
<1>2. /\ reported' = [reported EXCEPT ![i][what] = @ + 1] /\ item' = [item EXCEPT ![w] = 0]
      /\ attempts' = [attempts EXCEPT ![w] = NewRun(0)]
  BY DEF Reports, ItemOf
<1>3. /\ attempts' \in [Runs -> Attempt] /\ attempts'[w].phase = "asking"
      /\ \A q \in Runs \ {w} : attempts'[q] = attempts[q]
  <2>1. w \in Runs /\ 0 \in 0..Levels
    BY RetryAssumption DEF Runs
  <2> QED BY <1>2, <2>1, StartsAgain DEF BatchInv, BatchTypeOK
<1>4. /\ reported' \in [BatchItems -> [success : Nat, error : Nat]]
      /\ TellingsOf(i)' = TellingsOf(i) + 1 /\ \A j \in BatchItems \ {i} : TellingsOf(j)' = TellingsOf(j)
  BY <1>1, <1>2, ToldOnceMore DEF BatchInv, BatchTypeOK
<1>5. BatchTypeOK'
  BY <1>2, <1>3, <1>4 DEF BatchInv, BatchTypeOK
<1>6. WorkersAt'
  <2>1. \A v \in BatchWorkers : v \in Runs
    BY DEF Runs
  <2> QED BY <1>2, <1>3, <2>1 DEF BatchInv, BatchTypeOK, WorkersAt
<1>7. HeldBy(i)' = HeldBy(i) \ {w} /\ w \in HeldBy(i) /\ \A j \in BatchItems \ {i} : HeldBy(j)' = HeldBy(j)
  BY <1>1, <1>2, ItemsAreNumbers DEF HeldBy, BatchInv, BatchTypeOK
<1>8. Cardinality(HeldBy(i) \ {w}) = Cardinality(HeldBy(i)) - 1
  BY <1>7, HoldersFinite, FS_RemoveElement
<1>9. EachItemOnce'
  <2>1. TellingsOf(i) \in Nat /\ Cardinality(HeldBy(i)) \in Nat
    BY <1>1, HoldersFinite DEF TellingsOf, BatchInv, BatchTypeOK
  <2>2. (TellingsOf(i) + 1) + (Cardinality(HeldBy(i)) - 1) = TellingsOf(i) + Cardinality(HeldBy(i))
    BY <2>1
  <2> QED BY <1>1, <1>4, <1>7, <1>8, <2>2 DEF BatchInv, EachItemOnce
<1>10. ~batchOver'
  BY DEF BatchInv, AllWorkersIdle, WorkerIdle
<1> QED BY <1>5, <1>6, <1>9, <1>10 DEF BatchInv

(* A worker whose call the breaker refuses takes an item and tells of it.  *)
LEMMA ItemRefused ==
  ASSUME BatchInv, NEW w \in BatchWorkers, Reports(w, "error"),
         item[w] = 0, nextItem \in BatchItems, nextItem' = nextItem + 1, UNCHANGED batchOver
  PROVE  BatchInv'
<1> PICK i : i = nextItem
  OBVIOUS
<1>1. i \in BatchItems /\ i \in Nat /\ i >= 1 /\ nextItem' = i + 1
  BY ItemsAreNumbers
<1>2. /\ reported' = [reported EXCEPT ![i]["error"] = @ + 1] /\ item' = item
      /\ attempts' = [attempts EXCEPT ![w] = NewRun(0)]
  BY DEF Reports, ItemOf, BatchInv, BatchTypeOK
<1>3. /\ attempts' \in [Runs -> Attempt] /\ attempts'[w].phase = "asking"
      /\ \A q \in Runs \ {w} : attempts'[q] = attempts[q]
  <2>1. w \in Runs /\ 0 \in 0..Levels
    BY RetryAssumption DEF Runs
  <2> QED BY <1>2, <2>1, StartsAgain DEF BatchInv, BatchTypeOK
<1>4. /\ reported' \in [BatchItems -> [success : Nat, error : Nat]]
      /\ TellingsOf(i)' = TellingsOf(i) + 1 /\ \A j \in BatchItems \ {i} : TellingsOf(j)' = TellingsOf(j)
  BY <1>1, <1>2, ToldOnceMore DEF BatchInv, BatchTypeOK
<1>5. BatchTypeOK'
  BY <1>1, <1>2, <1>3, <1>4 DEF BatchInv, BatchTypeOK
<1>6. WorkersAt'
  <2>1. \A v \in BatchWorkers : v \in Runs
    BY DEF Runs
  <2> QED BY <1>2, <1>3, <2>1 DEF BatchInv, BatchTypeOK, WorkersAt
<1>7. \A j \in BatchItems : HeldBy(j)' = HeldBy(j)
  BY <1>2 DEF HeldBy
<1>8. EachItemOnce'
  <2>1. TellingsOf(i) \in Nat /\ Cardinality(HeldBy(i)) \in Nat /\ TellingsOf(i) + Cardinality(HeldBy(i)) = 0
    BY <1>1, HoldersFinite DEF TellingsOf, BatchInv, BatchTypeOK, EachItemOnce
  <2>2. (TellingsOf(i) + 1) + Cardinality(HeldBy(i)) = 1 /\ i < i + 1
    BY <1>1, <2>1
  <2>3. \A j \in BatchItems \ {i} : (j < i) <=> (j < i + 1)
    BY <1>1, ItemsAreNumbers
  <2>4. \A j \in BatchItems \ {i} : TellingsOf(j) + Cardinality(HeldBy(j)) = IF j < i + 1 THEN 1 ELSE 0
    BY <2>3 DEF BatchInv, EachItemOnce
  <2> QED BY <1>1, <1>4, <1>7, <2>2, <2>4 DEF EachItemOnce
<1>9. ~batchOver'
  BY DEF BatchInv, AllWorkersIdle, WorkerIdle
<1> QED BY <1>5, <1>6, <1>8, <1>9 DEF BatchInv

(* Steps that leave the items alone.                                       *)
LEMMA ItemsStay ==
  ASSUME BatchInv, UNCHANGED <<nextItem, item, reported, batchOver>>, attempts' \in [Runs -> Attempt],
         \A w \in BatchWorkers : attempts'[w] = attempts[w] \/ (item[w] # 0 /\ attempts'[w].phase \in {"running", "waiting"})
  PROVE  BatchInv'
<1>1. \A i : HeldBy(i)' = HeldBy(i)
  BY DEF HeldBy
<1>2. BatchTypeOK'
  BY DEF BatchInv, BatchTypeOK
<1>3. WorkersAt'
  BY DEF BatchInv, WorkersAt
<1>4. EachItemOnce'
  BY <1>1 DEF BatchInv, EachItemOnce, TellingsOf
<1> QED BY <1>2, <1>3, <1>4 DEF BatchInv, AllWorkersIdle, WorkerIdle

LEMMA WorkerKeepsBatch ==
  ASSUME BatchInv, NEW w \in BatchWorkers, RetryAction(w)
  PROVE  BatchInv'
<1>1. w \in Runs /\ w \notin SafeCalls
  BY RetryAssumption DEF Runs
<1>2. /\ attempts' \in [Runs -> Attempt]
      /\ \A q \in Runs \ {w} : attempts'[q] = attempts[q]
  BY <1>1, AttemptsMove DEF BatchInv, BatchTypeOK
<1>3. \A v \in BatchWorkers \ {w} : attempts'[v] = attempts[v]
  BY <1>2 DEF Runs
<1>4. CASE Executes(w) /\ CanExecute
  <2>1. item[w] = 0
    BY <1>4 DEF Executes, BatchInv, WorkersAt
  <2>2. Takes(w) /\ RunBecomes(w, "running")
    BY <1>4, <2>1 DEF Executes, Takes
  <2>3. attempts'[w].phase = "running"
    BY <1>1, <2>2, PhaseChanges DEF BatchInv, BatchTypeOK, Phases
  <2> QED BY <1>2, <2>2, <2>3, ItemTaken
<1>5. CASE Executes(w) /\ ~CanExecute
  <2>1. item[w] = 0
    BY <1>5 DEF Executes, BatchInv, WorkersAt
  <2>2. Reports(w, "error") /\ nextItem \in BatchItems /\ nextItem' = nextItem + 1 /\ UNCHANGED batchOver
    BY <1>5 DEF Executes, Throws
  <2> QED BY <2>1, <2>2, ItemRefused
<1>6. CASE Succeeds(w)
  <2>1. item[w] # 0
    BY <1>6 DEF Succeeds, BatchInv, WorkersAt
  <2>2. Reports(w, "success") /\ nextItem' = nextItem /\ UNCHANGED batchOver
    BY <1>6 DEF Succeeds
  <2> QED BY <2>1, <2>2, ItemTold
<1>7. CASE Fails(w) /\ Throws(w)
  <2>1. item[w] # 0
    BY <1>7 DEF Fails, BatchInv, WorkersAt
  <2>2. Reports(w, "error") /\ nextItem' = nextItem /\ UNCHANGED batchOver
    BY <1>7 DEF Fails, Throws
  <2> QED BY <2>1, <2>2, ItemTold
<1>8. CASE Fails(w) /\ ~Throws(w)
  <2>1. item[w] # 0 /\ UNCHANGED <<nextItem, item, reported, batchOver>>
        /\ attempts' = [attempts EXCEPT ![w] = [phase |-> "waiting", attempt |-> attempts[w].attempt + 1, level |-> attempts[w].level]]
    BY <1>8 DEF Fails, BatchInv, WorkersAt
  <2>2. attempts'[w].phase = "waiting"
    BY <1>1, <2>1 DEF BatchInv, BatchTypeOK
  <2> QED BY <1>2, <1>3, <2>1, <2>2, ItemsStay
<1>9. CASE DelayOver(w)
  <2>1. item[w] # 0 /\ UNCHANGED <<nextItem, item, reported, batchOver>> /\ RunBecomes(w, "running")
    BY <1>9 DEF DelayOver, BatchInv, WorkersAt
  <2>2. attempts'[w].phase = "running"
    BY <1>1, <2>1, PhaseChanges DEF BatchInv, BatchTypeOK, Phases
  <2> QED BY <1>2, <1>3, <2>1, <2>2, ItemsStay
<1> QED BY <1>1, <1>4, <1>5, <1>6, <1>7, <1>8, <1>9 DEF RetryAction

LEMMA CallerKeepsBatch ==
  ASSUME BatchInv, NEW r \in Callers, RetryAction(r)
  PROVE  BatchInv'
<1>1. r \in Runs /\ r \notin BatchWorkers
  BY RetryAssumption DEF Runs, Callers
<1>2. /\ attempts' \in [Runs -> Attempt]
      /\ \A q \in Runs \ {r} : attempts'[q] = attempts[q]
  BY <1>1, AttemptsMove DEF BatchInv, BatchTypeOK
<1>3. \A w \in BatchWorkers : attempts'[w] = attempts[w]
  BY <1>1, <1>2 DEF Runs
<1>4. UNCHANGED <<nextItem, item, reported, batchOver>>
  <2>1. CASE Executes(r)
    BY <1>1, <2>1 DEF Executes, Throws
  <2>2. CASE Succeeds(r)
    BY <1>1, <2>2 DEF Succeeds
  <2>3. CASE Fails(r)
    BY <1>1, <2>3 DEF Fails, Throws
  <2> QED BY <2>1, <2>2, <2>3 DEF RetryAction, DelayOver, FallbackEnds
<1> QED BY <1>2, <1>3, <1>4, ItemsStay

(***************************************************************************)
(* All of it.                                                              *)
(***************************************************************************)
MonitorInv ==
  /\ monitor \in [SafeCalls -> Nat] /\ missed \in [SafeCalls -> Nat]
  /\ ErrorsRecordedOnce

RetryInv == BreakerInv /\ BatchInv /\ MonitorInv

LEMMA MonitorKept == ASSUME MonitorInv, NEW r \in Runs, RetryAction(r) PROVE MonitorInv'
<1>1. UNCHANGED <<monitor, missed>> \/ (monitor' = OneMore(monitor, r) /\ missed' = OneMore(missed, r))
  BY DEF RetryAction, Executes, Succeeds, Fails, DelayOver, FallbackEnds, Throws
<1>2. CASE UNCHANGED <<monitor, missed>>
  BY <1>2 DEF MonitorInv, ErrorsRecordedOnce
<1>3. CASE monitor' = OneMore(monitor, r) /\ missed' = OneMore(missed, r)
  BY <1>3 DEF MonitorInv, ErrorsRecordedOnce, OneMore
<1> QED BY <1>1, <1>2, <1>3

LEMMA BreakerKept == ASSUME BreakerInv, NEW r \in Runs, RetryAction(r) PROVE BreakerInv'
<1>1. CASE Executes(r) /\ CanExecute
  BY <1>1, AskedKnows DEF Executes
<1>2. CASE Succeeds(r)
  BY <1>2, SuccessKnows DEF Succeeds
<1>3. CASE Fails(r)
  BY <1>3, FailureKnows DEF Fails
<1>4. CASE UNCHANGED <<breaker, earned>>
  BY <1>4 DEF BreakerInv, BreakerTypeOK, BreakerKnows
<1> QED BY <1>1, <1>2, <1>3, <1>4 DEF RetryAction, Executes, DelayOver, FallbackEnds

LEMMA RetryStep == RetryInv /\ [RetryNext]_retryVars => RetryInv'
<1> SUFFICES ASSUME RetryInv, [RetryNext]_retryVars PROVE RetryInv'
  OBVIOUS
<1> USE DEF RetryInv
<1>1. ASSUME NEW r \in Runs, RetryAction(r) PROVE RetryInv'
  <2>1. BatchInv'
    BY <1>1, WorkerKeepsBatch, CallerKeepsBatch DEF Runs
  <2> QED BY <1>1, <2>1, MonitorKept, BreakerKept
<1>2. CASE Cools
  <2>1. UNCHANGED <<attempts, nextItem, item, reported, batchOver, monitor, missed>>
    BY <1>2 DEF Cools
  <2>2. BatchInv'
    BY <2>1, ItemsStay DEF BatchInv, BatchTypeOK
  <2>3. MonitorInv'
    BY <2>1 DEF MonitorInv, ErrorsRecordedOnce
  <2> QED BY <1>2, <2>2, <2>3, CoolsKnows
<1>3. CASE BatchOver
  <2>1. UNCHANGED <<breaker, attempts, nextItem, item, reported, monitor, earned, missed>>
        /\ batchOver' = TRUE /\ AllWorkersIdle
    BY <1>3 DEF BatchOver
  <2>2. BreakerInv' /\ MonitorInv'
    BY <2>1 DEF BreakerInv, BreakerTypeOK, BreakerKnows, MonitorInv, ErrorsRecordedOnce
  <2>3. EachItemOnce' /\ WorkersAt' /\ AllWorkersIdle'
    BY <2>1 DEF BatchInv, EachItemOnce, TellingsOf, HeldBy, WorkersAt, AllWorkersIdle, WorkerIdle
  <2>4. BatchTypeOK'
    BY <2>1 DEF BatchInv, BatchTypeOK
  <2> QED BY <2>2, <2>3, <2>4 DEF BatchInv
<1>4. CASE UNCHANGED retryVars
  <2>1. UNCHANGED <<breaker, attempts, nextItem, item, reported, batchOver, monitor, earned, missed>>
    BY <1>4 DEF retryVars
  <2>2. BatchInv'
    BY <2>1, ItemsStay DEF BatchInv, BatchTypeOK
  <2> QED BY <2>1, <2>2 DEF BreakerInv, BreakerTypeOK, BreakerKnows, MonitorInv, ErrorsRecordedOnce
<1>5. \A r \in SafeCalls : r \in Runs
  BY DEF Runs, Callers
<1> QED BY <1>1, <1>2, <1>3, <1>4, <1>5 DEF RetryNext, RetryAction

LEMMA RetryStart == RetryInit => RetryInv
<1> SUFFICES ASSUME RetryInit PROVE RetryInv
  OBVIOUS
<1>1. BreakerInv
  <2>1. PICK no \in BOOLEAN : no = FALSE
    OBVIOUS
  <2>2. breaker = [state |-> "closed", failures |-> 0, successes |-> 0, cooled |-> no] /\ earned = 0
    BY <2>1 DEF RetryInit
  <2> QED BY <2>2, RetryAssumption DEF BreakerInv, BreakerTypeOK, BreakerKnows
<1>2. MonitorInv
  BY DEF RetryInit, MonitorInv, ErrorsRecordedOnce
<1>3. NewRun(0) \in Attempt /\ NewRun(0).phase = "asking"
  BY RetryAssumption DEF NewRun, Attempt, Phases
<1>4. BatchTypeOK
  <2>1. attempts \in [Runs -> Attempt]
    BY <1>3 DEF RetryInit
  <2>2. item \in [BatchWorkers -> BatchItems \cup {0}] /\ nextItem = 1
    BY DEF RetryInit
  <2>3. reported \in [BatchItems -> [success : Nat, error : Nat]]
    BY DEF RetryInit
  <2>4. batchOver \in BOOLEAN
    BY DEF RetryInit
  <2> QED BY <2>1, <2>2, <2>3, <2>4 DEF BatchTypeOK
<1>5. WorkersAt
  BY <1>3 DEF RetryInit, WorkersAt, Runs
<1>6. EachItemOnce
  <2>1. \A i \in BatchItems : HeldBy(i) = {} /\ TellingsOf(i) = 0 + 0 /\ ~(i < 1)
    BY ItemsAreNumbers DEF RetryInit, HeldBy, TellingsOf
  <2> QED BY <2>1, FS_EmptySet DEF EachItemOnce, RetryInit
<1>7. ~batchOver
  BY DEF RetryInit
<1> QED BY <1>1, <1>2, <1>4, <1>5, <1>6, <1>7 DEF RetryInv, BatchInv

LEMMA RetryCorrect == RetryInv => RetrySound
<1> SUFFICES ASSUME RetryInv PROVE RetrySound
  OBVIOUS
<1>1. RetryTypeOK
  BY DEF RetryInv, BreakerInv, BreakerTypeOK, BatchInv, BatchTypeOK, MonitorInv, RetryTypeOK, Attempt
<1>2. BatchTold
  <2>1. \A i \in BatchItems : HeldBy(i) = {w \in BatchWorkers : item[w] = i}
    BY DEF HeldBy
  <2>2. \A i \in BatchItems : (reported[i].success + reported[i].error) + Cardinality({w \in BatchWorkers : item[w] = i})
                               = IF i < nextItem THEN 1 ELSE 0
    BY <2>1 DEF RetryInv, BatchInv, EachItemOnce, TellingsOf
  <2>3. ASSUME batchOver, NEW i \in BatchItems PROVE TellingsOf(i) = 1
    <3>1. \A w \in BatchWorkers : item[w] = 0 /\ nextItem \notin BatchItems
      BY <2>3 DEF RetryInv, BatchInv, AllWorkersIdle, WorkerIdle
    <3>2. HeldBy(i) = {}
      BY <3>1, ItemsAreNumbers DEF HeldBy
    <3>3. i < nextItem
      <4>1. PICK n : n = Cardinality(BatchItems)
        OBVIOUS
      <4>2. n \in Nat /\ BatchItems = 1..n
        BY <4>1, RetryAssumption, FS_CardinalityType
      <4>3. nextItem \notin 1..n /\ nextItem \in Nat /\ nextItem >= 1
        BY <3>1, <4>2, RetryAssumption DEF RetryInv, BatchInv, BatchTypeOK
      <4> QED BY <4>2, <4>3
    <3>4. Cardinality(HeldBy(i)) = 0
      BY <3>2, FS_EmptySet
    <3>5. TellingsOf(i) \in Nat
      BY DEF RetryInv, BatchInv, BatchTypeOK, TellingsOf
    <3>6. TellingsOf(i) + Cardinality(HeldBy(i)) = 1
      BY <3>3 DEF RetryInv, BatchInv, EachItemOnce
    <3> QED BY <3>4, <3>5, <3>6
  <2> QED BY <2>2, <2>3 DEF BatchTold, TellingsOf
<1> QED BY <1>1, <1>2 DEF RetryInv, BreakerInv, MonitorInv, RetrySound

LEMMA RetryPart == ASSUME [ResourcesNext]_parts PROVE part' = part /\ (part = "retry" => [RetryNext]_retryVars)
<1>1. CASE UNCHANGED parts
  BY <1>1 DEF parts
<1>2. CASE ResourcesNext
  BY <1>2 DEF ResourcesNext
<1> QED BY <1>1, <1>2

LEMMA ConnectionsPart ==
  ASSUME [ResourcesNext]_parts
  PROVE  /\ part' = part /\ (part = "connections" => [ConnectionNext]_connectionVars)
         /\ (part # "connections" => UNCHANGED connectionVars)
<1>1. CASE UNCHANGED parts
  BY <1>1 DEF parts
<1>2. CASE ResourcesNext
  BY <1>2 DEF ResourcesNext
<1> QED BY <1>1, <1>2

(* What is known of an upstream is what happened: the breaker's state to   *)
(* the calls, each item of a batch is told once, and the count of an agent *)
(* is that of the requests that hold it, unless one that held an earlier   *)
(* agent of its origin was given back.                                     *)
THEOREM UpstreamsCorrect == ResourcesSpec => []UpstreamsSound
<1> DEFINE I == (part = "retry" => RetryInv) /\ (part = "connections" => ConnectionInv)
<1>1. ResourcesInit => I
  BY RetryStart, ConnectionStart DEF ResourcesInit
<1>2. I /\ [ResourcesNext]_parts => I'
  BY RetryPart, ConnectionsPart, RetryStep, ConnectionStep
<1>3. I => UpstreamsSound
  BY RetryCorrect DEF UpstreamsSound, ConnectionInv
<1>4. QED
  BY <1>1, <1>2, <1>3, PTL DEF ResourcesSpec

(***************************************************************************)
(* The rate limiter.                                                       *)
(***************************************************************************)
Between(i, from, t) == {e \in grants[i] : e[1] > from /\ e[1] <= t}

(* What a list still holds is all that was granted in the window that ends *)
(* now, and the next place in it is free.                                  *)
LimiterInv ==
  /\ LimiterTypeOK
  /\ \A i \in Identities : \A e \in grants[i] : e[1] <= now
  /\ \A i \in Identities : InWindow(stamps[i]) = InWindow(grants[i])
  /\ \A i \in Identities : \A e \in grants[i] : e[1] = now => e[2] < Cardinality(InWindow(grants[i]))
  /\ WindowKept

LEMMA StampSets ==
  /\ IsFiniteSet(Stamps)
  /\ \A S \in SUBSET Stamps : IsFiniteSet(S) /\ Cardinality(S) \in Nat
<1>1. IsFiniteSet(0..LastTime) /\ IsFiniteSet(0..RateMax - 1)
  <2>1. 0 \in Int /\ LastTime \in Int /\ RateMax - 1 \in Int
    BY LimiterAssumption
  <2> QED BY <2>1, FS_Interval
<1>2. IsFiniteSet(Stamps)
  BY <1>1, FS_Product DEF Stamps, Times
<1> QED BY <1>2, FS_Subset, FS_CardinalityType

LEMMA StampParts == \A e \in Stamps : e[1] \in Nat /\ e[1] \in Times /\ e[2] \in Nat /\ e[2] <= RateMax - 1
  BY LimiterAssumption DEF Stamps, Times

LEMMA Grants == ASSUME LimiterInv, NEW i \in Identities
                PROVE  /\ now \in Nat /\ Window \in Nat /\ Window >= 1
                       /\ grants[i] \subseteq Stamps /\ stamps[i] \subseteq Stamps
                       /\ \A e \in grants[i] : e[1] \in Nat /\ e[1] <= now
                       /\ InWindow(grants[i]) \subseteq Stamps
                       /\ IsFiniteSet(InWindow(grants[i])) /\ Cardinality(InWindow(grants[i])) \in Nat
                       /\ \A t : IsFiniteSet(Between(i, t - Window, t)) /\ Cardinality(Between(i, t - Window, t)) \in Nat
<1>1. now \in Nat /\ Window \in Nat /\ Window >= 1
  BY LimiterAssumption DEF LimiterInv, LimiterTypeOK, Times
<1>2. grants[i] \subseteq Stamps /\ stamps[i] \subseteq Stamps
  BY DEF LimiterInv, LimiterTypeOK
<1>3. InWindow(grants[i]) \subseteq Stamps /\ \A t : Between(i, t - Window, t) \subseteq Stamps
  BY <1>2 DEF InWindow, Between
<1> QED BY <1>1, <1>2, <1>3, StampSets, StampParts DEF LimiterInv

LEMMA WindowsKept == LimiterInv => \A i \in Identities, t \in Times : Cardinality(Between(i, t - Window, t)) <= RateMax
  BY DEF LimiterInv, WindowKept, GrantedBefore, Between

LEMMA WindowEndsNow ==
  ASSUME LimiterInv, NEW i \in Identities
  PROVE  InWindow(grants[i]) = Between(i, now - Window, now)
  BY Grants DEF InWindow, Between

(* A step in which i is let through.                                       *)
LEMMA GrantKeeps ==
  ASSUME LimiterInv, NEW i \in Identities, NEW pushed,
         pushed = <<now, Cardinality(InWindow(grants[i]))>>, Cardinality(InWindow(grants[i])) < RateMax,
         grants' = [grants EXCEPT ![i] = @ \cup {pushed}], now' = now
  PROVE  /\ grants' \in [Identities -> SUBSET Stamps] /\ pushed \in Stamps
         /\ \A k \in Identities : \A e \in grants'[k] : e[1] <= now
         /\ InWindow(grants'[i]) = InWindow(grants[i]) \cup {pushed}
         /\ \A k \in Identities : \A e \in grants'[k] : e[1] = now => e[2] < Cardinality(InWindow(grants'[k]))
         /\ WindowKept'
<1> PICK n : n = Cardinality(InWindow(grants[i]))
  OBVIOUS
<1>1. now \in Nat /\ now \in Times /\ n \in Nat /\ n < RateMax /\ RateMax \in Nat
  BY Grants, LimiterAssumption DEF LimiterInv, LimiterTypeOK
<1>2. pushed \in Stamps /\ pushed[1] = now /\ pushed[2] = n
  <2>1. n \in 0..RateMax - 1
    BY <1>1
  <2> QED BY <1>1, <2>1 DEF Stamps
<1>3. grants \in [Identities -> SUBSET Stamps]
  BY DEF LimiterInv, LimiterTypeOK
<1>4. grants'[i] = grants[i] \cup {pushed} /\ \A k \in Identities \ {i} : grants'[k] = grants[k]
  BY <1>3
<1>5. grants' \in [Identities -> SUBSET Stamps]
  BY <1>2, <1>3
<1>6. \A k \in Identities : \A e \in grants'[k] : e[1] <= now
  BY <1>1, <1>2, <1>4 DEF LimiterInv
<1>7. InWindow(grants'[i]) = InWindow(grants[i]) \cup {pushed}
  BY <1>2, <1>4, Grants DEF InWindow
<1>8. pushed \notin grants[i]
  BY <1>1, <1>2 DEF LimiterInv
<1>9. Cardinality(InWindow(grants'[i])) = n + 1
  <2>1. PICK S : S = InWindow(grants[i])
    OBVIOUS
  <2>2. IsFiniteSet(S) /\ pushed \notin S /\ Cardinality(S) = n
    BY <1>8, <2>1, Grants DEF InWindow
  <2>3. Cardinality(S \cup {pushed}) = n + 1
    BY <2>2, FS_AddElement
  <2> QED BY <1>7, <2>1, <2>3
<1>10. \A k \in Identities : \A e \in grants'[k] : e[1] = now => e[2] < Cardinality(InWindow(grants'[k]))
  <2>1. ASSUME NEW e \in grants[i], e[1] = now PROVE e[2] < n + 1
    <3>1. e[2] < n /\ e[2] \in Nat
      BY <2>1, Grants, StampParts DEF LimiterInv
    <3> QED BY <1>1, <3>1
  <2>2. pushed[2] < n + 1
    BY <1>1, <1>2
  <2>3. \A e \in grants'[i] : e[1] = now => e[2] < n + 1
    BY <1>4, <2>1, <2>2
  <2> QED BY <1>4, <1>9, <2>3 DEF LimiterInv
<1>11. ASSUME NEW t \in Times PROVE Cardinality({e \in grants'[i] : e[1] > t - Window /\ e[1] <= t}) <= RateMax
  <2> DEFINE W == {e \in grants'[i] : e[1] > t - Window /\ e[1] <= t}
  <2>0. t \in Nat /\ Window \in Nat
    BY LimiterAssumption DEF Times
  <2>1. CASE pushed \in W
    <3>1. t - Window < now /\ now <= t
      BY <1>2, <2>1
    <3>2. \A e \in W : e \in grants'[i] /\ e[1] > t - Window /\ e[1] \in Nat /\ e[1] <= now
      BY <1>5, <1>6, StampParts
    <3>3. \A e \in W : e[1] > now - Window
      BY <2>0, <1>1, <3>1, <3>2
    <3>4. W \subseteq InWindow(grants'[i])
      BY <3>2, <3>3 DEF InWindow
    <3>5. IsFiniteSet(InWindow(grants'[i]))
      <4>1. PICK S : S = InWindow(grants[i])
        OBVIOUS
      <4>2. IsFiniteSet(S \cup {pushed})
        BY <4>1, Grants, FS_AddElement
      <4> QED BY <1>7, <4>1, <4>2
    <3>6. Cardinality(W) <= n + 1 /\ Cardinality(W) \in Nat
      BY <1>9, <3>4, <3>5, FS_Subset, FS_CardinalityType
    <3> QED BY <1>1, <3>6
  <2>2. CASE pushed \notin W
    <3>1. W = Between(i, t - Window, t)
      BY <1>4, <2>2 DEF Between
    <3> QED BY <3>1, WindowsKept
  <2> QED BY <2>1, <2>2
<1>12. \A k \in Identities, t \in Times : GrantedBefore(k, t)' <= RateMax
  <2>1. ASSUME NEW k \in Identities \ {i}, NEW t \in Times PROVE GrantedBefore(k, t)' <= RateMax
    <3>1. GrantedBefore(k, t)' = GrantedBefore(k, t)
      BY <1>4 DEF GrantedBefore
    <3> QED BY <3>1 DEF LimiterInv, WindowKept
  <2>2. ASSUME NEW t \in Times PROVE GrantedBefore(i, t)' <= RateMax
    BY <1>11 DEF GrantedBefore
  <2> QED BY <2>1, <2>2
<1> QED BY <1>2, <1>5, <1>6, <1>7, <1>10, <1>12 DEF WindowKept

(* The oldest of what a list holds has its time, and nothing is older.     *)
LEMMA OldestIsOne ==
  ASSUME NEW S \in SUBSET Stamps, S # {}
  PROVE  \E e \in S : Oldest(S) = e[1] /\ \A f \in S : Oldest(S) <= f[1]
<1> DEFINE T == {e[1] : e \in S}
<1>1. T \subseteq Nat /\ T # {}
  BY StampParts
<1>2. \E n \in T : \A m \in T : n <= m
  BY <1>1, LeastNumber
<1>3. Oldest(S) = CHOOSE n \in T : \A m \in T : n <= m
  BY DEF Oldest, Min
<1>4. Oldest(S) \in T /\ \A m \in T : Oldest(S) <= m
  BY <1>2, <1>3
<1> QED BY <1>4

(* What allow does, with one name for what a sweep leaves.                 *)
LEMMA AllowIs ==
  ASSUME LimiterInv, NEW i \in Identities, Allow(i)
  PROVE  LET mine == InWindow(grants[i]) IN
         /\ now' = now /\ opsSinceSweep' \in 0..SweepEvery - 1
         /\ \E others \in [Identities -> SUBSET Stamps] :
              /\ \A k \in Identities : InWindow(others[k]) = InWindow(grants[k])
              /\ IF Cardinality(mine) >= RateMax
                 THEN /\ stamps' = [others EXCEPT ![i] = mine]
                      /\ verdict' = [who |-> i, ok |-> FALSE, retryAt |-> Oldest(mine) + Window]
                      /\ UNCHANGED grants
                 ELSE /\ stamps' = [others EXCEPT ![i] = mine \cup {<<now, Cardinality(mine)>>}]
                      /\ verdict' = [who |-> i, ok |-> TRUE, retryAt |-> now]
                      /\ grants' = [grants EXCEPT ![i] = @ \cup {<<now, Cardinality(mine)>>}]
<1> PICK others : others = IF opsSinceSweep + 1 >= SweepEvery THEN [k \in Identities |-> InWindow(stamps[k])] ELSE stamps
  OBVIOUS
<1>1. \A k \in Identities : InWindow(stamps[k]) = InWindow(grants[k]) /\ stamps[k] \subseteq Stamps
  BY DEF LimiterInv, LimiterTypeOK
<1>2. \A k \in Identities : InWindow(stamps[k]) \subseteq Stamps /\ InWindow(InWindow(stamps[k])) = InWindow(stamps[k])
  BY <1>1 DEF InWindow
<1>3. others \in [Identities -> SUBSET Stamps]
  BY <1>1, <1>2 DEF LimiterInv, LimiterTypeOK
<1>4. \A k \in Identities : InWindow(others[k]) = InWindow(grants[k])
  BY <1>1, <1>2
<1>5. opsSinceSweep \in 0..SweepEvery - 1 /\ opsSinceSweep' = IF opsSinceSweep + 1 >= SweepEvery THEN 0 ELSE opsSinceSweep + 1
  BY DEF Allow, LimiterInv, LimiterTypeOK
<1>6. opsSinceSweep' \in 0..SweepEvery - 1
  BY <1>5, LimiterAssumption
<1>7. InWindow(stamps[i]) = InWindow(grants[i])
  BY <1>1
<1> QED BY <1>3, <1>4, <1>6, <1>7 DEF Allow

LEMMA AllowKeeps == ASSUME LimiterInv, NEW i \in Identities, Allow(i) PROVE LimiterInv'
<1> PICK mine, n : mine = InWindow(grants[i]) /\ n = Cardinality(InWindow(grants[i]))
  OBVIOUS
<1>1. PICK others \in [Identities -> SUBSET Stamps] :
              /\ now' = now /\ opsSinceSweep' \in 0..SweepEvery - 1
              /\ \A k \in Identities : InWindow(others[k]) = InWindow(grants[k])
              /\ IF n >= RateMax
                 THEN /\ stamps' = [others EXCEPT ![i] = mine]
                      /\ verdict' = [who |-> i, ok |-> FALSE, retryAt |-> Oldest(mine) + Window]
                      /\ UNCHANGED grants
                 ELSE /\ stamps' = [others EXCEPT ![i] = mine \cup {<<now, n>>}]
                      /\ verdict' = [who |-> i, ok |-> TRUE, retryAt |-> now]
                      /\ grants' = [grants EXCEPT ![i] = @ \cup {<<now, n>>}]
  BY AllowIs
<1>2. /\ now \in Nat /\ Window \in Nat /\ mine \subseteq Stamps /\ n \in Nat /\ RateMax \in Nat /\ RateMax >= 1
      /\ Window >= 1 /\ now \in Times /\ n = Cardinality(mine)
  BY Grants, LimiterAssumption DEF LimiterInv, LimiterTypeOK
<1>4. CASE n >= RateMax
  <2>1. stamps' \in [Identities -> SUBSET Stamps] /\ grants' = grants
    BY <1>1, <1>2, <1>4
  <2>2. \A k \in Identities : InWindow(stamps'[k]) = InWindow(grants[k])
    BY <1>1, <1>4 DEF InWindow
  <2>3. verdict' \in Verdict
    <3>1. mine # {}
      BY <1>2, <1>4, FS_EmptySet
    <3>2. Oldest(mine) \in Nat
      BY <1>2, <3>1, OldestIsOne, StampParts
    <3>3. PICK z \in Int : z = Oldest(mine) + Window
      BY <1>2, <3>2
    <3>4. PICK no \in BOOLEAN : no = FALSE
      OBVIOUS
    <3>5. verdict' = [who |-> i, ok |-> no, retryAt |-> z]
      BY <1>1, <1>4, <3>3, <3>4
    <3> QED BY <3>5 DEF Verdict
  <2>4. LimiterTypeOK'
    BY <1>1, <2>1, <2>3 DEF LimiterInv, LimiterTypeOK
  <2> QED BY <1>1, <2>1, <2>2, <2>4 DEF LimiterInv, WindowKept, GrantedBefore, InWindow
<1>5. CASE ~(n >= RateMax)
  <2>1. PICK pushed : pushed = <<now, n>>
    OBVIOUS
  <2>2. /\ grants' = [grants EXCEPT ![i] = @ \cup {pushed}] /\ stamps' = [others EXCEPT ![i] = mine \cup {pushed}]
        /\ verdict' = [who |-> i, ok |-> TRUE, retryAt |-> now] /\ now' = now
    BY <1>1, <1>5, <2>1
  <2>3. n < RateMax
    BY <1>2, <1>5
  <2>4. /\ grants' \in [Identities -> SUBSET Stamps] /\ pushed \in Stamps
        /\ \A k \in Identities : \A e \in grants'[k] : e[1] <= now
        /\ InWindow(grants'[i]) = InWindow(grants[i]) \cup {pushed}
        /\ \A k \in Identities : \A e \in grants'[k] : e[1] = now => e[2] < Cardinality(InWindow(grants'[k]))
        /\ WindowKept'
    BY <2>1, <2>2, <2>3, GrantKeeps
  <2>5. stamps' \in [Identities -> SUBSET Stamps]
    BY <1>2, <2>2, <2>4
  <2>6. \A k \in Identities : InWindow(stamps'[k]) = InWindow(grants'[k])
    <3>1. stamps'[i] = mine \cup {pushed} /\ InWindow(mine \cup {pushed}) = mine \cup {pushed}
      <4>1. pushed[1] > now - Window
        BY <1>2, <2>1
      <4> QED BY <2>2, <4>1 DEF InWindow
    <3>2. \A k \in Identities \ {i} : stamps'[k] = others[k] /\ grants'[k] = grants[k]
      BY <2>2 DEF LimiterInv, LimiterTypeOK
    <3> QED BY <1>1, <2>4, <3>1, <3>2
  <2>7. verdict' \in Verdict
    <3>1. PICK yes \in BOOLEAN : yes = TRUE
      OBVIOUS
    <3>2. verdict' = [who |-> i, ok |-> yes, retryAt |-> now] /\ now \in Int
      BY <1>2, <2>2, <3>1
    <3> QED BY <3>2 DEF Verdict
  <2>8. LimiterTypeOK'
    BY <1>1, <1>2, <2>4, <2>5, <2>7 DEF LimiterTypeOK
  <2> QED BY <2>2, <2>4, <2>6, <2>8 DEF LimiterInv, InWindow
<1> QED BY <1>4, <1>5

LEMMA TickKeeps == ASSUME LimiterInv, LimiterTick PROVE LimiterInv'
<1>1. now' = now + 1 /\ now < LastTime /\ UNCHANGED <<stamps, opsSinceSweep, grants, verdict>> /\ now \in Nat
  BY LimiterAssumption DEF LimiterTick, LimiterInv, LimiterTypeOK, Times
<1>2. LimiterTypeOK'
  BY <1>1, LimiterAssumption DEF LimiterInv, LimiterTypeOK, Times
<1>3. ASSUME NEW i \in Identities, NEW e \in grants[i] PROVE e[1] <= now' /\ e[1] # now' /\ e[1] \in Nat
  BY <1>1, Grants
<1>4. ASSUME NEW i \in Identities PROVE InWindow(stamps[i])' = InWindow(grants[i])'
  <2>1. \A S \in SUBSET Stamps : InWindow(S)' = {e \in InWindow(S) : e[1] > (now + 1) - Window}
    <3> SUFFICES ASSUME NEW S \in SUBSET Stamps
                 PROVE  InWindow(S)' = {e \in InWindow(S) : e[1] > (now + 1) - Window}
      OBVIOUS
    <3>1. \A e \in S : e[1] \in Nat
      BY StampParts
    <3>2. Window \in Nat
      BY LimiterAssumption
    <3>3. \A e \in S : e[1] > (now + 1) - Window => e[1] > now - Window
      BY <1>1, <3>1, <3>2
    <3> QED BY <1>1, <3>3 DEF InWindow
  <2> QED BY <1>1, <2>1, Grants DEF LimiterInv
<1> QED BY <1>1, <1>2, <1>3, <1>4 DEF LimiterInv, WindowKept, GrantedBefore

LEMMA LimiterStep == LimiterInv /\ [LimiterNext]_limiterVars => LimiterInv'
<1>1. LimiterInv /\ UNCHANGED limiterVars => LimiterInv'
  BY DEF LimiterInv, LimiterTypeOK, limiterVars, WindowKept, GrantedBefore, InWindow
<1> QED BY <1>1, AllowKeeps, TickKeeps DEF LimiterNext

LEMMA LimiterStart == LimiterInit => LimiterInv
<1> SUFFICES ASSUME LimiterInit PROVE LimiterInv
  OBVIOUS
<1>1. LimiterTypeOK
  BY LimiterAssumption DEF LimiterInit, LimiterTypeOK, Times
<1>2. \A i \in Identities : grants[i] = {} /\ stamps[i] = {}
  BY DEF LimiterInit
<1>3. WindowKept
  <2>1. \A i \in Identities, t \in Times : {e \in grants[i] : e[1] > t - Window /\ e[1] <= t} = {}
    BY <1>2
  <2> QED BY <2>1, FS_EmptySet, LimiterAssumption DEF WindowKept, GrantedBefore
<1> QED BY <1>1, <1>2, <1>3 DEF LimiterInv, InWindow

(* A refusal finds the window full, and is lifted when its oldest leaves.  *)
LEMMA RefusalStep ==
  ASSUME LimiterInv, [LimiterNext]_limiterVars, opsSinceSweep' # opsSinceSweep, ~verdict'.ok
  PROVE  /\ GrantedBefore(verdict'.who, now) = RateMax
         /\ GrantedBefore(verdict'.who, verdict'.retryAt) < RateMax
<1>1. PICK i \in Identities : Allow(i)
  BY DEF LimiterNext, LimiterTick, limiterVars
<1> PICK mine, n : mine = InWindow(grants[i]) /\ n = Cardinality(InWindow(grants[i]))
  OBVIOUS
<1>2. n >= RateMax /\ verdict' = [who |-> i, ok |-> FALSE, retryAt |-> Oldest(mine) + Window]
  BY <1>1, AllowIs
<1>3. /\ now \in Nat /\ Window \in Nat /\ mine \subseteq Stamps /\ n \in Nat /\ RateMax \in Nat /\ RateMax >= 1
      /\ Window >= 1 /\ now \in Times /\ n = Cardinality(mine) /\ IsFiniteSet(mine)
  BY Grants, LimiterAssumption DEF LimiterInv, LimiterTypeOK
<1>4. GrantedBefore(i, now) = n
  BY WindowEndsNow DEF GrantedBefore, Between
<1>5. n <= RateMax
  BY <1>3, <1>4 DEF LimiterInv, WindowKept
<1>6. mine # {}
  BY <1>2, <1>3, FS_EmptySet
<1>7. PICK first \in mine : Oldest(mine) = first[1] /\ first[1] \in Nat
  BY <1>3, <1>6, OldestIsOne, StampParts
<1> PICK o : o = first[1]
  OBVIOUS
<1> DEFINE later == {e \in grants[i] : e[1] > (o + Window) - Window /\ e[1] <= o + Window}
<1>8. later \subseteq mine \ {first}
  <2>1. first[1] > now - Window
    BY DEF InWindow
  <2>2. \A e \in later : e[1] \in Nat /\ e[1] > o /\ e \in grants[i]
    BY <1>3, <1>7, Grants
  <2>3. \A e \in later : e[1] > now - Window /\ e # first
    BY <1>3, <1>7, <2>1, <2>2
  <2> QED BY <2>2, <2>3 DEF InWindow
<1>9. Cardinality(mine \ {first}) = n - 1 /\ IsFiniteSet(mine \ {first})
  BY <1>3, FS_RemoveElement
<1>10. Cardinality(later) <= n - 1 /\ Cardinality(later) \in Nat
  BY <1>8, <1>9, FS_Subset, FS_CardinalityType
<1>11. GrantedBefore(i, o + Window) < RateMax
  BY <1>3, <1>5, <1>10 DEF GrantedBefore
<1> QED BY <1>2, <1>3, <1>4, <1>5, <1>7, <1>11

(***************************************************************************)
(* The front door.                                                         *)
(***************************************************************************)
Chargeable(k) == {r \in OnPaidPath : stage[r] \in {"returning", "running"} /\ auth[r] = k}

Budgeted == VirtualKeys \cup {Master}

Misattributed == \E r \in HttpRequests : caller[r] # Anonymous /\ caller[r] # auth[r]

DoorRest ==
  /\ store \in {"connecting", "ready", "broken"} /\ enabled \subseteq VirtualKeys /\ lastAuth \in Identities
  /\ stage \in [HttpRequests -> {"new", "returning", "running"} \cup Waiting \cup Gone]
  /\ auth \in [HttpRequests -> Identities] /\ caller \in [HttpRequests -> Identities]
  /\ spent \in [Identities -> Nat] /\ together \in [Identities -> Nat]

(* Nobody is anybody's before it runs, and nobody who pays has passed      *)
(* before the store was there.                                             *)
NotYet ==
  /\ \A r \in HttpRequests : stage[r] \notin {"running", "served"} => caller[r] = Anonymous
  /\ store = "connecting" => \A k \in Budgeted : Chargeable(k) = {}

TogetherKnown == \A k \in Identities : Cardinality(Uncharged(k)) <= together[k]

(* What has been spent, with what is still to be charged, has overdrawn a  *)
(* budget by no more than was under way together.                          *)
Overlap(k) ==
  /\ Limit[k] > 0 /\ spent[k] > 0 => spent[k] < Limit[k] + together[k]
  /\ store # "broken" /\ Chargeable(k) # {} =>
       spent[k] + Cardinality(Chargeable(k)) < Limit[k] + together[k]

DoorInv ==
  /\ LimiterInv /\ DoorRest /\ NotYet /\ TogetherKnown
  /\ Misattributed \/ \A k \in Budgeted : Overlap(k)

LEMMA RequestSets ==
  /\ \A k : IsFiniteSet(Uncharged(k)) /\ Cardinality(Uncharged(k)) \in Nat
  /\ \A k : IsFiniteSet(Chargeable(k)) /\ Cardinality(Chargeable(k)) \in Nat
  /\ \A k : Chargeable(k) \subseteq Uncharged(k) /\ Cardinality(Chargeable(k)) <= Cardinality(Uncharged(k))
<1>1. \A k : Chargeable(k) \subseteq Uncharged(k) /\ Uncharged(k) \subseteq HttpRequests
  BY DoorAssumption DEF Chargeable, Uncharged
<1>2. \A k : IsFiniteSet(Uncharged(k))
  BY <1>1, DoorAssumption, FS_Subset
<1> QED BY <1>1, <1>2, FS_Subset, FS_CardinalityType

(* The most that were under way together are remembered at every step.     *)
LEMMA StageCounts ==
  ASSUME NEW r \in HttpRequests, NEW s, Stage(r, s), DoorRest, DoorRest'
  PROVE  TogetherKnown' /\ \A k \in Identities : together'[k] >= together[k]
<1>1. ASSUME NEW k \in Identities PROVE Cardinality(Uncharged(k)') <= together'[k] /\ together'[k] >= together[k]
  <2>1. PICK n : n = Cardinality(Uncharged(k)')
    OBVIOUS
  <2>2. n \in Nat
    <3>1. Uncharged(k)' \subseteq HttpRequests
      BY DEF Uncharged
    <3> QED BY <2>1, <3>1, DoorAssumption, FS_Subset, FS_CardinalityType
  <2>3. together'[k] = IF n > together[k] THEN n ELSE together[k]
    BY <2>1 DEF Stage
  <2>4. together[k] \in Nat
    BY DEF DoorRest
  <2> QED BY <2>1, <2>2, <2>3, <2>4
<1> QED BY <1>1 DEF TogetherKnown

(* A request whose auth becomes known was not charged to anybody.          *)
KnownOf(r, k, s) ==
  /\ stage[r] \in {"new", "resolving"}
  /\ s \in {"unauthorized", "limited", "budget", "returning"}
  /\ s = "returning" => r \notin OnPaidPath \/ k = Anonymous
  /\ auth' = [auth EXCEPT ![r] = k] /\ lastAuth' = k /\ Stage(r, s)
  /\ UNCHANGED <<store, enabled, caller, spent>>

LEMMA KnownIs ==
  ASSUME DoorInv, NEW r \in HttpRequests, NEW k \in Identities, Known(r, k), stage[r] \in {"new", "resolving"}
  PROVE  LimiterInv' /\ \E s : KnownOf(r, k, s)
<1>1. CASE KeyRequired /\ k = Anonymous
  <2>1. Stage(r, "unauthorized") /\ UNCHANGED limiterVars
    BY <1>1 DEF Known
  <2>2. KnownOf(r, k, "unauthorized")
    BY <2>1 DEF KnownOf, Known
  <2> QED BY <2>1, <2>2, LimiterStep DEF DoorInv
<1>2. CASE ~(KeyRequired /\ k = Anonymous)
  <2>1. PICK s : s = IF ~verdict'.ok THEN "limited"
                     ELSE IF r \in OnPaidPath /\ k # Anonymous THEN "budget" ELSE "returning"
    OBVIOUS
  <2>2. Allow(k) /\ Stage(r, s)
    BY <1>2, <2>1 DEF Known
  <2>3. KnownOf(r, k, s)
    BY <2>1, <2>2 DEF KnownOf, Known
  <2> QED BY <2>2, <2>3, AllowKeeps DEF DoorInv
<1> QED BY <1>1, <1>2

LEMMA KnownKeeps ==
  ASSUME DoorInv, NEW r \in HttpRequests, NEW k \in Identities, Known(r, k), stage[r] \in {"new", "resolving"}
  PROVE  DoorInv'
<1>1. LimiterInv'
  BY KnownIs
<1>2. PICK s : KnownOf(r, k, s)
  BY KnownIs
<1>3. /\ stage' = [stage EXCEPT ![r] = s] /\ auth' = [auth EXCEPT ![r] = k] /\ lastAuth' = k
      /\ UNCHANGED <<store, enabled, caller, spent>>
      /\ s \in {"unauthorized", "limited", "budget", "returning"}
      /\ s = "returning" => r \notin OnPaidPath \/ k = Anonymous
      /\ stage[r] \in {"new", "resolving"}
  BY <1>2 DEF KnownOf, Stage
<1>4. DoorRest'
  <2>1. together' \in [Identities -> Nat]
    <3>1. \A j \in Identities : Uncharged(j)' \subseteq HttpRequests
      BY DEF Uncharged
    <3>2. \A j \in Identities : Cardinality(Uncharged(j)') \in Nat
      BY <3>1, DoorAssumption, FS_Subset, FS_CardinalityType
    <3> QED BY <1>2, <3>2 DEF KnownOf, Stage, DoorInv, DoorRest
  <2> QED BY <1>3, <2>1 DEF DoorInv, DoorRest, Waiting, Gone
<1>5. TogetherKnown' /\ \A j \in Identities : together'[j] >= together[j]
  BY <1>2, <1>4, StageCounts DEF KnownOf, DoorInv
<1>6. \A j \in Budgeted : Chargeable(j)' = Chargeable(j)
  <2>1. \A q \in HttpRequests \ {r} : stage'[q] = stage[q] /\ auth'[q] = auth[q]
    BY <1>3 DEF DoorInv, DoorRest
  <2>2. stage'[r] = s /\ auth'[r] = k
    BY <1>3 DEF DoorInv, DoorRest
  <2>3. Anonymous \notin Budgeted /\ OnPaidPath \subseteq HttpRequests
    BY DoorAssumption DEF Budgeted
  <2> QED BY <1>3, <2>1, <2>2, <2>3 DEF Chargeable
<1>7. NotYet'
  <2>1. \A q \in HttpRequests : stage'[q] \in {"running", "served"} <=> stage[q] \in {"running", "served"}
    BY <1>3 DEF DoorInv, DoorRest
  <2> QED BY <1>3, <1>6, <2>1 DEF DoorInv, NotYet
<1>8. Misattributed => Misattributed'
  <2>1. caller[r] = Anonymous
    BY <1>3 DEF DoorInv, NotYet
  <2> QED BY <1>3, <2>1 DEF Misattributed, DoorInv, DoorRest
<1>9. ASSUME NEW j \in Budgeted, Overlap(j) PROVE Overlap(j)'
  <2>1. j \in Identities
    BY DoorAssumption DEF Budgeted
  <2>2. Chargeable(j)' = Chargeable(j) /\ spent'[j] = spent[j] /\ store' = store /\ together'[j] >= together[j]
    BY <1>3, <1>5, <1>6, <2>1
  <2>3. Limit[j] \in Nat /\ spent[j] \in Nat /\ together[j] \in Nat /\ together'[j] \in Nat
        /\ Cardinality(Chargeable(j)) \in Nat
    BY <1>4, <2>1, RequestSets, DoorAssumption DEF DoorInv, DoorRest, Budgeted
  <2> QED BY <1>9, <2>2, <2>3 DEF Overlap
<1> QED BY <1>1, <1>4, <1>5, <1>7, <1>8, <1>9 DEF DoorInv

(* What a request's moving on changes of the door, whatever it is.         *)
LEMMA MovesOn ==
  ASSUME DoorInv, NEW r \in HttpRequests, NEW s, Stage(r, s), UNCHANGED auth,
         s \in {"new", "returning", "running"} \cup Waiting \cup Gone,
         UNCHANGED limiterVars, store' \in {"connecting", "ready", "broken"}, UNCHANGED <<enabled, lastAuth>>,
         caller' \in [HttpRequests -> Identities], spent' \in [Identities -> Nat]
  PROVE  LimiterInv' /\ DoorRest' /\ TogetherKnown' /\ \A k \in Identities : together'[k] >= together[k]
<1>1. LimiterInv'
  BY LimiterStep DEF DoorInv
<1>2. stage' = [stage EXCEPT ![r] = s]
  BY DEF Stage
<1>3. together' \in [Identities -> Nat]
  <2>1. \A j \in Identities : Uncharged(j)' \subseteq HttpRequests
    BY DEF Uncharged
  <2>2. \A j \in Identities : Cardinality(Uncharged(j)') \in Nat
    BY <2>1, DoorAssumption, FS_Subset, FS_CardinalityType
  <2> QED BY <2>2 DEF Stage, DoorInv, DoorRest
<1>4. DoorRest'
  BY <1>2, <1>3 DEF DoorInv, DoorRest
<1>5. TogetherKnown' /\ \A k \in Identities : together'[k] >= together[k]
  BY <1>4, StageCounts DEF DoorInv
<1> QED BY <1>1, <1>4, <1>5

(* Overlap follows from what is spent and what is still to be charged.     *)
LEMMA OverlapStays ==
  ASSUME NEW k \in Budgeted, DoorRest, DoorRest', Overlap(k), together'[k] >= together[k],
         spent'[k] = spent[k], store' = "broken" \/ store' = store, Chargeable(k)' \subseteq Chargeable(k)
  PROVE  Overlap(k)'
<1>1. k \in Identities
  BY DoorAssumption DEF Budgeted
<1>2. Limit[k] \in Nat /\ spent[k] \in Nat /\ together[k] \in Nat /\ together'[k] \in Nat
  BY <1>1, DoorAssumption DEF DoorRest, Budgeted
<1>3. PICK C : C = Chargeable(k)
  OBVIOUS
<1>4. PICK D : D = Chargeable(k)'
  OBVIOUS
<1>5. IsFiniteSet(C) /\ Cardinality(C) \in Nat
  BY <1>3, RequestSets
<1>6. Cardinality(D) \in Nat /\ Cardinality(D) <= Cardinality(C) /\ (D # {} => C # {})
  BY <1>3, <1>4, <1>5, FS_Subset, FS_CardinalityType
<1>7. store' # "broken" => store # "broken"
  OBVIOUS
<1> QED BY <1>2, <1>3, <1>4, <1>5, <1>6, <1>7 DEF Overlap

LEMMA ResolvingKeeps ==
  ASSUME DoorInv, NEW r \in HttpRequests, stage[r] = "new", Stage(r, "resolving"),
         UNCHANGED <<limiterVars, store, enabled, lastAuth, auth, caller, spent>>
  PROVE  DoorInv'
<1>1. LimiterInv' /\ DoorRest' /\ TogetherKnown' /\ \A k \in Identities : together'[k] >= together[k]
  BY MovesOn DEF DoorInv, DoorRest, Waiting
<1>2. stage' = [stage EXCEPT ![r] = "resolving"] /\ stage \in [HttpRequests -> {"new", "returning", "running"} \cup Waiting \cup Gone]
  BY DEF Stage, DoorInv, DoorRest
<1>3. \A k : Chargeable(k)' \subseteq Chargeable(k)
  BY <1>2, DoorAssumption DEF Chargeable
<1>4. NotYet'
  BY <1>2, <1>3 DEF DoorInv, NotYet
<1>5. \A k \in Budgeted : k \in Identities
  BY DoorAssumption DEF Budgeted
<1>6. \A k \in Budgeted : Overlap(k) => Overlap(k)'
  BY <1>1, <1>3, <1>5, OverlapStays DEF DoorInv
<1> QED BY <1>1, <1>4, <1>6 DEF DoorInv, Misattributed

LEMMA BudgetCheckedKeeps == ASSUME DoorInv, NEW r \in HttpRequests, BudgetChecked(r) PROVE DoorInv'
<1>0. PICK s : s = IF store = "ready" /\ Exceeded(auth[r]) THEN "over budget" ELSE "returning"
  OBVIOUS
<1>1. Stage(r, s) /\ UNCHANGED <<limiterVars, store, enabled, lastAuth, auth, caller, spent>>
      /\ stage[r] = "budget" /\ store # "connecting"
  BY <1>0 DEF BudgetChecked
<1>2. LimiterInv' /\ DoorRest' /\ TogetherKnown' /\ \A k \in Identities : together'[k] >= together[k]
  BY <1>0, <1>1, MovesOn DEF DoorInv, DoorRest, Gone
<1>3. stage' = [stage EXCEPT ![r] = s] /\ stage \in [HttpRequests -> {"new", "returning", "running"} \cup Waiting \cup Gone]
  BY <1>1 DEF Stage, DoorInv, DoorRest
<1>4. NotYet'
  BY <1>0, <1>1, <1>3 DEF DoorInv, NotYet
<1>5. ASSUME NEW k \in Budgeted, Overlap(k) PROVE Overlap(k)'
  <2>1. k \in Identities
    BY DoorAssumption DEF Budgeted
  <2>2. CASE s = "returning" /\ auth[r] = k /\ store = "ready"
    <3>1. ~(spent[k] >= Limit[k])
      BY <1>0, <2>2 DEF Exceeded
    <3>2. Cardinality(Chargeable(k)') <= Cardinality(Uncharged(k)') /\ Cardinality(Chargeable(k)') \in Nat
          /\ Cardinality(Uncharged(k)') \in Nat
      <4>1. Chargeable(k)' \subseteq Uncharged(k)' /\ Uncharged(k)' \subseteq HttpRequests
        BY DoorAssumption DEF Chargeable, Uncharged
      <4>2. IsFiniteSet(Uncharged(k)')
        BY <4>1, DoorAssumption, FS_Subset
      <4> QED BY <4>1, <4>2, FS_Subset, FS_CardinalityType
    <3>3. Cardinality(Uncharged(k)') <= together'[k]
      BY <1>2, <2>1 DEF TogetherKnown
    <3>4. Limit[k] \in Nat /\ spent[k] \in Nat /\ together'[k] \in Nat /\ spent'[k] = spent[k] /\ together[k] \in Nat
      BY <1>1, <1>2, <2>1, DoorAssumption DEF DoorInv, DoorRest, Budgeted
    <3>5. PICK c, u, t : c = Cardinality(Chargeable(k)') /\ u = Cardinality(Uncharged(k)') /\ t = together'[k]
      OBVIOUS
    <3>6. PICK p, l : p = spent[k] /\ l = Limit[k]
      OBVIOUS
    <3>7. c \in Nat /\ u \in Nat /\ t \in Nat /\ p \in Nat /\ l \in Nat /\ p < l /\ c <= u /\ u <= t
      BY <3>1, <3>2, <3>3, <3>4, <3>5, <3>6
    <3>8. p + c < l + t /\ (p > 0 => p < l + t)
      BY <3>7
    <3>9. Overlap(k)' <=> /\ l > 0 /\ p > 0 => p < l + t
                          /\ store' # "broken" /\ Chargeable(k)' # {} => p + c < l + t
      BY <3>4, <3>5, <3>6 DEF Overlap
    <3> QED BY <3>8, <3>9
  <2>3. CASE ~(s = "returning" /\ auth[r] = k)
    <3>1. Chargeable(k)' \subseteq Chargeable(k)
      BY <1>0, <1>1, <1>3, <2>3, DoorAssumption DEF Chargeable
    <3> QED BY <1>1, <1>2, <1>5, <2>1, <3>1, OverlapStays DEF DoorInv
  <2>4. CASE store = "broken"
    <3>1. spent'[k] = spent[k] /\ store' = "broken" /\ together'[k] >= together[k]
      BY <1>1, <1>2, <2>1, <2>4
    <3>2. Limit[k] \in Nat /\ spent[k] \in Nat /\ together'[k] \in Nat /\ together[k] \in Nat
      BY <1>2, <2>1, DoorAssumption DEF DoorInv, DoorRest, Budgeted
    <3>3. PICK p, l, t, n : p = spent[k] /\ l = Limit[k] /\ t = together[k] /\ n = together'[k]
      OBVIOUS
    <3>4. p \in Nat /\ l \in Nat /\ t \in Nat /\ n \in Nat /\ n >= t /\ (l > 0 /\ p > 0 => p < l + t)
      BY <1>5, <3>1, <3>2, <3>3 DEF Overlap
    <3>5. l > 0 /\ p > 0 => p < l + n
      BY <3>4
    <3> QED BY <3>1, <3>3, <3>5 DEF Overlap
  <2> QED BY <1>1, <2>2, <2>3, <2>4 DEF DoorInv, DoorRest
<1> QED BY <1>1, <1>2, <1>4, <1>5 DEF DoorInv, Misattributed

LEMMA EnterKeeps == ASSUME DoorInv, NEW r \in HttpRequests, Enter(r) PROVE DoorInv'
<1>1. Stage(r, "running") /\ UNCHANGED <<limiterVars, store, enabled, lastAuth, auth, spent>>
      /\ stage[r] = "returning" /\ caller' = [caller EXCEPT ![r] = lastAuth]
  BY DEF Enter
<1>2. LimiterInv' /\ DoorRest' /\ TogetherKnown' /\ \A k \in Identities : together'[k] >= together[k]
  BY <1>1, MovesOn DEF DoorInv, DoorRest
<1>3. stage' = [stage EXCEPT ![r] = "running"] /\ stage \in [HttpRequests -> {"new", "returning", "running"} \cup Waiting \cup Gone]
      /\ caller \in [HttpRequests -> Identities]
  BY <1>1 DEF Stage, DoorInv, DoorRest
<1>4. \A k : Chargeable(k)' \subseteq Chargeable(k)
  BY <1>1, <1>3, DoorAssumption DEF Chargeable
<1>5. NotYet'
  BY <1>1, <1>3, <1>4 DEF DoorInv, NotYet
<1>6. Misattributed => Misattributed'
  <2>1. caller[r] = Anonymous
    BY <1>1 DEF DoorInv, NotYet
  <2> QED BY <1>1, <1>3, <2>1 DEF Misattributed
<1>7. \A k \in Budgeted : k \in Identities
  BY DoorAssumption DEF Budgeted
<1>8. \A k \in Budgeted : Overlap(k) => Overlap(k)'
  BY <1>1, <1>2, <1>4, <1>7, OverlapStays DEF DoorInv
<1> QED BY <1>2, <1>5, <1>6, <1>8 DEF DoorInv

LEMMA ServedKeeps == ASSUME DoorInv, NEW r \in HttpRequests, Served(r) PROVE DoorInv'
<1>1. Stage(r, "served") /\ UNCHANGED <<limiterVars, store, enabled, lastAuth, auth, caller>>
      /\ stage[r] = "running"
      /\ \/ store = "ready" /\ r \in OnPaidPath /\ spent' = [spent EXCEPT ![caller[r]] = @ + 1]
         \/ UNCHANGED spent
  BY DEF Served
<1>2. spent' \in [Identities -> Nat]
  BY <1>1 DEF DoorInv, DoorRest
<1>3. LimiterInv' /\ DoorRest' /\ TogetherKnown' /\ \A k \in Identities : together'[k] >= together[k]
  BY <1>1, <1>2, MovesOn DEF DoorInv, DoorRest, Gone
<1>4. stage' = [stage EXCEPT ![r] = "served"] /\ stage \in [HttpRequests -> {"new", "returning", "running"} \cup Waiting \cup Gone]
  BY <1>1 DEF Stage, DoorInv, DoorRest
<1>5. \A k : Chargeable(k)' = Chargeable(k) \ {r}
  BY <1>1, <1>4, DoorAssumption DEF Chargeable
<1>6. NotYet'
  BY <1>1, <1>4, <1>5 DEF DoorInv, NotYet
<1>7. ASSUME NEW k \in Budgeted, Overlap(k), ~Misattributed PROVE Overlap(k)'
  <2>1. k \in Identities /\ k # Anonymous
    BY DoorAssumption DEF Budgeted
  <2>2. CASE spent'[k] = spent[k]
    BY <1>1, <1>3, <1>5, <1>7, <2>1, <2>2, OverlapStays DEF DoorInv
  <2>3. CASE spent'[k] # spent[k]
    <3>1. store = "ready" /\ store' = "ready" /\ r \in OnPaidPath /\ caller[r] = k /\ spent'[k] = spent[k] + 1
      BY <1>1, <2>1, <2>3 DEF DoorInv, DoorRest
    <3>2. auth[r] = k
      BY <1>7, <2>1, <3>1 DEF Misattributed
    <3>3. PICK C : C = Chargeable(k)
      OBVIOUS
    <3>4. r \in C /\ Chargeable(k)' = C \ {r} /\ IsFiniteSet(C) /\ Cardinality(C) \in Nat
      BY <1>1, <1>5, <3>1, <3>2, <3>3, RequestSets DEF Chargeable
    <3>5. Cardinality(C \ {r}) = Cardinality(C) - 1 /\ C # {}
      BY <3>4, FS_RemoveElement
    <3>9. Cardinality(C) >= 1
      BY <3>4, <3>5, FS_EmptySet
    <3>6. spent[k] + Cardinality(C) < Limit[k] + together[k]
      BY <1>7, <3>1, <3>3, <3>5 DEF Overlap
    <3>7. Limit[k] \in Nat /\ spent[k] \in Nat /\ together'[k] \in Nat /\ together[k] \in Nat /\ together'[k] >= together[k]
      BY <1>3, <2>1, DoorAssumption DEF DoorInv, DoorRest, Budgeted
    <3>8. spent[k] + 1 < Limit[k] + together'[k]
          /\ (spent[k] + 1) + (Cardinality(C) - 1) < Limit[k] + together'[k]
      BY <3>4, <3>6, <3>7, <3>9
    <3> QED BY <3>1, <3>4, <3>5, <3>8 DEF Overlap
  <2> QED BY <2>2, <2>3
<1>8. Misattributed => Misattributed'
  BY <1>1 DEF Misattributed
<1> QED BY <1>3, <1>6, <1>7, <1>8 DEF DoorInv

StoreGoesOn == store' = store \/ (store = "connecting" /\ store' \in {"ready", "broken"})

LEMMA OthersKeep ==
  ASSUME DoorInv, UNCHANGED <<lastAuth, stage, auth, caller, spent, together>>, LimiterInv',
         enabled' \subseteq enabled, StoreGoesOn
  PROVE  DoorInv'
<1>1. \A k : Chargeable(k)' = Chargeable(k) /\ Uncharged(k)' = Uncharged(k)
  BY DEF Chargeable, Uncharged
<1>2. DoorRest'
  BY DEF DoorInv, DoorRest, StoreGoesOn
<1>3. TogetherKnown'
  BY <1>1 DEF DoorInv, TogetherKnown
<1>4. NotYet'
  BY <1>1 DEF DoorInv, NotYet, StoreGoesOn
<1>5. \A k \in Budgeted : Overlap(k) => Overlap(k)'
  BY <1>1 DEF DoorInv, NotYet, StoreGoesOn, Overlap
<1> QED BY <1>2, <1>3, <1>4, <1>5 DEF DoorInv, Misattributed

LEMMA FrontStep == DoorInv /\ [DoorNext \/ (LimiterNext /\ UNCHANGED doorVars)]_frontVars => DoorInv'
<1> SUFFICES ASSUME DoorInv, [DoorNext \/ (LimiterNext /\ UNCHANGED doorVars)]_frontVars PROVE DoorInv'
  OBVIOUS
<1>1. ASSUME NEW r \in HttpRequests, Arrive(r) PROVE DoorInv'
  <2>1. CASE Owner[r] \in VirtualKeys
    BY <1>1, <2>1, ResolvingKeeps DEF Arrive
  <2>2. CASE Owner[r] \notin VirtualKeys
    <3>1. Known(r, Owner[r]) /\ Owner[r] \in Identities /\ stage[r] = "new"
      BY <1>1, <2>2, DoorAssumption DEF Arrive
    <3> QED BY <3>1, KnownKeeps
  <2> QED BY <2>1, <2>2
<1>2. ASSUME NEW r \in HttpRequests, KeyResolved(r) PROVE DoorInv'
  <2>1. PICK k : k = IF store = "ready" /\ Owner[r] \in enabled THEN Owner[r] ELSE Anonymous
    OBVIOUS
  <2>2. k \in Identities /\ Known(r, k) /\ stage[r] = "resolving"
    BY <1>2, <2>1, DoorAssumption DEF KeyResolved
  <2> QED BY <2>2, KnownKeeps
<1>3. ASSUME NEW end \in {"ready", "broken"}, StoreConnects(end) PROVE DoorInv'
  <2>1. LimiterInv'
    BY <1>3, LimiterStep DEF StoreConnects, DoorInv
  <2>2. UNCHANGED <<lastAuth, stage, auth, caller, spent, together>> /\ StoreGoesOn /\ enabled' \subseteq enabled
    BY <1>3 DEF StoreConnects, StoreGoesOn
  <2> QED BY <2>1, <2>2, OthersKeep
<1>4. ASSUME NEW k \in VirtualKeys, Revoke(k) PROVE DoorInv'
  <2>1. LimiterInv'
    BY <1>4, LimiterStep DEF Revoke, DoorInv
  <2>2. UNCHANGED <<lastAuth, stage, auth, caller, spent, together>> /\ StoreGoesOn /\ enabled' \subseteq enabled
    BY <1>4 DEF Revoke, StoreGoesOn
  <2> QED BY <2>1, <2>2, OthersKeep
<1>5. CASE [LimiterNext]_limiterVars /\ UNCHANGED doorVars
  <2>1. LimiterInv'
    BY <1>5, LimiterStep DEF DoorInv
  <2>2. UNCHANGED <<lastAuth, stage, auth, caller, spent, together>> /\ StoreGoesOn /\ enabled' \subseteq enabled
    BY <1>5 DEF doorVars, StoreGoesOn
  <2> QED BY <2>1, <2>2, OthersKeep
<1>6. LimiterTick => LimiterNext
  BY DEF LimiterNext
<1> QED BY <1>1, <1>2, <1>3, <1>4, <1>5, <1>6, BudgetCheckedKeeps, EnterKeeps, ServedKeeps DEF DoorNext, frontVars

LEMMA FrontStart == DoorInit => DoorInv
<1> SUFFICES ASSUME DoorInit PROVE DoorInv
  OBVIOUS
<1>1. LimiterInv
  BY LimiterStart DEF DoorInit
<1>2. DoorRest
  BY DoorAssumption DEF DoorInit, DoorRest
<1>3. \A k : Uncharged(k) = {} /\ Chargeable(k) = {}
  BY DoorAssumption DEF DoorInit, Uncharged, Chargeable
<1>4. NotYet
  BY <1>3 DEF DoorInit, NotYet
<1>5. TogetherKnown
  BY <1>3, FS_EmptySet DEF DoorInit, TogetherKnown
<1>6. \A k \in Budgeted : Overlap(k)
  <2>1. \A k \in Budgeted : spent[k] = 0
    BY DoorAssumption DEF DoorInit, Budgeted
  <2> QED BY <1>3, <2>1 DEF Overlap
<1> QED BY <1>1, <1>2, <1>4, <1>5, <1>6 DEF DoorInv

LEMMA DoorCorrect == DoorInv => DoorSound
<1> SUFFICES ASSUME DoorInv PROVE DoorSound
  OBVIOUS
<1>1. DoorTypeOK
  BY DEF DoorInv, LimiterInv, DoorRest, DoorTypeOK
<1>2. OverdrawnByOverlap
  BY DEF DoorInv, Misattributed, Overlap, Budgeted, OverdrawnByOverlap
<1> QED BY <1>1, <1>2 DEF DoorInv, LimiterInv, DoorSound

LEMMA FrontPart ==
  ASSUME [ResourcesNext]_parts
  PROVE  /\ part' = part
         /\ part \in {"limiter", "door"} => [DoorNext \/ (LimiterNext /\ UNCHANGED doorVars)]_frontVars
         /\ part \notin {"limiter", "door"} => UNCHANGED frontVars
<1>1. CASE UNCHANGED parts
  BY <1>1 DEF parts
<1>2. CASE ResourcesNext
  BY <1>2 DEF ResourcesNext, frontVars
<1> QED BY <1>1, <1>2

(* Callers are let through and charged as their keys allow: nobody more    *)
(* often than the window permits, and no key beyond its budget by more     *)
(* than the requests that were under way together.                         *)
THEOREM AccountsCorrect == ResourcesSpec => []AccountsSound
<1> DEFINE I == part \in {"limiter", "door"} => DoorInv
<1>1. ResourcesInit => I
  BY FrontStart DEF ResourcesInit
<1>2. I /\ [ResourcesNext]_parts => I'
  BY FrontPart, FrontStep
<1>3. I => AccountsSound
  BY DoorCorrect DEF AccountsSound
<1>4. QED
  BY <1>1, <1>2, <1>3, PTL DEF ResourcesSpec

(* Whatever the front door does, the limiter makes a step of its own.      *)
LEMMA DoorLimits ==
  ASSUME DoorInv, [DoorNext \/ (LimiterNext /\ UNCHANGED doorVars)]_frontVars PROVE [LimiterNext]_limiterVars
<1>1. ASSUME NEW r \in HttpRequests, NEW k \in Identities, Known(r, k) PROVE [LimiterNext]_limiterVars
  BY <1>1 DEF Known, LimiterNext
<1>2. ASSUME NEW r \in HttpRequests, Arrive(r) PROVE [LimiterNext]_limiterVars
  <2>1. Owner[r] \in Identities
    BY DoorAssumption
  <2> QED BY <1>1, <1>2, <2>1 DEF Arrive
<1>3. ASSUME NEW r \in HttpRequests, KeyResolved(r) PROVE [LimiterNext]_limiterVars
  <2>1. Owner[r] \in Identities /\ Anonymous \in Identities
    BY DoorAssumption
  <2> QED BY <1>1, <1>3, <2>1 DEF KeyResolved
<1>4. ASSUME NEW r \in HttpRequests, BudgetChecked(r) \/ Enter(r) \/ Served(r) PROVE [LimiterNext]_limiterVars
  BY <1>4 DEF BudgetChecked, Enter, Served
<1>5. ASSUME NEW end, StoreConnects(end) PROVE [LimiterNext]_limiterVars
  BY <1>5 DEF StoreConnects
<1>6. ASSUME NEW k, Revoke(k) PROVE [LimiterNext]_limiterVars
  BY <1>6 DEF Revoke
<1>7. LimiterTick => LimiterNext
  BY DEF LimiterNext
<1> QED BY <1>2, <1>3, <1>4, <1>5, <1>6, <1>7 DEF DoorNext, frontVars

(* What is refused or cut off is due: the limiter refuses only in a full   *)
(* window and says honestly when it has room again, and an agent that a    *)
(* request holds goes only for a new one, or with the pool, unless its     *)
(* count was lowered by a request that held an earlier one.                *)
THEOREM RefusalsAreDue == ResourcesSpec => RefusedWhenDue
<1> DEFINE I == (part \in {"limiter", "door"} => DoorInv) /\ (part = "connections" => ConnectionInv)
           Refused == opsSinceSweep' # opsSinceSweep /\ ~verdict'.ok
                        => /\ GrantedBefore(verdict'.who, now) = RateMax
                           /\ GrantedBefore(verdict'.who, verdict'.retryAt) < RateMax
           CutOff == \A o \in Pooled :
                       LET a == agentOf[o].agent
                       IN  a \in destroyed' \ destroyed /\ UsersWith(a) # {} =>
                             \/ ~Healthy(o) /\ agents' > agents
                             \/ ~cleaning' /\ Pooled' = {}
                             \/ a \in short
<1>1. ResourcesInit => I
  BY FrontStart, ConnectionStart DEF ResourcesInit
<1>2. I /\ [ResourcesNext]_parts => I'
  BY FrontPart, FrontStep, ConnectionsPart, ConnectionStep
<1>3. ASSUME I, [ResourcesNext]_parts PROVE [Refused]_limiterVars
  <2>1. CASE part \in {"limiter", "door"}
    <3>1. DoorInv /\ LimiterInv /\ [LimiterNext]_limiterVars
      BY <1>3, <2>1, FrontPart, DoorLimits DEF DoorInv
    <3> QED BY <3>1, RefusalStep
  <2>2. CASE part \notin {"limiter", "door"}
    BY <1>3, <2>2, FrontPart DEF frontVars
  <2> QED BY <2>1, <2>2
<1>4. ASSUME I, [ResourcesNext]_parts PROVE [CutOff]_connectionVars
  <2>1. CASE part = "connections"
    BY <1>4, <2>1, ConnectionsPart, DestroyedWhenDueStep
  <2>2. CASE part # "connections"
    BY <1>4, <2>2, ConnectionsPart
  <2> QED BY <2>1, <2>2
<1>5. QED
  BY <1>1, <1>2, <1>3, <1>4, PTL DEF ResourcesSpec, RefusedWhenDue, RefusalIsDue, DestroyedWhenDue

LEMMA RecordsPart ==
  ASSUME [ResourcesNext]_parts
  PROVE  part' = part /\ (part = "catalog" => [CatalogNext]_catalogVars) /\ (part = "config" => [ConfigNext]_configVars)
<1>1. CASE UNCHANGED parts
  BY <1>1 DEF parts, pageVars
<1>2. CASE ResourcesNext
  BY <1>2 DEF ResourcesNext
<1> QED BY <1>1, <1>2

(* What a restart and a caller find in the catalogue and the configuration *)
(* is what is there, after crashes and overlapping pulls too.              *)
THEOREM RecordsCorrect == ResourcesSpec => []RecordsSound
<1> DEFINE I == (part = "catalog" => CatalogInv) /\ (part = "config" => ConfigInv)
<1>1. ResourcesInit => I
  BY CatalogStart, ConfigStart DEF ResourcesInit, CatalogInit
<1>2. I /\ [ResourcesNext]_parts => I'
  BY RecordsPart, CatalogStep, ConfigStep
<1>3. I => RecordsSound
  BY CatalogHolds, InvSuffices DEF RecordsSound
<1>4. QED
  BY <1>1, <1>2, <1>3, PTL DEF ResourcesSpec

(***************************************************************************)
(* The scheduler of the grid.  What happens to one task in the list: it is *)
(* put in, taken out, or has others put in and taken out around it.        *)
(***************************************************************************)
Once(x, list) ==
  /\ In(x, list)
  /\ \A j, k \in 1..Len(list) : list[j] = x /\ list[k] = x => j = k

(* The members of t are members of s, at other places.                     *)
ReadFrom(t, s) ==
  \E p : /\ \A k \in 1..Len(t) : p[k] \in 1..Len(s) /\ t[k] = s[p[k]]
         /\ \A j, k \in 1..Len(t) : p[j] = p[k] => j = k

LEMMA ReadHas ==
  ASSUME NEW s, NEW t, ReadFrom(t, s), NEW x
  PROVE  /\ In(x, t) => In(x, s)
         /\ Once(x, s) /\ In(x, t) => Once(x, t)
<1>1. PICK p : /\ \A k \in 1..Len(t) : p[k] \in 1..Len(s) /\ t[k] = s[p[k]]
               /\ \A j, k \in 1..Len(t) : p[j] = p[k] => j = k
  BY DEF ReadFrom
<1>2. In(x, t) => In(x, s)  BY <1>1 DEF In
<1>3. ASSUME Once(x, s), In(x, t) PROVE Once(x, t)
  <2>1. ASSUME NEW j \in 1..Len(t), NEW k \in 1..Len(t), t[j] = x, t[k] = x PROVE j = k
    <3>1. p[j] \in 1..Len(s) /\ p[k] \in 1..Len(s) /\ s[p[j]] = x /\ s[p[k]] = x  BY <1>1, <2>1
    <3>2. p[j] = p[k]  BY <1>3, <3>1 DEF Once
    <3> QED  BY <1>1, <3>2
  <2> QED  BY <1>3, <2>1 DEF Once
<1> QED  BY <1>2, <1>3

(* x is in t as it is in s.                                                *)
Alike(x, s, t) == (In(x, s) <=> In(x, t)) /\ (Once(x, s) => Once(x, t))

(* t is s without the element of place i.                                  *)
HasRemoved(s, i, t) ==
  /\ Len(t) = Len(s) - 1
  /\ \A k \in 1..Len(s) - 1 : t[k] = IF k < i THEN s[k] ELSE s[k + 1]

KeepsOthers(s, i, t) == \A j \in 1..Len(s) : j # i => In(s[j], t)

(* t is s from place n + 1 on.                                             *)
KeepsEnd(s, n, t) ==
  /\ \A k \in 1..Len(s) : k > n => In(s[k], t)
  /\ \A x : In(x, t) => \E k \in 1..Len(s) : k > n /\ s[k] = x

LEMMA RemoveAtReads ==
  ASSUME NEW T, NEW s \in Seq(T), NEW i \in 1..Len(s), NEW t, t = RemoveAt(s, i)
  PROVE  t \in Seq(T) /\ ReadFrom(t, s) /\ HasRemoved(s, i, t) /\ KeepsOthers(s, i, t)
<1>1. PICK n \in Nat : n = Len(s)  BY LenProperties
<1>2. t \in Seq(T) /\ Len(t) = n - 1 /\ \A k \in 1..n - 1 : t[k] = IF k < i THEN s[k] ELSE s[k + 1]
  BY <1>1, RemovedIs
<1>3. PICK p : p = [k \in 1..n - 1 |-> IF k < i THEN k ELSE k + 1]  OBVIOUS
<1>4. \A k \in 1..n - 1 : p[k] \in 1..n /\ t[k] = s[p[k]]  BY <1>1, <1>2, <1>3
<1>5. \A j, k \in 1..n - 1 : p[j] = p[k] => j = k  BY <1>1, <1>3
<1>6. ReadFrom(t, s)
  <2>1. Len(t) = n - 1 /\ Len(s) = n  BY <1>1, <1>2
  <2>2. /\ \A k \in 1..Len(t) : p[k] \in 1..Len(s) /\ t[k] = s[p[k]]
        /\ \A j, k \in 1..Len(t) : p[j] = p[k] => j = k
    BY <1>4, <1>5, <2>1
  <2> QED  BY <2>2 DEF ReadFrom
<1>7. ASSUME NEW j \in 1..n, j # i PROVE In(s[j], t)
  <2>1. CASE j < i
    <3>1. j \in 1..n - 1 /\ p[j] = j  BY <1>1, <1>3, <2>1
    <3> QED  BY <1>2, <1>4, <3>1 DEF In
  <2>2. CASE ~(j < i)
    <3>1. j - 1 \in 1..n - 1 /\ p[j - 1] = j  BY <1>1, <1>3, <1>7, <2>2
    <3> QED  BY <1>2, <1>4, <3>1 DEF In
  <2> QED  BY <2>1, <2>2
<1>8. HasRemoved(s, i, t)  BY <1>1, <1>2 DEF HasRemoved
<1>9. KeepsOthers(s, i, t)  BY <1>1, <1>7 DEF KeepsOthers
<1> QED  BY <1>2, <1>6, <1>8, <1>9

LEMMA RemoveFirstReads ==
  ASSUME NEW T, NEW s \in Seq(T), NEW e, NEW t, t = RemoveFirst(s, e)
  PROVE  /\ t \in Seq(T) /\ \A x : x # e => Alike(x, s, t)
         /\ (Once(e, s) \/ ~In(e, s)) => ~In(e, t)
<1>1. CASE In(e, s)
  <2>1. PICK i : i = PlaceOf(e, s)  OBVIOUS
  <2>2. i \in 1..Len(s) /\ s[i] = e  BY <1>1, <2>1, FirstPlace
  <2>3. t = RemoveAt(s, i)  BY <1>1, <2>1 DEF RemoveFirst, In, PlaceOf
  <2>4. t \in Seq(T) /\ ReadFrom(t, s) /\ HasRemoved(s, i, t) /\ KeepsOthers(s, i, t)
    BY <2>2, <2>3, RemoveAtReads
  <2>5. ASSUME NEW x, x # e PROVE Alike(x, s, t)
    <3>1. ASSUME In(x, s) PROVE In(x, t)
      <4>1. PICK j \in 1..Len(s) : s[j] = x  BY <3>1 DEF In
      <4>2. j # i  BY <2>2, <2>5, <4>1
      <4> QED  BY <2>4, <4>1, <4>2 DEF KeepsOthers
    <3> QED  BY <2>4, <3>1, ReadHas DEF Alike, Once
  <2>6. ASSUME Once(e, s), In(e, t) PROVE FALSE
    <3>1. PICK p : /\ \A k \in 1..Len(t) : p[k] \in 1..Len(s) /\ t[k] = s[p[k]]
                   /\ \A j, k \in 1..Len(t) : p[j] = p[k] => j = k
      BY <2>4 DEF ReadFrom
    <3>2. PICK n \in Nat : n = Len(s)  BY LenProperties
    <3>3. Len(t) = n - 1 /\ \A k \in 1..n - 1 : t[k] = IF k < i THEN s[k] ELSE s[k + 1]
      BY <2>4, <3>2 DEF HasRemoved
    <3>4. PICK k \in 1..n - 1 : t[k] = e  BY <2>6, <3>3 DEF In
    <3>5. CASE k < i
      <4>1. k \in 1..n /\ s[k] = e  BY <3>2, <3>3, <3>4, <3>5
      <4> QED  BY <2>2, <2>6, <3>2, <3>5, <4>1 DEF Once
    <3>6. CASE ~(k < i)
      <4>1. k + 1 \in 1..n /\ s[k + 1] = e /\ k + 1 # i  BY <2>2, <3>2, <3>3, <3>4, <3>6
      <4> QED  BY <2>2, <2>6, <3>2, <4>1 DEF Once
    <3> QED  BY <3>5, <3>6
  <2> QED  BY <1>1, <2>4, <2>5, <2>6
<1>2. CASE ~In(e, s)
  <2>1. t = s  BY <1>2 DEF RemoveFirst, In
  <2> QED  BY <1>2, <2>1 DEF Alike
<1> QED  BY <1>1, <1>2

LEMMA InsertReads ==
  ASSUME NEW T, NEW s \in Seq(T), NEW e \in T, NEW i \in 1..Len(s) + 1, NEW t, t = InsertAt(s, i, e)
  PROVE  /\ t \in Seq(T) /\ In(e, t) /\ (~In(e, s) => Once(e, t))
         /\ \A x : x # e => Alike(x, s, t)
<1>1. PICK n \in Nat : n = Len(s)  BY LenProperties
<1>2. t \in Seq(T) /\ Len(t) = n + 1 /\ HasInserted(s, i, e, t)  BY <1>1, InsertedIs
<1>3. i \in 1..n + 1 /\ \A k \in 1..n + 1 : t[k] = IF k < i THEN s[k] ELSE IF k = i THEN e ELSE s[k - 1]
  BY <1>1, <1>2 DEF HasInserted
<1>4. t[i] = e  BY <1>3
<1>5. In(e, t)  BY <1>2, <1>3, <1>4 DEF In
<1>6. PICK q : q = [k \in 1..n |-> IF k < i THEN k ELSE k + 1]  OBVIOUS
<1>7. \A k \in 1..n : q[k] \in 1..n + 1 /\ q[k] # i /\ t[q[k]] = s[k]
  <2>1. ASSUME NEW k \in 1..n PROVE q[k] \in 1..n + 1 /\ q[k] # i /\ t[q[k]] = s[k]
    <3>1. CASE k < i  BY <1>3, <1>6, <3>1
    <3>2. CASE ~(k < i)
      <4>1. q[k] = k + 1 /\ k + 1 \in 1..n + 1 /\ ~(k + 1 < i) /\ k + 1 # i /\ (k + 1) - 1 = k  BY <1>3, <1>6, <3>2
      <4> QED  BY <1>3, <4>1
    <3> QED  BY <3>1, <3>2
  <2> QED  BY <2>1
<1>8. PICK p : p = [k \in 1..n + 1 |-> IF k < i THEN k ELSE k - 1]  OBVIOUS
<1>9. \A k \in 1..n + 1 : k # i => p[k] \in 1..n /\ t[k] = s[p[k]]
  <2>1. ASSUME NEW k \in 1..n + 1, k # i PROVE p[k] \in 1..n /\ t[k] = s[p[k]]
    <3>1. CASE k < i  BY <1>3, <1>8, <3>1
    <3>2. CASE ~(k < i)
      <4>1. p[k] = k - 1 /\ k - 1 \in 1..n  BY <1>3, <1>8, <2>1, <3>2
      <4> QED  BY <1>3, <2>1, <3>2, <4>1
    <3> QED  BY <3>1, <3>2
  <2> QED  BY <2>1
<1>10. \A j, k \in 1..n + 1 : j # i /\ k # i /\ p[j] = p[k] => j = k  BY <1>3, <1>8
<1>11. ASSUME NEW x, x # e PROVE Alike(x, s, t)
  <2>1. In(x, s) => In(x, t)  BY <1>1, <1>2, <1>7 DEF In
  <2>2. In(x, t) => In(x, s)  BY <1>1, <1>2, <1>4, <1>9, <1>11 DEF In
  <2>3. ASSUME Once(x, s), NEW j \in 1..n + 1, NEW k \in 1..n + 1, t[j] = x, t[k] = x PROVE j = k
    <3>1. j # i /\ k # i  BY <1>4, <1>11, <2>3
    <3>2. p[j] \in 1..n /\ p[k] \in 1..n /\ s[p[j]] = x /\ s[p[k]] = x  BY <1>9, <2>3, <3>1
    <3>3. p[j] = p[k]  BY <1>1, <2>3, <3>2 DEF Once
    <3> QED  BY <1>10, <3>1, <3>3
  <2> QED  BY <1>2, <2>1, <2>2, <2>3 DEF Alike, Once
<1>12. ASSUME ~In(e, s), NEW j \in 1..n + 1, NEW k \in 1..n + 1, t[j] = e, t[k] = e PROVE j = k
  <2>1. \A h \in 1..n + 1 : h # i => t[h] # e  BY <1>1, <1>9, <1>12 DEF In
  <2> QED  BY <1>12, <2>1
<1> QED  BY <1>2, <1>5, <1>11, <1>12 DEF Once

LEMMA DropReads ==
  ASSUME NEW T, NEW s \in Seq(T), NEW n \in 0..Len(s), NEW t, t = SubSeq(s, n + 1, Len(s))
  PROVE  t \in Seq(T) /\ ReadFrom(t, s) /\ KeepsEnd(s, n, t)
<1>1. PICK m \in Nat : m = Len(s)  BY LenProperties
<1>2. n \in Nat /\ n <= m  BY <1>1
<1>3. t \in Seq(T) /\ Len(t) = m - n /\ \A k \in 1..m - n : t[k] = s[n + k]  BY <1>1, DroppedIs
<1>4. PICK p : p = [k \in 1..m - n |-> n + k]  OBVIOUS
<1>5. \A k \in 1..m - n : p[k] \in 1..m /\ p[k] > n /\ t[k] = s[p[k]]  BY <1>1, <1>2, <1>3, <1>4
<1>6. \A j, k \in 1..m - n : p[j] = p[k] => j = k  BY <1>1, <1>2, <1>4
<1>7. ReadFrom(t, s)
  <2>1. Len(t) = m - n /\ Len(s) = m  BY <1>1, <1>3
  <2>2. /\ \A k \in 1..Len(t) : p[k] \in 1..Len(s) /\ t[k] = s[p[k]]
        /\ \A j, k \in 1..Len(t) : p[j] = p[k] => j = k
    BY <1>5, <1>6, <2>1
  <2> QED  BY <2>2 DEF ReadFrom
<1>8. ASSUME NEW k \in 1..m, k > n PROVE In(s[k], t)
  <2>1. k - n \in 1..m - n /\ p[k - n] = k  BY <1>1, <1>2, <1>4, <1>8
  <2> QED  BY <1>3, <1>5, <2>1 DEF In
<1>9. \A x : In(x, t) => \E k \in 1..m : k > n /\ s[k] = x  BY <1>3, <1>5 DEF In
<1>10. KeepsEnd(s, n, t)  BY <1>1, <1>8, <1>9 DEF KeepsEnd
<1> QED  BY <1>3, <1>7, <1>10

LEMMA SiftReads ==
  ASSUME NEW T, NEW s \in Seq(T), NEW places, ArePlaces(places, s), NEW t, t = AtPlaces(s, places)
  PROVE  t \in Seq(T) /\ ReadFrom(t, s) /\ \A x : In(x, t) <=> \E k \in places : s[k] = x
<1>1. PICK n : n = Cardinality(places)  OBVIOUS
<1>2. PICK p : Enumerates(p, n, places) /\ t = [i \in 1..n |-> s[p[i]]]  BY <1>1, AtPlacesBy
<1>3. HasEach(p, n, places) /\ n \in Nat /\ p \in [1..n -> places]  BY <1>2, SortedHasAll DEF Enumerates
<1>4. t \in Seq(T) /\ SiftedTo(s, places, t)  BY AtPlacesIs
<1>5. Len(t) = n /\ \A x : In(x, t) <=> \E k \in places : s[k] = x  BY <1>1, <1>4 DEF SiftedTo
<1>6. \A k \in 1..n : p[k] \in 1..Len(s) /\ t[k] = s[p[k]]  BY <1>2, <1>3 DEF ArePlaces
<1>7. \A j, k \in 1..n : p[j] = p[k] => j = k  BY <1>3 DEF HasEach
<1>8. ReadFrom(t, s)  BY <1>5, <1>6, <1>7 DEF ReadFrom
<1> QED  BY <1>4, <1>5, <1>8

LEMMA InsertedReads ==
  ASSUME NEW list \in Seq(GridTasks), NEW known, NEW t \in GridTasks, NEW l, l = Inserted(list, known, t)
  PROVE  /\ l \in Seq(GridTasks) /\ In(t, l) /\ (~In(t, list) => Once(t, l))
         /\ \A x : x # t => Alike(x, list, l)
<1>1. PICK n \in Nat : n = Len(list)  BY LenProperties
<1>2. PICK I : I = {i \in 1..n : list[i] \in known /\ UrgencyRank[list[i]] > UrgencyRank[t]}  OBVIOUS
<1>3. PICK later : later = IF I # {} THEN Min(I) ELSE 0  OBVIOUS
<1>4. PICK i : i = IF later = 0 THEN n + 1 ELSE later  OBVIOUS
<1>5. l = InsertAt(list, i, t)  BY <1>1, <1>2, <1>3, <1>4 DEF Inserted, SelectInSeq
<1>6. i \in 1..n + 1
  <2>1. CASE I = {}
    <3>1. later = 0  BY <1>3, <2>1
    <3> QED  BY <1>1, <1>4, <3>1
  <2>2. CASE I # {}
    <3>1. I \subseteq 1..n /\ 1 \in Nat  BY <1>2
    <3>2. later \in I  BY <1>1, <1>3, <2>2, <3>1, ExtremesAre
    <3> QED  BY <1>1, <1>4, <3>1, <3>2
  <2> QED  BY <2>1, <2>2
<1> QED  BY <1>1, <1>5, <1>6, InsertReads

LEMMA WithoutFirstReads ==
  ASSUME NEW list \in Seq(GridTasks), NEW E, NEW l, l = WithoutFirst(list, E)
  PROVE  /\ l \in Seq(GridTasks)
         /\ \A x : x \notin E => Alike(x, list, l)
         /\ \A x : x \in E /\ Once(x, list) => ~In(x, l)
<1>1. PICK n \in Nat : n = Len(list) /\ DOMAIN list = 1..n  BY LenProperties
<1>2. PICK P : P = {k \in 1..n : list[k] \in E => \E i \in 1..k - 1 : list[i] = list[k]}  OBVIOUS
<1>3. l = AtPlaces(list, P)  BY <1>1, <1>2 DEF WithoutFirst
<1>4. ArePlaces(P, list)  BY <1>1, <1>2 DEF ArePlaces
<1>5. l \in Seq(GridTasks) /\ ReadFrom(l, list) /\ \A x : In(x, l) <=> \E k \in P : list[k] = x
  BY <1>3, <1>4, SiftReads
<1>6. ASSUME NEW x, x \notin E PROVE Alike(x, list, l)
  <2>1. ASSUME In(x, list) PROVE In(x, l)
    <3>1. PICK k \in 1..n : list[k] = x  BY <1>1, <2>1 DEF In
    <3>2. k \in P  BY <1>2, <1>6, <3>1
    <3> QED  BY <1>5, <3>1, <3>2
  <2> QED  BY <1>5, <2>1, ReadHas DEF Alike, Once
<1>7. ASSUME NEW x, x \in E, Once(x, list), In(x, l) PROVE FALSE
  <2>1. PICK k \in P : list[k] = x  BY <1>5, <1>7
  <2>2. k \in 1..n /\ k \in Nat  BY <1>2, <2>1
  <2>3. PICK i \in 1..k - 1 : list[i] = x  BY <1>2, <1>7, <2>1
  <2>4. i \in 1..n /\ i # k  BY <1>1, <2>2, <2>3
  <2> QED  BY <1>1, <1>7, <2>1, <2>2, <2>3, <2>4 DEF Once
<1> QED  BY <1>5, <1>6, <1>7

(***************************************************************************)
(* A list after the first n of an order were put in.                       *)
(***************************************************************************)
PutIn(list, order, k) == Inserted(list, queuedTasks \cup {order[j] : j \in 1..k}, order[k])
PutOneByOne(f, list, order, n) == f = [k \in 0..n |-> IF k = 0 THEN list ELSE PutIn(f[k - 1], order, k)]

LEMMA PutGoesOn ==
  ASSUME NEW list, NEW order, NEW n \in Nat
  PROVE  \E f : PutOneByOne(f, list, order, n)
<1> DEFINE Bad == {i \in Nat : ~\E f : PutOneByOne(f, list, order, i)}
<1>1. ASSUME Bad # {} PROVE FALSE
  <2>1. PICK m \in Bad : \A i \in Bad : m <= i  BY <1>1, LeastNumber
  <2>2. m \in Nat /\ ~\E f : PutOneByOne(f, list, order, m)  BY <2>1
  <2>3. m # 0
    <3>1. PICK f : f = [k \in 0..0 |-> list]  OBVIOUS
    <3>2. \A k \in 0..0 : k = 0  OBVIOUS
    <3>3. f = [k \in 0..0 |-> IF k = 0 THEN list ELSE PutIn(f[k - 1], order, k)]  BY <3>1, <3>2
    <3>4. PutOneByOne(f, list, order, 0)  BY <3>3 DEF PutOneByOne
    <3> QED  BY <2>2, <3>4
  <2>4. PICK i \in Nat : i = m - 1  BY <2>2, <2>3
  <2>5. i \notin Bad  BY <2>1, <2>2, <2>4
  <2>6. PICK g : PutOneByOne(g, list, order, i)  BY <2>4, <2>5
  <2>7. g = [k \in 0..i |-> IF k = 0 THEN list ELSE PutIn(g[k - 1], order, k)]  BY <2>6 DEF PutOneByOne
  <2>8. PICK last : last = PutIn(g[i], order, m)  OBVIOUS
  <2>9. PICK f : f = [k \in 0..m |-> IF k = m THEN last ELSE g[k]]  OBVIOUS
  <2>10. \A k \in 0..m : k = m \/ k \in 0..i  BY <2>2, <2>4
  <2>11. \A k \in 0..i : k \in 0..m /\ k # m /\ f[k] = g[k]  BY <2>2, <2>4, <2>9
  <2>12. ASSUME NEW k \in 0..m PROVE f[k] = IF k = 0 THEN list ELSE PutIn(f[k - 1], order, k)
    <3>1. CASE k = m
      <4>1. k - 1 = i /\ i \in 0..i /\ k # 0  BY <2>2, <2>3, <2>4, <3>1
      <4>2. f[k - 1] = g[i]  BY <2>11, <4>1
      <4>3. f[k] = last  BY <2>9, <3>1
      <4> QED  BY <2>8, <3>1, <4>1, <4>2, <4>3
    <3>2. CASE k # m
      <4>1. k \in 0..i  BY <2>10, <3>2
      <4>2. f[k] = g[k] /\ g[k] = IF k = 0 THEN list ELSE PutIn(g[k - 1], order, k)  BY <2>7, <2>11, <4>1
      <4>3. CASE k = 0  BY <4>2, <4>3
      <4>4. CASE k # 0
        <5>1. k - 1 \in 0..i  BY <2>4, <4>1, <4>4
        <5>2. f[k - 1] = g[k - 1]  BY <2>11, <5>1
        <5> QED  BY <4>2, <4>4, <5>2
      <4> QED  BY <4>3, <4>4
    <3> QED  BY <3>1, <3>2
  <2>13. f = [k \in 0..m |-> IF k = 0 THEN list ELSE PutIn(f[k - 1], order, k)]  BY <2>9, <2>12
  <2>14. PutOneByOne(f, list, order, m)  BY <2>13 DEF PutOneByOne
  <2> QED  BY <2>2, <2>14
<1> QED  BY <1>1

PutAll(list, order) == CHOOSE f : PutOneByOne(f, list, order, Len(order))

LEMMA RequeuedIs ==
  ASSUME NEW list, NEW order
  PROVE  Requeued(list, order) = PutAll(list, order)[Len(order)]
BY DEF Requeued, PutAll, PutOneByOne, PutIn

(* The tasks of the order come in, and the others stay as they are.        *)
LEMMA RequeuedReads ==
  ASSUME NEW list \in Seq(GridTasks), NEW n \in Nat, NEW order \in Seq(GridTasks), n = Len(order),
         NEW l, l = Requeued(list, order)
  PROVE  /\ l \in Seq(GridTasks)
         /\ \A k \in 1..n : In(order[k], l)
         /\ \A x : (\A k \in 1..n : order[k] # x) => Alike(x, list, l)
<1>1. PICK f : f = PutAll(list, order)  OBVIOUS
<1>2. l = f[n]  BY <1>1, RequeuedIs
<1>3. PutOneByOne(f, list, order, n)
  <2>1. \E g : PutOneByOne(g, list, order, n)  BY PutGoesOn
  <2> QED  BY <1>1, <2>1 DEF PutAll
<1>4. f[0] = list /\ \A k \in 1..n : f[k] = PutIn(f[k - 1], order, k)
  <2>1. f = [k \in 0..n |-> IF k = 0 THEN list ELSE PutIn(f[k - 1], order, k)]  BY <1>3 DEF PutOneByOne
  <2>2. 0 \in 0..n /\ \A k \in 1..n : k \in 0..n /\ k # 0  OBVIOUS
  <2>3. f[0] = list  BY <2>1, <2>2
  <2>4. \A k \in 1..n : f[k] = PutIn(f[k - 1], order, k)
    <3>1. ASSUME NEW k \in 1..n PROVE f[k] = PutIn(f[k - 1], order, k)
      <4>1. k \in 0..n /\ k # 0  BY <2>2
      <4> QED  BY <2>1, <4>1
    <3> QED  BY <3>1
  <2> QED  BY <2>3, <2>4
<1>5. \A k \in 1..n : order[k] \in GridTasks  BY LenProperties
<1> DEFINE Good(i) == /\ f[i] \in Seq(GridTasks)
                      /\ \A k \in 1..i : In(order[k], f[i])
                      /\ \A x : (\A k \in 1..i : order[k] # x) => Alike(x, list, f[i])
<1>6. Good(0)  BY <1>4 DEF Alike
<1>7. ASSUME NEW i \in Nat, i + 1 <= n, Good(i) PROVE Good(i + 1)
  <2>1. PICK m, a, b, e : m = i + 1 /\ a = f[i] /\ b = f[m] /\ e = order[m]  OBVIOUS
  <2>2. m \in 1..n /\ m - 1 = i /\ e \in GridTasks  BY <1>5, <1>7, <2>1
  <2>3. b = PutIn(a, order, m)  BY <1>4, <2>1, <2>2
  <2>4. a \in Seq(GridTasks)  BY <1>7, <2>1
  <2>5. PICK known : known = queuedTasks \cup {order[j] : j \in 1..m}  OBVIOUS
  <2>6. b = Inserted(a, known, e)  BY <2>1, <2>3, <2>5 DEF PutIn
  <2>7. b \in Seq(GridTasks) /\ In(e, b) /\ \A x : x # e => Alike(x, a, b)  BY <2>2, <2>4, <2>6, InsertedReads
  <2>8. \A k \in 1..m : k = m \/ k \in 1..i  BY <2>1
  <2>9. ASSUME NEW k \in 1..m PROVE In(order[k], b)
    <3>1. CASE order[k] = e  BY <2>7, <3>1
    <3>2. CASE order[k] # e
      <4>1. k \in 1..i  BY <2>1, <2>8, <3>2
      <4>2. In(order[k], a)  BY <1>7, <2>1, <4>1
      <4> QED  BY <2>7, <3>2, <4>2 DEF Alike
    <3> QED  BY <3>1, <3>2
  <2>10. ASSUME NEW x, \A k \in 1..m : order[k] # x PROVE Alike(x, list, b)
    <3>1. \A k \in 1..i : k \in 1..m  BY <2>1
    <3>2. Alike(x, list, a)  BY <1>7, <2>1, <2>10, <3>1
    <3>3. m \in 1..m  BY <2>2
    <3>4. Alike(x, a, b)  BY <2>1, <2>7, <2>10, <3>3
    <3> QED  BY <3>2, <3>4 DEF Alike
  <2> QED  BY <2>1, <2>7, <2>9, <2>10
<1>8. Good(n)
  <2> DEFINE Bad == {i \in Nat : i <= n /\ ~Good(i)}
  <2>1. ASSUME Bad # {} PROVE FALSE
    <3>1. PICK m \in Bad : \A i \in Bad : m <= i  BY <2>1, LeastNumber
    <3>2. m \in Nat /\ m <= n /\ ~Good(m)  BY <3>1
    <3> HIDE DEF Good
    <3>3. m # 0  BY <1>6, <3>2
    <3>4. PICK i \in Nat : i + 1 = m  BY <3>2, <3>3
    <3>5. i \notin Bad  BY <3>1, <3>2, <3>4
    <3>6. Good(i)  BY <3>2, <3>4, <3>5
    <3> QED  BY <1>7, <3>2, <3>4, <3>6
  <2> HIDE DEF Good
  <2> QED  BY <2>1
<1> QED  BY <1>2, <1>8

Statuses == OpenStatus \cup {"none", "refused", "completed", "failed", "cancelled"}

(* What a handler works on.                                                *)
IsView(s) ==
  /\ s.list \in Seq(GridTasks) /\ s.known \subseteq GridTasks /\ s.running \subseteq GridTasks
  /\ s.status \in [GridTasks -> Statuses]

LEMMA RoundTakes ==
  ASSUME NEW s, IsView(s), NEW n, n = RoundLength(s)
  PROVE  n \in 0..Len(s.list) /\ (n # 0 => onlineNodes # {})
<1>1. PICK m \in Nat : m = Len(s.list)  BY LenProperties DEF IsView
<1>2. CASE onlineNodes = {}
  <2>1. n = 0  BY <1>2 DEF RoundLength
  <2> QED  BY <1>1, <1>2, <2>1
<1>3. CASE onlineNodes # {}
  <2>1. PICK N : N = {k \in 0..m : \/ k = m
                                   \/ Cardinality({j \in StartPlaces(s) : j <= k}) = PerNode * Cardinality(onlineNodes)}
    OBVIOUS
  <2>2. n = Min(N)  BY <1>1, <1>3, <2>1 DEF RoundLength
  <2>3. N \subseteq 0..m /\ N # {} /\ 0 \in Nat  BY <1>1, <2>1
  <2>4. n \in N  BY <1>1, <2>2, <2>3, ExtremesAre
  <2> QED  BY <1>1, <1>3, <2>3, <2>4
<1> QED  BY <1>2, <1>3

Startable(s, t) == t \in s.known /\ s.status[t] = "pending"

(* What a round makes of one task.                                         *)
RoundOf(s, d, t) ==
  /\ t \in d.started => Startable(s, t) /\ In(t, s.list)
  /\ Startable(s, t) /\ In(t, s.list) => t \in d.started \/ In(t, d.list)
  /\ t \in d.started /\ Once(t, s.list) => ~In(t, d.list)
  /\ In(t, d.list) => In(t, s.list)
  /\ Once(t, s.list) /\ In(t, d.list) => Once(t, d.list)
  /\ t \in d.known <=> t \in s.known /\ t \notin d.started
  /\ t \in d.running <=> t \in s.running \/ t \in d.started
  /\ d.status[t] = IF t \in d.started THEN "running" ELSE s.status[t]

LEMMA RoundIs ==
  ASSUME NEW s, IsView(s), NEW d, d = Round(s)
  PROVE  /\ IsView(d) /\ d.started \subseteq GridTasks /\ (d.started # {} => onlineNodes # {})
         /\ \A t \in GridTasks : RoundOf(s, d, t)
<1>1. PICK n, P, L : n = RoundLength(s) /\ P = StartPlaces(s) /\ L = s.list  OBVIOUS
<1>2. PICK m \in Nat : m = Len(L) /\ DOMAIN L = 1..m /\ \A k \in 1..m : L[k] \in GridTasks
  BY <1>1, LenProperties DEF IsView
<1>3. n \in 0..m /\ (n # 0 => onlineNodes # {})  BY <1>1, <1>2, RoundTakes
<1>4. PICK S : S = {L[k] : k \in P \cap 1..n}  OBVIOUS
<1>5. PICK l : l = SubSeq(L, n + 1, m)  OBVIOUS
<1>6. d = [list |-> l, known |-> s.known \ S, running |-> s.running \cup S,
           status |-> [t \in GridTasks |-> IF t \in S THEN "running" ELSE s.status[t]], started |-> S]
  BY <1>1, <1>2, <1>4, <1>5 DEF Round
<1>7. \A k : k \in P <=> /\ k \in 1..m /\ L[k] \in s.known /\ s.status[L[k]] = "pending"
                         /\ \A i \in 1..k - 1 : L[i] # L[k]
  BY <1>1, <1>2 DEF StartPlaces
<1>8. /\ l \in Seq(GridTasks) /\ ReadFrom(l, L)
      /\ \A k \in 1..m : k > n => In(L[k], l)
      /\ \A x : In(x, l) => \E k \in 1..m : k > n /\ L[k] = x
  <2>1. L \in Seq(GridTasks) /\ n \in 0..Len(L)  BY <1>1, <1>2, <1>3 DEF IsView
  <2>2. l = SubSeq(L, n + 1, Len(L))  BY <1>2, <1>5
  <2>3. l \in Seq(GridTasks) /\ ReadFrom(l, L) /\ KeepsEnd(L, n, l)
    BY <2>1, <2>2, DropReads
  <2> QED  BY <1>2, <2>3 DEF KeepsEnd
<1>9. S \subseteq GridTasks  BY <1>2, <1>4, <1>7
<1>10. S # {} => onlineNodes # {}
  <2>1. S # {} => n # 0  BY <1>3, <1>4
  <2> QED  BY <1>3, <2>1
<1>11. IsView(d)
  <2>1. s.known \subseteq GridTasks /\ s.running \subseteq GridTasks /\ s.status \in [GridTasks -> Statuses]  BY DEF IsView
  <2>2. "running" \in Statuses  BY DEF Statuses, OpenStatus
  <2>3. d.status \in [GridTasks -> Statuses]  BY <1>6, <2>1, <2>2
  <2> QED  BY <1>6, <1>8, <1>9, <2>1, <2>3 DEF IsView
<1>12. ASSUME NEW t \in S PROVE Startable(s, t) /\ \E k \in 1..m : k <= n /\ L[k] = t
  <2>1. PICK k \in P \cap 1..n : L[k] = t  BY <1>4, <1>12
  <2> QED  BY <1>3, <1>7, <2>1 DEF Startable
<1>13. ASSUME NEW t \in GridTasks, Startable(s, t), In(t, L), t \notin S PROVE In(t, l)
  <2>1. PICK I : I = {k \in 1..m : L[k] = t}  OBVIOUS
  <2>2. I # {} /\ I \subseteq 1..m  BY <1>2, <1>13, <2>1 DEF In
  <2>3. PICK i \in I : \A k \in I : i <= k
    <3>1. I \subseteq Nat  BY <2>2
    <3> QED  BY <2>2, <3>1, LeastNumber
  <2>4. i \in 1..m /\ L[i] = t /\ \A k \in 1..i - 1 : L[k] # t
    <3>1. i \in 1..m /\ L[i] = t  BY <2>1, <2>3
    <3>2. ASSUME NEW k \in 1..i - 1, L[k] = t PROVE FALSE
      <4>1. k \in I  BY <1>2, <2>1, <3>1, <3>2
      <4> QED  BY <2>3, <3>1, <4>1
    <3> QED  BY <3>1, <3>2
  <2>5. i \in P  BY <1>7, <1>13, <2>4 DEF Startable
  <2>6. i \notin 1..n  BY <1>4, <1>13, <2>4, <2>5
  <2>7. i > n  BY <1>3, <2>4, <2>6
  <2> QED  BY <1>8, <2>4, <2>7
<1>14. ASSUME NEW t \in S, Once(t, L), In(t, l) PROVE FALSE
  <2>1. PICK k \in 1..m : k <= n /\ L[k] = t  BY <1>12, <1>14
  <2>2. PICK i \in 1..m : i > n /\ L[i] = t  BY <1>8, <1>14
  <2>3. k = i  BY <1>2, <1>14, <2>1, <2>2 DEF Once
  <2> QED  BY <1>3, <2>1, <2>2, <2>3
<1>15. ASSUME NEW t \in GridTasks PROVE RoundOf(s, d, t)
  <2>1. d.list = l /\ d.started = S /\ d.known = s.known \ S /\ d.running = s.running \cup S
    BY <1>6
  <2>2. d.status[t] = IF t \in S THEN "running" ELSE s.status[t]  BY <1>6, <1>15
  <2>3. (In(t, l) => In(t, L)) /\ (Once(t, L) /\ In(t, l) => Once(t, l))  BY <1>8, ReadHas
  <2>4. t \in S => Startable(s, t) /\ In(t, L)  BY <1>2, <1>12 DEF In
  <2>5. Startable(s, t) /\ In(t, L) => t \in S \/ In(t, l)  BY <1>13, <1>15
  <2>6. t \in S /\ Once(t, L) => ~In(t, l)  BY <1>14
  <2>7. t \in d.known <=> t \in s.known /\ t \notin S  BY <2>1
  <2>8. t \in d.running <=> t \in s.running \/ t \in S  BY <2>1
  <2> QED  BY <1>1, <2>1, <2>2, <2>3, <2>4, <2>5, <2>6, <2>7, <2>8 DEF RoundOf
<1> QED  BY <1>6, <1>9, <1>10, <1>11, <1>15

(***************************************************************************)
(* What holds of one task t in a view: it is under way while it is open,   *)
(* in one place unless a run of it was overtaken, and what it has been     *)
(* started and may yet be is bounded by its retries and the leaves.        *)
(***************************************************************************)
UnderWay(s, t, run, timers) ==
  /\ s.status[t] = "pending" => (In(t, s.list) /\ t \in s.known) \/ timers > 0
  /\ s.status[t] = "running" => run > 0

Alone(s, t, run, timers) ==
  /\ t \in s.running <=> s.status[t] = "running"
  /\ run = IF s.status[t] = "running" THEN 1 ELSE 0
  /\ s.status[t] = "running" => t \notin s.known
  /\ s.status[t] = "pending" => \/ t \in s.known /\ Once(t, s.list) /\ timers = 0
                                \/ t \notin s.known /\ ~In(t, s.list) /\ timers = 1
  /\ s.status[t] # "pending" => ~In(t, s.list) /\ timers = 0

Untaken(s, t, begun, over) ==
  s.status[t] \in {"none", "refused"} => t \notin s.known /\ t \notin over /\ begun = 0

StartsBudgeted(s, t, timers, begun, retries, left) ==
  \E m \in Nat : m <= retries /\ m <= RetryLimit - 1
                 /\ begun + timers + (IF t \in s.known THEN 1 ELSE 0) <= 1 + left + m

TaskOK(s, t, run, timers, begun, retries, over, left) ==
  /\ run \in Nat /\ timers \in Nat /\ begun \in Nat /\ retries \in Nat
  /\ UnderWay(s, t, run, timers) /\ Untaken(s, t, begun, over)
  /\ t \notin over => Alone(s, t, run, timers)
  /\ StartsBudgeted(s, t, timers, begun, retries, left)

LEMMA RoundKeeps ==
  ASSUME NEW s, IsView(s), NEW d, d = Round(s), NEW t \in GridTasks, NEW left \in Nat,
         NEW run, NEW timers, NEW begun, NEW retries, NEW over,
         TaskOK(s, t, run, timers, begun, retries, over, left),
         NEW run2, run2 = run + (IF t \in d.started THEN 1 ELSE 0),
         NEW begun2, begun2 = begun + (IF t \in d.started THEN 1 ELSE 0)
  PROVE  TaskOK(d, t, run2, timers, begun2, retries, over, left)
<1>1. RoundOf(s, d, t)  BY RoundIs
<1>2. run \in Nat /\ timers \in Nat /\ begun \in Nat /\ retries \in Nat  BY DEF TaskOK
<1>3. run2 \in Nat /\ begun2 \in Nat  BY <1>2
<1>4. UnderWay(s, t, run, timers) /\ Untaken(s, t, begun, over)  BY DEF TaskOK
<1>5. CASE t \in d.started
  <2>1. Startable(s, t) /\ In(t, s.list) /\ d.status[t] = "running" /\ t \notin d.known /\ t \in d.running
    BY <1>1, <1>5 DEF RoundOf
  <2>2. run2 = run + 1 /\ begun2 = begun + 1  BY <1>5
  <2>3. UnderWay(d, t, run2, timers)  BY <1>2, <2>1, <2>2 DEF UnderWay
  <2>4. Untaken(d, t, begun2, over)  BY <2>1 DEF Untaken
  <2>5. ASSUME t \notin over PROVE Alone(d, t, run2, timers)
    <3>1. Alone(s, t, run, timers)  BY <2>5 DEF TaskOK
    <3>2. s.status[t] = "pending" /\ t \in s.known  BY <2>1 DEF Startable
    <3>3. Once(t, s.list) /\ timers = 0 /\ run = 0  BY <3>1, <3>2 DEF Alone
    <3>4. ~In(t, d.list)  BY <1>1, <1>5, <3>3 DEF RoundOf
    <3>5. run2 = 1  BY <2>2, <3>3
    <3> QED  BY <2>1, <3>3, <3>4, <3>5 DEF Alone
  <2>6. StartsBudgeted(d, t, timers, begun2, retries, left)
    <3>1. PICK m \in Nat : m <= retries /\ m <= RetryLimit - 1
                           /\ begun + timers + (IF t \in s.known THEN 1 ELSE 0) <= 1 + left + m
      BY DEF TaskOK, StartsBudgeted
    <3>2. begun + timers + 1 <= 1 + left + m  BY <2>1, <3>1 DEF Startable
    <3>3. begun2 + timers + 0 <= 1 + left + m  BY <1>2, <2>2, <3>2
    <3> QED  BY <2>1, <3>1, <3>3 DEF StartsBudgeted
  <2> QED  BY <1>2, <1>3, <2>3, <2>4, <2>5, <2>6 DEF TaskOK
<1>6. CASE t \notin d.started
  <2>1. run2 = run /\ begun2 = begun  BY <1>2, <1>6
  <2>2. /\ d.status[t] = s.status[t] /\ (t \in d.known <=> t \in s.known)
        /\ (t \in d.running <=> t \in s.running)
    BY <1>1, <1>6 DEF RoundOf
  <2>3. UnderWay(d, t, run, timers)
    <3>1. t \in s.known /\ s.status[t] = "pending" /\ In(t, s.list) => In(t, d.list)
      BY <1>1, <1>6 DEF RoundOf, Startable
    <3> QED  BY <1>4, <2>2, <3>1 DEF UnderWay
  <2>4. Untaken(d, t, begun, over)  BY <1>4, <2>2 DEF Untaken
  <2>5. ASSUME t \notin over PROVE Alone(d, t, run, timers)
    <3>1. Alone(s, t, run, timers)  BY <2>5 DEF TaskOK
    <3>2. In(t, d.list) => In(t, s.list)  BY <1>1 DEF RoundOf
    <3>3. ASSUME s.status[t] = "pending", t \in s.known, Once(t, s.list) PROVE Once(t, d.list)
      <4>1. In(t, s.list)  BY <3>3 DEF Once
      <4>2. In(t, d.list)  BY <1>1, <1>6, <3>3, <4>1 DEF RoundOf, Startable
      <4> QED  BY <1>1, <3>3, <4>2 DEF RoundOf
    <3> QED  BY <2>2, <3>1, <3>2, <3>3 DEF Alone
  <2>6. StartsBudgeted(d, t, timers, begun, retries, left)  BY <2>2 DEF TaskOK, StartsBudgeted
  <2> QED  BY <1>2, <2>1, <2>3, <2>4, <2>5, <2>6 DEF TaskOK
<1> QED  BY <1>5, <1>6

AllOK(s, run, timers, begun, retries, over, left) ==
  \A t \in GridTasks : TaskOK(s, t, run[t], timers[t], begun[t], retries[t], over, left)

GridInv ==
  /\ GridTypeOK
  /\ AllOK(Now, runs, retryTimers, starts, retryCount, overtaken, leaves)

(* One that is left alone stays well.                                      *)
LEMMA LeftAlone ==
  ASSUME NEW s, NEW d, NEW t, NEW run, NEW timers, NEW begun, NEW retries, NEW over, NEW left \in Nat,
         TaskOK(s, t, run, timers, begun, retries, over, left),
         d.status[t] = s.status[t], t \in d.known <=> t \in s.known, t \in d.running <=> t \in s.running,
         Alike(t, s.list, d.list), NEW over2, t \in over2 <=> t \in over, NEW left2 \in Nat, left2 >= left
  PROVE  TaskOK(d, t, run, timers, begun, retries, over2, left2)
<1>1. run \in Nat /\ timers \in Nat /\ begun \in Nat /\ retries \in Nat  BY DEF TaskOK
<1>2. UnderWay(d, t, run, timers)  BY DEF TaskOK, UnderWay, Alike
<1>3. Untaken(d, t, begun, over2)  BY DEF TaskOK, Untaken
<1>4. ASSUME t \notin over2 PROVE Alone(d, t, run, timers)
  <2>1. Alone(s, t, run, timers)  BY <1>4 DEF TaskOK
  <2> QED  BY <2>1 DEF Alone, Alike
<1>5. StartsBudgeted(d, t, timers, begun, retries, left2)
  <2>1. PICK m \in Nat : m <= retries /\ m <= RetryLimit - 1
                         /\ begun + timers + (IF t \in s.known THEN 1 ELSE 0) <= 1 + left + m
    BY DEF TaskOK, StartsBudgeted
  <2>2. PICK k : k = (IF t \in s.known THEN 1 ELSE 0) /\ k \in Nat  OBVIOUS
  <2>3. k = IF t \in d.known THEN 1 ELSE 0  BY <2>2
  <2>4. begun + timers + k <= 1 + left2 + m  BY <1>1, <2>1, <2>2
  <2> QED  BY <2>1, <2>3, <2>4 DEF StartsBudgeted
<1> QED  BY <1>1, <1>2, <1>3, <1>4, <1>5 DEF TaskOK

LEMMA ViewIs ==
  ASSUME GridTypeOK, NEW s, s = Now
  PROVE  /\ IsView(s) /\ s.list = pendingTasks /\ s.known = queuedTasks /\ s.running = runningTasks
         /\ s.status = taskStatus /\ s.started = {}
         /\ s = [list |-> pendingTasks, known |-> queuedTasks, running |-> runningTasks,
                 status |-> taskStatus, started |-> {}]
BY DEF GridTypeOK, IsView, Now, Statuses

(* A state with a view that is well is well.                               *)
CountsNext(run, timers, begun, retries, over, left) ==
  /\ run = runs' /\ timers = retryTimers' /\ begun = starts' /\ retries = retryCount'
  /\ over = overtaken' /\ left = leaves' /\ left \in 0..MaxLeaves
  /\ run \in [GridTasks -> Nat] /\ timers \in [GridTasks -> Nat] /\ begun \in [GridTasks -> Nat]
  /\ retries \in [GridTasks -> Nat] /\ over \subseteq GridTasks

ViewNext(s) ==
  /\ IsView(s) /\ s.list = pendingTasks' /\ s.known = queuedTasks' /\ s.running = runningTasks'
  /\ s.status = taskStatus'

RestNext ==
  /\ assignedNode' \in [GridTasks -> GridNodes \cup {Nowhere}]
  /\ onlineNodes' \subseteq GridNodes /\ ticking' \in BOOLEAN

LEMMA GridInvFrom ==
  ASSUME NEW s, ViewNext(s), NEW run, NEW timers, NEW begun, NEW retries, NEW over, NEW left,
         CountsNext(run, timers, begun, retries, over, left),
         AllOK(s, run, timers, begun, retries, over, left), RestNext
  PROVE  GridInv'
<1>9. /\ IsView(s) /\ s.list = pendingTasks' /\ s.known = queuedTasks' /\ s.running = runningTasks'
      /\ s.status = taskStatus'
  BY DEF ViewNext
<1>10. /\ run = runs' /\ timers = retryTimers' /\ begun = starts' /\ retries = retryCount'
      /\ over = overtaken' /\ left = leaves' /\ left \in 0..MaxLeaves
      /\ run \in [GridTasks -> Nat] /\ timers \in [GridTasks -> Nat] /\ begun \in [GridTasks -> Nat]
      /\ retries \in [GridTasks -> Nat] /\ over \subseteq GridTasks
  BY DEF CountsNext
<1>11. /\ assignedNode' \in [GridTasks -> GridNodes \cup {Nowhere}]
      /\ onlineNodes' \subseteq GridNodes /\ ticking' \in BOOLEAN
  BY DEF RestNext
<1>1. GridTypeOK'
  <2>1. queuedTasks' \subseteq GridTasks /\ pendingTasks' \in Seq(GridTasks) /\ runningTasks' \subseteq GridTasks
        /\ taskStatus' \in [GridTasks -> Statuses]
    BY <1>9 DEF IsView
  <2>2. taskStatus' \in [GridTasks -> OpenStatus \cup {"none", "refused", "completed", "failed", "cancelled"}]
    BY <2>1 DEF Statuses
  <2>3. /\ retryCount' \in [GridTasks -> Nat] /\ runs' \in [GridTasks -> Nat] /\ retryTimers' \in [GridTasks -> Nat]
        /\ starts' \in [GridTasks -> Nat] /\ overtaken' \subseteq GridTasks /\ leaves' \in 0..MaxLeaves
    BY <1>10
  <2> QED  BY <1>11, <2>1, <2>2, <2>3 DEF GridTypeOK
<1>2. PICK n : n = [list |-> pendingTasks', known |-> queuedTasks', running |-> runningTasks',
                    status |-> taskStatus', started |-> {}]
  OBVIOUS
<1>3. n.list = s.list /\ n.known = s.known /\ n.running = s.running /\ n.status = s.status  BY <1>9, <1>2
<1>4. left \in Nat /\ left >= left
  <2>1. MaxLeaves \in Nat  BY GridAssumption
  <2> QED  BY <1>10, <2>1
<1>5. ASSUME NEW t \in GridTasks PROVE TaskOK(n, t, run[t], timers[t], begun[t], retries[t], over, left)
  <2>1. TaskOK(s, t, run[t], timers[t], begun[t], retries[t], over, left)  BY <1>5 DEF AllOK
  <2>2. Alike(t, s.list, n.list)  BY <1>3 DEF Alike
  <2> QED  BY <1>3, <1>4, <2>1, <2>2, LeftAlone
<1>6. AllOK(n, runs', retryTimers', starts', retryCount', overtaken', leaves')  BY <1>10, <1>5 DEF AllOK
<1>7. Now' = n  BY <1>2 DEF Now
<1>8. AllOK(Now, runs, retryTimers, starts, retryCount, overtaken, leaves)'
  <2>1. AllOK(Now', runs', retryTimers', starts', retryCount', overtaken', leaves')  BY <1>6, <1>7
  <2> QED  BY <2>1 DEF AllOK
<1> QED  BY <1>1, <1>8 DEF GridInv

More(f, S) == [t \in GridTasks |-> f[t] + IF t \in S THEN 1 ELSE 0]

LEMMA MoreIs ==
  ASSUME NEW f \in [GridTasks -> Nat], NEW S
  PROVE  More(f, S) \in [GridTasks -> Nat] /\ \A t \in GridTasks : More(f, S)[t] = f[t] + (IF t \in S THEN 1 ELSE 0)
<1>1. \A t \in GridTasks : f[t] + (IF t \in S THEN 1 ELSE 0) \in Nat  OBVIOUS
<1> QED  BY <1>1 DEF More

LEMMA GridTypes ==
  ASSUME GridTypeOK
  PROVE  /\ runs \in [GridTasks -> Nat] /\ retryTimers \in [GridTasks -> Nat] /\ starts \in [GridTasks -> Nat]
         /\ retryCount \in [GridTasks -> Nat] /\ overtaken \subseteq GridTasks
         /\ assignedNode \in [GridTasks -> GridNodes \cup {Nowhere}]
         /\ onlineNodes \subseteq GridNodes /\ ticking \in BOOLEAN /\ leaves \in 0..MaxLeaves
         /\ leaves \in Nat
<1>1. MaxLeaves \in Nat  BY GridAssumption
<1> QED  BY <1>1 DEF GridTypeOK

LEMMA MoreNow ==
  ASSUME GridTypeOK, NEW A
  PROVE  /\ More(runs, A) \in [GridTasks -> Nat] /\ More(starts, A) \in [GridTasks -> Nat]
         /\ More(retryCount, A) \in [GridTasks -> Nat]
         /\ \A t \in GridTasks : More(runs, A)[t] = runs[t] + (IF t \in A THEN 1 ELSE 0)
         /\ \A t \in GridTasks : More(starts, A)[t] = starts[t] + (IF t \in A THEN 1 ELSE 0)
         /\ \A t \in GridTasks : More(retryCount, A)[t] = retryCount[t] + (IF t \in A THEN 1 ELSE 0)
<1>1. /\ runs \in [GridTasks -> Nat] /\ starts \in [GridTasks -> Nat]
      /\ retryCount \in [GridTasks -> Nat]
  BY GridTypes
<1>2. PICK f, g, h : f = runs /\ g = starts /\ h = retryCount
  OBVIOUS
<1>3. More(f, A) \in [GridTasks -> Nat] /\ \A t \in GridTasks : More(f, A)[t] = f[t] + (IF t \in A THEN 1 ELSE 0)
  BY <1>1, <1>2, MoreIs
<1>4. More(g, A) \in [GridTasks -> Nat] /\ \A t \in GridTasks : More(g, A)[t] = g[t] + (IF t \in A THEN 1 ELSE 0)
  BY <1>1, <1>2, MoreIs
<1>5. More(h, A) \in [GridTasks -> Nat] /\ \A t \in GridTasks : More(h, A)[t] = h[t] + (IF t \in A THEN 1 ELSE 0)
  BY <1>1, <1>2, MoreIs
<1> QED  BY <1>2, <1>3, <1>4, <1>5

LEMMA BecomesWell ==
  ASSUME GridTypeOK, NEW d, IsView(d), d.started \subseteq GridTasks, Becomes(d),
         NEW timers \in [GridTasks -> Nat], NEW retries \in [GridTasks -> Nat], NEW over, over \subseteq GridTasks,
         AllOK(d, More(runs, d.started), timers, More(starts, d.started), retries, over, leaves),
         retryTimers' = timers, retryCount' = retries, overtaken' = over,
         UNCHANGED <<onlineNodes, ticking, leaves>>
  PROVE  GridInv'
<1>1. PICK run, begun, left : run = More(runs, d.started) /\ begun = More(starts, d.started) /\ left = leaves  OBVIOUS
<1>2. run \in [GridTasks -> Nat] /\ begun \in [GridTasks -> Nat]  BY <1>1, MoreNow
<1>3. runs' = run /\ starts' = begun  BY <1>1 DEF Becomes, More
<1>4. /\ d.list = pendingTasks' /\ d.known = queuedTasks' /\ d.running = runningTasks'
      /\ d.status = taskStatus'
  BY DEF Becomes
<1>5. assignedNode' \in [GridTasks -> GridNodes \cup {Nowhere}]
  <2>1. PICK to \in [d.started -> onlineNodes] :
          assignedNode' = [t \in GridTasks |-> IF t \in d.started THEN to[t] ELSE assignedNode[t]]
    BY DEF Becomes
  <2>2. \A t \in GridTasks : (IF t \in d.started THEN to[t] ELSE assignedNode[t]) \in GridNodes \cup {Nowhere}
    BY GridTypes
  <2> QED  BY <2>1, <2>2
<1>6. AllOK(d, run, timers, begun, retries, over, left)  BY <1>1
<1>7. left = leaves' /\ left \in 0..MaxLeaves /\ onlineNodes' \subseteq GridNodes /\ ticking' \in BOOLEAN
  BY <1>1, GridTypes
<1>8. ViewNext(d)  BY <1>4 DEF ViewNext
<1>9. RestNext  BY <1>5, <1>7 DEF RestNext
<1>10. CountsNext(run, timers, begun, retries, over, left)  BY <1>1, <1>2, <1>3, <1>7 DEF CountsNext
<1> QED  BY <1>6, <1>8, <1>9, <1>10, GridInvFrom

LEMMA SchedulesWell ==
  ASSUME GridTypeOK, NEW s, IsView(s), Schedules(s),
         NEW timers \in [GridTasks -> Nat], NEW retries \in [GridTasks -> Nat], NEW over, over \subseteq GridTasks,
         AllOK(s, runs, timers, starts, retries, over, leaves),
         retryTimers' = timers, retryCount' = retries, overtaken' = over,
         UNCHANGED <<onlineNodes, ticking, leaves>>
  PROVE  GridInv'
<1>1. PICK d : d = Round(s) /\ Becomes(d)  BY DEF Schedules
<1>2. IsView(d) /\ d.started \subseteq GridTasks  BY <1>1, RoundIs
<1>3. ASSUME NEW t \in GridTasks
      PROVE  TaskOK(d, t, More(runs, d.started)[t], timers[t], More(starts, d.started)[t], retries[t], over, leaves)
  <2>1. TaskOK(s, t, runs[t], timers[t], starts[t], retries[t], over, leaves)  BY DEF AllOK
  <2>2. /\ More(runs, d.started)[t] = runs[t] + (IF t \in d.started THEN 1 ELSE 0)
        /\ More(starts, d.started)[t] = starts[t] + (IF t \in d.started THEN 1 ELSE 0)
    BY MoreNow
  <2>3. leaves \in Nat  BY GridTypes
  <2> QED  BY <1>1, <2>1, <2>2, <2>3, RoundKeeps
<1>4. AllOK(d, More(runs, d.started), timers, More(starts, d.started), retries, over, leaves)  BY <1>3 DEF AllOK
<1> QED  BY <1>1, <1>2, <1>4, BecomesWell

LEMMA TaskFacts ==
  ASSUME GridInv, NEW t \in GridTasks
  PROVE  /\ TaskOK(Now, t, runs[t], retryTimers[t], starts[t], retryCount[t], overtaken, leaves)
         /\ runs[t] \in Nat /\ retryTimers[t] \in Nat /\ starts[t] \in Nat /\ retryCount[t] \in Nat
         /\ taskStatus[t] \in Statuses
BY DEF GridInv, AllOK, GridTypeOK, Statuses

(* The view with one task put into its queue.                              *)
LEMMA WithTaskIs ==
  ASSUME GridTypeOK, NEW t \in GridTasks, NEW status \in Statuses, NEW s, s = WithTask(t, status)
  PROVE  /\ IsView(s) /\ s.known = queuedTasks \cup {t} /\ s.running = runningTasks
         /\ s.status = [taskStatus EXCEPT ![t] = status]
         /\ In(t, s.list) /\ (~In(t, pendingTasks) => Once(t, s.list))
         /\ \A u \in GridTasks : u # t => Alike(u, pendingTasks, s.list)
<1>1. PICK l : l = Inserted(pendingTasks, queuedTasks \cup {t}, t)  OBVIOUS
<1>2. pendingTasks \in Seq(GridTasks) /\ queuedTasks \subseteq GridTasks /\ runningTasks \subseteq GridTasks
      /\ taskStatus \in [GridTasks -> Statuses]
  BY DEF GridTypeOK, Statuses
<1>3. /\ l \in Seq(GridTasks) /\ In(t, l) /\ (~In(t, pendingTasks) => Once(t, l))
      /\ \A x : x # t => Alike(x, pendingTasks, l)
  BY <1>1, <1>2, InsertedReads
<1>4. PICK n : n = Now  OBVIOUS
<1>5. n = [list |-> pendingTasks, known |-> queuedTasks, running |-> runningTasks,
           status |-> taskStatus, started |-> {}]
  BY <1>4, ViewIs
<1>6. s = [n EXCEPT !.list = l, !.known = @ \cup {t}, !.status[t] = status]  BY <1>1, <1>4 DEF WithTask
<1>7. s.list = l /\ s.known = queuedTasks \cup {t} /\ s.running = runningTasks
      /\ s.status = [taskStatus EXCEPT ![t] = status]
  BY <1>5, <1>6
<1>8. s.status \in [GridTasks -> Statuses]  BY <1>2, <1>7
<1>9. IsView(s)  BY <1>2, <1>3, <1>7, <1>8 DEF IsView
<1> QED  BY <1>3, <1>7, <1>9

LEMMA OthersLeft ==
  ASSUME GridInv, NEW d, NEW u \in GridTasks,
         d.status[u] = taskStatus[u], u \in d.known <=> u \in queuedTasks, u \in d.running <=> u \in runningTasks,
         Alike(u, pendingTasks, d.list), NEW over, u \in over <=> u \in overtaken,
         NEW left \in Nat, left >= leaves
  PROVE  TaskOK(d, u, runs[u], retryTimers[u], starts[u], retryCount[u], over, left)
<1>1. TaskOK(Now, u, runs[u], retryTimers[u], starts[u], retryCount[u], overtaken, leaves)  BY TaskFacts
<1>2. PICK s : s = Now  OBVIOUS
<1>3. s.list = pendingTasks /\ s.known = queuedTasks /\ s.running = runningTasks /\ s.status = taskStatus
  BY <1>2, ViewIs DEF GridInv
<1>4. leaves \in Nat  BY GridTypes DEF GridInv
<1> QED  BY <1>1, <1>2, <1>3, <1>4, LeftAlone

LEMMA Submitted ==
  ASSUME GridInv, NEW t \in GridTasks, SubmitTask(t)
  PROVE  GridInv'
<1>1. PICK n : n = Now  OBVIOUS
<1>2. /\ IsView(n) /\ n.list = pendingTasks /\ n.known = queuedTasks /\ n.running = runningTasks
      /\ n.status = taskStatus /\ n.started = {}
  BY <1>1, ViewIs DEF GridInv
<1>3. TaskOK(n, t, runs[t], retryTimers[t], starts[t], retryCount[t], overtaken, leaves) /\ n.status[t] = "none"
  BY <1>1, <1>2, TaskFacts DEF SubmitTask
<1>4. t \notin queuedTasks /\ t \notin overtaken /\ starts[t] = 0  BY <1>2, <1>3 DEF TaskOK, Untaken
<1>5. Alone(n, t, runs[t], retryTimers[t])  BY <1>3, <1>4 DEF TaskOK
<1>6. t \notin runningTasks /\ runs[t] = 0 /\ ~In(t, pendingTasks) /\ retryTimers[t] = 0  BY <1>2, <1>3, <1>5 DEF Alone
<1>7. PICK m \in Nat : m <= retryCount[t] /\ m <= RetryLimit - 1  BY <1>3 DEF TaskOK, StartsBudgeted
<1>8. retryCount[t] \in Nat /\ leaves \in Nat  BY TaskFacts, GridTypes DEF GridInv
<1>9. UNCHANGED <<retryCount, retryTimers, overtaken, onlineNodes, ticking, leaves>>  BY DEF SubmitTask
<1>10. CASE Schedules(WithTask(t, "pending"))
  <2>1. PICK s : s = WithTask(t, "pending")  OBVIOUS
  <2>2. "pending" \in Statuses  BY DEF Statuses, OpenStatus
  <2>3. /\ IsView(s) /\ s.known = queuedTasks \cup {t} /\ s.running = runningTasks
        /\ s.status = [taskStatus EXCEPT ![t] = "pending"]
        /\ In(t, s.list) /\ (~In(t, pendingTasks) => Once(t, s.list))
        /\ \A u \in GridTasks : u # t => Alike(u, pendingTasks, s.list)
    BY <2>1, <2>2, WithTaskIs DEF GridInv
  <2>4. s.status[t] = "pending"  BY <1>2, <2>3 DEF IsView
  <2>5. TaskOK(s, t, runs[t], retryTimers[t], starts[t], retryCount[t], overtaken, leaves)
    <3>1. UnderWay(s, t, 0, 0)  BY <2>3, <2>4 DEF UnderWay
    <3>2. Untaken(s, t, 0, overtaken)  BY <2>4 DEF Untaken
    <3>3. Alone(s, t, 0, 0)  BY <1>6, <2>3, <2>4 DEF Alone
    <3>4. 0 + 0 + 1 <= 1 + leaves + m  BY <1>8
    <3>5. t \in s.known  BY <2>3
    <3>6. StartsBudgeted(s, t, 0, 0, retryCount[t], leaves)  BY <1>7, <3>4, <3>5 DEF StartsBudgeted
    <3> QED  BY <1>4, <1>6, <1>8, <3>1, <3>2, <3>3, <3>6 DEF TaskOK
  <2>6. ASSUME NEW u \in GridTasks, u # t
        PROVE  TaskOK(s, u, runs[u], retryTimers[u], starts[u], retryCount[u], overtaken, leaves)
    <3>1. s.status[u] = taskStatus[u]  BY <1>2, <2>3, <2>6 DEF IsView
    <3>2. (u \in s.known <=> u \in queuedTasks) /\ (u \in s.running <=> u \in runningTasks)  BY <2>3, <2>6
    <3>3. Alike(u, pendingTasks, s.list)  BY <2>3, <2>6
    <3>4. leaves >= leaves  BY <1>8
    <3> QED  BY <1>8, <3>1, <3>2, <3>3, <3>4, OthersLeft
  <2>7. AllOK(s, runs, retryTimers, starts, retryCount, overtaken, leaves)  BY <2>5, <2>6 DEF AllOK
  <2> QED  BY <1>9, <1>10, <2>1, <2>3, <2>7, GridTypes, SchedulesWell DEF GridInv
<1>11. CASE Becomes([Now EXCEPT !.status[t] = "refused"])
  <2>1. PICK d : d = [n EXCEPT !.status[t] = "refused"]  OBVIOUS
  <2>2. n = [list |-> pendingTasks, known |-> queuedTasks, running |-> runningTasks,
             status |-> taskStatus, started |-> {}]
    BY <1>1, ViewIs DEF GridInv
  <2>3. d.list = pendingTasks /\ d.known = queuedTasks /\ d.running = runningTasks
        /\ d.status = [taskStatus EXCEPT ![t] = "refused"] /\ d.started = {}
    BY <2>1, <2>2
  <2>4. taskStatus \in [GridTasks -> Statuses]  BY <1>2 DEF IsView
  <2>5. d.status[t] = "refused" /\ d.status \in [GridTasks -> Statuses]
        /\ \A u \in GridTasks : u # t => d.status[u] = taskStatus[u]
    BY <2>3, <2>4 DEF Statuses
  <2>6. IsView(d)  BY <1>2, <2>3, <2>5 DEF IsView
  <2>7. TaskOK(d, t, runs[t], retryTimers[t], starts[t], retryCount[t], overtaken, leaves)
    <3>1. UnderWay(d, t, 0, 0)  BY <2>5 DEF UnderWay
    <3>2. Untaken(d, t, 0, overtaken)  BY <1>4, <2>3, <2>5 DEF Untaken
    <3>3. Alone(d, t, 0, 0)  BY <1>6, <2>3, <2>5 DEF Alone
    <3>4. 0 + 0 + 0 <= 1 + leaves + m  BY <1>8
    <3>5. t \notin d.known  BY <1>4, <2>3
    <3>6. StartsBudgeted(d, t, 0, 0, retryCount[t], leaves)  BY <1>7, <3>4, <3>5 DEF StartsBudgeted
    <3> QED  BY <1>4, <1>6, <1>8, <3>1, <3>2, <3>3, <3>6 DEF TaskOK
  <2>8. ASSUME NEW u \in GridTasks, u # t
        PROVE  TaskOK(d, u, runs[u], retryTimers[u], starts[u], retryCount[u], overtaken, leaves)
    <3>1. d.status[u] = taskStatus[u]  BY <2>5, <2>8
    <3>2. Alike(u, pendingTasks, d.list)  BY <2>3 DEF Alike
    <3>3. leaves >= leaves  BY <1>8
    <3> QED  BY <1>8, <2>3, <3>1, <3>2, <3>3, OthersLeft
  <2>9. AllOK(d, More(runs, d.started), retryTimers, More(starts, d.started), retryCount, overtaken, leaves)
    <3>1. ASSUME NEW u \in GridTasks
          PROVE  TaskOK(d, u, More(runs, d.started)[u], retryTimers[u], More(starts, d.started)[u],
                        retryCount[u], overtaken, leaves)
      <4>1. More(runs, d.started)[u] = runs[u] + 0 /\ More(starts, d.started)[u] = starts[u] + 0
        BY <2>3, MoreNow DEF GridInv
      <4>2. runs[u] + 0 = runs[u] /\ starts[u] + 0 = starts[u]  BY TaskFacts
      <4> QED  BY <2>7, <2>8, <4>1, <4>2
    <3> QED  BY <3>1 DEF AllOK
  <2>10. Becomes(d) /\ d.started \subseteq GridTasks  BY <1>1, <1>11, <2>1, <2>3
  <2> QED  BY <1>9, <2>6, <2>9, <2>10, GridTypes, BecomesWell DEF GridInv
<1> QED  BY <1>10, <1>11 DEF SubmitTask

LEMMA TimerFired ==
  ASSUME GridInv, NEW t \in GridTasks, RetryTimerFires(t)
  PROVE  GridInv'
<1>1. PICK n, st : n = Now /\ st = taskStatus[t]  OBVIOUS
<1>2. /\ IsView(n) /\ n.list = pendingTasks /\ n.known = queuedTasks /\ n.running = runningTasks
      /\ n.status = taskStatus
  BY <1>1, ViewIs DEF GridInv
<1>3. TaskOK(n, t, runs[t], retryTimers[t], starts[t], retryCount[t], overtaken, leaves)  BY <1>1, TaskFacts
<1>4. retryTimers[t] > 0 /\ Schedules(WithTask(t, st))
      /\ UNCHANGED <<retryCount, overtaken, onlineNodes, ticking, leaves>>
  BY <1>1 DEF RetryTimerFires
<1>5. PICK timers : timers = [retryTimers EXCEPT ![t] = @ - 1]  OBVIOUS
<1>6. /\ runs[t] \in Nat /\ retryTimers[t] \in Nat /\ starts[t] \in Nat /\ retryCount[t] \in Nat
      /\ st \in Statuses /\ leaves \in Nat
  BY <1>1, TaskFacts, GridTypes DEF GridInv
<1>7. /\ timers[t] = retryTimers[t] - 1 /\ timers[t] \in Nat
      /\ timers \in [GridTasks -> Nat] /\ \A u \in GridTasks : u # t => timers[u] = retryTimers[u]
  BY <1>4, <1>5, <1>6, GridTypes DEF GridInv
<1>8. PICK s : s = WithTask(t, st)  OBVIOUS
<1>9. /\ IsView(s) /\ s.known = queuedTasks \cup {t} /\ s.running = runningTasks
      /\ s.status = [taskStatus EXCEPT ![t] = st]
      /\ In(t, s.list) /\ (~In(t, pendingTasks) => Once(t, s.list))
      /\ \A u \in GridTasks : u # t => Alike(u, pendingTasks, s.list)
  BY <1>6, <1>8, WithTaskIs DEF GridInv
<1>10. s.status[t] = st /\ \A u \in GridTasks : s.status[u] = taskStatus[u]  BY <1>1, <1>2, <1>9 DEF IsView
<1>11. st \notin {"none", "refused"}
  <2>1. ASSUME st \in {"none", "refused"} PROVE FALSE
    <3>1. t \notin overtaken  BY <1>1, <1>2, <1>3, <2>1 DEF TaskOK, Untaken
    <3>2. Alone(n, t, runs[t], retryTimers[t])  BY <1>3, <3>1 DEF TaskOK
    <3>3. retryTimers[t] = 0  BY <1>1, <1>2, <2>1, <3>2 DEF Alone
    <3> QED  BY <1>4, <3>3
  <2> QED  BY <2>1
<1>12. TaskOK(s, t, runs[t], timers[t], starts[t], retryCount[t], overtaken, leaves)
  <2>1. UnderWay(s, t, runs[t], timers[t])
    <3>1. st = "running" => runs[t] > 0  BY <1>1, <1>2, <1>3 DEF TaskOK, UnderWay
    <3> QED  BY <1>9, <1>10, <3>1 DEF UnderWay
  <2>2. Untaken(s, t, starts[t], overtaken)  BY <1>10, <1>11 DEF Untaken
  <2>3. ASSUME t \notin overtaken PROVE Alone(s, t, runs[t], timers[t])
    <3>1. Alone(n, t, runs[t], retryTimers[t])  BY <1>3, <2>3 DEF TaskOK
    <3>2. n.status[t] = st  BY <1>1, <1>2
    <3>3. st = "pending"  BY <1>4, <3>1, <3>2 DEF Alone
    <3>4. t \notin queuedTasks /\ ~In(t, pendingTasks) /\ retryTimers[t] = 1 /\ t \notin runningTasks /\ runs[t] = 0
      BY <1>2, <1>4, <3>1, <3>2, <3>3 DEF Alone
    <3>5. timers[t] = 0 /\ Once(t, s.list) /\ t \in s.known /\ t \notin s.running  BY <1>7, <1>9, <3>4
    <3> QED  BY <1>10, <3>3, <3>4, <3>5 DEF Alone
  <2>4. StartsBudgeted(s, t, timers[t], starts[t], retryCount[t], leaves)
    <3>1. PICK m \in Nat : m <= retryCount[t] /\ m <= RetryLimit - 1
                           /\ starts[t] + retryTimers[t] + (IF t \in n.known THEN 1 ELSE 0) <= 1 + leaves + m
      BY <1>3 DEF TaskOK, StartsBudgeted
    <3>2. PICK k \in Nat : k = IF t \in n.known THEN 1 ELSE 0  OBVIOUS
    <3>3. starts[t] + timers[t] + 1 <= 1 + leaves + m  BY <1>6, <1>7, <3>1, <3>2
    <3>4. t \in s.known  BY <1>9
    <3> QED  BY <3>1, <3>3, <3>4 DEF StartsBudgeted
  <2> QED  BY <1>6, <1>7, <2>1, <2>2, <2>3, <2>4 DEF TaskOK
<1>13. ASSUME NEW u \in GridTasks, u # t
       PROVE  TaskOK(s, u, runs[u], timers[u], starts[u], retryCount[u], overtaken, leaves)
  <2>1. (u \in s.known <=> u \in queuedTasks) /\ (u \in s.running <=> u \in runningTasks)  BY <1>9, <1>13
  <2>2. Alike(u, pendingTasks, s.list) /\ leaves >= leaves  BY <1>6, <1>9, <1>13
  <2>3. TaskOK(s, u, runs[u], retryTimers[u], starts[u], retryCount[u], overtaken, leaves)
    BY <1>6, <1>10, <2>1, <2>2, OthersLeft
  <2> QED  BY <1>7, <1>13, <2>3
<1>14. AllOK(s, runs, timers, starts, retryCount, overtaken, leaves)  BY <1>12, <1>13 DEF AllOK
<1>15. retryTimers' = timers  BY <1>5 DEF RetryTimerFires
<1> QED  BY <1>4, <1>7, <1>8, <1>9, <1>14, <1>15, GridTypes, SchedulesWell DEF GridInv

LEMMA Cancelled ==
  ASSUME GridInv, NEW t \in GridTasks, CancelTask(t)
  PROVE  GridInv'
<1>1. PICK n : n = Now  OBVIOUS
<1>2. /\ IsView(n) /\ n.list = pendingTasks /\ n.known = queuedTasks /\ n.running = runningTasks
      /\ n.status = taskStatus
  BY <1>1, ViewIs DEF GridInv
<1>3. /\ pendingTasks \in Seq(GridTasks) /\ queuedTasks \subseteq GridTasks /\ runningTasks \subseteq GridTasks
      /\ taskStatus \in [GridTasks -> Statuses]
  BY <1>2 DEF IsView
<1>4. TaskOK(n, t, runs[t], retryTimers[t], starts[t], retryCount[t], overtaken, leaves)  BY <1>1, TaskFacts
<1>5. /\ runs[t] \in Nat /\ retryTimers[t] \in Nat /\ starts[t] \in Nat /\ retryCount[t] \in Nat
      /\ leaves \in Nat
  BY TaskFacts, GridTypes DEF GridInv
<1>6. PICK l, q, r, o : l = pendingTasks' /\ q = queuedTasks' /\ r = runningTasks' /\ o = overtaken'  OBVIOUS
<1>7. PICK v : v = [list |-> l, known |-> q, running |-> r, status |-> taskStatus']  OBVIOUS
<1>8. v.list = l /\ v.known = q /\ v.running = r /\ v.status = taskStatus'  BY <1>7
<1>9. taskStatus' = [taskStatus EXCEPT ![t] = "cancelled"]  BY DEF CancelTask
<1>10. v.status[t] = "cancelled" /\ v.status \in [GridTasks -> Statuses]
       /\ \A u \in GridTasks : u # t => v.status[u] = taskStatus[u]
  BY <1>3, <1>8, <1>9 DEF Statuses
<1>11. /\ o = IF runs[t] > 0 THEN overtaken \cup {t} ELSE overtaken
       /\ UNCHANGED <<assignedNode, retryCount, runs, retryTimers, starts, onlineNodes, ticking, leaves>>
  BY <1>6 DEF CancelTask
<1>12. \/ /\ t \in queuedTasks /\ l = RemoveFirst(pendingTasks, t) /\ q = queuedTasks \ {t} /\ r = runningTasks
       \/ /\ t \notin queuedTasks /\ t \in runningTasks
          /\ r = runningTasks \ {t} /\ q = queuedTasks /\ l = pendingTasks
  BY <1>6 DEF CancelTask
<1>13. /\ l \in Seq(GridTasks) /\ \A x : x # t => Alike(x, pendingTasks, l)
       /\ t \in queuedTasks /\ (Once(t, pendingTasks) \/ ~In(t, pendingTasks)) => ~In(t, l)
  <2>1. CASE l = RemoveFirst(pendingTasks, t)  BY <1>3, <2>1, RemoveFirstReads
  <2>2. CASE t \notin queuedTasks /\ l = pendingTasks  BY <1>3, <2>2 DEF Alike
  <2> QED  BY <1>12, <2>1, <2>2
<1>14. /\ q \subseteq GridTasks /\ r \subseteq GridTasks /\ t \notin q
       /\ \A u \in GridTasks : u # t => (u \in q <=> u \in queuedTasks) /\ (u \in r <=> u \in runningTasks)
  BY <1>3, <1>12
<1>15. IsView(v)  BY <1>8, <1>10, <1>13, <1>14 DEF IsView
<1>16. TaskOK(v, t, runs[t], retryTimers[t], starts[t], retryCount[t], o, leaves)
  <2>1. UnderWay(v, t, runs[t], retryTimers[t])  BY <1>10 DEF UnderWay
  <2>2. Untaken(v, t, starts[t], o)  BY <1>10 DEF Untaken
  <2>3. ASSUME t \notin o PROVE Alone(v, t, runs[t], retryTimers[t])
    <3>1. ~(runs[t] > 0) /\ t \notin overtaken  BY <1>11, <2>3
    <3>2. runs[t] = 0  BY <1>5, <3>1
    <3>3. Alone(n, t, runs[t], retryTimers[t])  BY <1>4, <3>1 DEF TaskOK
    <3>4. n.status[t] # "running" /\ t \notin runningTasks  BY <1>2, <3>2, <3>3 DEF Alone
    <3>5. t \in queuedTasks /\ r = runningTasks  BY <1>12, <3>4
    <3>6. retryTimers[t] = 0 /\ (Once(t, pendingTasks) \/ ~In(t, pendingTasks))  BY <1>2, <3>3, <3>5 DEF Alone
    <3>7. ~In(t, l)  BY <1>13, <3>5, <3>6
    <3> QED  BY <1>8, <1>10, <3>2, <3>4, <3>5, <3>6, <3>7 DEF Alone
  <2>4. StartsBudgeted(v, t, retryTimers[t], starts[t], retryCount[t], leaves)
    <3>1. PICK m \in Nat : m <= retryCount[t] /\ m <= RetryLimit - 1
                           /\ starts[t] + retryTimers[t] + (IF t \in n.known THEN 1 ELSE 0) <= 1 + leaves + m
      BY <1>4 DEF TaskOK, StartsBudgeted
    <3>2. PICK k \in Nat : k = IF t \in n.known THEN 1 ELSE 0  OBVIOUS
    <3>3. starts[t] + retryTimers[t] + 0 <= 1 + leaves + m  BY <1>5, <3>1, <3>2
    <3> QED  BY <1>8, <1>14, <3>1, <3>3 DEF StartsBudgeted
  <2> QED  BY <1>5, <2>1, <2>2, <2>3, <2>4 DEF TaskOK
<1>17. ASSUME NEW u \in GridTasks, u # t
       PROVE  TaskOK(v, u, runs[u], retryTimers[u], starts[u], retryCount[u], o, leaves)
  <2>1. v.status[u] = taskStatus[u] /\ (u \in v.known <=> u \in queuedTasks)
        /\ (u \in v.running <=> u \in runningTasks) /\ Alike(u, pendingTasks, v.list)
    BY <1>8, <1>10, <1>13, <1>14, <1>17
  <2>2. u \in o <=> u \in overtaken  BY <1>11, <1>17
  <2>3. leaves >= leaves  BY <1>5
  <2> QED  BY <1>5, <2>1, <2>2, <2>3, OthersLeft
<1>18. AllOK(v, runs, retryTimers, starts, retryCount, o, leaves)  BY <1>16, <1>17 DEF AllOK
<1>19. o \subseteq GridTasks  BY <1>11, GridTypes DEF GridInv
<1>20. PICK run, timers, begun, retries, left :
         run = runs /\ timers = retryTimers /\ begun = starts /\ retries = retryCount /\ left = leaves
  OBVIOUS
<1>21. AllOK(v, run, timers, begun, retries, o, left)  BY <1>18, <1>20
<1>22. ViewNext(v)  BY <1>6, <1>8, <1>15 DEF ViewNext
<1>23. /\ run \in [GridTasks -> Nat] /\ timers \in [GridTasks -> Nat] /\ begun \in [GridTasks -> Nat]
       /\ retries \in [GridTasks -> Nat] /\ left \in 0..MaxLeaves
  BY <1>20, GridTypes DEF GridInv
<1>24. CountsNext(run, timers, begun, retries, o, left)  BY <1>6, <1>11, <1>19, <1>20, <1>23 DEF CountsNext
<1>25. RestNext
  <2>1. assignedNode \in [GridTasks -> GridNodes \cup {Nowhere}] /\ onlineNodes \subseteq GridNodes /\ ticking \in BOOLEAN
    BY GridTypes DEF GridInv
  <2> QED  BY <1>11, <2>1 DEF RestNext
<1> QED  BY <1>21, <1>22, <1>24, <1>25, GridInvFrom

(* A run of t ends with the status st: as many retries, timers.            *)
Ending(t, st, retries, timers) ==
  /\ \A u \in GridTasks : u # t => retries[u] = retryCount[u] /\ timers[u] = retryTimers[u]
  /\ retries[t] >= retryCount[t]
  /\ \/ st # "pending" /\ timers[t] = retryTimers[t]
     \/ /\ st = "pending" /\ timers[t] = retryTimers[t] + 1
        /\ retries[t] = retryCount[t] + 1 /\ retries[t] < RetryLimit

LEMMA RunEnded ==
  ASSUME GridInv, NEW t \in GridTasks, RunOver(t), NEW st \in {"completed", "failed", "pending"},
         taskStatus' = [taskStatus EXCEPT ![t] = st],
         NEW retries \in [GridTasks -> Nat], retries = retryCount', NEW timers \in [GridTasks -> Nat], timers = retryTimers',
         Ending(t, st, retries, timers),
         assignedNode' \in [GridTasks -> GridNodes \cup {Nowhere}]
  PROVE  GridInv'
<1>0. /\ \A u \in GridTasks : u # t => retries[u] = retryCount[u] /\ timers[u] = retryTimers[u]
      /\ retries[t] >= retryCount[t]
      /\ \/ st # "pending" /\ timers[t] = retryTimers[t]
         \/ /\ st = "pending" /\ timers[t] = retryTimers[t] + 1
            /\ retries[t] = retryCount[t] + 1 /\ retries[t] < RetryLimit
  BY DEF Ending
<1>1. PICK n : n = Now  OBVIOUS
<1>2. /\ IsView(n) /\ n.list = pendingTasks /\ n.known = queuedTasks /\ n.running = runningTasks
      /\ n.status = taskStatus
  BY <1>1, ViewIs DEF GridInv
<1>3. /\ pendingTasks \in Seq(GridTasks) /\ queuedTasks \subseteq GridTasks /\ runningTasks \subseteq GridTasks
      /\ taskStatus \in [GridTasks -> Statuses]
  BY <1>2 DEF IsView
<1>4. TaskOK(n, t, runs[t], retryTimers[t], starts[t], retryCount[t], overtaken, leaves)  BY <1>1, TaskFacts
<1>5. /\ runs[t] \in Nat /\ retryTimers[t] \in Nat /\ starts[t] \in Nat /\ retryCount[t] \in Nat
      /\ leaves \in Nat
  BY TaskFacts, GridTypes DEF GridInv
<1>6. /\ runs[t] > 0 /\ runningTasks' = runningTasks \ {t}
      /\ UNCHANGED <<queuedTasks, pendingTasks, starts, overtaken, onlineNodes, ticking, leaves>>
  BY DEF RunOver
<1>7. PICK run : run = runs'  OBVIOUS
<1>8. /\ run \in [GridTasks -> Nat] /\ run[t] = runs[t] - 1 /\ run[t] \in Nat
      /\ \A u \in GridTasks : u # t => run[u] = runs[u]
  <2>1. run = [runs EXCEPT ![t] = @ - 1]  BY <1>7 DEF RunOver
  <2> QED  BY <1>5, <1>6, <2>1, GridTypes DEF GridInv
<1>9. PICK v : v = [list |-> pendingTasks, known |-> queuedTasks, running |-> runningTasks \ {t}, status |-> taskStatus']
  OBVIOUS
<1>10. v.list = pendingTasks /\ v.known = queuedTasks /\ v.running = runningTasks \ {t} /\ v.status = taskStatus'
  BY <1>9
<1>11. v.status[t] = st /\ v.status \in [GridTasks -> Statuses]
       /\ \A u \in GridTasks : u # t => v.status[u] = taskStatus[u]
  BY <1>3, <1>10 DEF Statuses, OpenStatus
<1>12. IsView(v)  BY <1>3, <1>10, <1>11 DEF IsView
<1>13. retries[t] \in Nat /\ timers[t] \in Nat  OBVIOUS
<1>14. TaskOK(v, t, run[t], timers[t], starts[t], retries[t], overtaken, leaves)
  <2>1. UnderWay(v, t, run[t], timers[t])  BY <1>0, <1>5, <1>11 DEF UnderWay
  <2>2. Untaken(v, t, starts[t], overtaken)  BY <1>11 DEF Untaken
  <2>3. ASSUME t \notin overtaken PROVE Alone(v, t, run[t], timers[t])
    <3>1. Alone(n, t, runs[t], retryTimers[t])  BY <1>4, <2>3 DEF TaskOK
    <3>2. n.status[t] = "running" /\ runs[t] = 1  BY <1>6, <3>1 DEF Alone
    <3>3. t \notin queuedTasks /\ ~In(t, pendingTasks) /\ retryTimers[t] = 0  BY <1>2, <3>1, <3>2 DEF Alone
    <3>4. run[t] = 0 /\ st # "running"  BY <1>8, <3>2
    <3>5. CASE st # "pending" /\ timers[t] = retryTimers[t]
      BY <1>10, <1>11, <3>3, <3>4, <3>5 DEF Alone
    <3>6. CASE st = "pending" /\ timers[t] = retryTimers[t] + 1
      <4>1. timers[t] = 1  BY <3>3, <3>6
      <4> QED  BY <1>10, <1>11, <3>3, <3>4, <3>6, <4>1 DEF Alone
    <3> QED  BY <1>0, <3>5, <3>6
  <2>4. StartsBudgeted(v, t, timers[t], starts[t], retries[t], leaves)
    <3>1. PICK m \in Nat : m <= retryCount[t] /\ m <= RetryLimit - 1
                           /\ starts[t] + retryTimers[t] + (IF t \in n.known THEN 1 ELSE 0) <= 1 + leaves + m
      BY <1>4 DEF TaskOK, StartsBudgeted
    <3>2. PICK k \in Nat : k = (IF t \in n.known THEN 1 ELSE 0)  OBVIOUS
    <3>3. k = IF t \in v.known THEN 1 ELSE 0  BY <1>2, <1>10, <3>2
    <3>4. RetryLimit \in Nat  BY GridAssumption
    <3>5. CASE timers[t] = retryTimers[t]
      <4>1. m <= retries[t] /\ starts[t] + timers[t] + k <= 1 + leaves + m  BY <1>0, <1>5, <1>13, <3>1, <3>2, <3>5
      <4> QED  BY <3>1, <3>3, <4>1 DEF StartsBudgeted
    <3>6. CASE timers[t] = retryTimers[t] + 1 /\ retries[t] = retryCount[t] + 1 /\ retries[t] < RetryLimit
      <4>1. PICK j \in Nat : j = m + 1  OBVIOUS
      <4>2. j <= retries[t] /\ j <= RetryLimit - 1  BY <1>5, <3>1, <3>4, <3>6, <4>1
      <4>3. starts[t] + retryTimers[t] + k <= 1 + leaves + m  BY <3>1, <3>2
      <4>4. PICK a, b : a = starts[t] /\ b = retryTimers[t] /\ a \in Nat /\ b \in Nat  BY <1>5
      <4>7. PICK c : c = leaves /\ c \in Nat  BY <1>5
      <4>8. a + b + k <= 1 + c + m  BY <4>3, <4>4, <4>7
      <4>9. a + (b + 1) + k <= 1 + c + (m + 1)  BY <4>4, <4>7, <4>8
      <4>5. a + (b + 1) + k <= 1 + leaves + (m + 1)  BY <4>7, <4>9
      <4>6. starts[t] + timers[t] + k <= 1 + leaves + j  BY <3>6, <4>1, <4>4, <4>5
      <4> QED  BY <3>3, <4>1, <4>2, <4>6 DEF StartsBudgeted
    <3> QED  BY <1>0, <3>5, <3>6
  <2> QED  BY <1>5, <1>8, <1>13, <2>1, <2>2, <2>3, <2>4 DEF TaskOK
<1>15. ASSUME NEW u \in GridTasks, u # t
       PROVE  TaskOK(v, u, run[u], timers[u], starts[u], retries[u], overtaken, leaves)
  <2>1. v.status[u] = taskStatus[u] /\ (u \in v.known <=> u \in queuedTasks)
        /\ (u \in v.running <=> u \in runningTasks)
    BY <1>10, <1>11, <1>15
  <2>2. Alike(u, pendingTasks, v.list)  BY <1>10 DEF Alike
  <2>3. leaves >= leaves  BY <1>5
  <2>4. TaskOK(v, u, runs[u], retryTimers[u], starts[u], retryCount[u], overtaken, leaves)
    BY <1>5, <2>1, <2>2, <2>3, OthersLeft
  <2> QED  BY <1>0, <1>8, <1>15, <2>4
<1>16. AllOK(v, run, timers, starts, retries, overtaken, leaves)  BY <1>14, <1>15 DEF AllOK
<1>17. PICK begun, over, left : begun = starts /\ over = overtaken /\ left = leaves  OBVIOUS
<1>18. AllOK(v, run, timers, begun, retries, over, left)  BY <1>16, <1>17
<1>19. begun = starts' /\ over = overtaken' /\ left = leaves' /\ left \in 0..MaxLeaves
  BY <1>6, <1>17, GridTypes DEF GridInv
<1>20. begun \in [GridTasks -> Nat] /\ over \subseteq GridTasks  BY <1>17, GridTypes DEF GridInv
<1>21. onlineNodes' \subseteq GridNodes /\ ticking' \in BOOLEAN  BY <1>6, GridTypes DEF GridInv
<1>22. /\ v.list = pendingTasks' /\ v.known = queuedTasks' /\ v.running = runningTasks'
       /\ v.status = taskStatus'
  BY <1>6, <1>10
<1>23. ViewNext(v) /\ RestNext  BY <1>12, <1>21, <1>22 DEF ViewNext, RestNext
<1>24. CountsNext(run, timers, begun, retries, over, left)  BY <1>7, <1>8, <1>19, <1>20 DEF CountsNext
<1> QED  BY <1>18, <1>23, <1>24, GridInvFrom

LEMMA RunsEnd ==
  ASSUME GridInv, NEW t \in GridTasks, RunCompletes(t) \/ RunFails(t)
  PROVE  GridInv'
<1>1. PICK assigned : assigned = [assignedNode EXCEPT ![t] = Nowhere]  OBVIOUS
<1>2. assigned \in [GridTasks -> GridNodes \cup {Nowhere}]  BY <1>1, GridTypes DEF GridInv
<1>3. retryCount[t] \in Nat /\ retryTimers[t] \in Nat /\ RetryLimit \in Nat  BY TaskFacts, GridAssumption
<1>4. CASE RunCompletes(t)
  <2>1. RunOver(t) /\ taskStatus' = [taskStatus EXCEPT ![t] = "completed"]
        /\ UNCHANGED <<assignedNode, retryCount, retryTimers>>
    BY <1>4 DEF RunCompletes
  <2>2. retryCount[t] >= retryCount[t]  BY <1>3
  <2>3. PICK st : st = "completed" /\ st \in {"completed", "failed", "pending"}  OBVIOUS
  <2>4. Ending(t, st, retryCount, retryTimers)  BY <2>2, <2>3 DEF Ending
  <2>5. taskStatus' = [taskStatus EXCEPT ![t] = st]  BY <2>1, <2>3
  <2> QED  BY <2>1, <2>3, <2>4, <2>5, GridTypes, RunEnded DEF GridInv
<1>5. CASE RunFails(t)
  <2>1. PICK retries, timers : retries = [retryCount EXCEPT ![t] = @ + 1] /\ timers = [retryTimers EXCEPT ![t] = @ + 1]
    OBVIOUS
  <2>2. /\ retries \in [GridTasks -> Nat] /\ retries[t] = retryCount[t] + 1
        /\ \A u \in GridTasks : u # t => retries[u] = retryCount[u]
    BY <1>3, <2>1, GridTypes DEF GridInv
  <2>3. /\ timers \in [GridTasks -> Nat] /\ timers[t] = retryTimers[t] + 1
        /\ \A u \in GridTasks : u # t => timers[u] = retryTimers[u]
    BY <1>3, <2>1, GridTypes DEF GridInv
  <2>4. RunOver(t) /\ retryCount' = retries  BY <1>5, <2>1 DEF RunFails
  <2>5. retries[t] >= retryCount[t]  BY <1>3, <2>2
  <2>6. CASE OutOfRetries(t) /\ taskStatus' = [taskStatus EXCEPT ![t] = "failed"]
             /\ UNCHANGED <<assignedNode, retryTimers>>
    <3>1. PICK st : st = "failed" /\ st \in {"completed", "failed", "pending"}  OBVIOUS
    <3>2. Ending(t, st, retries, retryTimers)  BY <2>2, <2>5, <3>1 DEF Ending
    <3>3. taskStatus' = [taskStatus EXCEPT ![t] = st]  BY <2>6, <3>1
    <3> QED  BY <2>2, <2>4, <2>6, <3>1, <3>2, <3>3, GridTypes, RunEnded DEF GridInv
  <2>7. CASE ~OutOfRetries(t) /\ taskStatus' = [taskStatus EXCEPT ![t] = "pending"]
             /\ assignedNode' = assigned /\ retryTimers' = timers
    <3>1. retries[t] < RetryLimit  BY <1>3, <2>2, <2>7 DEF OutOfRetries
    <3>2. assignedNode' \in [GridTasks -> GridNodes \cup {Nowhere}]  BY <1>2, <2>7
    <3>3. \A u \in GridTasks : u # t => retries[u] = retryCount[u] /\ timers[u] = retryTimers[u]  BY <2>2, <2>3
    <3>4. PICK st : st = "pending" /\ st \in {"completed", "failed", "pending"}  OBVIOUS
    <3>5. taskStatus' = [taskStatus EXCEPT ![t] = st] /\ retryTimers' = timers  BY <2>7, <3>4
    <3>6. /\ st = "pending" /\ timers[t] = retryTimers[t] + 1
          /\ retries[t] = retryCount[t] + 1 /\ retries[t] < RetryLimit
      BY <2>2, <2>3, <3>1, <3>4
    <3>7. retries \in [GridTasks -> Nat] /\ timers \in [GridTasks -> Nat]  BY <2>2, <2>3
    <3>8. Ending(t, st, retries, timers)  BY <2>5, <3>3, <3>6 DEF Ending
    <3> QED  BY <2>4, <3>2, <3>4, <3>5, <3>7, <3>8, RunEnded
  <2> QED  BY <1>1, <1>5, <2>1, <2>6, <2>7 DEF RunFails, TimerSet
<1> QED  BY <1>4, <1>5

LEMMA CleanedIs ==
  ASSUME NEW d, IsView(d), NEW n, n = [list |-> d.list, known |-> d.known, running |-> d.running,
                                      status |-> d.status, started |-> d.started],
         d = n, NEW E, NEW R, NEW c, c = CleanedUp(d, E, R)
  PROVE  /\ IsView(c) /\ c.started = d.started /\ c.known = d.known /\ c.running = d.running \ R
         /\ c.list = WithoutFirst(d.list, E)
         /\ \A t \in GridTasks : c.status[t] = IF t \in E THEN "cancelled" ELSE IF t \in R THEN "failed" ELSE d.status[t]
<1>1. PICK l, st : /\ l = WithoutFirst(d.list, E)
                   /\ st = [t \in GridTasks |-> IF t \in E THEN "cancelled" ELSE IF t \in R THEN "failed" ELSE d.status[t]]
  OBVIOUS
<1>2. c = [n EXCEPT !.list = l, !.running = @ \ R, !.status = st]  BY <1>1 DEF CleanedUp
<1>3. /\ c.started = d.started /\ c.known = d.known /\ c.running = d.running \ R
      /\ c.list = l /\ c.status = st
  BY <1>2
<1>4. /\ d.list \in Seq(GridTasks) /\ d.known \subseteq GridTasks /\ d.running \subseteq GridTasks
      /\ d.status \in [GridTasks -> Statuses]
  BY DEF IsView
<1>5. l \in Seq(GridTasks)  BY <1>1, <1>4, WithoutFirstReads
<1>6. st \in [GridTasks -> Statuses]  BY <1>1, <1>4 DEF Statuses
<1>7. IsView(c)  BY <1>3, <1>4, <1>5, <1>6 DEF IsView
<1> QED  BY <1>1, <1>3, <1>7

(* What a cleanup makes of one task.                                       *)
LEMMA CleanupKeeps ==
  ASSUME NEW d, IsView(d), NEW c, IsView(c), NEW E, NEW R, NEW t \in GridTasks, NEW left \in Nat,
         c.known = d.known, c.running = d.running \ R, c.list = WithoutFirst(d.list, E),
         c.status[t] = (IF t \in E THEN "cancelled" ELSE IF t \in R THEN "failed" ELSE d.status[t]),
         t \in E => t \in d.known /\ d.status[t] = "pending",
         NEW run, NEW timers, NEW begun, NEW retries, NEW over,
         TaskOK(d, t, run, timers, begun, retries, over, left)
  PROVE  TaskOK(c, t, run, timers, begun, retries, over \cup R, left)
<1>1. /\ \A x : x \notin E => Alike(x, d.list, c.list)
      /\ \A x : x \in E /\ Once(x, d.list) => ~In(x, c.list)
  BY WithoutFirstReads DEF IsView
<1>2. run \in Nat /\ timers \in Nat /\ begun \in Nat /\ retries \in Nat  BY DEF TaskOK
<1>3. StartsBudgeted(c, t, timers, begun, retries, left)  BY DEF TaskOK, StartsBudgeted
<1>4. CASE t \in E
  <2>1. c.status[t] = "cancelled"  BY <1>4
  <2>2. UnderWay(c, t, run, timers) /\ Untaken(c, t, begun, over \cup R)  BY <2>1 DEF UnderWay, Untaken
  <2>3. ASSUME t \notin over PROVE Alone(c, t, run, timers)
    <3>1. Alone(d, t, run, timers) /\ d.status[t] = "pending" /\ t \in d.known  BY <1>4, <2>3 DEF TaskOK
    <3>2. Once(t, d.list) /\ timers = 0 /\ run = 0 /\ t \notin d.running  BY <3>1 DEF Alone
    <3>3. ~In(t, c.list)  BY <1>1, <1>4, <3>2
    <3> QED  BY <2>1, <3>2, <3>3 DEF Alone
  <2> QED  BY <1>2, <1>3, <2>2, <2>3 DEF TaskOK
<1>5. CASE t \notin E /\ t \in R
  <2>1. c.status[t] = "failed"  BY <1>5
  <2>2. UnderWay(c, t, run, timers) /\ Untaken(c, t, begun, over \cup R)  BY <2>1 DEF UnderWay, Untaken
  <2> QED  BY <1>2, <1>3, <1>5, <2>2 DEF TaskOK
<1>6. CASE t \notin E /\ t \notin R
  <2>1. c.status[t] = d.status[t] /\ (t \in c.running <=> t \in d.running) /\ Alike(t, d.list, c.list)
    BY <1>1, <1>6
  <2>2. PICK over2 : over2 = over \cup R  OBVIOUS
  <2>3. t \in over2 <=> t \in over  BY <1>6, <2>2
  <2>4. t \in c.known <=> t \in d.known  OBVIOUS
  <2>5. left >= left  OBVIOUS
  <2>6. TaskOK(c, t, run, timers, begun, retries, over2, left)  BY <2>1, <2>3, <2>4, <2>5, LeftAlone
  <2> QED  BY <2>2, <2>6
<1> QED  BY <1>4, <1>5, <1>6

LEMMA Ticked ==
  ASSUME GridInv, IntervalTicks
  PROVE  GridInv'
<1>1. PICK n, d : n = Now /\ d = Round(n)  OBVIOUS
<1>2. IsView(n)  BY <1>1, ViewIs DEF GridInv
<1>3. IsView(d) /\ d.started \subseteq GridTasks  BY <1>1, <1>2, RoundIs
<1>4. PICK E, R : /\ E \subseteq {t \in d.known : d.status[t] = "pending"} /\ R \subseteq d.running
                  /\ Becomes(CleanedUp(d, E, R)) /\ overtaken' = overtaken \cup R
  BY <1>1 DEF IntervalTicks
<1>5. PICK c, over : c = CleanedUp(d, E, R) /\ over = overtaken \cup R  OBVIOUS
<1>6. d = [list |-> d.list, known |-> d.known, running |-> d.running, status |-> d.status, started |-> d.started]
  BY <1>1 DEF Round
<1>7. /\ IsView(c) /\ c.started = d.started /\ c.known = d.known /\ c.running = d.running \ R
      /\ c.list = WithoutFirst(d.list, E)
      /\ \A t \in GridTasks : c.status[t] = IF t \in E THEN "cancelled" ELSE IF t \in R THEN "failed" ELSE d.status[t]
  BY <1>3, <1>5, <1>6, CleanedIs
<1>8. leaves \in Nat  BY GridTypes DEF GridInv
<1>9. PICK run, begun : run = More(runs, d.started) /\ begun = More(starts, d.started)  OBVIOUS
<1>10. ASSUME NEW t \in GridTasks
       PROVE  TaskOK(c, t, run[t], retryTimers[t], begun[t], retryCount[t], over, leaves)
  <2>1. TaskOK(n, t, runs[t], retryTimers[t], starts[t], retryCount[t], overtaken, leaves)  BY <1>1, TaskFacts
  <2>2. /\ run[t] = runs[t] + (IF t \in d.started THEN 1 ELSE 0)
        /\ begun[t] = starts[t] + (IF t \in d.started THEN 1 ELSE 0)
    BY <1>9, MoreNow DEF GridInv
  <2>3. TaskOK(d, t, run[t], retryTimers[t], begun[t], retryCount[t], overtaken, leaves)
    BY <1>1, <1>2, <1>8, <2>1, <2>2, RoundKeeps
  <2>4. c.status[t] = (IF t \in E THEN "cancelled" ELSE IF t \in R THEN "failed" ELSE d.status[t])  BY <1>7
  <2>5. t \in E => t \in d.known /\ d.status[t] = "pending"  BY <1>4
  <2>6. c.known = d.known /\ c.running = d.running \ R /\ c.list = WithoutFirst(d.list, E) /\ IsView(c)  BY <1>7
  <2> QED  BY <1>3, <1>5, <1>8, <2>3, <2>4, <2>5, <2>6, CleanupKeeps
<1>11. AllOK(c, run, retryTimers, begun, retryCount, over, leaves)  BY <1>10 DEF AllOK
<1>12. AllOK(c, More(runs, c.started), retryTimers, More(starts, c.started), retryCount, over, leaves)
  BY <1>7, <1>9, <1>11
<1>13. over \subseteq GridTasks  BY <1>3, <1>4, <1>5, GridTypes DEF GridInv, IsView
<1>14. c.started \subseteq GridTasks /\ Becomes(c) /\ overtaken' = over  BY <1>3, <1>4, <1>5, <1>7
<1>15. UNCHANGED <<retryCount, retryTimers, onlineNodes, ticking, leaves>>  BY DEF IntervalTicks
<1> QED  BY <1>7, <1>12, <1>13, <1>14, <1>15, GridTypes, BecomesWell DEF GridInv

LEMMA OrderHasAll ==
  ASSUME NEW S, IsFiniteSet(S), NEW order \in SetToSeqs(S)
  PROVE  /\ order \in Seq(S) /\ Len(order) = Cardinality(S)
         /\ \A t \in S : \E k \in 1..Len(order) : order[k] = t
<1>1. PICK n \in Nat : n = Cardinality(S)  BY FS_CardinalityType
<1>2. order \in [1..n -> S] /\ \A i, j \in 1..n : i # j => order[i] # order[j]  BY <1>1 DEF SetToSeqs
<1>3. order \in Injection(1..n, S)  BY <1>2 DEF Injection, IsInjective
<1>4. IsFiniteSet(1..n) /\ Cardinality(1..n) = n  BY <1>1, FS_Interval
<1>5. order \in Surjection(1..n, S)  BY <1>1, <1>3, <1>4, FS_Injection
<1>6. order \in Seq(S) /\ Len(order) = n  BY <1>1, <1>2
<1> QED  BY <1>1, <1>5, <1>6 DEF Surjection

LEMMA OwnLeft ==
  ASSUME GridInv, OwnNodeLeaves
  PROVE  GridInv'
<1>1. PICK n : n = Now  OBVIOUS
<1>2. /\ IsView(n) /\ n.list = pendingTasks /\ n.known = queuedTasks /\ n.running = runningTasks
      /\ n.status = taskStatus
  BY <1>1, ViewIs DEF GridInv
<1>3. /\ pendingTasks \in Seq(GridTasks) /\ queuedTasks \subseteq GridTasks /\ runningTasks \subseteq GridTasks
      /\ taskStatus \in [GridTasks -> Statuses]
  BY <1>2 DEF IsView
<1>4. PICK mine : mine = {t \in runningTasks : assignedNode[t] = OwnNode}  OBVIOUS
<1>5. mine \subseteq GridTasks /\ IsFiniteSet(mine)
  <2>1. mine \subseteq GridTasks /\ IsFiniteSet(GridTasks)  BY <1>3, <1>4, GridAssumption
  <2> QED  BY <2>1, FS_Subset
<1>6. PICK order \in SetToSeqs(mine) : pendingTasks' = Requeued(pendingTasks, order)
  BY <1>4 DEF OwnNodeLeaves
<1>7. /\ order \in Seq(mine) /\ Len(order) = Cardinality(mine)
      /\ \A t \in mine : \E k \in 1..Len(order) : order[k] = t
  BY <1>5, <1>6, OrderHasAll
<1>8. PICK m \in Nat : m = Len(order) /\ \A k \in 1..m : order[k] \in mine  BY <1>7, LenProperties
<1>9. order \in Seq(GridTasks)
  <2>1. \A k \in 1..m : order[k] \in GridTasks  BY <1>5, <1>8
  <2>2. order = [k \in 1..m |-> order[k]]  BY <1>7, <1>8, LenProperties
  <2>3. order \in [1..m -> GridTasks]  BY <2>1, <2>2
  <2> QED  BY <2>3
<1>10. PICK l : l = pendingTasks'  OBVIOUS
<1>11. /\ l \in Seq(GridTasks)
       /\ \A k \in 1..m : In(order[k], l)
       /\ \A x : (\A k \in 1..m : order[k] # x) => Alike(x, pendingTasks, l)
  BY <1>3, <1>6, <1>8, <1>9, <1>10, RequeuedReads
<1>12. (\A t \in mine : In(t, l)) /\ \A u : u \notin mine => Alike(u, pendingTasks, l)  BY <1>7, <1>8, <1>11
<1>13. PICK retries, over, left, st :
         /\ retries = More(retryCount, mine) /\ over = overtaken \cup mine /\ left = leaves + 1
         /\ st = [t \in GridTasks |-> IF t \in mine THEN "pending" ELSE taskStatus[t]]
  OBVIOUS
<1>14. /\ retryCount' = retries /\ overtaken' = over /\ leaves' = left /\ taskStatus' = st
       /\ queuedTasks' = queuedTasks \cup mine /\ runningTasks' = runningTasks \ mine
       /\ assignedNode' = [t \in GridTasks |-> IF t \in mine THEN Nowhere ELSE assignedNode[t]]
       /\ onlineNodes' = onlineNodes \ {OwnNode}
       /\ UNCHANGED <<runs, retryTimers, starts, ticking>>
  BY <1>4, <1>13 DEF OwnNodeLeaves, More
<1>15. left \in 0..MaxLeaves /\ left \in Nat /\ left >= leaves /\ leaves \in Nat
  <2>1. leaves < MaxLeaves /\ MaxLeaves \in Nat /\ leaves \in Nat  BY GridAssumption, GridTypes DEF OwnNodeLeaves, GridInv
  <2> QED  BY <1>13, <2>1
<1>16. retries \in [GridTasks -> Nat] /\ \A t \in GridTasks : retries[t] = retryCount[t] + (IF t \in mine THEN 1 ELSE 0)
  BY <1>13, MoreNow DEF GridInv
<1>17. st \in [GridTasks -> Statuses] /\ \A t \in GridTasks : st[t] = IF t \in mine THEN "pending" ELSE taskStatus[t]
  <2>1. "pending" \in Statuses  BY DEF Statuses, OpenStatus
  <2> QED  BY <1>3, <1>13, <2>1
<1>18. PICK v : v = [list |-> l, known |-> queuedTasks \cup mine, running |-> runningTasks \ mine, status |-> st]
  OBVIOUS
<1>19. v.list = l /\ v.known = queuedTasks \cup mine /\ v.running = runningTasks \ mine /\ v.status = st  BY <1>18
<1>20. IsView(v)  BY <1>3, <1>5, <1>11, <1>17, <1>19 DEF IsView
<1>21. ViewNext(v)  BY <1>10, <1>14, <1>19, <1>20 DEF ViewNext
<1>22. ASSUME NEW t \in GridTasks
       PROVE  TaskOK(v, t, runs[t], retryTimers[t], starts[t], retries[t], over, left)
  <2>1. /\ TaskOK(n, t, runs[t], retryTimers[t], starts[t], retryCount[t], overtaken, leaves)
        /\ runs[t] \in Nat /\ retryTimers[t] \in Nat /\ starts[t] \in Nat /\ retryCount[t] \in Nat
    BY <1>1, TaskFacts
  <2>2. CASE t \in mine
    <3>1. v.status[t] = "pending" /\ t \in v.known /\ In(t, v.list) /\ t \in over
      BY <1>12, <1>13, <1>17, <1>19, <2>2
    <3>2. UnderWay(v, t, runs[t], retryTimers[t]) /\ Untaken(v, t, starts[t], over)  BY <3>1 DEF UnderWay, Untaken
    <3>3. StartsBudgeted(v, t, retryTimers[t], starts[t], retries[t], left)
      <4>1. PICK j \in Nat : j <= retryCount[t] /\ j <= RetryLimit - 1
                             /\ starts[t] + retryTimers[t] + (IF t \in n.known THEN 1 ELSE 0) <= 1 + leaves + j
        BY <2>1 DEF TaskOK, StartsBudgeted
      <4>2. PICK k \in Nat : k = IF t \in n.known THEN 1 ELSE 0  OBVIOUS
      <4>3. starts[t] + retryTimers[t] + 1 <= 1 + left + j  BY <1>13, <1>15, <2>1, <4>1, <4>2
      <4>4. j <= retries[t]  BY <1>16, <2>1, <2>2, <4>1
      <4> QED  BY <3>1, <4>1, <4>3, <4>4 DEF StartsBudgeted
    <3>4. retries[t] \in Nat  BY <1>16
    <3> QED  BY <2>1, <3>1, <3>2, <3>3, <3>4 DEF TaskOK
  <2>3. CASE t \notin mine
    <3>1. v.status[t] = taskStatus[t] /\ (t \in v.known <=> t \in queuedTasks)
          /\ (t \in v.running <=> t \in runningTasks) /\ Alike(t, pendingTasks, v.list)
      BY <1>12, <1>17, <1>19, <2>3
    <3>2. t \in over <=> t \in overtaken  BY <1>13, <2>3
    <3>3. retries[t] = retryCount[t]  BY <1>16, <2>1, <2>3
    <3>4. TaskOK(v, t, runs[t], retryTimers[t], starts[t], retryCount[t], over, left)
      BY <1>15, <3>1, <3>2, OthersLeft
    <3> QED  BY <3>3, <3>4
  <2> QED  BY <2>2, <2>3
<1>23. AllOK(v, runs, retryTimers, starts, retries, over, left)  BY <1>22 DEF AllOK
<1>24. RestNext
  <2>1. \A t \in GridTasks : (IF t \in mine THEN Nowhere ELSE assignedNode[t]) \in GridNodes \cup {Nowhere}
    BY GridTypes DEF GridInv
  <2>2. assignedNode' \in [GridTasks -> GridNodes \cup {Nowhere}]  BY <1>14, <2>1
  <2>3. onlineNodes' \subseteq GridNodes /\ ticking' \in BOOLEAN  BY <1>14, GridTypes DEF GridInv
  <2> QED  BY <2>2, <2>3 DEF RestNext
<1>25. PICK run, timers, begun : run = runs /\ timers = retryTimers /\ begun = starts  OBVIOUS
<1>26. AllOK(v, run, timers, begun, retries, over, left)  BY <1>23, <1>25
<1>27. over \subseteq GridTasks  BY <1>5, <1>13, GridTypes DEF GridInv
<1>28. run = runs' /\ timers = retryTimers' /\ begun = starts'  BY <1>14, <1>25
<1>29. run \in [GridTasks -> Nat] /\ timers \in [GridTasks -> Nat] /\ begun \in [GridTasks -> Nat]
  BY <1>25, GridTypes DEF GridInv
<1>30. CountsNext(run, timers, begun, retries, over, left)
  BY <1>14, <1>15, <1>16, <1>27, <1>28, <1>29 DEF CountsNext
<1> QED  BY <1>21, <1>24, <1>26, <1>30, GridInvFrom

(* A step that leaves the tasks alone.                                     *)
LEMMA TasksLeft ==
  ASSUME GridInv, UNCHANGED taskPart, leaves' = leaves, onlineNodes' \subseteq GridNodes, ticking' \in BOOLEAN
  PROVE  GridInv'
<1>1. /\ UNCHANGED <<queuedTasks, pendingTasks, runningTasks, taskStatus, assignedNode, retryCount>>
      /\ UNCHANGED <<runs, retryTimers, starts, overtaken>>
  BY DEF taskPart
<1>2. GridTypeOK'
  BY <1>1 DEF GridInv, GridTypeOK
<1>3. Now' = Now
  BY <1>1 DEF Now
<1>4. AllOK(Now, runs, retryTimers, starts, retryCount, overtaken, leaves)'
  <2>1. AllOK(Now', runs', retryTimers', starts', retryCount', overtaken', leaves')
    BY <1>1, <1>3 DEF GridInv
  <2> QED BY <2>1 DEF AllOK
<1> QED BY <1>2, <1>4 DEF GridInv

LEMMA GridStarts == ASSUME GridInit PROVE GridInv
<1>1. RetryLimit \in Nat \ {0} /\ MaxLeaves \in Nat /\ OwnNode \in GridNodes
  BY GridAssumption
<1>2. /\ queuedTasks = {} /\ pendingTasks = <<>> /\ runningTasks = {}
      /\ taskStatus = [t \in GridTasks |-> "none"]
      /\ retryCount = [t \in GridTasks |-> 0]
      /\ runs = [t \in GridTasks |-> 0] /\ retryTimers = [t \in GridTasks |-> 0]
      /\ leaves = 0 /\ starts = [t \in GridTasks |-> 0] /\ overtaken = {}
  BY DEF GridInit
<1>3. GridTypeOK
  <2>1. assignedNode \in [GridTasks -> GridNodes \cup {Nowhere}] /\ onlineNodes = GridNodes /\ ticking = TRUE
    BY DEF GridInit
  <2>2. taskStatus \in [GridTasks -> OpenStatus \cup {"none", "refused", "completed", "failed", "cancelled"}]
    BY <1>2
  <2>3. pendingTasks \in Seq(GridTasks)
    BY <1>2
  <2> QED BY <1>1, <1>2, <2>1, <2>2, <2>3 DEF GridTypeOK
<1>4. PICK n : n = Now
  OBVIOUS
<1>5. n.list = <<>> /\ n.known = {} /\ n.running = {} /\ n.status = taskStatus
  BY <1>2, <1>4 DEF Now
<1>6. ASSUME NEW t \in GridTasks
      PROVE  TaskOK(n, t, runs[t], retryTimers[t], starts[t], retryCount[t], overtaken, leaves)
  <2>1. /\ n.status[t] = "none" /\ runs[t] = 0 /\ retryTimers[t] = 0 /\ starts[t] = 0 /\ retryCount[t] = 0
        /\ overtaken = {} /\ leaves = 0
    BY <1>2, <1>5
  <2>2. ~In(t, n.list)
    BY <1>5 DEF In
  <2>3. UnderWay(n, t, 0, 0) /\ Untaken(n, t, 0, {})
    BY <1>5, <2>1 DEF UnderWay, Untaken
  <2>4. Alone(n, t, 0, 0)
    BY <1>5, <2>1, <2>2 DEF Alone
  <2>5. StartsBudgeted(n, t, 0, 0, 0, 0)
    <3>1. 0 \in Nat /\ 0 <= 0 /\ 0 <= RetryLimit - 1 /\ t \notin n.known
      BY <1>1, <1>5
    <3>2. 0 + 0 + (IF t \in n.known THEN 1 ELSE 0) <= 1 + 0 + 0
      BY <3>1
    <3> QED BY <3>1, <3>2 DEF StartsBudgeted
  <2>6. TaskOK(n, t, 0, 0, 0, 0, {}, 0)
    BY <2>3, <2>4, <2>5 DEF TaskOK
  <2> QED BY <2>1, <2>6
<1> QED BY <1>3, <1>4, <1>6 DEF GridInv, AllOK

LEMMA GridSteps == ASSUME GridInv, GridNext PROVE GridInv'
<1>1. ASSUME NEW t \in GridTasks, SubmitTask(t) PROVE GridInv'
  BY <1>1, Submitted
<1>2. ASSUME NEW t \in GridTasks, CancelTask(t) PROVE GridInv'
  BY <1>2, Cancelled
<1>3. ASSUME NEW t \in GridTasks, RunCompletes(t) \/ RunFails(t) PROVE GridInv'
  BY <1>3, RunsEnd
<1>4. ASSUME NEW t \in GridTasks, RetryTimerFires(t) PROVE GridInv'
  BY <1>4, TimerFired
<1>5. onlineNodes \subseteq GridNodes /\ ticking \in BOOLEAN
  BY GridTypes DEF GridInv
<1>6. ASSUME NEW n \in GridNodes, NodeOnline(n) \/ NodeOffline(n) PROVE GridInv'
  <2>1. UNCHANGED taskPart /\ leaves' = leaves /\ ticking' = ticking
        /\ (onlineNodes' = onlineNodes \cup {n} \/ onlineNodes' = onlineNodes \ {n})
    BY <1>6 DEF NodeOnline, NodeOffline
  <2>2. onlineNodes' \subseteq GridNodes /\ ticking' \in BOOLEAN
    BY <1>5, <2>1
  <2> QED BY <2>1, <2>2, TasksLeft
<1>7. CASE StopGrid
  <2>1. UNCHANGED taskPart /\ leaves' = leaves /\ ticking' = FALSE /\ onlineNodes' = onlineNodes
    BY <1>7 DEF StopGrid
  <2> QED BY <1>5, <2>1, TasksLeft
<1>8. CASE IntervalTicks
  BY <1>8, Ticked
<1>9. CASE OwnNodeLeaves
  BY <1>9, OwnLeft
<1> QED BY <1>1, <1>2, <1>3, <1>4, <1>6, <1>7, <1>8, <1>9 DEF GridNext

LEMMA GridStutters == ASSUME GridInv, UNCHANGED gridVars PROVE GridInv'
<1>1. UNCHANGED taskPart /\ leaves' = leaves /\ ticking' = ticking /\ onlineNodes' = onlineNodes
  BY DEF gridVars
<1>2. onlineNodes' \subseteq GridNodes /\ ticking' \in BOOLEAN
  BY <1>1, GridTypes DEF GridInv
<1> QED BY <1>1, <1>2, TasksLeft

LEMMA OnePlace ==
  ASSUME NEW list \in Seq(GridTasks), NEW t
  PROVE  /\ ~In(t, list) => Cardinality({k \in DOMAIN list : list[k] = t}) = 0
         /\ Once(t, list) => Cardinality({k \in DOMAIN list : list[k] = t}) = 1
<1>1. DOMAIN list = 1..Len(list)
  BY LenProperties
<1>2. ASSUME ~In(t, list) PROVE {k \in DOMAIN list : list[k] = t} = {}
  BY <1>1, <1>2 DEF In
<1>3. ASSUME Once(t, list) PROVE \E i : {k \in DOMAIN list : list[k] = t} = {i}
  <2>1. PICK i \in 1..Len(list) : list[i] = t
    BY <1>3 DEF Once, In
  <2>2. \A k \in 1..Len(list) : list[k] = t => k = i
    BY <1>3, <2>1 DEF Once
  <2>3. \A k : k \in {j \in DOMAIN list : list[j] = t} <=> k \in {i}
    BY <1>1, <2>1, <2>2
  <2>4. {k \in DOMAIN list : list[k] = t} = {i}
    BY <2>3
  <2> QED BY <2>4
<1> QED BY <1>2, <1>3, FS_EmptySet, FS_Singleton

LEMMA GridIsSound == ASSUME GridInv PROVE GridSound
<1>1. PICK n : n = Now
  OBVIOUS
<1>2. /\ n.list = pendingTasks /\ n.known = queuedTasks /\ n.running = runningTasks /\ n.status = taskStatus
      /\ pendingTasks \in Seq(GridTasks)
  BY <1>1, ViewIs DEF GridInv, GridTypeOK
<1>3. ASSUME NEW t \in GridTasks
      PROVE  /\ TaskOK(n, t, runs[t], retryTimers[t], starts[t], retryCount[t], overtaken, leaves)
             /\ runs[t] \in Nat /\ retryTimers[t] \in Nat /\ starts[t] \in Nat /\ retryCount[t] \in Nat
  BY <1>1, <1>3, TaskFacts
<1>4. OpenIsUnderWay
  <2>1. ASSUME NEW t \in GridTasks
        PROVE  /\ taskStatus[t] = "pending" =>
                    \/ t \in ToSet(pendingTasks) /\ t \in queuedTasks
                    \/ retryTimers[t] > 0
               /\ taskStatus[t] = "running" => runs[t] > 0
    <3>1. UnderWay(n, t, runs[t], retryTimers[t])
      BY <1>3 DEF TaskOK
    <3>2. t \in ToSet(pendingTasks) <=> In(t, pendingTasks)
      BY <1>2, InIsToSet
    <3> QED BY <1>2, <3>1, <3>2 DEF UnderWay
  <2> QED BY <2>1 DEF OpenIsUnderWay
<1>5. StartsBounded
  <2>1. ASSUME NEW t \in GridTasks PROVE starts[t] <= RetryLimit + leaves
    <3>1. StartsBudgeted(n, t, retryTimers[t], starts[t], retryCount[t], leaves)
      BY <1>3 DEF TaskOK
    <3>2. PICK m \in Nat : m <= RetryLimit - 1
                           /\ starts[t] + retryTimers[t] + (IF t \in n.known THEN 1 ELSE 0) <= 1 + leaves + m
      BY <3>1 DEF StartsBudgeted
    <3>3. PICK k \in Nat : k = IF t \in n.known THEN 1 ELSE 0
      OBVIOUS
    <3>4. RetryLimit \in Nat /\ leaves \in Nat
      BY GridAssumption, GridTypes DEF GridInv
    <3>5. starts[t] + retryTimers[t] + k <= 1 + leaves + m
      BY <3>2, <3>3
    <3> QED BY <1>3, <3>2, <3>3, <3>4, <3>5
  <2> QED BY <2>1 DEF StartsBounded
<1>6. InOnePlace
  <2>1. ASSUME NEW t \in GridTasks \ overtaken
        PROVE  /\ runs[t] + retryTimers[t] + Cardinality({k \in DOMAIN pendingTasks : pendingTasks[k] = t})
                    = (IF taskStatus[t] \in OpenStatus THEN 1 ELSE 0)
               /\ t \in runningTasks <=> taskStatus[t] = "running"
    <3>1. Alone(n, t, runs[t], retryTimers[t])
      BY <1>3, <2>1 DEF TaskOK
    <3>2. PICK c : c = Cardinality({k \in DOMAIN pendingTasks : pendingTasks[k] = t})
      OBVIOUS
    <3>3. (~In(t, pendingTasks) => c = 0) /\ (Once(t, pendingTasks) => c = 1)
      BY <1>2, <3>2, OnePlace
    <3>4. t \in runningTasks <=> taskStatus[t] = "running"
      BY <1>2, <3>1 DEF Alone
    <3>5. CASE taskStatus[t] = "pending"
      BY <1>2, <3>1, <3>2, <3>3, <3>4, <3>5 DEF Alone, OpenStatus
    <3>6. CASE taskStatus[t] = "running"
      BY <1>2, <3>1, <3>2, <3>3, <3>4, <3>6 DEF Alone, OpenStatus
    <3>7. CASE taskStatus[t] # "pending" /\ taskStatus[t] # "running"
      BY <1>2, <3>1, <3>2, <3>3, <3>4, <3>7 DEF Alone, OpenStatus
    <3> QED BY <3>5, <3>6, <3>7
  <2> QED BY <2>1 DEF InOnePlace
<1> QED BY <1>4, <1>5, <1>6 DEF GridSound, GridInv

(***************************************************************************)
(* The caches of models and their KV state.                                *)
(***************************************************************************)
LEMMA CachesPart ==
  ASSUME [ResourcesNext]_parts
  PROVE  /\ part' = part
         /\ part = "kv" => KvNext \/ UNCHANGED kvVars
         /\ part = "swap" => [SwapNext]_swapVars
         /\ part = "budget" => BudgetNext \/ UNCHANGED budgetVars
         /\ part = "grid" => GridNext \/ UNCHANGED gridVars
         /\ part # "kv" => UNCHANGED kvVars
         /\ part # "budget" => UNCHANGED budgetVars
<1>1. CASE UNCHANGED parts
  BY <1>1 DEF parts
<1>2. CASE ResourcesNext
  BY <1>2 DEF ResourcesNext
<1> QED BY <1>1, <1>2

CachesInv ==
  /\ part = "kv" => KvInv
  /\ part = "swap" => SwapInv
  /\ part = "budget" => BudgetInv

LEMMA CachesStart == ASSUME ResourcesInit PROVE CachesInv
  BY KvStarts, SwapStarts, BudgetStarts DEF ResourcesInit, CachesInv

LEMMA CachesStep == ASSUME CachesInv, [ResourcesNext]_parts PROVE CachesInv'
<1>1. part' = part
  BY CachesPart
<1>2. ASSUME part = "kv" PROVE KvInv'
  <2>1. KvInv /\ (KvNext \/ UNCHANGED kvVars)
    BY <1>2, CachesPart DEF CachesInv
  <2> QED BY <2>1, KvSteps, KvStutters
<1>3. ASSUME part = "swap" PROVE SwapInv'
  <2>1. SwapInv /\ [SwapNext]_swapVars
    BY <1>3, CachesPart DEF CachesInv
  <2> QED BY <2>1, SwapSteps
<1>4. ASSUME part = "budget" PROVE BudgetInv'
  <2>1. BudgetInv /\ (BudgetNext \/ UNCHANGED budgetVars)
    BY <1>4, CachesPart DEF CachesInv
  <2> QED BY <2>1, BudgetSteps, BudgetStutters
<1> QED BY <1>1, <1>2, <1>3, <1>4 DEF CachesInv

(* A block of the KV cache counts all its readers, and is marked when it   *)
(* has two; the queue has each loaded model once, only the active model is *)
(* flagged, and unless calls crossed it is loaded; the page counter of the *)
(* native caches is the pages of their entries.                            *)
THEOREM ModelCachesCorrect == ResourcesSpec => []ModelCachesSound
<1>1. ResourcesInit => CachesInv
  BY CachesStart
<1>2. CachesInv /\ [ResourcesNext]_parts => CachesInv'
  BY CachesStep
<1>3. CachesInv => ModelCachesSound
  BY KvIsSound, SwapIsSound, BudgetIsSound DEF CachesInv, ModelCachesSound
<1>4. QED
  BY <1>1, <1>2, <1>3, PTL DEF ResourcesSpec

(* A block goes while it is referred to only by an eviction that makes     *)
(* room, and of the native caches the entry that was used earliest goes,   *)
(* and what a prefill has just computed stays if it can.                   *)
THEOREM TakenCorrect == ResourcesSpec => TakenWhenDue
<1> DEFINE Evicted == \A b \in Physical \ Physical' : References(b)' > 0 => drawn' # drawn /\ References(b) = 1
           InTurn == /\ source' = "cold" /\ (\A p \in Prompts : PagesOf[p] <= KvPageBudget)
                        => ToSet(recency') \ ToSet(recency) # {}
                   /\ \A i, j \in DOMAIN recency :
                        /\ i < j /\ Kind(recency[i]) = "prompt" /\ Kind(recency[j]) = "prompt"
                        /\ recency[j] \notin ToSet(recency')
                        => recency[i] \notin ToSet(recency') \/ Last(recency').prompt = recency[i].prompt
<1>1. ResourcesInit => CachesInv
  BY CachesStart
<1>2. CachesInv /\ [ResourcesNext]_parts => CachesInv'
  BY CachesStep
<1>3. ASSUME CachesInv, [ResourcesNext]_parts PROVE [Evicted]_kvVars
  <2>1. CASE part = "kv"
    <3>1. KvInv /\ (KvNext \/ UNCHANGED kvVars)
      BY <1>3, <2>1, CachesPart DEF CachesInv
    <3>2. Evicted
      BY <3>1, OnlyEvicted
    <3> QED BY <3>2
  <2>2. CASE part # "kv"
    BY <1>3, <2>2, CachesPart
  <2> QED BY <2>1, <2>2
<1>4. ASSUME CachesInv, [ResourcesNext]_parts PROVE [InTurn]_budgetVars
  <2>1. CASE part = "budget" /\ BudgetNext
    <3>1. BudgetInv
      BY <1>4, <2>1 DEF CachesInv
    <3>2. InTurn
      BY <2>1, <3>1, OldestGo
    <3> QED BY <3>2
  <2>2. CASE ~(part = "budget" /\ BudgetNext)
    BY <1>4, <2>2, CachesPart
  <2> QED BY <2>1, <2>2
<1>5. QED
  BY <1>1, <1>2, <1>3, <1>4, PTL DEF ResourcesSpec, TakenWhenDue, OnlyEvictionDangles, OldestGoes

(* A task of the grid that is not over has a place or a run, has one only  *)
(* unless a run of it was overtaken, and is started no more often than its *)
(* retries and the leaves of its node allow.                               *)
THEOREM PlacesCorrect == ResourcesSpec => []PlacesSound
<1> DEFINE Inv == part = "grid" => GridInv
<1>1. ResourcesInit => Inv
  BY GridStarts DEF ResourcesInit
<1>2. ASSUME Inv, [ResourcesNext]_parts PROVE Inv'
  <2>1. part' = part
    BY <1>2, CachesPart
  <2>2. ASSUME part = "grid" PROVE GridInv'
    <3>1. GridInv /\ (GridNext \/ UNCHANGED gridVars)
      BY <1>2, <2>2, CachesPart
    <3> QED BY <3>1, GridSteps, GridStutters
  <2> QED BY <2>1, <2>2
<1>3. Inv => PlacesSound
  BY GridIsSound DEF PlacesSound
<1>4. QED
  BY <1>1, <1>2, <1>3, PTL DEF ResourcesSpec
=============================================================================

----------------------------- MODULE TaskPanel -----------------------------
(***************************************************************************)
(* The tasks of the playground's knowledge engine panel: KCETaskManager    *)
(* and its KCEApiClient (playground/kce-task-manager.js).  Tasks are made, *)
(* selected, run (again) and cleared in any order; runs end, and diagrams  *)
(* are drawn, while others begin.  The one client keeps the trace of the   *)
(* last answer, or of the errors since a run began, in an array that the   *)
(* results of failed tasks share.  Ids are distinct (a task is made by a   *)
(* click); what a diagram or a trace says is left out but for whose it is. *)
(***************************************************************************)
EXTENDS Naturals, FiniteSets

CONSTANTS
  PanelTasks, NoTask,
  MaxRuns, MaxDrawings     \* bounds: runs that begin, drawings under way

ASSUME PanelAssumption == NoTask \notin PanelTasks /\ {MaxRuns, MaxDrawings} \subseteq Nat

VARIABLES
  listed,        \* tasks
  selected,      \* currentTask
  panelStatus,    \* by task: its status
  panelResult,    \* by task: the run that its result is of, or 0 for none
  detail,        \* the status that the detail shows
  panelRuns,     \* the runs that began: their task, and how they ended
  clientTrace,   \* kceEngine.trace: which array it is
  arrays,        \* by array: the runs whose errors were pushed to it
  drawings,      \* renderDiagrams calls that await: of which result, where
  sequencePane,  \* what the two panes show: the run whose result is
  dagPane,       \* drawn, NoDiagram, or FailedDiagram
  overlapped,    \* history: two runs were under way at once
  drawnOver        \* history: two drawings were

panelVars == <<listed, selected, panelStatus, panelResult, detail, panelRuns, clientTrace,
               arrays, drawings, sequencePane, dagPane, overlapped, drawnOver>>

NoDiagram     == 0
FailedDiagram == MaxRuns + 1

RunIds  == 1..MaxRuns
NoTrace == <<"none", 0>>
NoRun   == [task |-> NoTask, end |-> "none", trace |-> NoTrace]
Begun   == {r \in RunIds : panelRuns[r].task # NoTask}
Under   == {r \in Begun : panelRuns[r].end = "under way"}
Planned(r) == panelRuns[r].end = "planned"       \* an answer with a plan

(* An array is made when a run begins, and comes with its answer.          *)
Arrays == {"begun", "answer"} \X RunIds
TraceOf(r) == panelRuns[r].trace

PanelInit ==
  /\ listed = {} /\ selected = NoTask
  /\ panelStatus = [t \in PanelTasks |-> "new"]
  /\ panelResult = [t \in PanelTasks |-> 0]
  /\ detail = "hidden"
  /\ panelRuns = [r \in RunIds |-> NoRun]
  /\ clientTrace = NoTrace
  /\ arrays = [a \in Arrays |-> {}]
  /\ drawings = {}
  /\ sequencePane = NoDiagram /\ dagPane = NoDiagram
  /\ overlapped = FALSE /\ drawnOver = FALSE

-----------------------------------------------------------------------------
Drawing(r, end) ==
  [of |-> r, at |-> "sequence", plan |-> end = "planned",
   number |-> CHOOSE n \in 1..MaxDrawings : \A d \in drawings : d.number # n]

(* What if a task were selected that is no longer in the list?             *)
ListedAnyway(t, L) == t \in PanelTasks

StillListed(t, L) == t \in L

(* selectTask, with the first stretch of renderDiagrams; the panes of a    *)
(* task that has no result are emptied.                                    *)
Selects(t, L, status, result, ends) ==
  IF ~StillListed(t, L)
  THEN UNCHANGED <<selected, detail, drawings, sequencePane, dagPane, drawnOver>>
  ELSE
    /\ selected' = t
    /\ detail' = status[t]
    /\ IF result[t] # 0
       THEN /\ Cardinality(drawings) < MaxDrawings
            /\ drawings' = drawings \cup {Drawing(result[t], ends[result[t]])}
            /\ drawnOver' = (drawnOver \/ drawings # {})
            /\ sequencePane' = result[t]
            /\ UNCHANGED dagPane
       ELSE /\ sequencePane' = NoDiagram /\ dagPane' = NoDiagram
            /\ UNCHANGED <<drawings, drawnOver>>

RunEnd == [r \in RunIds |-> panelRuns[r].end]

CreateNewTask(t) ==
  /\ panelStatus[t] = "new"
  /\ listed' = listed \cup {t}
  /\ panelStatus' = [panelStatus EXCEPT ![t] = "pending"]
  /\ Selects(t, listed', panelStatus', panelResult, RunEnd)
  /\ UNCHANGED <<panelResult, panelRuns, clientTrace, arrays, overlapped>>

SelectTask(t) ==
  /\ t \in listed
  /\ Selects(t, listed, panelStatus, panelResult, RunEnd)
  /\ UNCHANGED <<listed, panelStatus, panelResult, panelRuns, clientTrace, arrays, overlapped>>

RunCurrentTask ==
  LET r == Cardinality(Begun) + 1
  IN  /\ selected # NoTask /\ panelStatus[selected] # "running" /\ r <= MaxRuns
      /\ panelStatus' = [panelStatus EXCEPT ![selected] = "running"]
      /\ panelRuns' = [panelRuns EXCEPT ![r] =
                         [task |-> selected, end |-> "under way", trace |-> NoTrace]]
      /\ clientTrace' = <<"begun", r>>
      /\ overlapped' = (overlapped \/ Under # {})
      /\ Selects(selected, listed, panelStatus', panelResult, RunEnd)
      /\ UNCHANGED <<listed, panelResult, arrays>>

(* compute answers; the task that was run is selected again.               *)
Ended(r, status, end, trace) ==
  LET t == panelRuns[r].task
  IN  /\ panelStatus' = [panelStatus EXCEPT ![t] = status]
      /\ panelResult' = [panelResult EXCEPT ![t] = r]
      /\ panelRuns' = [panelRuns EXCEPT ![r] = [task |-> t, end |-> end, trace |-> trace]]
      /\ Selects(t, listed, panelStatus', panelResult', [RunEnd EXCEPT ![r] = end])
      /\ UNCHANGED <<listed, overlapped>>

ComputeAnswers(r, end) ==
  /\ r \in Under
  /\ clientTrace' = <<"answer", r>>
  /\ Ended(r, "completed", end, clientTrace')
  /\ UNCHANGED arrays

(* ... or throws: its error goes into whatever array the client has now,   *)
(* which becomes the trace of the result.                                  *)
ComputeFails(r) ==
  /\ r \in Under
  /\ arrays' = [arrays EXCEPT ![clientTrace] = @ \cup {r}]
  /\ Ended(r, "error", "failed", clientTrace)
  /\ UNCHANGED clientTrace

ClearAllTasks ==
  /\ listed # {}
  /\ listed' = {} /\ selected' = NoTask /\ detail' = "hidden"
  /\ UNCHANGED <<panelStatus, panelResult, panelRuns, clientTrace, arrays, drawings,
                 sequencePane, dagPane, overlapped, drawnOver>>

(* The sequence diagram is drawn, or is not; then the plan's graph.        *)
SequenceDrawn(d, fails) ==
  /\ d \in drawings /\ d.at = "sequence"
  /\ sequencePane' = IF fails THEN FailedDiagram ELSE sequencePane
  /\ IF d.plan
     THEN dagPane' = d.of /\ drawings' = (drawings \ {d}) \cup {[d EXCEPT !.at = "dag"]}
     ELSE UNCHANGED dagPane /\ drawings' = drawings \ {d}
  /\ UNCHANGED <<listed, selected, panelStatus, panelResult, detail, panelRuns, clientTrace,
                 arrays, overlapped, drawnOver>>

DagDrawn(d, fails) ==
  /\ d \in drawings /\ d.at = "dag"
  /\ dagPane' = IF fails THEN FailedDiagram ELSE dagPane
  /\ drawings' = drawings \ {d}
  /\ UNCHANGED <<listed, selected, panelStatus, panelResult, detail, panelRuns, clientTrace,
                 arrays, sequencePane, overlapped, drawnOver>>

PanelNext ==
  \/ \E t \in PanelTasks : CreateNewTask(t) \/ SelectTask(t)
  \/ RunCurrentTask \/ ClearAllTasks
  \/ \E r \in RunIds : \/ ComputeFails(r)
                      \/ \E end \in {"planned", "unplanned"} : ComputeAnswers(r, end)
  \/ \E d \in drawings, fails \in BOOLEAN : SequenceDrawn(d, fails) \/ DagDrawn(d, fails)

-----------------------------------------------------------------------------
(* The detail tells the truth about the task that is selected, which is in *)
(* the list: a run that ends after the list was cleared, or while another  *)
(* task is shown, leaves no stale status behind.                           *)
DetailIsTrue == IF selected = NoTask THEN detail = "hidden"
                ELSE selected \in listed /\ detail = panelStatus[selected]

(* The sequence pane never has another task's diagram, however late a      *)
(* drawing fails.                                                          *)
SequenceIsOwn ==
  selected # NoTask =>
    sequencePane \in {FailedDiagram, panelResult[selected]}

(* So has the other pane, for a result that has a plan, once it is drawn   *)
(* and if no two drawings were under way at once.                          *)
GraphIsOwn ==
  selected # NoTask /\ panelResult[selected] # 0 /\ Planned(panelResult[selected])
    /\ drawings = {} /\ ~drawnOver => dagPane \in {FailedDiagram, panelResult[selected]}

(* A task is run once at a time, across selections of other tasks.         *)
RunOnce == \A q, r \in Under : panelRuns[q].task = panelRuns[r].task => q = r

(* The trace of a result has the errors of its own run, and no others,     *)
(* unless runs were under way at once.                                     *)
TraceIsOwn ==
  ~overlapped => \A r \in Begun \ Under :
    arrays[TraceOf(r)] = IF panelRuns[r].end = "failed" THEN {r} ELSE {}

TasksShown == /\ DetailIsTrue /\ SequenceIsOwn /\ GraphIsOwn
              /\ RunOnce /\ TraceIsOwn

=============================================================================

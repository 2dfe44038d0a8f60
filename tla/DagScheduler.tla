---------------------------- MODULE DagScheduler ----------------------------
(***************************************************************************)
(* The scheduler of tool calls of src/tools/dagScheduler.ts: the calls of  *)
(* a plan run in groups, a group when the groups before it are over, the   *)
(* calls of a group side by side under a semaphore, each with timeouts and *)
(* retries; plans share a cache of results.                                *)
(*                                                                         *)
(* An action is what runs between two awaits.  A tool that timed out is    *)
(* not stopped, but nobody hears of its run any more.  The order of the    *)
(* calls of a group is any order here.                                     *)
(***************************************************************************)
EXTENDS Integers, Places, SequencesExt

CONSTANTS
  Plans,         \* calls of execute
  Calls,
  PlanOf, DependsOn,
  Keys, KeyOf,   \* generateCacheKey: name and arguments
  Registered,    \* calls whose tool has an executor
  MaxConcurrency, MaxAttempts, CacheSize

ASSUME DagAssumption ==
  /\ IsFiniteSet(Calls) /\ Registered \subseteq Calls
  /\ PlanOf \in [Calls -> Plans]
  /\ KeyOf \in [Calls -> Keys]
  /\ {MaxConcurrency, MaxAttempts, CacheSize} \subseteq Nat \ {0}

VARIABLES
  plan,        \* what became of each execute
  group,       \* calls of the group each plan awaits
  doneCalls,   \* resultsMap of each plan, by the calls that have run
  permits, semQueue,   \* the semaphore of each plan's group
  phase,       \* where each call stands
  attempt,
  answer,      \* the call whose result it was given, and whether it succeeded
  cache,       \* toolCache, least recently used first: <<key, call>>
  expired      \* keys whose entry is past expiresAt

planPart == <<plan, group, doneCalls>>
semPart  == <<permits, semQueue>>
callPart == <<phase, attempt, answer>>
dagVars  == <<planPart, semPart, callPart, cache, expired>>

CallsOf(p) == {c \in Calls : PlanOf[c] = p}
None == [of |-> {}, ok |-> FALSE]

DagTypeOK ==
  /\ plan \in [Plans -> {"new", "waiting", "resolved", "rejected", "refused"}]
  /\ group \in [Plans -> SUBSET Calls] /\ doneCalls \in [Plans -> SUBSET Calls]
  /\ permits \in [Plans -> Int] /\ semQueue \in [Plans -> Seq(Calls)]
  /\ phase \in [Calls ->
       {"new", "queued", "hit", "running", "backoff", "threw", "over", "thrown"}]
  /\ attempt \in [Calls -> 0..MaxAttempts]
  /\ answer \in [Calls -> [of : SUBSET Calls, ok : BOOLEAN]]
  /\ cache \in Seq(Keys \X Calls) /\ expired \subseteq Keys

DagInit ==
  /\ plan = [p \in Plans |-> "new"]
  /\ group = [p \in Plans |-> {}] /\ doneCalls = [p \in Plans |-> {}]
  /\ permits = [p \in Plans |-> 0] /\ semQueue = [p \in Plans |-> <<>>]
  /\ phase = [c \in Calls |-> "new"]
  /\ attempt = [c \in Calls |-> 0]
  /\ answer = [c \in Calls |-> None]
  /\ cache = <<>> /\ expired = {}

-----------------------------------------------------------------------------
(* LRUCache.get: the entry goes to the end.                                *)
Looked(list, k) ==
  LET found == {n \in DOMAIN list : list[n][1] = k}
  IN  AtPlaces(list, DOMAIN list \ found) \o AtPlaces(list, found)

(* The calls look for their keys, one after the other.                     *)
LookedInOrder(list, order) ==
  LET then[n \in 0..Len(order)] == IF n = 0 THEN list ELSE Looked(then[n - 1], KeyOf[order[n]])
  IN  then[Len(order)]

(* LRUCache.set: an entry that is there keeps its place; else the first    *)
(* goes if the cache is full.                                              *)
Stored(list, k, c) ==
  IF \E e \in ToSet(list) : e[1] = k
  THEN [n \in DOMAIN list |-> IF list[n][1] = k THEN <<k, c>> ELSE list[n]]
  ELSE Append(IF Len(list) >= CacheSize THEN Tail(list) ELSE list, <<k, c>>)

(* The entry a call finds, given the cache and what is expired of it.      *)
Hit(c, list, old) == {e \in ToSet(list) : e[1] = KeyOf[c] /\ e[1] \notin old}

(* Calls begin in an order, others go as they went, over the cache as it   *)
(* is by then: each takes the cached answer, starts its tool, or throws.   *)
Begin(order, others, list, old) ==
  LET starting == ToSet(order)
      hits     == {c \in starting : Hit(c, list, old) # {}}
  IN
  /\ phase' = [c \in Calls |->
       IF c \notin starting THEN others[c]
       ELSE IF c \in hits THEN "hit" ELSE IF c \in Registered THEN "running" ELSE "threw"]
  /\ attempt' = [c \in Calls |-> IF c \in starting \ hits THEN 1 ELSE attempt[c]]
  /\ cache' = LookedInOrder(list, order)

AnswersWith(order, given, list, old) ==
  answer' = [c \in Calls |->
    IF c \in ToSet(order) /\ Hit(c, list, old) # {}
    THEN [of |-> {(CHOOSE e \in Hit(c, list, old) : TRUE)[2]}, ok |-> TRUE]
    ELSE given[c]]

(* What if calls were never refused?                                       *)
AnyPlan(p) == TRUE

(* buildDAG and topologicalSort: no set of calls in which each waits for   *)
(* another of the set, or for a call the plan does not have.               *)
Sortable(p) ==
  \A S \in (SUBSET CallsOf(p)) \ {{}} :
    \E c \in S : DependsOn[c] \subseteq CallsOf(p) \ S

(* The next group of the plan, once the calls in done are over.            *)
Layer(p, done) == {c \in CallsOf(p) \ done : DependsOn[c] \subseteq done}

(* What if the whole group started at once?                                *)
AllAtOnce(order) == order

(* Those of a group the semaphore lets in.                                 *)
LetIn(order) == SubSeq(order, 1, Min({MaxConcurrency, Len(order)}))

(* The loop of execute goes on to its next group, or is through; then      *)
(* cleanupCache drops what is expired.                                     *)
GoOn(p, done) ==
  LET next == Layer(p, done) IN
  /\ doneCalls' = [doneCalls EXCEPT ![p] = done]
  /\ \/ /\ next = {}
        /\ plan' = [plan EXCEPT ![p] = "resolved"]
        /\ cache' = AtPlaces(cache, {n \in DOMAIN cache : cache[n][1] \notin expired})
        /\ UNCHANGED <<group, semPart, callPart>>
     \/ \E order \in SetToSeqs(next) :
          LET first == LetIn(order)
              rest  == SubSeq(order, Len(first) + 1, Len(order))
          IN
          /\ plan' = [plan EXCEPT ![p] = "waiting"]
          /\ group' = [group EXCEPT ![p] = next]
          /\ permits' = [permits EXCEPT ![p] = MaxConcurrency - Len(first)]
          /\ semQueue' = [semQueue EXCEPT ![p] = rest]
          /\ Begin(first, [c \in Calls |-> IF c \in ToSet(rest) THEN "queued" ELSE phase[c]],
                   cache, expired)
          /\ AnswersWith(first, answer, cache, expired)

ExecutePlan(p) ==
  /\ plan[p] = "new"
  /\ IF Sortable(p) THEN GoOn(p, {})
     ELSE /\ plan' = [plan EXCEPT ![p] = "refused"]
          /\ UNCHANGED <<group, doneCalls, semPart, callPart, cache>>
  /\ UNCHANGED expired

(* What if the first call of a group to end were enough?                   *)
FirstOver(p) == \E c \in group[p] : phase[c] = "over"

AllOver(p) == \A c \in group[p] : phase[c] = "over"

(* Promise.all of the group is fulfilled.                                  *)
GroupOver(p) ==
  /\ plan[p] = "waiting" /\ AllOver(p)
  /\ GoOn(p, doneCalls[p] \cup group[p])
  /\ UNCHANGED expired

(* What if a call that ends left the queue alone?                          *)
NobodyAfter(p) == <<>>

(* Semaphore.release hands over to the first of the queue.                 *)
NextInLine(p) == IF semQueue[p] = <<>> THEN <<>> ELSE <<Head(semQueue[p])>>

(* A call ends, given its result, the cache and what is expired by then.   *)
(* The one that is handed over to takes a permit of its own, though none   *)
(* was given back.                                                         *)
Ends(c, how, result, list, old) ==
  LET p == PlanOf[c]
      next == NextInLine(p)
  IN
  /\ Begin(next, [phase EXCEPT ![c] = how], list, old)
  /\ AnswersWith(next, [answer EXCEPT ![c] = result], list, old)
  /\ permits' = [permits EXCEPT ![p] = IF next = <<>> THEN @ + 1 ELSE @ - 1]
  /\ semQueue' = [semQueue EXCEPT ![p] = IF next = <<>> THEN @ ELSE Tail(@)]

HitReturns(c) ==
  /\ phase[c] = "hit"
  /\ Ends(c, "over", answer[c], cache, expired)
  /\ UNCHANGED <<planPart, expired>>

(* The group, and the plan, are rejected; the others of the group go on.   *)
ThrowReturns(c) ==
  /\ phase[c] = "threw"
  /\ Ends(c, "thrown", None, cache, expired)
  /\ plan' = [plan EXCEPT ![PlanOf[c]] = "rejected"]
  /\ UNCHANGED <<group, doneCalls, expired>>

(* What if failures were cached too?                                       *)
EverythingStored(c, ok) == Stored(cache, KeyOf[c], c)

(* Only successes are.                                                     *)
CacheAfter(c, ok) == IF ok THEN Stored(cache, KeyOf[c], c) ELSE cache

Result(c, ok) ==
  LET old == IF ok THEN expired \ {KeyOf[c]} ELSE expired IN
  /\ Ends(c, "over", [of |-> {c}, ok |-> ok], CacheAfter(c, ok), old)
  /\ expired' = old
  /\ UNCHANGED planPart

ToolAnswers(c) == phase[c] = "running" /\ Result(c, TRUE)

(* What if it were tried once more?                                        *)
TriedOnceMore(c, retryable) ==
  IF retryable /\ attempt[c] <= MaxAttempts
  THEN /\ phase' = [phase EXCEPT ![c] = "backoff"]
       /\ UNCHANGED <<planPart, semPart, attempt, answer, cache, expired>>
  ELSE Result(c, FALSE)

(* A failed attempt is repeated after a pause if its error says so.        *)
AttemptFails(c, retryable) ==
  IF retryable /\ attempt[c] < MaxAttempts
  THEN /\ phase' = [phase EXCEPT ![c] = "backoff"]
       /\ UNCHANGED <<planPart, semPart, attempt, answer, cache, expired>>
  ELSE Result(c, FALSE)

ToolFails(c, retryable) ==
  phase[c] = "running" /\ AttemptFails(c, retryable)

(* "timeout" is a retryable error; the tool runs on.                       *)
ToolTimesOut(c) ==
  /\ phase[c] = "running"
  /\ AttemptFails(c, TRUE)

PauseOver(c) ==
  /\ phase[c] = "backoff"
  /\ phase' = [phase EXCEPT ![c] = "running"]
  /\ attempt' = [attempt EXCEPT ![c] = @ + 1]
  /\ UNCHANGED <<planPart, semPart, answer, cache, expired>>

EntryExpires(k) ==
  /\ k \in {e[1] : e \in ToSet(cache)} \ expired
  /\ expired' = expired \cup {k}
  /\ UNCHANGED <<planPart, semPart, callPart, cache>>

(* prefetch: what a tool answers is not stored; an entry that is there     *)
(* counts as used, expired or not.                                         *)
Prefetch(c) ==
  /\ cache' = Looked(cache, KeyOf[c])
  /\ UNCHANGED <<planPart, semPart, callPart, expired>>

ClearCache ==
  /\ cache' = <<>>
  /\ UNCHANGED <<planPart, semPart, callPart, expired>>

CallGoesOn(c) == HitReturns(c) \/ ThrowReturns(c) \/ ToolTimesOut(c) \/ PauseOver(c)

DagNext ==
  \/ \E p \in Plans : ExecutePlan(p) \/ GroupOver(p)
  \/ \E c \in Calls :
       \/ CallGoesOn(c) \/ ToolAnswers(c) \/ Prefetch(c)
       \/ \E retryable \in BOOLEAN : ToolFails(c, retryable)
  \/ \E k \in Keys : EntryExpires(k)
  \/ ClearCache

DagSpec == DagInit /\ [][DagNext]_dagVars

-----------------------------------------------------------------------------
(* No tool is called before every call it depends on is over, whatever was *)
(* answered from the cache, failed or timed out.                           *)
DependenciesFirst ==
  \A c \in Calls : phase[c] # "new" => \A d \in DependsOn[c] : phase[d] = "over"

(* A plan has no more calls going than the semaphore's size, although the  *)
(* count of permits falls below zero; tools that timed out do not count.   *)
WithinConcurrency ==
  \A p \in Plans :
    Cardinality({c \in CallsOf(p) : phase[c] \in {"hit", "running", "backoff", "threw"}})
      <= MaxConcurrency

(* What the cache hands out is a success of a call with the same key.      *)
CacheTellsSuccess ==
  \A c, d \in Calls :
    c # d /\ d \in answer[c].of => KeyOf[d] = KeyOf[c] /\ answer[d] = [of |-> {d}, ok |-> TRUE]

(* A plan resolves when each of its calls is over, and a plan whose        *)
(* dependencies can never be met is refused before anything runs.          *)
ResolvedIsComplete ==
  \A p \in Plans : plan[p] = "resolved" => \A c \in CallsOf(p) : phase[c] = "over"

(* Calls run in their order and within their number, and what comes out is *)
(* complete and true.                                                      *)
DagSound ==
  DagTypeOK /\ DependenciesFirst /\ WithinConcurrency /\ CacheTellsSuccess /\ ResolvedIsComplete

(* Timers fire and continuations run, while there are any; tools need not  *)
(* answer.                                                                 *)
DagFairness == WF_dagVars((\E p \in Plans : GroupOver(p)) \/ \E c \in Calls : CallGoesOn(c))

(* What is owed: the ends of the plans started, even if no tool answers.   *)
Unfinished == {p \in Plans : plan[p] = "waiting"}
=============================================================================

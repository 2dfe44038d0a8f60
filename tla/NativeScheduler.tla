-------------------------- MODULE NativeScheduler --------------------------
(***************************************************************************)
(* The scheduler of the in-process engine (JsReferenceNativeServingBackend *)
(* in src/native/backend.ts): pending requests are admitted to a batch,    *)
(* prefilled, and decoded one token per cycle until the batch is empty.    *)
(* The batch is a map keyed by request id and the order of those ids; the  *)
(* id may be the client's, so two requests can share one.                  *)
(*                                                                         *)
(* A turn of the loop has no await inside.  It is taken apart into actions *)
(* here, and nothing else may happen while turn is inside one: see Outside. *)
(* Every active request is in the decode batch of every cycle (the limit   *)
(* is the batch size), so the cursor's place does not matter.              *)
(***************************************************************************)
EXTENDS Naturals, FiniteSets, SequencesExt, Places

CONSTANTS
  Completions,     \* calls of streamComplete
  RequestIds,
  RequestIdChoices, \* which id each may come with
  SchedulerBatch,  \* schedulerMaxBatchSize
  PrefillsPerTick, \* schedulerMaxPrefillsPerTick
  TokenLimit       \* state.maxTokens

ASSUME NativeAssumption ==
  /\ IsFiniteSet(Completions)
  /\ RequestIdChoices \subseteq [Completions -> RequestIds]
  /\ {SchedulerBatch, PrefillsPerTick, TokenLimit} \subseteq Nat \ {0}

VARIABLES
  pendingRequests,
  activeRequests,  \* the request in each id's entry, {} without one
  activeOrder,     \* ids in order of admission
  turn,            \* where the loop stands
  budget,          \* admissions left in this turn
  todo,            \* requests left of this cycle's batch
  life,            \* what became of each request
  generated,       \* tokens each has produced
  marked,          \* requests with the cancelled flag
  signalled,       \* those whose caller's signal is aborted
  requestId,       \* the id each comes with
  idShared         \* history: a request came while another of its id was there

idPart     == <<requestId, idShared>>
loopPart   == <<turn, budget, todo>>
nativeVars == <<pendingRequests, activeRequests, activeOrder, loopPart, life, generated,
                marked, signalled, idPart>>

Ended == {"finished", "failed", "cancelled"}

NativeTypeOK ==
  /\ pendingRequests \in Seq(Completions)
  /\ activeRequests \in [RequestIds -> SUBSET Completions]
  /\ activeOrder \in Seq(RequestIds)
  /\ turn \in {"off", "queued", "waiting", "admit", "decode"}
  /\ budget \in 0..PrefillsPerTick
  /\ todo \in Seq(Completions)
  /\ life \in [Completions -> {"new", "pending", "active"} \cup Ended]
  /\ generated \in [Completions -> 0..TokenLimit]
  /\ marked \subseteq Completions /\ signalled \subseteq Completions
  /\ requestId \in RequestIdChoices /\ idShared \in BOOLEAN

NativeInit ==
  /\ pendingRequests = <<>>
  /\ activeRequests = [i \in RequestIds |-> {}]
  /\ activeOrder = <<>>
  /\ turn = "off" /\ budget = 0 /\ todo = <<>>
  /\ life = [r \in Completions |-> "new"]
  /\ generated = [r \in Completions |-> 0]
  /\ marked = {} /\ signalled = {}
  /\ requestId \in RequestIdChoices /\ idShared = FALSE

(* No turn of the loop is under way: callers and signals may run.          *)
Outside == turn \in {"off", "queued", "waiting"}

(* ensureSchedulerLoop                                                     *)
Ensured == IF turn = "off" THEN "queued" ELSE turn

-----------------------------------------------------------------------------
EnqueueRequest(r) ==
  /\ Outside /\ life[r] = "new"
  /\ life' = [life EXCEPT ![r] = "pending"]
  /\ pendingRequests' = Append(pendingRequests, r)
  /\ turn' = Ensured
  /\ idShared' = (idShared \/ \E k \in Completions :
                    life[k] \in {"pending", "active"} /\ requestId[k] = requestId[r])
  /\ UNCHANGED <<activeRequests, activeOrder, budget, todo, generated, marked, signalled, requestId>>

(* cancelRequest: the first pending request of the id, whoever it is of,   *)
(* else the active one is marked, and the loop woken to fail it.           *)
CancelRequest(i) ==
  LET at == SelectInSeq(pendingRequests, LAMBDA r : requestId[r] = i) IN
  \/ /\ at # 0
     /\ life' = [life EXCEPT ![pendingRequests[at]] = "cancelled"]
     /\ pendingRequests' = RemoveAt(pendingRequests, at)
     /\ UNCHANGED <<marked, turn>>
  \/ /\ at = 0
     /\ marked' = marked \cup activeRequests[i]
     /\ turn' = IF activeRequests[i] = {} THEN turn ELSE Ensured
     /\ UNCHANGED <<life, pendingRequests>>

(* A caller that leaves its stream, or whose signal fires, cancels by id.  *)
CallerLeaves(r, bySignal) ==
  /\ Outside
  /\ life[r] \in {"pending", "active"} /\ r \notin signalled
  /\ CancelRequest(requestId[r])
  /\ signalled' = IF bySignal THEN signalled \cup {r} ELSE signalled
  /\ UNCHANGED <<activeRequests, activeOrder, budget, todo, generated, idPart>>

(* What if the requests that are active were not counted?                  *)
LimitOfOneTurn == Min({PrefillsPerTick, Len(pendingRequests), SchedulerBatch})

(* computeAdmitLimit                                                       *)
AdmitLimit ==
  IF Len(activeOrder) >= SchedulerBatch THEN 0
  ELSE Min({PrefillsPerTick, Len(pendingRequests), SchedulerBatch - Len(activeOrder)})

(* runSchedulerLoop begins a turn, or ends; the limit is read once.        *)
TurnBegins ==
  /\ turn \in {"queued", "waiting"}
  /\ IF pendingRequests = <<>> /\ activeOrder = <<>>
     THEN turn' = "off" /\ UNCHANGED budget
     ELSE /\ turn' = "admit"
          /\ budget' = AdmitLimit
  /\ UNCHANGED <<pendingRequests, activeRequests, activeOrder, todo, life, generated,
                 marked, signalled, idPart>>

(* What if the order kept the id of a request that is over?                *)
OrderKept(order, ids) == order

(* removeActiveRequest, for each of a set of ids: its first place goes.    *)
OrderWithout(order, ids) ==
  AtPlaces(order, {k \in DOMAIN order :
                     order[k] \in ids => \E n \in 1..k - 1 : order[n] = order[k]})

EntryOf(map, i) == CHOOSE r \in map[i] : TRUE

MapWithout(map, ids) == [i \in RequestIds |-> IF i \in ids THEN {} ELSE map[i]]

(* finishRequest or failRequest for r, over the map and the order given.   *)
Over(r, end, map, order) ==
  /\ life' = [life EXCEPT ![r] = end]
  /\ activeRequests' = MapWithout(map, {requestId[r]})
  /\ activeOrder' = OrderWithout(order, {requestId[r]})

(* admitPendingRequests takes one, whose prefill may fail.                 *)
AdmitOne ==
  LET r   == Head(pendingRequests)
      map == [activeRequests EXCEPT ![requestId[r]] = {r}]
      order == Append(activeOrder, requestId[r])
  IN
  /\ turn = "admit" /\ budget > 0
  /\ budget' = budget - 1
  /\ pendingRequests' = Tail(pendingRequests)
  /\ \/ /\ r \notin signalled
        /\ life' = [life EXCEPT ![r] = "active"]
        /\ activeRequests' = map
        /\ activeOrder' = order
     \/ Over(r, IF r \in signalled THEN "cancelled" ELSE "failed", map, order)
  /\ UNCHANGED <<turn, todo, generated, marked, signalled, idPart>>

(* What if the loop ended with its batch?                                  *)
EndsWithBatch(order) == IF order # <<>> THEN "decode" ELSE "off"

(* The loop goes on as long as requests wait, even if none was admitted.   *)
TurnGoesOn(order) ==
  CASE order # <<>>           -> "decode"
    [] pendingRequests # <<>> -> "waiting"
    [] OTHER                  -> "off"

(* flushCancelledActive, and selectDecodeBatch from what is left: an id    *)
(* that is in the order twice puts its request into the batch twice.       *)
BatchSelected ==
  LET flushed == {r \in marked : life[r] = "active" /\ activeRequests[requestId[r]] = {r}}
      ids     == {requestId[r] : r \in flushed}
      map     == MapWithout(activeRequests, ids)
      order   == OrderWithout(activeOrder, ids)
      found   == AtPlaces(order, {k \in DOMAIN order : map[order[k]] # {}})
  IN
  /\ turn = "admit" /\ budget = 0
  /\ life' = [r \in Completions |-> IF r \in flushed THEN "cancelled" ELSE life[r]]
  /\ activeRequests' = map
  /\ activeOrder' = order
  /\ todo' = [k \in DOMAIN found |-> EntryOf(map, found[k])]
  /\ turn' = TurnGoesOn(order)
  /\ UNCHANGED <<pendingRequests, budget, generated, marked, signalled, idPart>>

(* processDecodeCycle passes over a request that is over by now.           *)
SkipOne ==
  /\ turn = "decode" /\ todo # <<>> /\ life[Head(todo)] # "active"
  /\ todo' = Tail(todo)
  /\ UNCHANGED <<pendingRequests, activeRequests, activeOrder, turn, budget, life, generated,
                 marked, signalled, idPart>>

(* decodeSingleStep: a token, the end of the text, or an error.            *)
DecodeOne ==
  LET r == Head(todo) IN
  /\ turn = "decode" /\ todo # <<>> /\ life[r] = "active"
  /\ todo' = Tail(todo)
  /\ \/ /\ r \notin signalled /\ generated[r] + 1 < TokenLimit
        /\ generated' = [generated EXCEPT ![r] = @ + 1]
        /\ UNCHANGED <<life, activeRequests, activeOrder>>
     \/ /\ r \notin signalled
        /\ Over(r, "finished", activeRequests, activeOrder)
        /\ UNCHANGED generated
     \/ /\ Over(r, IF r \in signalled THEN "cancelled" ELSE "failed", activeRequests, activeOrder)
        /\ UNCHANGED generated
  /\ UNCHANGED <<pendingRequests, turn, budget, marked, signalled, idPart>>

CycleEnds ==
  /\ turn = "decode" /\ todo = <<>>
  /\ turn' = "waiting"
  /\ UNCHANGED <<pendingRequests, activeRequests, activeOrder, budget, todo, life, generated,
                 marked, signalled, idPart>>

LoopTurn == TurnBegins \/ AdmitOne \/ BatchSelected \/ SkipOne \/ DecodeOne \/ CycleEnds

NativeNext ==
  \/ \E r \in Completions : EnqueueRequest(r) \/ \E s \in BOOLEAN : CallerLeaves(r, s)
  \/ LoopTurn

NativeSpec == NativeInit /\ [][NativeNext]_nativeVars

-----------------------------------------------------------------------------
(* The batch stays within its size, whoever shares an id: the room is      *)
(* taken from the order, which has a place for each admission.             *)
BatchWithinSize == Len(activeOrder) <= SchedulerBatch

(* As long as no id was there twice the map, the order and the requests that    *)
(* are active are the same: nobody is active without being decoded.        *)
OrderIsTheBatch ==
  \/ idShared
  \/ /\ \A i \in RequestIds : \A r \in activeRequests[i] : life[r] = "active"
     /\ Len(activeOrder) = Cardinality({r \in Completions : life[r] = "active"})
     /\ \A r \in Completions : life[r] = "active" =>
          requestId[r] \in ToSet(activeOrder) /\ activeRequests[requestId[r]] = {r}

(* A loop is awake or on its way whenever there is work.                   *)
LoopAwake == pendingRequests # <<>> \/ activeOrder # <<>> => turn # "off"

(* The engine's batch is bounded, decoded as a whole and never abandoned.  *)
NativeSound == NativeTypeOK /\ BatchWithinSize /\ OrderIsTheBatch /\ LoopAwake

(* The loop runs whenever it may; callers need not do anything.            *)
NativeFairness == WF_nativeVars(LoopTurn)

(* What is owed: the ends of the requests taken in, cancelled or not,      *)
(* unless one met another of its id: then the map forgets one of them,     *)
(* which is never decoded again.                                           *)
UnderWay == {r \in Completions : life[r] \in {"pending", "active"} /\ ~idShared}
=============================================================================

------------------------------ MODULE HotSwap ------------------------------
(***************************************************************************)
(* The model manager of src/inference/hotSwap.ts: a map of loaded models,  *)
(* an LRU queue and an active model, changed by calls that check the map   *)
(* before an await and write it after.                                     *)
(*                                                                         *)
(* An action is what a call does between two awaits; performUnload is one  *)
(* too.  A model is known by its id; loading a model again makes a new     *)
(* object, whose flag is FALSE.  No listener is registered for "error",    *)
(* so activating a model that is not loaded throws.  destroy is the end of *)
(* the object and left out.                                                *)
(***************************************************************************)
EXTENDS Naturals, FiniteSets, SequencesExt

CONSTANTS
  Models,
  SwapCalls,        \* calls in progress at one time
  MaxLoadedModels,
  NoModel

ASSUME SwapAssumption ==
  /\ IsFiniteSet(Models) /\ NoModel \notin Models
  /\ MaxLoadedModels \in Nat \ {0}

VARIABLES
  loaded,       \* keys of loadedModels
  isActive,     \* the flag of each loaded model
  activeModel,  \* activeModelId
  modelQueue,
  call,         \* where each call stands, and what it holds on to
  crossed       \* history: a call ran while another was in progress

swapVars == <<loaded, isActive, activeModel, modelQueue, call, crossed>>

Idle == [pc |-> "idle", kind |-> "load", model |-> NoModel, victim |-> NoModel,
         from |-> NoModel, expired |-> {}]

SwapTypeOK ==
  /\ loaded \subseteq Models
  /\ isActive \in [Models -> BOOLEAN]
  /\ activeModel \in Models \cup {NoModel}
  /\ modelQueue \in Seq(Models)
  /\ call \in [SwapCalls ->
       [pc : {"idle", "evicting", "loading", "loaded", "unloading", "sweeping"},
        kind : {"load", "activate", "swap", "unload"},
        model : Models \cup {NoModel}, victim : Models \cup {NoModel},
        from : Models \cup {NoModel}, expired : SUBSET Models]]
  /\ crossed \in BOOLEAN

SwapInit ==
  /\ loaded = {}
  /\ isActive = [m \in Models |-> FALSE]
  /\ activeModel = NoModel
  /\ modelQueue = <<>>
  /\ call = [c \in SwapCalls |-> Idle]
  /\ crossed = FALSE

Goes(c, to) ==
  /\ call' = [call EXCEPT ![c] = to]
  /\ crossed' = (crossed \/ \E k \in SwapCalls \ {c} : call[k].pc # "idle")

(* updateLRU                                                               *)
Refreshed(m) == Append(RemoveFirst(modelQueue, m), m)

-----------------------------------------------------------------------------
(* What if the model that was active kept its flag?                        *)
OldKeepsFlag(m) == [isActive EXCEPT ![m] = TRUE]

(* activateModel: the flags once m, which is loaded, is active.  The model *)
(* that was active loses its flag.                                         *)
FlagsFor(m) == [k \in Models |-> k = m \/ (isActive[k] /\ k # activeModel)]

Activate(m) == isActive' = FlagsFor(m) /\ activeModel' = m

(* loadModel of a model that is not there: the least recently used goes    *)
(* first when there are too many, unless it is active.                     *)
MakesRoom(c, me, flags) ==
  LET lru == Head(modelQueue)
  IN  Goes(c, IF Cardinality(loaded) >= MaxLoadedModels /\ lru \in loaded /\ ~flags[lru]
              THEN [me EXCEPT !.pc = "evicting", !.victim = lru]
              ELSE [me EXCEPT !.pc = "loading"])

(* The start of loadModel; as is what the caller asked for.                *)
BeginLoad(c, m, as) ==
  LET me == [Idle EXCEPT !.kind = as, !.model = m,
                         !.from = IF activeModel \in loaded THEN activeModel ELSE NoModel]
  IN
  \/ /\ m \in loaded
     /\ modelQueue' = Refreshed(m)
     /\ IF as = "activate" THEN Activate(m) ELSE UNCHANGED <<isActive, activeModel>>
     /\ Goes(c, IF as = "swap" THEN [me EXCEPT !.pc = "loaded"] ELSE Idle)
     /\ UNCHANGED loaded
  \/ /\ m \notin loaded
     /\ MakesRoom(c, me, isActive)
     /\ UNCHANGED <<loaded, isActive, activeModel, modelQueue>>

CallLoad(c, m, as) == call[c].pc = "idle" /\ BeginLoad(c, m, as)

(* What if unloading left the model's place in the queue?                  *)
PlaceKept(m) == modelQueue

PlaceGone(m) == RemoveFirst(modelQueue, m)

(* The end of unloadModel, whichever object is in the map by now.          *)
Unloaded(m) ==
  /\ loaded' = loaded \ {m}
  /\ isActive' = [isActive EXCEPT ![m] = FALSE]
  /\ modelQueue' = PlaceGone(m)
  /\ UNCHANGED activeModel

EvictionDone(c) ==
  /\ call[c].pc = "evicting"
  /\ Unloaded(call[c].victim)
  /\ Goes(c, [call[c] EXCEPT !.pc = "loading", !.victim = NoModel])

(* performLoad is over: a new object, over one that may have come meanwhile. *)
LoadDone(c) ==
  LET m == call[c].model IN
  /\ call[c].pc = "loading"
  /\ loaded' = loaded \cup {m}
  /\ modelQueue' = Refreshed(m)
  /\ IF call[c].kind = "activate" THEN Activate(m)
     ELSE isActive' = [isActive EXCEPT ![m] = FALSE] /\ UNCHANGED activeModel
  /\ Goes(c, IF call[c].kind = "swap" THEN [call[c] EXCEPT !.pc = "loaded"] ELSE Idle)

(* hotSwap after loadModel: it activates the target, if that is still      *)
(* loaded.  Else it goes back to the model it came from and calls          *)
(* loadModel again, or throws if that is gone as well.                     *)
SwapActivates(c) ==
  LET m == call[c].model
      from == call[c].from
      rolls == from # NoModel /\ activeModel # from
  IN
  /\ call[c].pc = "loaded"
  /\ \/ /\ m \in loaded
        /\ Activate(m)
        /\ Goes(c, Idle)
        /\ UNCHANGED <<loaded, modelQueue>>
     \/ /\ m \notin loaded
        /\ ~rolls \/ from \in loaded
        /\ IF rolls THEN Activate(from) ELSE UNCHANGED <<isActive, activeModel>>
        /\ MakesRoom(c, [call[c] EXCEPT !.kind = "load", !.from = NoModel], isActive')
        /\ UNCHANGED <<loaded, modelQueue>>
     \/ /\ m \notin loaded /\ rolls /\ from \notin loaded
        /\ Goes(c, Idle)
        /\ UNCHANGED <<loaded, isActive, activeModel, modelQueue>>

(* What if the model to unload stayed the active one?                      *)
StaysActive(m) == activeModel

ActiveWithout(m) == IF isActive[m] /\ activeModel = m THEN NoModel ELSE activeModel

(* The start of unloadModel for m, before it unloads those in rest.        *)
BeginUnload(c, m, rest) ==
  /\ m \in loaded
  /\ isActive' = [isActive EXCEPT ![m] = FALSE]
  /\ activeModel' = ActiveWithout(m)
  /\ Goes(c, [Idle EXCEPT !.pc = "unloading", !.kind = "unload", !.victim = m, !.expired = rest])
  /\ UNCHANGED <<loaded, modelQueue>>

CallUnload(c, m) == call[c].pc = "idle" /\ BeginUnload(c, m, {})

(* performAutoUnload: R are the models it finds idle for too long.         *)
AutoUnload(c, R) ==
  /\ call[c].pc = "idle"
  /\ \A m \in R : ~isActive[m]
  /\ \E m \in R : BeginUnload(c, m, R \ {m})

UnloadDone(c) ==
  /\ call[c].pc = "unloading"
  /\ Unloaded(call[c].victim)
  /\ Goes(c, IF call[c].expired = {} THEN Idle
             ELSE [call[c] EXCEPT !.pc = "sweeping", !.victim = NoModel])

(* The sweep goes on to its next model, which may have become active since *)
(* it was listed, or gone.                                                 *)
SweepGoesOn(c) ==
  /\ call[c].pc = "sweeping"
  /\ \/ \E m \in call[c].expired : BeginUnload(c, m, call[c].expired \ {m})
     \/ /\ call[c].expired \cap loaded = {}
        /\ Goes(c, Idle)
        /\ UNCHANGED <<loaded, isActive, activeModel, modelQueue>>

CallStep(c) ==
  EvictionDone(c) \/ LoadDone(c) \/ SwapActivates(c) \/ UnloadDone(c) \/ SweepGoesOn(c)

SwapNext ==
  \E c \in SwapCalls :
    \/ \E m \in Models :
         \/ \E as \in {"load", "activate", "swap"} : CallLoad(c, m, as)
         \/ CallUnload(c, m)
    \/ \E R \in SUBSET loaded : AutoUnload(c, R)
    \/ CallStep(c)

SwapSpec == SwapInit /\ [][SwapNext]_swapVars

-----------------------------------------------------------------------------
(* The queue names the loaded models, each once, however loads and unloads *)
(* of one model overtake each other.                                       *)
QueueIsLoaded ==
  /\ ToSet(modelQueue) = loaded
  /\ Len(modelQueue) = Cardinality(loaded)

(* No model but the active one is flagged: what an unload or an eviction   *)
(* leaves is never two active models.                                      *)
OneFlag == \A m \in loaded : isActive[m] => activeModel = m

(* As long as calls came one after the other, the active model is loaded   *)
(* and flagged, so eviction and the idle sweep leave it alone.             *)
ActiveIsLoaded ==
  \/ crossed
  \/ activeModel = NoModel
  \/ activeModel \in loaded /\ isActive[activeModel]
(* The models in memory are known for what they are: the queue that picks  *)
(* the next to go, the flags that protect and the name that answers agree. *)
SwapSound == SwapTypeOK /\ QueueIsLoaded /\ OneFlag /\ ActiveIsLoaded
=============================================================================

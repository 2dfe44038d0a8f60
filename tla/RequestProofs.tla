---------------------------- MODULE RequestProofs ----------------------------
(***************************************************************************)
(* Proofs about the two ways a request is served: managed execution        *)
(* (RuntimeExecution), for any set of callers and any limits, and the auto *)
(* router (StreamFailover), for any models, providers and number of        *)
(* candidates, whatever the upstreams, the audit file and the client do.   *)
(*                                                                         *)
(* Execution: the step of a call changes who holds and who waits in one of *)
(* five ways (nothing, a slot taken, a place in the queue taken, a slot    *)
(* released, the queue rejected); each preserves the admission invariant,  *)
(* and every action of Next is one of the five.                            *)
(***************************************************************************)
EXTENDS RuntimeExecution, StreamFailover, FiniteSetTheorems, SequenceTheorems, WellFoundedInduction, TLAPS

USE RequestsAssumption, LimitsAssumption

(* A slot released while the queue is empty, or with exactly one waiter    *)
(* woken: what drainQueue does in a state where no wakeup is owed.         *)
LEMMA DrainCountType ==
  ASSUME TypeOK, NEW s \in States
  PROVE  /\ Freed(s) \in Nat
         /\ DrainCount(s) \in Nat
         /\ DrainCount(s) <= Len(queue[s])
<1>1. inflight[s] \in Nat /\ Len(queue[s]) \in Nat /\ MaxConcurrent \in Nat
  BY LenProperties DEF TypeOK
<1>2. Freed(s) \in Nat
  BY <1>1 DEF Freed
<1>3. PICK f, q, m : f = Freed(s) /\ q = Len(queue[s]) /\ m = MaxConcurrent
  OBVIOUS
<1>4. DrainCount(s) = IF f >= m THEN 0 ELSE IF q < m - f THEN q ELSE m - f
  BY <1>3 DEF DrainCount
<1>5. f \in Nat /\ q \in Nat /\ m \in Nat
  BY <1>1, <1>2, <1>3
<1> QED
  BY <1>2, <1>3, <1>4, <1>5

LEMMA TypeRelease ==
  ASSUME TypeOK, NEW r \in Requests, Release(r)
  PROVE  /\ inflight' \in [States -> Nat]
         /\ queue' \in [States -> Seq(Requests)]
         /\ phase' \in [Requests -> Phases]
         /\ home' \in [Requests -> States]
         /\ attempt' \in [Requests -> 0..MaxRetries]
<1> DEFINE s == home[r]
<1>1. s \in States
  BY DEF TypeOK
<1>2. Freed(s) \in Nat /\ DrainCount(s) \in Nat /\ DrainCount(s) <= Len(queue[s])
  BY <1>1, DrainCountType
<1>3. SubSeq(queue[s], DrainCount(s) + 1, Len(queue[s])) \in Seq(Requests)
  <2>1. queue[s] \in Seq(Requests)
    BY <1>1 DEF TypeOK
  <2>2. \A i \in DrainCount(s) + 1 .. Len(queue[s]) : queue[s][i] \in Requests
    BY <2>1, <1>2
  <2>3. QED
    BY <2>1, <2>2, <1>2, SubSeqProperties
<1>4. inflight' \in [States -> Nat]
  BY <1>1, <1>2 DEF TypeOK, Release
<1>5. queue' \in [States -> Seq(Requests)]
  BY <1>1, <1>3 DEF TypeOK, Release
<1>6. phase' \in [Requests -> Phases]
  BY DEF TypeOK, Release, Phases
<1>7. home' \in [Requests -> States] /\ attempt' \in [Requests -> 0..MaxRetries]
  BY DEF TypeOK, Release, States
<1>8. QED
  BY <1>4, <1>5, <1>6, <1>7

LEMMA TypeEnter ==
  ASSUME TypeOK, NEW r \in Requests, Enter(r)
  PROVE  TypeOK'
<1> DEFINE s == EnsuredState
<1>1. s \in States
  BY DEF TypeOK, EnsuredState, States
<1>2. /\ executionState' \in States \cup {"none"}
      /\ consecutiveFailures' = consecutiveFailures
      /\ circuitState' \in [States -> {"closed", "open", "half_open"}]
      /\ openUntil' \in [States -> {"unset", "future", "past"}]
      /\ UNCHANGED <<status, attempt, probing>>
  BY <1>1 DEF TypeOK, Enter, ConsultCircuit
<1>3. CASE TakeSlot(r, s)
  BY <1>1, <1>2, <1>3 DEF TypeOK, TakeSlot, Phases
<1>4. CASE JoinQueue(r, s)
  BY <1>1, <1>2, <1>4, AppendProperties DEF TypeOK, JoinQueue, Phases
<1>5. CASE Refuse(r, s)
  BY <1>1, <1>2, <1>5 DEF TypeOK, Refuse, Phases
<1>6. QED
  BY <1>3, <1>4, <1>5 DEF Enter

(* The breaker's variables keep their types whichever way they are written. *)
LEMMA TypeCircuit ==
  ASSUME TypeOK, NEW s \in States, NEW n \in 0..FailureThreshold,
         CountFailure(s, n) \/ CountSuccess(s) \/ NoteAnswer(s)
  PROVE  /\ consecutiveFailures' \in [States -> 0..FailureThreshold]
         /\ circuitState' \in [States -> {"closed", "open", "half_open"}]
         /\ openUntil' \in [States -> {"unset", "future", "past"}]
<1>1. ASSUME NEW k \in 0..FailureThreshold, CountFailure(s, k)
      PROVE  /\ consecutiveFailures' \in [States -> 0..FailureThreshold]
             /\ circuitState' \in [States -> {"closed", "open", "half_open"}]
             /\ openUntil' \in [States -> {"unset", "future", "past"}]
  <2>0. /\ consecutiveFailures \in [States -> 0..FailureThreshold]
        /\ circuitState \in [States -> {"closed", "open", "half_open"}]
        /\ openUntil \in [States -> {"unset", "future", "past"}]
    BY DEF TypeOK
  <2>1. CASE k + 1 >= FailureThreshold
    <3>1. FailureThreshold \in 0..FailureThreshold
      OBVIOUS
    <3>2. /\ consecutiveFailures' = [consecutiveFailures EXCEPT ![s] = FailureThreshold]
          /\ openUntil' = [openUntil EXCEPT ![s] = "future"]
          /\ circuitState' = [circuitState EXCEPT ![s] = "open"]
      BY <1>1, <2>1 DEF CountFailure
    <3>3. QED
      BY <2>0, <3>1, <3>2
  <2>2. CASE ~(k + 1 >= FailureThreshold)
    <3>1. k + 1 \in 0..FailureThreshold
      BY <2>2
    <3>2. /\ consecutiveFailures' = [consecutiveFailures EXCEPT ![s] = k + 1]
          /\ UNCHANGED <<openUntil, circuitState>>
      BY <1>1, <2>2 DEF CountFailure
    <3>3. QED
      BY <2>0, <3>1, <3>2
  <2>3. QED
    BY <2>1, <2>2
<1>2. CASE CountSuccess(s)
  <2>1. 0 \in 0..FailureThreshold /\ 1 \in 0..FailureThreshold
    OBVIOUS
  <2>2. CASE status = "deleted" /\ FailureThreshold = 1
    BY <1>1, <1>2, <2>1, <2>2 DEF CountSuccess
  <2>3. CASE ~(status = "deleted" /\ FailureThreshold = 1)
    BY <1>2, <2>1, <2>3 DEF TypeOK, CountSuccess
  <2>4. QED
    BY <2>2, <2>3
<1>3. CASE NoteAnswer(s)
  BY <1>3 DEF TypeOK, NoteAnswer
<1>4. QED
  BY <1>1, <1>2, <1>3

LEMMA TypeReject ==
  ASSUME TypeOK, NEW s \in States \cup {"none"}, RejectQueued(s)
  PROVE  /\ queue' \in [States -> Seq(Requests)]
         /\ phase' \in [Requests -> Phases]
         /\ home' \in [Requests -> States]
BY EmptySeq DEF TypeOK, RejectQueued, Phases, States

(* Every step of the gateway keeps the variables in their types.           *)
LEMMA TypeStep == TypeOK /\ [Next]_vars => TypeOK'
<1> SUFFICES ASSUME TypeOK, [Next]_vars PROVE TypeOK'
  OBVIOUS
<1>0. \A r \in Requests : home[r] \in States /\ consecutiveFailures[home[r]] \in 0..FailureThreshold
  BY DEF TypeOK
<1>1. ASSUME NEW r \in Requests, Complete(r) \/ StartStream(r)
      PROVE  TypeOK'
  BY <1>1, TypeEnter DEF Complete, StartStream
<1>2. ASSUME NEW r \in Requests, FindStream(r) \/ AttemptFails(r) \/ Retry(r)
      PROVE  TypeOK'
  <2>1. CASE FindStream(r) \/ Retry(r)
    BY <2>1 DEF TypeOK, FindStream, Retry, circuitVars, Phases
  <2>2. CASE AttemptFails(r)
    <3>1. attempt[r] + 1 \in 0..MaxRetries
      BY <2>2 DEF TypeOK, AttemptFails
    <3>2. QED
      BY <2>2, <3>1 DEF TypeOK, AttemptFails, circuitVars, Phases
  <2>3. QED
    BY <1>2, <2>1, <2>2
<1>3. ASSUME NEW r \in Requests, CallSucceeds(r)
      PROVE  TypeOK'
  BY <1>0, <1>3, TypeCircuit, TypeRelease DEF TypeOK, CallSucceeds
<1>4. ASSUME NEW r \in Requests, CallFails(r) \/ StreamEnds(r)
      PROVE  TypeOK'
  BY <1>0, <1>4, TypeCircuit, TypeRelease DEF TypeOK, CallFails, StreamEnds
<1>5. ASSUME NEW r \in Requests, StreamFinishes(r)
      PROVE  TypeOK'
  <2>1. CASE status = "deleted"
    BY <1>0, <1>5, <2>1, TypeCircuit, TypeRelease DEF TypeOK, StreamFinishes
  <2>2. CASE status # "deleted"
    BY <1>0, <1>5, <2>2, TypeCircuit DEF TypeOK, StreamFinishes, Phases
  <2>3. QED
    BY <2>1, <2>2
<1>6. ASSUME NEW r \in Requests, StreamAbandoned(r)
      PROVE  TypeOK'
  BY <1>6, TypeRelease DEF TypeOK, StreamAbandoned, circuitVars
<1>7. ASSUME NEW s \in States, CooldownElapses(s)
      PROVE  TypeOK'
  BY <1>7 DEF TypeOK, CooldownElapses, callVars
<1>8. CASE StopRuntime \/ DeleteRuntime
  <2>1. RejectQueued(executionState) /\ executionState \in States \cup {"none"}
    BY <1>8 DEF StopRuntime, DeleteRuntime, TypeOK
  <2>2. /\ queue' \in [States -> Seq(Requests)]
        /\ phase' \in [Requests -> Phases]
        /\ home' \in [Requests -> States]
    BY <2>1, TypeReject
  <2>3. CASE StopRuntime
    BY <2>2, <2>3 DEF StopRuntime, TypeOK, circuitVars
  <2>4. CASE DeleteRuntime
    BY <2>2, <2>4 DEF DeleteRuntime, TypeOK, circuitVars
  <2>5. QED
    BY <1>8, <2>3, <2>4
<1>9. CASE RuntimeDown \/ RuntimeUp \/ ProbeBegins
  BY <1>9 DEF TypeOK, RuntimeDown, RuntimeUp, ProbeBegins, circuitVars, callVars
<1>10. CASE ProbeAnswers
  <2>1. "first" \in States /\ 0 \in 0..FailureThreshold
    BY DEF States
  <2>2. /\ consecutiveFailures' \in [States -> 0..FailureThreshold]
        /\ circuitState' \in [States -> {"closed", "open", "half_open"}]
        /\ openUntil' \in [States -> {"unset", "future", "past"}]
    <3>1. CASE UNCHANGED circuitVars
      BY <3>1 DEF TypeOK, circuitVars
    <3>2. CASE /\ consecutiveFailures' = [consecutiveFailures EXCEPT !["first"] = 0]
               /\ circuitState' = [circuitState EXCEPT !["first"] = "closed"]
               /\ openUntil' = [openUntil EXCEPT !["first"] = "unset"]
      BY <2>1, <3>2 DEF TypeOK
    <3>3. QED
      BY <1>10, <3>1, <3>2 DEF ProbeAnswers
  <2>3. QED
    BY <1>10, <2>2 DEF TypeOK, ProbeAnswers, callVars
<1>11. CASE UNCHANGED vars
  BY <1>11 DEF TypeOK, vars, circuitVars, callVars
<1>12. QED
  BY <1>1, <1>2, <1>3, <1>4, <1>5, <1>6, <1>7, <1>8, <1>9, <1>10, <1>11 DEF Next, Call

(* Type correctness of the execution state and of the calls under way.     *)
THEOREM TypeCorrect == Spec => []TypeOK
<1>1. Init => TypeOK
  <2>1. <<>> \in Seq(Requests) /\ 0 \in 0..FailureThreshold /\ 0 \in 0..MaxRetries
    BY EmptySeq
  <2>2. ASSUME Init
        PROVE  /\ inflight \in [States -> Nat]
               /\ queue \in [States -> Seq(Requests)]
               /\ consecutiveFailures \in [States -> 0..FailureThreshold]
               /\ circuitState \in [States -> {"closed", "open", "half_open"}]
               /\ openUntil \in [States -> {"unset", "future", "past"}]
    BY <2>1, <2>2 DEF Init
  <2>3. ASSUME Init
        PROVE  /\ phase \in [Requests -> Phases]
               /\ home \in [Requests -> States]
               /\ attempt \in [Requests -> 0..MaxRetries]
    BY <2>1, <2>3 DEF Init, Phases, States
  <2>4. QED
    BY <2>2, <2>3 DEF Init, TypeOK, States
<1>2. QED
  BY <1>1, TypeStep, PTL DEF Spec

-----------------------------------------------------------------------------
(* Who holds a slot and who waits for one, step by step.                   *)

LEMMA HoldersFinite ==
  ASSUME NEW s \in States
  PROVE  IsFiniteSet(Holders(s)) /\ Cardinality(Holders(s)) \in Nat
BY FS_Subset, FS_CardinalityType DEF Holders

(* Steps that leave the holders and the waiters of every object alone.     *)
LEMMA QuietStep ==
  ASSUME AdmissionSound, UNCHANGED <<inflight, queue>>,
         \A s \in States : Holders(s)' = Holders(s) /\ Waiters(s)' = Waiters(s)
  PROVE  AdmissionSound'
BY DEF AdmissionSound, SlotConservation, NoLostWakeup, QueueExact

LEMMA QuietPhase ==
  ASSUME TypeOK, AdmissionSound, NEW r \in Requests, NEW p \in Phases,
         UNCHANGED <<inflight, queue, home>>,
         phase' = [phase EXCEPT ![r] = p],
         phase[r] \in Holding <=> p \in Holding,
         phase[r] = "queued" <=> p = "queued"
  PROVE  AdmissionSound'
<1>1. ASSUME NEW s \in States
      PROVE  Holders(s)' = Holders(s) /\ Waiters(s)' = Waiters(s)
  <2>1. \A c \in Requests : /\ phase'[c] \in Holding <=> phase[c] \in Holding
                            /\ phase'[c] = "queued" <=> phase[c] = "queued"
    BY DEF TypeOK
  <2>2. QED
    BY <2>1 DEF Holders, Waiters
<1>2. QED
  BY <1>1, QuietStep

-----------------------------------------------------------------------------
(* What each kind of step does to the holders and the waiters.              *)
LEMMA TakeEffect ==
  ASSUME TypeOK, NEW r \in Requests, NEW s \in States,
         phase[r] \in {"idle", "found"}, TakeSlot(r, s)
  PROVE  /\ Holders(s)' = Holders(s) \cup {r} /\ r \notin Holders(s)
         /\ \A t \in States \ {s} : Holders(t)' = Holders(t)
         /\ \A t \in States : Waiters(t)' = Waiters(t)
         /\ UNCHANGED queue
BY DEF TypeOK, TakeSlot, Holders, Waiters, Holding

LEMMA JoinEffect ==
  ASSUME TypeOK, NEW r \in Requests, NEW s \in States,
         phase[r] \in {"idle", "found"}, JoinQueue(r, s)
  PROVE  /\ Waiters(s)' = Waiters(s) \cup {r} /\ r \notin Waiters(s) /\ r \notin Holders(s)
         /\ \A t \in States \ {s} : Waiters(t)' = Waiters(t)
         /\ \A t \in States : Holders(t)' = Holders(t)
         /\ queue'[s] = Append(queue[s], r)
         /\ \A t \in States \ {s} : queue'[t] = queue[t]
BY DEF TypeOK, JoinQueue, Holders, Waiters, Holding

LEMMA RejectEffect ==
  ASSUME TypeOK, NEW s \in States, RejectQueued(s)
  PROVE  /\ Waiters(s)' = {}
         /\ \A t \in States \ {s} : Waiters(t)' = Waiters(t)
         /\ \A t \in States : Holders(t)' = Holders(t)
         /\ queue'[s] = <<>>
         /\ \A t \in States \ {s} : queue'[t] = queue[t]
BY DEF TypeOK, RejectQueued, Holders, Waiters, Holding

(* releaseRuntimeSlot with nobody waiting: the slot just becomes free.      *)
LEMMA FreeEffect ==
  ASSUME TypeOK, AdmissionSound, NEW r \in Requests, phase[r] \in Holding,
         NEW s \in States, s = home[r], Release(r), queue[s] = <<>>
  PROVE  /\ r \in Holders(s)
         /\ inflight[s] \in Nat \ {0}
         /\ inflight'[s] = inflight[s] - 1
         /\ \A t \in States \ {s} : inflight'[t] = inflight[t] /\ queue'[t] = queue[t]
         /\ queue'[s] = <<>>
         /\ Holders(s)' = Holders(s) \ {r}
         /\ \A t \in States \ {s} : Holders(t)' = Holders(t)
         /\ \A t \in States : Waiters(t)' = Waiters(t)
<1>1. r \in Holders(s) /\ Len(queue[s]) = 0
  BY EmptySeq DEF Holders
<1>2. Cardinality(Holders(s)) # 0
  BY <1>1, HoldersFinite, FS_EmptySet
<1>3. inflight[s] \in Nat \ {0} /\ inflight[s] <= MaxConcurrent
  BY <1>2 DEF TypeOK, AdmissionSound, SlotConservation
<1>4. Freed(s) = inflight[s] - 1 /\ DrainCount(s) = 0
  BY <1>1, <1>3 DEF Freed, DrainCount
<1>5. Woken(s) = {}
  BY <1>4 DEF Woken
<1>6. SubSeq(queue[s], 1, Len(queue[s])) = <<>>
  BY <1>1, SubSeqEmpty
<1>7. /\ inflight'[s] = inflight[s] - 1
      /\ \A t \in States \ {s} : inflight'[t] = inflight[t] /\ queue'[t] = queue[t]
      /\ queue'[s] = <<>>
  BY <1>3, <1>4, <1>6 DEF TypeOK, Release
<1>8. /\ phase'[r] = "idle"
      /\ \A c \in Requests \ {r} : phase'[c] = phase[c] /\ home'[c] = home[c]
  BY <1>5 DEF TypeOK, Release
<1>9. /\ Holders(s)' = Holders(s) \ {r}
      /\ \A t \in States \ {s} : Holders(t)' = Holders(t)
      /\ \A t \in States : Waiters(t)' = Waiters(t)
  BY <1>8 DEF Holders, Waiters, Holding
<1>10. QED
  BY <1>1, <1>3, <1>7, <1>9

(* releaseRuntimeSlot with somebody waiting: every slot was taken, so       *)
(* exactly the head of the queue inherits the one released.                *)
LEMMA WakeEffect ==
  ASSUME TypeOK, AdmissionSound, NEW r \in Requests, phase[r] \in Holding,
         NEW s \in States, s = home[r], Release(r),
         NEW q \in Seq(Requests), q = queue[s], q # <<>>,
         NEW h \in Requests, h = Head(q)
  PROVE  /\ r \in Holders(s) /\ h \in Waiters(s) /\ h \notin Holders(s)
         /\ inflight' = inflight /\ inflight[s] = MaxConcurrent
         /\ queue'[s] = Tail(q)
         /\ \A t \in States \ {s} : queue'[t] = queue[t]
         /\ Holders(s)' = (Holders(s) \ {r}) \cup {h}
         /\ Waiters(s)' = Waiters(s) \ {h}
         /\ \A t \in States \ {s} : Holders(t)' = Holders(t) /\ Waiters(t)' = Waiters(t)
<1>1. Len(q) \in Nat \ {0}
  BY EmptySeq
<1>2. inflight[s] = MaxConcurrent
  BY DEF AdmissionSound, NoLostWakeup
<1>3. Freed(s) = MaxConcurrent - 1 /\ DrainCount(s) = 1
  BY <1>1, <1>2 DEF Freed, DrainCount
<1>4. Woken(s) = {h} /\ h = q[1]
  BY <1>1, <1>3 DEF Woken
<1>5. h \in Waiters(s)
  BY <1>1, <1>4 DEF AdmissionSound, QueueExact
<1>6. phase[h] = "queued" /\ home[h] = s /\ h # r
  BY <1>5 DEF Waiters, Holding
<1>7. inflight' = inflight
  BY <1>2, <1>3 DEF TypeOK, Release
<1>8. queue'[s] = Tail(q) /\ \A t \in States \ {s} : queue'[t] = queue[t]
  <2>1. queue' = [queue EXCEPT ![s] = SubSeq(q, DrainCount(s) + 1, Len(q))]
    BY DEF Release
  <2>2. DrainCount(s) + 1 = 2
    BY <1>3
  <2>3. SubSeq(q, DrainCount(s) + 1, Len(q)) = Tail(q)
    BY <2>2, TailIsSubSeq
  <2>4. QED
    BY <2>1, <2>3 DEF TypeOK
<1>9. /\ phase'[r] = "idle" /\ phase'[h] = "running" /\ home'[h] = s
      /\ \A c \in Requests \ {r, h} : phase'[c] = phase[c] /\ home'[c] = home[c]
  BY <1>4, <1>6 DEF TypeOK, Release
<1>10. /\ Holders(s)' = (Holders(s) \ {r}) \cup {h}
       /\ Waiters(s)' = Waiters(s) \ {h}
       /\ \A t \in States \ {s} : Holders(t)' = Holders(t) /\ Waiters(t)' = Waiters(t)
  BY <1>6, <1>9 DEF Holders, Waiters, Holding
<1>11. r \in Holders(s) /\ h \notin Holders(s)
  BY <1>6 DEF Holders, Holding
<1>12. QED
  BY <1>2, <1>5, <1>7, <1>8, <1>10, <1>11

-----------------------------------------------------------------------------
(* Each kind of step preserves the admission invariant.                    *)

(* acquireRuntimeSlot below the limit: one more holder, and the queue was   *)
(* empty because no wakeup was owed.                                       *)
LEMMA TakeStep ==
  ASSUME TypeOK, AdmissionSound, NEW r \in Requests, NEW s \in States,
         phase[r] \in {"idle", "found"}, TakeSlot(r, s)
  PROVE  AdmissionSound'
<1>1. /\ Holders(s)' = Holders(s) \cup {r} /\ r \notin Holders(s)
      /\ \A t \in States \ {s} : Holders(t)' = Holders(t)
      /\ \A t \in States : Waiters(t)' = Waiters(t)
  BY TakeEffect
<1>2. Cardinality(Holders(s)') = Cardinality(Holders(s)) + 1
  BY <1>1, HoldersFinite, FS_AddElement
<1>3. inflight[s] = Cardinality(Holders(s)) /\ inflight[s] \in Nat /\ inflight[s] < MaxConcurrent
  BY DEF TypeOK, AdmissionSound, SlotConservation, TakeSlot
<1>4. /\ inflight'[s] = inflight[s] + 1
      /\ \A t \in States \ {s} : inflight'[t] = inflight[t]
      /\ queue' = queue
  BY DEF TypeOK, TakeSlot
<1>5. SlotConservation'
  BY <1>1, <1>2, <1>3, <1>4 DEF AdmissionSound, SlotConservation
<1>6. NoLostWakeup'
  BY <1>3, <1>4 DEF AdmissionSound, NoLostWakeup
<1>7. QueueExact'
  BY <1>1, <1>4 DEF AdmissionSound, QueueExact
<1>8. QED
  BY <1>5, <1>6, <1>7 DEF AdmissionSound

(* acquireRuntimeSlot at the limit: the caller becomes the last waiter.     *)
LEMMA JoinStep ==
  ASSUME TypeOK, AdmissionSound, NEW r \in Requests, NEW s \in States,
         phase[r] \in {"idle", "found"}, JoinQueue(r, s)
  PROVE  AdmissionSound'
<1>1. /\ Waiters(s)' = Waiters(s) \cup {r} /\ r \notin Waiters(s)
      /\ \A t \in States \ {s} : Waiters(t)' = Waiters(t)
      /\ \A t \in States : Holders(t)' = Holders(t)
  BY JoinEffect
<1>2. queue[s] \in Seq(Requests) /\ Len(queue[s]) \in Nat /\ inflight[s] \in Nat
  BY LenProperties DEF TypeOK
<1>3. /\ inflight' = inflight
      /\ queue'[s] = Append(queue[s], r)
      /\ \A t \in States \ {s} : queue'[t] = queue[t]
  BY JoinEffect DEF JoinQueue
<1>4. /\ Len(queue'[s]) = Len(queue[s]) + 1
      /\ \A i \in 1..Len(queue[s]) : queue'[s][i] = queue[s][i]
      /\ queue'[s][Len(queue[s]) + 1] = r
  BY <1>2, <1>3, AppendProperties
<1>5. inflight[s] = MaxConcurrent /\ Len(queue[s]) < MaxQueueSize
  BY <1>2 DEF AdmissionSound, SlotConservation, JoinQueue
<1>6. SlotConservation'
  BY <1>1, <1>3 DEF AdmissionSound, SlotConservation
<1>7. NoLostWakeup'
  BY <1>3, <1>5 DEF AdmissionSound, NoLostWakeup
<1>8. QueueExact'
  <2>1. ASSUME NEW t \in States \ {s}
        PROVE  /\ {queue'[t][i] : i \in 1..Len(queue'[t])} = Waiters(t)'
               /\ \A i, j \in 1..Len(queue'[t]) : queue'[t][i] = queue'[t][j] => i = j
               /\ Len(queue'[t]) <= MaxQueueSize
    BY <1>1, <1>3 DEF AdmissionSound, QueueExact
  <2>2. /\ {queue[s][i] : i \in 1..Len(queue[s])} = Waiters(s)
        /\ \A i, j \in 1..Len(queue[s]) : queue[s][i] = queue[s][j] => i = j
    BY DEF AdmissionSound, QueueExact
  <2>3. 1..Len(queue'[s]) = 1..Len(queue[s]) \cup {Len(queue[s]) + 1}
    BY <1>2, <1>4
  <2>4. {queue'[s][i] : i \in 1..Len(queue'[s])} = Waiters(s)'
    BY <1>1, <1>4, <2>2, <2>3
  <2>5. \A i \in 1..Len(queue[s]) : queue'[s][i] # r
    BY <1>1, <1>4, <2>2
  <2>6. \A i, j \in 1..Len(queue'[s]) : queue'[s][i] = queue'[s][j] => i = j
    BY <1>4, <2>2, <2>3, <2>5
  <2>7. Len(queue'[s]) <= MaxQueueSize
    BY <1>2, <1>4, <1>5
  <2>8. QED
    BY <2>1, <2>4, <2>6, <2>7 DEF QueueExact
<1>9. QED
  BY <1>6, <1>7, <1>8 DEF AdmissionSound

(* stopRuntime and deleteManagedEntity: no waiter is left in the object.    *)
LEMMA RejectStep ==
  ASSUME TypeOK, AdmissionSound, NEW s \in States, RejectQueued(s), UNCHANGED inflight
  PROVE  AdmissionSound'
<1>1. /\ Waiters(s)' = {}
      /\ \A t \in States \ {s} : Waiters(t)' = Waiters(t)
      /\ \A t \in States : Holders(t)' = Holders(t)
  BY RejectEffect
<1>2. /\ queue'[s] = <<>>
      /\ \A t \in States \ {s} : queue'[t] = queue[t]
      /\ Len(queue'[s]) = 0
  BY RejectEffect, EmptySeq
<1>3. SlotConservation' /\ NoLostWakeup'
  BY <1>1, <1>2 DEF AdmissionSound, SlotConservation, NoLostWakeup
<1>4. QueueExact'
  BY <1>1, <1>2 DEF AdmissionSound, QueueExact
<1>5. QED
  BY <1>3, <1>4 DEF AdmissionSound

LEMMA FreeStep ==
  ASSUME TypeOK, AdmissionSound, NEW r \in Requests, phase[r] \in Holding,
         NEW s \in States, s = home[r], Release(r), queue[s] = <<>>
  PROVE  AdmissionSound'
<1>1. /\ r \in Holders(s)
      /\ inflight[s] \in Nat \ {0}
      /\ inflight'[s] = inflight[s] - 1
      /\ \A t \in States \ {s} : inflight'[t] = inflight[t] /\ queue'[t] = queue[t]
      /\ queue'[s] = <<>>
      /\ Holders(s)' = Holders(s) \ {r}
      /\ \A t \in States \ {s} : Holders(t)' = Holders(t)
      /\ \A t \in States : Waiters(t)' = Waiters(t)
  BY FreeEffect
<1>2. Cardinality(Holders(s)') = Cardinality(Holders(s)) - 1
  <2>1. Cardinality(Holders(s) \ {r}) = Cardinality(Holders(s)) - 1
    BY <1>1, HoldersFinite, FS_RemoveElement
  <2>2. QED
    BY <1>1, <2>1
<1>3. SlotConservation'
  <2>1. inflight'[s] = Cardinality(Holders(s)') /\ inflight'[s] <= MaxConcurrent
    BY <1>1, <1>2 DEF AdmissionSound, SlotConservation
  <2>2. \A t \in States \ {s} : inflight'[t] = Cardinality(Holders(t)') /\ inflight'[t] <= MaxConcurrent
    BY <1>1 DEF AdmissionSound, SlotConservation
  <2>3. QED
    BY <2>1, <2>2 DEF SlotConservation
<1>4. NoLostWakeup'
  BY <1>1 DEF AdmissionSound, NoLostWakeup
<1>5. QueueExact'
  BY <1>1 DEF AdmissionSound, QueueExact
<1>6. QED
  BY <1>3, <1>4, <1>5 DEF AdmissionSound

(* The three conjuncts of QueueExact, carried over to an equal sequence.     *)
LEMMA QueueExactFor ==
  ASSUME NEW q, NEW p, p = q, NEW W,
         {q[i] : i \in 1..Len(q)} = W,
         \A i, j \in 1..Len(q) : q[i] = q[j] => i = j,
         Len(q) <= MaxQueueSize
  PROVE  /\ {p[i] : i \in 1..Len(p)} = W
         /\ \A i, j \in 1..Len(p) : p[i] = p[j] => i = j
         /\ Len(p) <= MaxQueueSize
OBVIOUS

LEMMA WakeStep ==
  ASSUME TypeOK, AdmissionSound, NEW r \in Requests, phase[r] \in Holding,
         NEW s \in States, s = home[r], Release(r),
         NEW q \in Seq(Requests), q = queue[s], q # <<>>,
         NEW h \in Requests, h = Head(q)
  PROVE  AdmissionSound'
<1>1. /\ r \in Holders(s) /\ h \in Waiters(s) /\ h \notin Holders(s)
      /\ inflight' = inflight /\ inflight[s] = MaxConcurrent
      /\ queue'[s] = Tail(q)
      /\ \A t \in States \ {s} : queue'[t] = queue[t]
      /\ Holders(s)' = (Holders(s) \ {r}) \cup {h}
      /\ Waiters(s)' = Waiters(s) \ {h}
      /\ \A t \in States \ {s} : Holders(t)' = Holders(t) /\ Waiters(t)' = Waiters(t)
  BY WakeEffect
<1>2. Cardinality(Holders(s)') = Cardinality(Holders(s))
  <2>1. IsFiniteSet(Holders(s) \ {r}) /\ Cardinality(Holders(s) \ {r}) = Cardinality(Holders(s)) - 1
    BY <1>1, HoldersFinite, FS_RemoveElement
  <2>2. Cardinality((Holders(s) \ {r}) \cup {h}) = Cardinality(Holders(s) \ {r}) + 1
    BY <1>1, <2>1, FS_AddElement
  <2>3. QED
    BY <1>1, <2>1, <2>2, HoldersFinite
<1>3. SlotConservation'
  BY <1>1, <1>2 DEF AdmissionSound, SlotConservation
<1>4. NoLostWakeup'
  BY <1>1 DEF AdmissionSound, NoLostWakeup
<1>5. QueueExact'
  <2>1. /\ {q[i] : i \in 1..Len(q)} = Waiters(s)
        /\ \A i, j \in 1..Len(q) : q[i] = q[j] => i = j
        /\ Len(q) <= MaxQueueSize /\ Len(q) \in Nat \ {0}
    BY EmptySeq DEF AdmissionSound, QueueExact
  <2>2. /\ Len(Tail(q)) = Len(q) - 1
        /\ \A i \in 1..Len(Tail(q)) : Tail(q)[i] = q[i + 1]
        /\ h = q[1]
    BY HeadTailProperties
  <2>3. {Tail(q)[i] : i \in 1..Len(Tail(q))} = {q[i] : i \in 2..Len(q)}
    <3>1. \A i \in 1..Len(Tail(q)) : Tail(q)[i] = q[i + 1] /\ i + 1 \in 2..Len(q)
      BY <2>1, <2>2
    <3>2. \A j \in 2..Len(q) : q[j] = Tail(q)[j - 1] /\ j - 1 \in 1..Len(Tail(q))
      BY <2>1, <2>2
    <3>3. QED
      BY <3>1, <3>2
  <2>4. {q[i] : i \in 2..Len(q)} = Waiters(s) \ {h}
    BY <2>1, <2>2
  <2>5. {Tail(q)[i] : i \in 1..Len(Tail(q))} = Waiters(s)'
    BY <1>1, <2>3, <2>4
  <2>6. ASSUME NEW i \in 1..Len(Tail(q)), NEW j \in 1..Len(Tail(q)), Tail(q)[i] = Tail(q)[j]
        PROVE  i = j
    <3>1. i + 1 \in 1..Len(q) /\ j + 1 \in 1..Len(q)
      BY <2>1, <2>2
    <3>2. q[i + 1] = q[j + 1]
      BY <2>2, <2>6
    <3>3. i + 1 = j + 1
      BY <2>1, <3>1, <3>2
    <3>4. QED
      BY <3>3
  <2>7. Len(Tail(q)) <= MaxQueueSize
    BY <2>1, <2>2
  <2>8. ASSUME NEW t \in States \ {s}
        PROVE  /\ {queue'[t][i] : i \in 1..Len(queue'[t])} = Waiters(t)'
               /\ \A i, j \in 1..Len(queue'[t]) : queue'[t][i] = queue'[t][j] => i = j
               /\ Len(queue'[t]) <= MaxQueueSize
    BY <1>1 DEF AdmissionSound, QueueExact
  <2>9. /\ {queue'[s][i] : i \in 1..Len(queue'[s])} = Waiters(s)'
        /\ \A i, j \in 1..Len(queue'[s]) : queue'[s][i] = queue'[s][j] => i = j
        /\ Len(queue'[s]) <= MaxQueueSize
    <3>1. \A i, j \in 1..Len(Tail(q)) : Tail(q)[i] = Tail(q)[j] => i = j
      BY <2>6
    <3>2. QED
      BY <1>1, <2>5, <2>7, <3>1, QueueExactFor
  <2>10. QED
    BY <2>8, <2>9 DEF QueueExact
<1>6. QED
  BY <1>3, <1>4, <1>5 DEF AdmissionSound

LEMMA ReleaseStep ==
  ASSUME TypeOK, AdmissionSound, NEW r \in Requests, phase[r] \in Holding, Release(r)
  PROVE  AdmissionSound'
<1>1. PICK s \in States, q \in Seq(Requests) : s = home[r] /\ q = queue[s]
  BY DEF TypeOK
<1>2. CASE q = <<>>
  BY <1>1, <1>2, FreeStep
<1>3. CASE q # <<>>
  <2>1. PICK h \in Requests : h = Head(q)
    BY <1>3, HeadTailProperties
  <2>2. QED
    BY <1>1, <1>3, <2>1, WakeStep
<1>4. QED
  BY <1>2, <1>3

LEMMA EnterStep ==
  ASSUME TypeOK, AdmissionSound, NEW r \in Requests, phase[r] \in {"idle", "found"}, Enter(r)
  PROVE  AdmissionSound'
<1> DEFINE s == EnsuredState
<1>1. s \in States
  BY DEF TypeOK, EnsuredState, States
<1>2. CASE TakeSlot(r, s)
  BY <1>1, <1>2, TakeStep
<1>3. CASE JoinQueue(r, s)
  BY <1>1, <1>3, JoinStep
<1>4. CASE Refuse(r, s)
  BY <1>4, QuietPhase DEF Refuse, Phases, Holding
<1>5. QED
  BY <1>2, <1>3, <1>4 DEF Enter

LEMMA AdmissionStep == TypeOK /\ AdmissionSound /\ [Next]_vars => AdmissionSound'
<1> SUFFICES ASSUME TypeOK, AdmissionSound, [Next]_vars PROVE AdmissionSound'
  OBVIOUS
<1>1. ASSUME NEW r \in Requests, Complete(r) \/ StartStream(r)
      PROVE  AdmissionSound'
  BY <1>1, EnterStep DEF Complete, StartStream
<1>2. ASSUME NEW r \in Requests,
             FindStream(r) \/ AttemptFails(r) \/ Retry(r)
      PROVE  AdmissionSound'
  BY <1>2, QuietPhase DEF FindStream, AttemptFails, Retry, Phases, Holding
<1>3. ASSUME NEW r \in Requests, phase[r] \in Holding, Release(r)
      PROVE  AdmissionSound'
  BY <1>3, ReleaseStep
<1>4. ASSUME NEW r \in Requests,
             CallSucceeds(r) \/ CallFails(r) \/ StreamEnds(r) \/ StreamAbandoned(r)
      PROVE  AdmissionSound'
  BY <1>3, <1>4 DEF CallSucceeds, CallFails, StreamEnds, StreamAbandoned, Holding
<1>5. ASSUME NEW r \in Requests, StreamFinishes(r)
      PROVE  AdmissionSound'
  <2>1. CASE status = "deleted"
    BY <1>3, <1>5, <2>1 DEF StreamFinishes, Holding
  <2>2. CASE status # "deleted"
    BY <1>5, <2>2, QuietPhase DEF StreamFinishes, Phases, Holding
  <2>3. QED
    BY <2>1, <2>2
<1>6. CASE StopRuntime \/ DeleteRuntime
  <2>1. RejectQueued(executionState) /\ UNCHANGED inflight
    BY <1>6 DEF StopRuntime, DeleteRuntime
  <2>2. CASE executionState \in States
    BY <2>1, <2>2, RejectStep
  <2>3. CASE executionState = "none"
    <3>1. "none" \notin States
      BY DEF States
    <3>2. Waiters("none") = {}
      BY <3>1 DEF TypeOK, Waiters
    <3>3. queue' = queue /\ phase' = phase /\ home' = home
      BY <2>1, <2>3, <3>1, <3>2 DEF TypeOK, RejectQueued
    <3>4. QED
      BY <2>1, <3>3, QuietStep DEF Holders, Waiters
  <2>4. QED
    BY <2>2, <2>3 DEF TypeOK
<1>7. CASE \/ \E s \in States : CooldownElapses(s)
           \/ RuntimeDown \/ RuntimeUp \/ ProbeBegins \/ ProbeAnswers
           \/ UNCHANGED vars
  <2>1. UNCHANGED <<inflight, queue, callVars>>
    BY <1>7 DEF CooldownElapses, RuntimeDown, RuntimeUp, ProbeBegins, ProbeAnswers, vars
  <2>2. QED
    BY <2>1, QuietStep DEF callVars, Holders, Waiters
<1>8. QED
  BY <1>1, <1>2, <1>4, <1>5, <1>6, <1>7 DEF Next, Call

(* Whatever the interleaving of calls, stops, deletions and abandoned       *)
(* streams, the slot counter counts the calls that hold a slot and stays    *)
(* within its limit, no call waits while a slot is free, and the queue is   *)
(* exactly the waiting calls.                                              *)
THEOREM AdmissionCorrect == Spec => []AdmissionSound
<1>1. Init => AdmissionSound
  <2> SUFFICES ASSUME Init PROVE AdmissionSound
    OBVIOUS
  <2>1. \A s \in States : /\ Holders(s) = {} /\ Waiters(s) = {}
                         /\ inflight[s] = 0 /\ queue[s] = <<>>
    BY DEF Init, Holders, Waiters, Holding
  <2>2. Cardinality({}) = 0 /\ Len(<<>>) = 0
    BY FS_EmptySet, EmptySeq
  <2>3. SlotConservation /\ NoLostWakeup
    <3>1. \A s \in States : Cardinality(Holders(s)) = 0
      BY <2>1, <2>2
    <3>2. QED
      BY <2>1, <3>1 DEF SlotConservation, NoLostWakeup
  <2>4. QueueExact
    BY <2>1, <2>2 DEF QueueExact
  <2>5. QED
    BY <2>3, <2>4 DEF AdmissionSound
<1>2. AdmissionSound => SlotConservation /\ NoLostWakeup /\ QueueExact
  BY DEF AdmissionSound
<1>3. QED
  BY <1>1, <1>2, TypeCorrect, AdmissionStep, PTL DEF Spec

-----------------------------------------------------------------------------
(* The breaker's gauge, cooldown and failure count, step by step.            *)
LEMMA QuietCircuit ==
  ASSUME CircuitCoherent, UNCHANGED circuitVars
  PROVE  CircuitCoherent'
BY DEF CircuitCoherent, circuitVars

LEMMA ConsultStep ==
  ASSUME TypeOK, CircuitCoherent, NEW s \in States, ConsultCircuit(s)
  PROVE  CircuitCoherent'
<1>1. \A t \in States \ {s} : /\ circuitState'[t] = circuitState[t]
                             /\ openUntil'[t] = openUntil[t]
                             /\ consecutiveFailures'[t] = consecutiveFailures[t]
  BY DEF TypeOK, ConsultCircuit
<1>2. consecutiveFailures'[s] = consecutiveFailures[s]
  BY DEF ConsultCircuit
<1>3. CASE openUntil[s] = "future"
  <2>1. circuitState'[s] = "open" /\ openUntil'[s] = "future"
    BY <1>3 DEF TypeOK, ConsultCircuit
  <2>2. QED
    BY <1>1, <1>2, <2>1 DEF CircuitCoherent
<1>4. CASE openUntil[s] = "past"
  <2>1. circuitState'[s] = "half_open" /\ openUntil'[s] = "unset"
    BY <1>4 DEF TypeOK, ConsultCircuit
  <2>2. QED
    BY <1>1, <1>2, <2>1 DEF CircuitCoherent
<1>5. CASE openUntil[s] = "unset"
  <2>1. circuitState'[s] = circuitState[s] /\ openUntil'[s] = "unset"
    BY <1>5 DEF TypeOK, ConsultCircuit
  <2>2. QED
    BY <1>1, <1>2, <1>5, <2>1 DEF CircuitCoherent
<1>6. QED
  BY <1>3, <1>4, <1>5 DEF TypeOK

LEMMA FailureStep ==
  ASSUME TypeOK, CircuitCoherent, NEW s \in States, NEW n \in 0..FailureThreshold,
         CountFailure(s, n)
  PROVE  CircuitCoherent'
<1>1. CASE n + 1 >= FailureThreshold
  BY <1>1 DEF TypeOK, CircuitCoherent, CountFailure
<1>2. CASE ~(n + 1 >= FailureThreshold)
  <2>1. n + 1 # FailureThreshold
    BY <1>2
  <2>2. QED
    BY <1>2, <2>1 DEF TypeOK, CircuitCoherent, CountFailure
<1>3. QED
  BY <1>1, <1>2

LEMMA SuccessStep ==
  ASSUME TypeOK, CircuitCoherent, NEW s \in States, CountSuccess(s)
  PROVE  CircuitCoherent'
<1>1. CASE status = "deleted" /\ FailureThreshold = 1
  <2>1. 0 \in 0..FailureThreshold
    OBVIOUS
  <2>2. QED
    BY <1>1, <2>1, FailureStep DEF CountSuccess
<1>2. CASE ~(status = "deleted" /\ FailureThreshold = 1)
  <2>1. consecutiveFailures'[s] # FailureThreshold /\ circuitState'[s] = "closed"
    BY <1>2 DEF TypeOK, CountSuccess
  <2>2. \A t \in States \ {s} : /\ circuitState'[t] = circuitState[t]
                               /\ openUntil'[t] = openUntil[t]
                               /\ consecutiveFailures'[t] = consecutiveFailures[t]
    BY <1>2 DEF TypeOK, CountSuccess
  <2>3. QED
    BY <2>1, <2>2 DEF CircuitCoherent
<1>3. QED
  BY <1>1, <1>2

LEMMA NoteStep ==
  ASSUME TypeOK, CircuitCoherent, NEW s \in States, NoteAnswer(s)
  PROVE  CircuitCoherent'
<1>1. consecutiveFailures'[s] # FailureThreshold /\ openUntil' = openUntil
  BY DEF TypeOK, NoteAnswer
<1>2. circuitState'[s] = IF circuitState[s] = "half_open" THEN "closed" ELSE circuitState[s]
  BY DEF TypeOK, NoteAnswer
<1>3. \A t \in States \ {s} : /\ circuitState'[t] = circuitState[t]
                             /\ consecutiveFailures'[t] = consecutiveFailures[t]
  BY DEF TypeOK, NoteAnswer
<1>4. QED
  BY <1>1, <1>2, <1>3 DEF CircuitCoherent

LEMMA CircuitStep == TypeOK /\ CircuitCoherent /\ [Next]_vars => CircuitCoherent'
<1> SUFFICES ASSUME TypeOK, CircuitCoherent, [Next]_vars PROVE CircuitCoherent'
  OBVIOUS
<1>1. ASSUME NEW r \in Requests, Complete(r) \/ StartStream(r)
      PROVE  CircuitCoherent'
  <2>1. EnsuredState \in States
    BY DEF TypeOK, EnsuredState, States
  <2>2. ConsultCircuit(EnsuredState)
    BY <1>1 DEF Complete, StartStream, Enter
  <2>3. QED
    BY <2>1, <2>2, ConsultStep
<1>2. ASSUME NEW r \in Requests,
             FindStream(r) \/ AttemptFails(r) \/ Retry(r) \/ StreamAbandoned(r)
      PROVE  CircuitCoherent'
  BY <1>2, QuietCircuit DEF FindStream, AttemptFails, Retry, StreamAbandoned
<1>3. ASSUME NEW r \in Requests,
             CallSucceeds(r) \/ StreamEnds(r) \/ StreamFinishes(r) \/ CallFails(r)
      PROVE  CircuitCoherent'
  <2>1. PICK s \in States, n \in 0..FailureThreshold : s = home[r] /\ n = consecutiveFailures[s]
    BY DEF TypeOK
  <2>2. NoteAnswer(s) \/ CountSuccess(s) \/ CountFailure(s, n)
    BY <1>3, <2>1 DEF CallSucceeds, StreamEnds, StreamFinishes, CallFails
  <2>3. QED
    BY <2>2, NoteStep, SuccessStep, FailureStep
<1>4. ASSUME NEW s \in States, CooldownElapses(s)
      PROVE  CircuitCoherent'
  <2>1. /\ circuitState' = circuitState /\ consecutiveFailures' = consecutiveFailures
        /\ openUntil[s] = "future" /\ openUntil'[s] = "past"
        /\ \A t \in States \ {s} : openUntil'[t] = openUntil[t]
    BY <1>4 DEF TypeOK, CooldownElapses
  <2>2. QED
    BY <2>1 DEF CircuitCoherent
<1>5. CASE StopRuntime \/ DeleteRuntime \/ RuntimeDown \/ RuntimeUp \/ ProbeBegins
           \/ UNCHANGED vars
  BY <1>5, QuietCircuit DEF StopRuntime, DeleteRuntime, RuntimeDown, RuntimeUp, ProbeBegins, vars
<1>6. CASE ProbeAnswers
  <2>1. CASE UNCHANGED circuitVars
    BY <2>1, QuietCircuit
  <2>2. CASE /\ consecutiveFailures' = [consecutiveFailures EXCEPT !["first"] = 0]
             /\ circuitState' = [circuitState EXCEPT !["first"] = "closed"]
             /\ openUntil' = [openUntil EXCEPT !["first"] = "unset"]
    BY <2>2 DEF TypeOK, CircuitCoherent
  <2>3. QED
    BY <1>6, <2>1, <2>2 DEF ProbeAnswers
<1>7. QED
  BY <1>1, <1>2, <1>3, <1>4, <1>5, <1>6 DEF Next, Call

(* The gauge of the breaker never contradicts its cooldown or its count:    *)
(* open only with a cooldown, half_open only without one, and a failure     *)
(* count at the threshold never behind a gauge that says closed.            *)
THEOREM CircuitCorrect == Spec => []CircuitCoherent
<1>1. Init => CircuitCoherent
  BY DEF Init, CircuitCoherent
<1>2. QED
  BY <1>1, TypeCorrect, CircuitStep, PTL DEF Spec

-----------------------------------------------------------------------------
(* Every step of the first state object is a step of BoundedAdmission on    *)
(* the calls that hold its slots and on its queue, or leaves both alone.    *)
AdmissionMove == Admission!Next \/ UNCHANGED Admission!admissionVars

(* The cardinality that BoundedAdmission uses is the one used here.          *)
LEMMA SameCardinality == ASSUME NEW S PROVE Admission!Cardinality(S) = Cardinality(S)
BY DEF Admission!Cardinality, Cardinality

LEMMA QuietMove ==
  ASSUME Holders("first")' = Holders("first"), queue'["first"] = queue["first"]
  PROVE  AdmissionMove
BY DEF AdmissionMove, Admission!admissionVars

LEMMA TakeMove ==
  ASSUME TypeOK, AdmissionSound, NEW r \in Requests, NEW s \in States,
         phase[r] \in {"idle", "found"}, TakeSlot(r, s)
  PROVE  AdmissionMove
<1>1. /\ Holders(s)' = Holders(s) \cup {r} /\ r \notin Holders(s)
      /\ \A t \in States \ {s} : Holders(t)' = Holders(t)
      /\ queue' = queue
  BY TakeEffect
<1>2. CASE s = "first"
  <2>1. Cardinality(Holders("first")) < MaxConcurrent
    BY <1>2 DEF AdmissionSound, SlotConservation, TakeSlot
  <2>2. queue["first"] = <<>>
    BY <1>2 DEF TypeOK, AdmissionSound, NoLostWakeup, TakeSlot
  <2>3. Admission!Take(r)
    BY <1>1, <1>2, <2>1, <2>2, SameCardinality DEF Admission!Take
  <2>4. QED
    BY <2>3 DEF AdmissionMove, Admission!Next
<1>3. CASE s # "first"
  BY <1>1, <1>3, QuietMove DEF States
<1>4. QED
  BY <1>2, <1>3

LEMMA JoinMove ==
  ASSUME TypeOK, AdmissionSound, NEW r \in Requests, NEW s \in States,
         phase[r] \in {"idle", "found"}, JoinQueue(r, s)
  PROVE  AdmissionMove
<1>1. /\ r \notin Waiters(s) /\ r \notin Holders(s)
      /\ \A t \in States : Holders(t)' = Holders(t)
      /\ queue'[s] = Append(queue[s], r)
      /\ \A t \in States \ {s} : queue'[t] = queue[t]
  BY JoinEffect
<1>2. CASE s = "first"
  <2>1. Cardinality(Holders("first")) = MaxConcurrent
    BY <1>2 DEF TypeOK, AdmissionSound, SlotConservation, JoinQueue
  <2>2. \A i \in 1..Len(queue["first"]) : queue["first"][i] # r
    BY <1>1, <1>2 DEF AdmissionSound, QueueExact
  <2>3. Len(queue["first"]) < MaxQueueSize
    BY <1>2 DEF JoinQueue
  <2>4. Admission!Join(r)
    BY <1>1, <1>2, <2>1, <2>2, <2>3, SameCardinality DEF Admission!Join
  <2>5. QED
    BY <2>4 DEF AdmissionMove, Admission!Next
<1>3. CASE s # "first"
  BY <1>1, <1>3, QuietMove DEF States
<1>4. QED
  BY <1>2, <1>3

LEMMA EnterMove ==
  ASSUME TypeOK, AdmissionSound, NEW r \in Requests, phase[r] \in {"idle", "found"}, Enter(r)
  PROVE  AdmissionMove
<1>1. PICK s \in States : s = EnsuredState
  BY DEF TypeOK, EnsuredState, States
<1>2. CASE TakeSlot(r, s)
  BY <1>2, TakeMove
<1>3. CASE JoinQueue(r, s)
  BY <1>3, JoinMove
<1>4. CASE Refuse(r, s)
  <2>1. Holders("first")' = Holders("first") /\ queue' = queue
    BY <1>4 DEF TypeOK, Refuse, Holders, Holding
  <2>2. QED
    BY <2>1, QuietMove
<1>5. QED
  BY <1>1, <1>2, <1>3, <1>4 DEF Enter

LEMMA ReleaseMove ==
  ASSUME TypeOK, AdmissionSound, NEW r \in Requests, phase[r] \in Holding, Release(r)
  PROVE  AdmissionMove
<1>1. PICK s \in States, q \in Seq(Requests) : s = home[r] /\ q = queue[s]
  BY DEF TypeOK
<1>2. CASE q = <<>>
  <2>1. /\ r \in Holders(s) /\ queue'[s] = <<>>
        /\ Holders(s)' = Holders(s) \ {r}
        /\ \A t \in States \ {s} : Holders(t)' = Holders(t) /\ queue'[t] = queue[t]
    BY <1>1, <1>2, FreeEffect
  <2>2. CASE s = "first"
    <3>1. Admission!Leave(r)
      BY <1>1, <1>2, <2>1, <2>2 DEF Admission!Leave
    <3>2. QED
      BY <3>1 DEF AdmissionMove, Admission!Next
  <2>3. CASE s # "first"
    BY <2>1, <2>3, QuietMove DEF States
  <2>4. QED
    BY <2>2, <2>3
<1>3. CASE q # <<>>
  <2>1. PICK h \in Requests : h = Head(q)
    BY <1>3, HeadTailProperties
  <2>2. /\ r \in Holders(s) /\ queue'[s] = Tail(q)
        /\ Holders(s)' = (Holders(s) \ {r}) \cup {h}
        /\ \A t \in States \ {s} : Holders(t)' = Holders(t) /\ queue'[t] = queue[t]
    BY <1>1, <1>3, <2>1, WakeEffect
  <2>3. CASE s = "first"
    <3>1. Admission!Leave(r)
      BY <1>1, <1>3, <2>1, <2>2, <2>3 DEF Admission!Leave
    <3>2. QED
      BY <3>1 DEF AdmissionMove, Admission!Next
  <2>4. CASE s # "first"
    BY <2>2, <2>4, QuietMove DEF States
  <2>5. QED
    BY <2>3, <2>4
<1>4. QED
  BY <1>2, <1>3

LEMMA RejectMove ==
  ASSUME TypeOK, NEW s \in States, RejectQueued(s)
  PROVE  AdmissionMove
<1>1. /\ \A t \in States : Holders(t)' = Holders(t)
      /\ queue'[s] = <<>>
      /\ \A t \in States \ {s} : queue'[t] = queue[t]
  BY RejectEffect
<1>2. Holders("first")' = Holders("first")
  BY <1>1 DEF States
<1>3. CASE s = "first" /\ queue["first"] # <<>>
  <2>1. Admission!Dismiss
    BY <1>1, <1>2, <1>3 DEF Admission!Dismiss
  <2>2. QED
    BY <2>1 DEF AdmissionMove, Admission!Next
<1>4. CASE ~(s = "first" /\ queue["first"] # <<>>)
  <2>1. queue'["first"] = queue["first"]
    BY <1>1, <1>4 DEF States
  <2>2. QED
    BY <1>2, <2>1, QuietMove
<1>5. QED
  BY <1>3, <1>4

LEMMA StepMoves == TypeOK /\ AdmissionSound /\ [Next]_vars => AdmissionMove
<1> SUFFICES ASSUME TypeOK, AdmissionSound, [Next]_vars PROVE AdmissionMove
  OBVIOUS
<1>1. ASSUME NEW r \in Requests, Complete(r) \/ StartStream(r)
      PROVE  AdmissionMove
  BY <1>1, EnterMove DEF Complete, StartStream
<1>2. ASSUME UNCHANGED <<queue, home>>,
             \A c \in Requests : phase'[c] \in Holding <=> phase[c] \in Holding
      PROVE  AdmissionMove
  <2>1. Holders("first")' = Holders("first")
    BY <1>2 DEF Holders
  <2>2. QED
    BY <1>2, <2>1, QuietMove
<1>3. ASSUME NEW r \in Requests,
             FindStream(r) \/ AttemptFails(r) \/ Retry(r)
             \/ (StreamFinishes(r) /\ status # "deleted")
      PROVE  AdmissionMove
  <2>1. UNCHANGED <<queue, home>>
    BY <1>3 DEF FindStream, AttemptFails, Retry, StreamFinishes
  <2>2. \A c \in Requests : phase'[c] \in Holding <=> phase[c] \in Holding
    BY <1>3 DEF TypeOK, FindStream, AttemptFails, Retry, StreamFinishes, Holding
  <2>3. QED
    BY <1>2, <2>1, <2>2
<1>4. ASSUME NEW r \in Requests,
             CallSucceeds(r) \/ CallFails(r) \/ StreamEnds(r) \/ StreamAbandoned(r)
             \/ (StreamFinishes(r) /\ status = "deleted")
      PROVE  AdmissionMove
  <2>1. phase[r] \in Holding /\ Release(r)
    BY <1>4 DEF CallSucceeds, CallFails, StreamEnds, StreamAbandoned, StreamFinishes, Holding
  <2>2. QED
    BY <2>1, ReleaseMove
<1>5. CASE StopRuntime \/ DeleteRuntime
  <2>1. RejectQueued(executionState)
    BY <1>5 DEF StopRuntime, DeleteRuntime
  <2>2. CASE executionState \in States
    BY <2>1, <2>2, RejectMove
  <2>3. CASE executionState = "none"
    <3>1. "none" \notin States
      BY DEF States
    <3>2. Waiters("none") = {}
      BY <3>1 DEF TypeOK, Waiters
    <3>3. queue' = queue /\ phase' = phase /\ home' = home
      BY <2>1, <2>3, <3>1, <3>2 DEF TypeOK, RejectQueued
    <3>4. QED
      BY <1>2, <3>3
  <2>4. QED
    BY <2>2, <2>3 DEF TypeOK
<1>6. CASE \/ \E s \in States : CooldownElapses(s)
           \/ RuntimeDown \/ RuntimeUp \/ ProbeBegins \/ ProbeAnswers
           \/ UNCHANGED vars
  <2>1. UNCHANGED <<inflight, queue, callVars>>
    BY <1>6 DEF CooldownElapses, RuntimeDown, RuntimeUp, ProbeBegins, ProbeAnswers, vars
  <2>2. QED
    BY <1>2, <2>1 DEF callVars
<1>7. QED
  BY <1>1, <1>3, <1>4, <1>5, <1>6 DEF Next, Call

(* The runtime's first state object implements the bounded admission: at    *)
(* most maxConcurrentRequests calls, strictly first come first served, and  *)
(* a released slot handed to the head of the queue before anyone else.      *)
THEOREM AdmissionRefined == Spec => ImplementsAdmission
<1>1. Init => Admission!Init
  BY DEF Init, Admission!Init, Holders, Holding, States
<1>2. AdmissionMove => [Admission!Next]_(Admission!admissionVars)
  BY DEF AdmissionMove
<1>3. Spec => []AdmissionSound
  BY AdmissionCorrect, PTL DEF AdmissionSound
<1>4. QED
  BY <1>1, <1>2, <1>3, TypeCorrect, StepMoves, PTL DEF Spec, ImplementsAdmission, Admission!Spec

-----------------------------------------------------------------------------
(***************************************************************************)
(* The auto router.                                                        *)
(***************************************************************************)
HIDE LimitsAssumption
HIDE RequestsAssumption
USE CandidatesAssumption, NamesAssumption

LEMMA LeastPosition ==
  ASSUME NEW T, T \subseteq Nat, T # {}
  PROVE  \E n \in T : \A m \in T : n <= m
<1>1. PICK n \in T : \A m \in T : ~(<<m, n>> \in OpToRel(<, Nat))
  <2>1. IsWellFoundedOn(OpToRel(<, Nat), Nat)
    BY NatLessThanWellFounded
  <2>2. QED
    BY <2>1, WFMin
<1>2. \A m \in T : ~(m < n)
  BY <1>1 DEF OpToRel
<1>3. QED
  BY <1>2

(* The order of the candidates for a failure has one first in every set.   *)
LEMMA OneIsFirst ==
  ASSUME list \in Seq(Candidates), NEW failed, NEW how,
         NEW S, S \subseteq DOMAIN list, S # {}
  PROVE  \E i \in S : First(S, failed, how) = {i}
<1> DEFINE same == {i \in S : SameModel(list[i], failed)}
           best == IF how = "rate_limit" /\ same # {} THEN same ELSE S
<1>1. S \subseteq Nat /\ best \subseteq S /\ best # {}
  OBVIOUS
<1>2. PICK i \in best : \A j \in best : i <= j
  BY <1>1, LeastPosition
<1>3. \A j \in S \ {i} : Before(i, j, failed, how) /\ ~Before(j, i, failed, how)
  BY <1>1, <1>2 DEF Before, SameModel
<1>4. First(S, failed, how) = {i}
  BY <1>1, <1>3 DEF First
<1>5. QED
  BY <1>1, <1>4

LEMMA PickedIsOne == Picked({}) = <<>> /\ \A i : Picked({i}) = <<list[i]>>
BY DEF Picked

LEMMA PairJoined == ASSUME NEW x, NEW y PROVE <<x>> \o <<y>> = <<x, y>>
<1> DEFINE s == <<x>> \o <<y>>
           t == <<x, y>>
<1>1. <<x>> \in Seq({x, y}) /\ <<y>> \in Seq({x, y}) /\ t \in Seq({x, y})
  OBVIOUS
<1>2. s \in Seq({x, y}) /\ Len(s) = 2 /\ Len(t) = 2
  BY <1>1, ConcatProperties
<1>3. \A i \in 1..2 : s[i] = t[i]
  BY <1>1, ConcatProperties
<1> HIDE DEF s, t
<1> QED BY <1>1, <1>2, <1>3, SeqEqual DEF s, t

LEMMA TripleJoined ==
  ASSUME NEW x, NEW y, NEW z
  PROVE  <<x>> \o <<y>> \o <<z>> = <<x, y, z>>
<1> DEFINE s == <<x, y>> \o <<z>>
           t == <<x, y, z>>
<1>1. <<x, y>> \in Seq({x, y, z}) /\ <<z>> \in Seq({x, y, z}) /\ t \in Seq({x, y, z})
  OBVIOUS
<1>2. s \in Seq({x, y, z}) /\ Len(s) = 3 /\ Len(t) = 3
  BY <1>1, ConcatProperties
<1>3. \A i \in 1..3 : s[i] = t[i]
  BY <1>1, ConcatProperties
<1>4. s = t
  <2> HIDE DEF s, t
  <2> QED BY <1>1, <1>2, <1>3, SeqEqual DEF s, t
<1> QED BY <1>4, PairJoined
(* orderFailoverCandidates, by its three places.                           *)
LEMMA ChainShape ==
  ASSUME list \in Seq(Candidates), NEW failed, NEW how,
         NEW others, others = Others(failed, how)
  PROVE  \/ /\ others = {} /\ FailoverChain(failed, how) = <<>>
         \/ \E d \in others :
              /\ list[d].default
              /\ FailoverChain(failed, how) = <<list[d]>>
         \/ \E a \in others :
              /\ ~list[a].default /\ \A j \in others : ~list[j].default
              /\ FailoverChain(failed, how) = <<list[a]>>
         \/ \E a, d \in others :
              /\ ~list[a].default /\ list[d].default
              /\ FailoverChain(failed, how) = <<list[a], list[d]>>
         \/ \E a, b \in others :
              /\ ~list[a].default /\ ~list[b].default /\ a # b
              /\ Before(a, b, failed, how) /\ \A j \in others : ~list[j].default
              /\ FailoverChain(failed, how) = <<list[a], list[b]>>
         \/ \E a, b, d \in others :
              /\ ~list[a].default /\ ~list[b].default /\ list[d].default /\ a # b
              /\ Before(a, b, failed, how)
              /\ FailoverChain(failed, how) = <<list[a], list[b], list[d]>>
<1> DEFINE plain  == {i \in others : ~list[i].default}
           first  == First(plain, failed, how)
           second == First(plain \ first, failed, how)
           last   == First(others \ plain, failed, how)
<1>1. /\ others \subseteq DOMAIN list /\ plain \subseteq DOMAIN list
      /\ plain \ first \subseteq DOMAIN list /\ others \ plain \subseteq DOMAIN list
  BY DEF Others
<1>2. FailoverChain(failed, how) = Picked(first) \o Picked(second) \o Picked(last)
  BY DEF FailoverChain
<1>3. plain = {} => first = {} /\ second = {}
  BY DEF First
<1>o. \A S \in SUBSET DOMAIN list : S # {} => \E i \in S : First(S, failed, how) = {i}
  BY OneIsFirst
<1>4. plain # {} => \E a \in plain : first = {a}
  <2> HIDE DEF plain
  <2> QED BY <1>1, <1>o
<1>5. plain \ first = {} => second = {}
  BY DEF First
<1>6. plain \ first # {} => \E b \in plain \ first : second = {b}
  <2> HIDE DEF plain
  <2> HIDE DEF first
  <2> QED BY <1>1, <1>o
<1>7. others \ plain = {} => last = {}
  BY DEF First
<1>8. others \ plain # {} => \E d \in others \ plain : last = {d}
  <2> HIDE DEF plain
  <2> QED BY <1>1, <1>o
<1>9. \A a, b \in plain : first = {a} /\ b # a => Before(a, b, failed, how)
  BY DEF First
<1> HIDE DEF first, second, last
<1>10. \A x, y, z :
          /\ <<>> \o <<>> \o <<>> = <<>>
          /\ <<>> \o <<>> \o <<z>> = <<z>>
          /\ <<x>> \o <<>> \o <<>> = <<x>>
          /\ <<x>> \o <<>> \o <<z>> = <<x, z>>
          /\ <<x>> \o <<y>> \o <<>> = <<x, y>>
          /\ <<x>> \o <<y>> \o <<z>> = <<x, y, z>>
  <2> TAKE x, y, z
  <2>1. <<>> \o <<>> \o <<>> = <<>> /\ <<>> \o <<>> \o <<z>> = <<z>>
    OBVIOUS
  <2>2. <<x>> \o <<>> = <<x>> /\ <<x, y>> \o <<>> = <<x, y>>
    OBVIOUS
  <2>3. QED
    BY <2>1, <2>2, PairJoined, TripleJoined
<1>11. Picked({}) = <<>> /\ \A i : Picked({i}) = <<list[i]>>
  BY PickedIsOne
<1>12. \/ others \ plain = {} /\ Picked(last) = <<>>
       \/ \E d \in others : list[d].default /\ Picked(last) = <<list[d]>>
  BY <1>7, <1>8, <1>11
<1>13. others \ plain = {} => \A j \in others : ~list[j].default
  OBVIOUS
<1>14. CASE plain = {}
  <2>1. FailoverChain(failed, how) = <<>> \o <<>> \o Picked(last)
    BY <1>2, <1>3, <1>11, <1>14
  <2>2. CASE others \ plain = {} /\ Picked(last) = <<>>
    <3>1. others = {}
      BY <1>14, <2>2
    <3>2. FailoverChain(failed, how) = <<>>
      BY <1>10, <2>1, <2>2
    <3>3. QED
      BY <3>1, <3>2
  <2>3. ASSUME NEW d \in others, list[d].default, Picked(last) = <<list[d]>>
        PROVE  FailoverChain(failed, how) = <<list[d]>>
    BY <1>10, <2>1, <2>3
  <2>4. QED
    BY <1>12, <2>2, <2>3
<1>15. CASE plain # {} /\ plain \ first = {}
  <2>1. PICK a \in plain : first = {a}
    BY <1>4, <1>15
  <2>2. FailoverChain(failed, how) = <<list[a]>> \o <<>> \o Picked(last)
    BY <1>2, <1>5, <1>11, <1>15, <2>1
  <2>3. CASE others \ plain = {} /\ Picked(last) = <<>>
    <3>1. FailoverChain(failed, how) = <<list[a]>>
      BY <1>10, <2>2, <2>3
    <3>2. QED
      BY <1>13, <2>3, <3>1
  <2>4. ASSUME NEW d \in others, list[d].default, Picked(last) = <<list[d]>>
        PROVE  FailoverChain(failed, how) = <<list[a], list[d]>>
    BY <1>10, <2>2, <2>4
  <2>5. QED
    BY <1>12, <2>3, <2>4
<1>16. CASE plain \ first # {}
  <2>1. PICK a \in plain : first = {a}
    BY <1>4, <1>16
  <2>2. PICK b \in plain \ first : second = {b}
    BY <1>6, <1>16
  <2>3. FailoverChain(failed, how) = <<list[a]>> \o <<list[b]>> \o Picked(last)
    BY <1>2, <1>11, <2>1, <2>2
  <2>4. a # b /\ Before(a, b, failed, how)
    BY <1>9, <2>1, <2>2
  <2>5. CASE others \ plain = {} /\ Picked(last) = <<>>
    <3>1. FailoverChain(failed, how) = <<list[a], list[b]>>
      BY <1>10, <2>3, <2>5
    <3>2. QED
      BY <1>13, <2>4, <2>5, <3>1
  <2>6. ASSUME NEW d \in others, list[d].default, Picked(last) = <<list[d]>>
        PROVE  FailoverChain(failed, how) = <<list[a], list[b], list[d]>>
    BY <1>10, <2>3, <2>6
  <2>7. QED
    BY <1>12, <2>4, <2>5, <2>6
<1>17. QED
  BY <1>14, <1>15, <1>16

-----------------------------------------------------------------------------
(* The inductive invariant.  Line is whoever was or will be executed.      *)

Line == tried \o chain

KeysDiffer(line) == \A i, j \in DOMAIN line : line[i].key = line[j].key => i = j

Pinned(line) == requested # None => \A i \in DOMAIN line : line[i].model = requested

HasNet(line) == \E i \in DOMAIN line : line[i].default /\ line[i].key # 0

FollowsSuit(line, how) ==
  \A i \in 2..Len(line) :
    /\ Suits(line[i], line[1], how)
    /\ how = "rate_limit" /\ SameModel(line[i], line[1]) /\ ~line[i].default
         => \A j \in 2..(i - 1) : SameModel(line[j], line[1])

(* Nothing is left over before the selection.                              *)
Resting == stage = "idle" =>
  /\ tried = <<>> /\ chain = <<>> /\ list = <<>> /\ failure = None
  /\ spoke = {} /\ audits = <<>>

(* The selected candidate is on the list, and so is the default.           *)
ListSound ==
  /\ KeysDiffer(list)
  /\ stage # "idle" =>
       /\ Len(tried) > 0
       /\ \E i \in DOMAIN list : list[i] = Selected
       /\ \A i \in DOMAIN list : list[i].key = 0 => Selected.key = 0
       /\ HasNet(list)

FirstAlone ==
  /\ stage = "first" => Len(tried) = 1 /\ chain = <<>> /\ failure = None
  /\ stage = "fallback" => Len(tried) > 1

LineSound ==
  stage # "idle" =>
    /\ Len(Line) <= 4 /\ KeysDiffer(Line) /\ Pinned(Line) /\ FollowsSuit(Line, failure)

NetSound ==
  /\ stage = "threw" => chain = <<>>
  /\ (/\ stage \in {"fallback", "threw"} /\ kind = "complete" /\ requested = None
      /\ failure \in {"rate_limit", "retryable"}) => HasNet(Line)

(* A selected candidate that sent a token has announced the stream.        *)
SpokeSound ==
  /\ kind = "complete" => spoke = {}
  /\ Len(tried) = 1 /\ ~started => Selected.key \notin spoke
  /\ ReplacedBeforeToken

FailoverInv ==
  /\ FailoverTypeOK /\ Resting /\ ListSound /\ FirstAlone /\ LineSound /\ NetSound
  /\ SpokeSound /\ AuditTellsOutcome

(* Whoever takes over was next in the line.                                *)
LEMMA LineKept ==
  ASSUME NEW S, NEW t \in Seq(S), NEW c \in Seq(S), c # <<>>
  PROVE  /\ Append(t, Head(c)) \in Seq(S) /\ Tail(c) \in Seq(S)
         /\ Append(t, Head(c)) \o Tail(c) = t \o c
<1> DEFINE s == Append(t, Head(c)) \o Tail(c)
           u == t \o c
<1>1. /\ Append(t, Head(c)) \in Seq(S) /\ Len(Append(t, Head(c))) = Len(t) + 1
      /\ Tail(c) \in Seq(S) /\ Len(Tail(c)) = Len(c) - 1 /\ Len(c) > 0
      /\ Len(t) \in Nat /\ Len(c) \in Nat
  OBVIOUS
<1>2. s \in Seq(S) /\ u \in Seq(S) /\ Len(s) = Len(t) + Len(c) /\ Len(u) = Len(t) + Len(c)
  BY <1>1, ConcatProperties
<1>3. ASSUME NEW i \in 1..(Len(t) + Len(c)) PROVE s[i] = u[i]
  <2>1. s[i] = IF i <= Len(t) + 1 THEN Append(t, Head(c))[i] ELSE Tail(c)[i - (Len(t) + 1)]
    BY <1>1, ConcatProperties
  <2>2. u[i] = IF i <= Len(t) THEN t[i] ELSE c[i - Len(t)]
    BY <1>1, ConcatProperties
  <2>3. CASE i <= Len(t)
    BY <1>1, <2>1, <2>2, <2>3
  <2>4. CASE i = Len(t) + 1
    BY <1>1, <2>1, <2>2, <2>4
  <2>5. CASE i > Len(t) + 1
    <3>1. i - (Len(t) + 1) \in 1..Len(Tail(c))
      BY <1>1, <2>5
    <3>2. Tail(c)[i - (Len(t) + 1)] = c[(i - (Len(t) + 1)) + 1]
      BY <1>1, <3>1
    <3>3. (i - (Len(t) + 1)) + 1 = i - Len(t)
      BY <1>1
    <3>4. QED
      BY <1>1, <2>1, <2>2, <2>5, <3>2, <3>3
  <2>6. QED
    BY <1>1, <2>3, <2>4, <2>5
<1>4. s = u
  <2> HIDE DEF s, u
  <2> QED BY <1>2, <1>3, SeqEqual
<1>5. QED
  BY <1>1, <1>4

(* The line a failure of the selected candidate starts.                    *)
GoodLine(selected, how, links, line) ==
  /\ links \in Seq(Candidates) /\ Len(links) <= 3
  /\ line \in Seq(Candidates) /\ Len(line) = Len(links) + 1 /\ line[1] = selected
  /\ KeysDiffer(line) /\ Pinned(line) /\ FollowsSuit(line, how)
  /\ requested = None /\ how \in {"rate_limit", "retryable"} => HasNet(line)

LEMMA NewLine ==
  ASSUME list \in Seq(Candidates), KeysDiffer(list),
         NEW selected \in Candidates, NEW how \in Failures,
         \E i \in DOMAIN list : list[i] = selected,
         \A i \in DOMAIN list : list[i].key = 0 => selected.key = 0,
         HasNet(list), Pinned(<<selected>>),
         NEW links, links = FailoverChain(selected, how),
         NEW line, line = <<selected>> \o links
  PROVE  GoodLine(selected, how, links, line)
<1> DEFINE others == Others(selected, how)
           Placed(c, pos) ==
             /\ pos \in Seq(others) /\ Len(pos) <= 3 /\ Len(c) = Len(pos)
             /\ c \in Seq(Candidates)
             /\ \A k \in 1..Len(pos) : c[k] = list[pos[k]]
             /\ \A j, k \in 1..Len(pos) : j # k => pos[j] # pos[k]
             /\ \A j, k \in 1..Len(pos) :
                  j < k /\ ~list[pos[k]].default => Before(pos[j], pos[k], selected, how)
             /\ (\E j \in others : list[j].default)
                  => \E k \in 1..Len(pos) : list[pos[k]].default
<1>1. /\ others \subseteq DOMAIN list
      /\ \A i \in others : list[i] \in Candidates /\ list[i].default \in BOOLEAN
  <2>1. others \subseteq DOMAIN list
    BY DEF Others
  <2>2. \A i \in DOMAIN list : list[i] \in Candidates
    OBVIOUS
  <2>4. \A c \in Candidates : c.default \in BOOLEAN
    BY DEF Candidates
  <2> HIDE DEF others
  <2>3. QED
    BY <2>1, <2>2, <2>4
<1>2. \E pos : Placed(links, pos)
  <2> HIDE DEF others
  <2>1. ASSUME others = {}, links = <<>> PROVE Placed(links, <<>>)
    BY <2>1
  <2>2. ASSUME NEW d \in others, list[d].default, links = <<list[d]>>
        PROVE  Placed(links, <<d>>)
    BY <1>1, <2>2
  <2>3. ASSUME NEW a \in others, \A j \in others : ~list[j].default, links = <<list[a]>>
        PROVE  Placed(links, <<a>>)
    BY <1>1, <2>3
  <2>4. ASSUME NEW a \in others, NEW d \in others, ~list[a].default, list[d].default,
               links = <<list[a], list[d]>>
        PROVE  Placed(links, <<a, d>>)
    BY <1>1, <2>4
  <2>5. ASSUME NEW a \in others, NEW b \in others, a # b, Before(a, b, selected, how),
               \A j \in others : ~list[j].default, links = <<list[a], list[b]>>
        PROVE  Placed(links, <<a, b>>)
    BY <1>1, <2>5
  <2>6. ASSUME NEW a \in others, NEW b \in others, NEW d \in others,
               ~list[a].default, ~list[b].default, list[d].default,
               a # b, Before(a, b, selected, how), links = <<list[a], list[b], list[d]>>
        PROVE  Placed(links, <<a, b, d>>)
    BY <1>1, <2>6
  <2>7. QED
    <3> HIDE DEF Placed
    <3> QED BY ChainShape, <2>1, <2>2, <2>3, <2>4, <2>5, <2>6 DEF others
<1>3. PICK pos : Placed(links, pos)
  BY <1>2
<1> HIDE DEF Placed
<1>p. /\ \A k \in 1..Len(pos) : links[k] = list[pos[k]]
      /\ \A j, k \in 1..Len(pos) : j # k => pos[j] # pos[k]
      /\ \A j, k \in 1..Len(pos) :
           j < k /\ ~list[pos[k]].default => Before(pos[j], pos[k], selected, how)
  BY <1>3 DEF Placed
<1>4. \A i \in others :
         /\ list[i].key # selected.key
         /\ requested # None => list[i].model = requested
         /\ Suits(list[i], selected, how)
  BY DEF Others, MayReplace
<1>5. /\ links \in Seq(Candidates) /\ Len(links) \in 0..3
      /\ line \in Seq(Candidates) /\ Len(line) = Len(links) + 1
      /\ line[1] = selected
      /\ \A i \in 2..Len(line) : line[i] = links[i - 1] /\ i - 1 \in 1..Len(links)
  <2> HIDE DEF others
  <2>0. Len(pos) \in Nat /\ Len(pos) <= 3 /\ Len(links) = Len(pos)
    BY <1>3 DEF Placed
  <2>1. links \in Seq(Candidates) /\ Len(links) \in 0..3
    BY <1>3, <2>0 DEF Placed
  <2>2. <<selected>> \in Seq(Candidates) /\ Len(<<selected>>) = 1 /\ <<selected>>[1] = selected
    OBVIOUS
  <2>3. QED
    BY <2>1, <2>2, ConcatProperties
<1> HIDE DEF others
<1>6. \A i \in 2..Len(line) :
         /\ i - 1 \in 1..Len(pos) /\ pos[i - 1] \in others /\ pos[i - 1] \in DOMAIN list
         /\ line[i] = list[pos[i - 1]]
  BY <1>1, <1>3, <1>5 DEF Placed
<1>7. KeysDiffer(line)
  <2> SUFFICES ASSUME NEW i \in 1..Len(line), NEW j \in 1..Len(line), i < j
               PROVE  line[i].key # line[j].key
    BY <1>5 DEF KeysDiffer
  <2>1. CASE i = 1
    BY <1>4, <1>5, <1>6, <2>1
  <2>2. CASE i # 1
    <3>1. i \in 2..Len(line) /\ j \in 2..Len(line) /\ i - 1 # j - 1
      BY <1>5, <2>2
    <3>2. pos[i - 1] # pos[j - 1]
      BY <1>p, <1>6, <3>1
    <3>3. /\ line[i] = list[pos[i - 1]] /\ line[j] = list[pos[j - 1]]
          /\ pos[i - 1] \in DOMAIN list /\ pos[j - 1] \in DOMAIN list
      BY <1>6, <3>1
    <3>4. QED
      BY <3>2, <3>3 DEF KeysDiffer
  <2>3. QED
    BY <2>1, <2>2
<1>8. Pinned(line)
  <2> SUFFICES ASSUME requested # None, NEW i \in 1..Len(line)
               PROVE  line[i].model = requested
    BY <1>5 DEF Pinned
  <2>1. CASE i = 1
    BY <1>5, <2>1 DEF Pinned
  <2>2. CASE i # 1
    <3>1. i \in 2..Len(line)
      BY <1>5, <2>2
    <3>2. pos[i - 1] \in others /\ line[i] = list[pos[i - 1]]
      BY <1>6, <3>1
    <3>3. QED
      BY <1>4, <3>2
  <2>3. QED
    BY <2>1, <2>2
<1>9. FollowsSuit(line, how)
  <2> SUFFICES ASSUME NEW i \in 2..Len(line)
               PROVE  /\ Suits(line[i], line[1], how)
                      /\ how = "rate_limit" /\ SameModel(line[i], line[1]) /\ ~line[i].default
                           => \A j \in 2..(i - 1) : SameModel(line[j], line[1])
    BY DEF FollowsSuit
  <2>1. Suits(line[i], line[1], how)
    BY <1>4, <1>5, <1>6
  <2>2. ASSUME how = "rate_limit", SameModel(line[i], line[1]), ~line[i].default,
               NEW j \in 2..(i - 1)
        PROVE  SameModel(line[j], line[1])
    <3>0. j \in 2..Len(line) /\ j - 1 < i - 1
      BY <1>5
    <3>1. Before(pos[j - 1], pos[i - 1], selected, how)
      <4>1. ~list[pos[i - 1]].default /\ i - 1 \in 1..Len(pos) /\ j - 1 \in 1..Len(pos)
        BY <1>6, <2>2, <3>0
      <4>2. QED
        BY <1>p, <3>0, <4>1
    <3>2. line[i] = list[pos[i - 1]] /\ line[j] = list[pos[j - 1]]
      BY <1>6, <3>0
    <3>3. QED
      BY <1>5, <2>2, <3>1, <3>2 DEF Before, SameModel
  <2>3. QED
    BY <2>1, <2>2
<1>10. ASSUME requested = None, how \in {"rate_limit", "retryable"}
       PROVE  HasNet(line)
  <2>1. PICK d \in DOMAIN list : list[d].default /\ list[d].key # 0
    BY DEF HasNet
  <2>2. CASE list[d].key = selected.key
    <3>1. list[d] = selected
      BY <2>2 DEF KeysDiffer
    <3>2. 1 \in DOMAIN line
      BY <1>5
    <3>3. line[1].default /\ line[1].key # 0
      BY <1>5, <2>1, <3>1
    <3>4. QED
      BY <3>2, <3>3, Zenon DEF HasNet
  <2>3. CASE list[d].key # selected.key
    <3>1. d \in others
      BY <1>10, <2>1, <2>3 DEF others, Others, MayReplace, Suits
    <3>2. PICK k \in 1..Len(pos) : list[pos[k]].default
      BY <1>3, <2>1, <3>1 DEF Placed
    <3>n. Len(pos) = Len(links)
      BY <1>3 DEF Placed
    <3>m. k + 1 \in 2..Len(line) /\ k + 1 \in DOMAIN line /\ (k + 1) - 1 = k
      BY <1>5, <3>n
    <3>3. line[k + 1] = list[pos[k]] /\ pos[k] \in others
      BY <1>6, <3>m
    <3>4. list[pos[k]].key # 0
      BY <1>1, <1>4, <3>3
    <3>5. k + 1 \in DOMAIN line /\ line[k + 1].default /\ line[k + 1].key # 0
      BY <3>2, <3>m, <3>3, <3>4
    <3>6. QED
      BY <3>5, Zenon DEF HasNet
  <2>4. QED
    BY <2>2, <2>3
<1>11. Len(links) <= 3
  BY <1>3 DEF Placed
<1>12. requested = None /\ how \in {"rate_limit", "retryable"} => HasNet(line)
  BY <1>10
<1>13. links \in Seq(Candidates) /\ line \in Seq(Candidates)
  BY <1>5
<1>14. Len(line) = Len(links) + 1 /\ line[1] = selected
  BY <1>5
<1>15. QED
  BY <1>7, <1>8, <1>9, <1>11, <1>12, <1>13, <1>14 DEF GoodLine

-----------------------------------------------------------------------------
(* The selection.                                                          *)

LEMMA ListShape ==
  ASSUME NEW candidates \in Lists
  PROVE  /\ candidates \in Seq(Candidates) /\ Len(candidates) \in 1..MaxCandidates
         /\ \A i \in DOMAIN candidates : candidates[i].key = i
         /\ \E i \in DOMAIN candidates : candidates[i].default
<1>1. PICK n \in 1..MaxCandidates : candidates \in ListsOf(n)
  BY DEF Lists
<1>2. PICK choice \in [1..n -> Models] \X [1..n -> Providers \cup {None}] \X (1..n) :
        candidates = Listed(n, choice[1], choice[2], choice[3])
  BY <1>1, Zenon DEF ListsOf
<1>3. PICK model, provider, d :
        /\ model \in [1..n -> Models] /\ provider \in [1..n -> Providers \cup {None}] /\ d \in 1..n
        /\ candidates = Listed(n, model, provider, d)
  BY <1>2
<1>4. ASSUME NEW i \in 1..n
      PROVE  /\ candidates[i] \in Candidates
             /\ candidates[i].key = i
             /\ i = d => candidates[i].default
  <2>1. candidates[i] = [key |-> i, model |-> model[i], provider |-> provider[i], default |-> i = d]
    BY <1>3, Zenon DEF Listed
  <2>2. PICK chosen \in BOOLEAN : chosen = (i = d)
    BY Zenon
  <2>3. candidates[i] = [key |-> i, model |-> model[i], provider |-> provider[i], default |-> chosen]
    BY <2>1, <2>2, Zenon
  <2>4. i \in 0..MaxCandidates /\ model[i] \in Models /\ provider[i] \in Providers \cup {None}
    BY <1>3
  <2>5. candidates[i] \in Candidates /\ candidates[i].key = i
    BY <2>3, <2>4 DEF Candidates
  <2>6. candidates[i].default = chosen
    BY <2>3
  <2>7. QED
    BY <2>2, <2>5, <2>6, Zenon
<1>6. DOMAIN candidates = 1..n /\ candidates = [i \in 1..n |-> candidates[i]] /\ n \in Nat
  BY <1>3 DEF Listed
<1>7. candidates \in [1..n -> Candidates]
  BY <1>4, <1>6, Zenon
<1>8. candidates \in Seq(Candidates) /\ Len(candidates) = n
  BY <1>6, <1>7
<1>9. \A i \in 1..n : candidates[i].key = i
  BY <1>4
<1>10. candidates[d].default /\ d \in 1..n
  BY <1>3, <1>4, Zenon
<1>11. QED
  BY <1>6, <1>8, <1>9, <1>10

LEMMA Begun ==
  ASSUME FailoverInv, stage = "idle", NEW how \in {"complete", "stream"},
         NEW model \in Models \cup {None},
         NEW candidates \in Seq(Candidates), Len(candidates) <= MaxCandidates + 1,
         KeysDiffer(candidates), HasNet(candidates),
         NEW selected \in Candidates, \E i \in DOMAIN candidates : candidates[i] = selected,
         \A i \in DOMAIN candidates : candidates[i].key = 0 => selected.key = 0,
         model # None => selected.model = model,
         Begin(how, model, candidates, selected)
  PROVE  FailoverInv'
<1>1. /\ tried' = <<selected>> /\ chain' = <<>> /\ failure' = None /\ spoke' = {}
      /\ audits' = <<>> /\ list' = candidates /\ stage' = "first" /\ kind' = how
      /\ requested' = model /\ started' = started /\ unwritten' = unwritten
  BY DEF Begin, FailoverInv, Resting
<1>2. FailoverTypeOK'
  BY <1>1 DEF FailoverInv, FailoverTypeOK
<1>3. Len(tried') = 1 /\ tried'[1] = selected
  BY <1>1
<1>4. Line' = <<selected>>
  BY <1>1 DEF Line
<1>5. ListSound'
  BY <1>1, <1>3 DEF ListSound, KeysDiffer, HasNet, Selected
<1>6. LineSound'
  BY <1>1, <1>4 DEF LineSound, KeysDiffer, Pinned, FollowsSuit
<1>7. SpokeSound'
  BY <1>1, <1>3 DEF SpokeSound, ReplacedBeforeToken
<1>8. Resting' /\ FirstAlone' /\ NetSound' /\ AuditTellsOutcome'
  BY <1>1, <1>3 DEF Resting, FirstAlone, NetSound, AuditTellsOutcome
<1>9. QED
  BY <1>2, <1>5, <1>6, <1>7, <1>8 DEF FailoverInv

(* The choices that take a candidate of the list.                          *)
LEMMA ListedBegun ==
  ASSUME FailoverInv, stage = "idle", NEW how \in {"complete", "stream"},
         NEW model \in Models \cup {None}, NEW candidates \in Lists,
         NEW i \in DOMAIN candidates, model # None => candidates[i].model = model,
         Begin(how, model, candidates, candidates[i])
  PROVE  FailoverInv'
<1>1. /\ candidates \in Seq(Candidates) /\ Len(candidates) \in 1..MaxCandidates
      /\ \A j \in DOMAIN candidates : candidates[j].key = j
      /\ \E j \in DOMAIN candidates : candidates[j].default
  BY ListShape
<1>2. KeysDiffer(candidates)
  BY <1>1 DEF KeysDiffer
<1>3. HasNet(candidates) /\ \A j \in DOMAIN candidates : candidates[j].key # 0
  BY <1>1 DEF HasNet
<1>4. candidates[i] \in Candidates /\ Len(candidates) <= MaxCandidates + 1
  BY <1>1
<1>5. QED
  BY <1>1, <1>2, <1>3, <1>4, Begun

LEMMA TargetListed ==
  ASSUME NEW candidates \in Lists, NEW target, Matching(candidates, target) # {}
  PROVE  \E i \in DOMAIN candidates :
           /\ SelectByTarget(candidates, target) = candidates[i]
           /\ Matches(candidates[i], target)
<1> DEFINE matching == Matching(candidates, target)
<1>1. matching \subseteq DOMAIN candidates /\ \A i \in matching : Matches(candidates[i], target)
  BY DEF Matching
<1>2. matching \subseteq Nat
  BY <1>1, ListShape
<1> HIDE DEF matching
<1>3. \E i \in matching : \A j \in matching : i <= j
  BY <1>2, LeastPosition DEF matching
<1>4. SelectByTarget(candidates, target)
        = candidates[CHOOSE i \in matching : \A j \in matching : i <= j]
  BY DEF SelectByTarget, matching
<1>5. QED
  BY <1>1, <1>3, <1>4

LEMMA DefaultListed ==
  ASSUME NEW candidates \in Lists
  PROVE  \E i \in DOMAIN candidates :
           DefaultOf(candidates) = candidates[i] /\ candidates[i].default
BY ListShape DEF DefaultOf

LEMMA DirectBegun ==
  ASSUME FailoverInv, stage = "idle", NEW how \in {"complete", "stream"},
         NEW model \in Models \cup {None}, NEW candidates \in Lists,
         NEW target \in Targets, model = target.model \/ model = None,
         LET direct == DirectTarget(candidates, target)
         IN Begin(how, model, <<direct>> \o candidates, direct)
  PROVE  FailoverInv'
<1> DEFINE direct == DirectTarget(candidates, target)
           longer == <<direct>> \o candidates
<1>1. /\ candidates \in Seq(Candidates) /\ Len(candidates) \in 1..MaxCandidates
      /\ \A j \in DOMAIN candidates : candidates[j].key = j
      /\ \E j \in DOMAIN candidates : candidates[j].default
  BY ListShape
<1>2. DefaultOf(candidates) \in Candidates
  BY <1>1, DefaultListed
<1>3. direct \in Candidates /\ direct.key = 0
      /\ (model # None => direct.model = model)
  BY <1>2 DEF DirectTarget, Candidates, Targets
<1> HIDE DEF direct
<1>4. /\ longer \in Seq(Candidates) /\ Len(longer) = Len(candidates) + 1
      /\ longer[1] = direct
      /\ \A i \in 2..Len(longer) : longer[i] = candidates[i - 1] /\ i - 1 \in DOMAIN candidates
  <2>1. <<direct>> \in Seq(Candidates) /\ Len(<<direct>>) = 1 /\ <<direct>>[1] = direct
    BY <1>3
  <2>2. QED
    BY <1>1, <2>1, ConcatProperties
<1> HIDE DEF longer
<1>5. \A i \in DOMAIN longer : longer[i].key = i - 1
  <2> SUFFICES ASSUME NEW i \in DOMAIN longer PROVE longer[i].key = i - 1
    OBVIOUS
  <2>1. CASE i = 1
    BY <1>3, <1>4, <2>1
  <2>2. CASE i # 1
    BY <1>1, <1>4, <2>2
  <2>3. QED
    BY <2>1, <2>2
<1>6. DOMAIN longer = 1..Len(longer) /\ Len(longer) \in Nat
  BY <1>4
<1>7. KeysDiffer(longer)
  BY <1>5, <1>6 DEF KeysDiffer
<1>8. HasNet(longer)
  <2>1. PICK j \in DOMAIN candidates : candidates[j].default
    BY <1>1
  <2>2. j + 1 \in 2..Len(longer) /\ (j + 1) - 1 = j /\ j # 0
    BY <1>1, <1>4
  <2>3. longer[j + 1].default /\ longer[j + 1].key # 0 /\ j + 1 \in DOMAIN longer
    BY <1>4, <1>5, <1>6, <2>1, <2>2
  <2>4. QED
    BY <2>3, Zenon DEF HasNet
<1>9. 1 \in DOMAIN longer /\ Len(longer) <= MaxCandidates + 1
  BY <1>1, <1>4, <1>6
<1>10. Begin(how, model, longer, direct)
  BY DEF direct, longer
<1>11. QED
  BY <1>3, <1>4, <1>7, <1>8, <1>9, <1>10, Begun

LEMMA SelectStep == ASSUME FailoverInv, Select PROVE FailoverInv'
<1>1. stage = "idle"
  BY DEF Select
<1>2. PICK how \in {"complete", "stream"}, candidates \in Lists :
        \/ SelectFreely(how, candidates)
        \/ \E target \in Targets, model \in Models \cup {None} :
             SelectTarget(how, candidates, target, model)
  BY DEF Select
<1>3. CASE SelectFreely(how, candidates)
  <2>1. PICK selected \in {Head(candidates), DefaultOf(candidates)} \cup
          {SelectByTarget(candidates, target) : target \in
             {t \in Targets : Matching(candidates, t) # {}}} :
               Begin(how, None, candidates, selected)
    BY <1>3 DEF SelectFreely
  <2>2. \E i \in DOMAIN candidates : selected = candidates[i]
    <3>1. CASE selected = Head(candidates)
      BY <3>1, ListShape
    <3>2. CASE selected = DefaultOf(candidates)
      BY <3>2, DefaultListed
    <3>3. CASE \E t \in Targets : Matching(candidates, t) # {}
                 /\ selected = SelectByTarget(candidates, t)
      BY <3>3, TargetListed
    <3>4. QED
      BY <2>1, <3>1, <3>2, <3>3
  <2>3. QED
    BY <1>1, <2>1, <2>2, ListedBegun
<1>4. ASSUME NEW target \in Targets, NEW model \in Models \cup {None},
             SelectTarget(how, candidates, target, model)
      PROVE  FailoverInv'
  <2>1. /\ model = target.model \/ model = None
        /\ model # None => target.provider = None
    BY <1>4 DEF SelectTarget
  <2>2. CASE Matching(candidates, target) # {}
    <3>1. Begin(how, model, candidates, SelectByTarget(candidates, target))
      BY <1>4, <2>2 DEF SelectTarget
    <3>2. PICK i \in DOMAIN candidates :
            /\ SelectByTarget(candidates, target) = candidates[i]
            /\ Matches(candidates[i], target)
      BY <2>2, TargetListed
    <3>3. model # None => candidates[i].model = model
      BY <2>1, <3>2 DEF Matches
    <3>4. QED
      BY <1>1, <3>1, <3>2, <3>3, ListedBegun
  <2>3. CASE Matching(candidates, target) = {}
    BY <1>1, <1>4, <2>1, <2>3, DirectBegun DEF SelectTarget
  <2>4. QED
    BY <2>2, <2>3
<1>5. QED
  BY <1>2, <1>3, <1>4

-----------------------------------------------------------------------------
(* The other steps.                                                        *)

LEMMA InitSound == FailoverInit => FailoverInv
<1> SUFFICES ASSUME FailoverInit PROVE FailoverInv
  OBVIOUS
<1> USE DEF FailoverInit
<1>0. Resting /\ ListSound /\ FirstAlone
  BY DEF Resting, ListSound, FirstAlone, KeysDiffer
<1>1. FailoverTypeOK
  <2>1. <<>> \in Seq(Candidates) /\ Len(<<>>) = 0
        /\ <<>> \in Seq([by: 0..MaxCandidates, success: BOOLEAN])
    BY EmptySeq
  <2>2. Len(<<>>) <= MaxCandidates + 1 /\ Len(<<>>) <= 4 /\ Len(<<>>) <= 3
    BY <2>1
  <2>3. QED
    BY <2>1, <2>2, Zenon DEF FailoverTypeOK
<1>2. LineSound /\ NetSound /\ SpokeSound
  BY DEF LineSound, NetSound, SpokeSound, ReplacedBeforeToken
<1>3. AuditTellsOutcome
  BY DEF AuditTellsOutcome
<1>4. QED
  BY <1>0, <1>1, <1>2, <1>3 DEF FailoverInv

(* What the selected and the current candidate are.                        *)
LEMMA Executing ==
  ASSUME FailoverInv, stage # "idle"
  PROVE  /\ Len(tried) \in 1..4 /\ Len(chain) \in Nat
         /\ Selected \in Candidates /\ Current \in Candidates
         /\ Current = tried[Len(tried)]
         /\ Line \in Seq(Candidates) /\ Len(Line) = Len(tried) + Len(chain)
         /\ Line[1] = Selected
         /\ \A i \in 1..Len(tried) : Line[i] = tried[i]
<1>1. tried \in Seq(Candidates) /\ chain \in Seq(Candidates) /\ Len(tried) \in 1..4
  <2>1. tried \in Seq(Candidates) /\ chain \in Seq(Candidates) /\ Len(tried) <= 4
    BY DEF FailoverInv, FailoverTypeOK
  <2>2. Len(tried) > 0
    BY DEF FailoverInv, ListSound
  <2>3. Len(tried) \in Nat
    BY <2>1, LenProperties
  <2>4. \A n \in Nat : n <= 4 /\ n > 0 => n \in 1..4
    OBVIOUS
  <2>5. QED
    BY <2>1, <2>2, <2>3, <2>4, Zenon
<1>2. Current = tried[Len(tried)]
  BY DEF Current, Last
<1>3. Selected \in Candidates /\ Current \in Candidates
  BY <1>1, <1>2 DEF Selected
<1>4. Line \in Seq(Candidates) /\ Len(Line) = Len(tried) + Len(chain)
      /\ \A i \in 1..Len(tried) : Line[i] = tried[i]
  BY <1>1, ConcatProperties DEF Line
<1>5. Len(chain) \in Nat
  BY <1>1
<1>6. QED
  BY <1>1, <1>2, <1>3, <1>4, <1>5 DEF Selected

(* A step that leaves the candidates alone.                                *)
LEMMA SameCandidates ==
  ASSUME FailoverInv, UNCHANGED <<requested, list, tried, chain, failure, kind>>,
         stage # "idle",
         stage' \in {stage, "returned", "left"}
  PROVE  /\ Resting' /\ ListSound' /\ FirstAlone' /\ LineSound' /\ NetSound'
         /\ Selected' = Selected /\ Current' = Current /\ stage' # "idle"
<1>1. stage' # "idle" /\ Selected' = Selected /\ Current' = Current /\ Line' = Line
  BY DEF Selected, Current, Line
<1>2. Resting' /\ FirstAlone'
  BY <1>1 DEF Resting, FirstAlone, FailoverInv
<1>3. ListSound'
  BY <1>1 DEF ListSound, KeysDiffer, HasNet, FailoverInv
<1>4. LineSound'
  <2>1. Pinned(Line) /\ KeysDiffer(Line) /\ FollowsSuit(Line, failure) /\ Len(Line) <= 4
    BY DEF FailoverInv, LineSound
  <2>2. QED
    BY <1>1, <2>1 DEF LineSound, KeysDiffer, Pinned, FollowsSuit
<1>5. NetSound'
  <2>1. stage' \in {"fallback", "threw"} => stage' = stage
    OBVIOUS
  <2>2. NetSound
    BY DEF FailoverInv
  <2>3. QED
    BY <1>1, <2>1, <2>2 DEF NetSound, HasNet
<1>6. QED
  BY <1>1, <1>2, <1>3, <1>4, <1>5

LEMMA AnnounceStep == ASSUME FailoverInv, Announce PROVE FailoverInv'
<1>1. stage # "idle"
  BY DEF Announce, Active
<1>2. /\ Resting' /\ ListSound' /\ FirstAlone' /\ LineSound' /\ NetSound'
      /\ Selected' = Selected /\ Current' = Current
  BY <1>1, SameCandidates DEF Announce
<1>3. FailoverTypeOK'
  BY DEF FailoverInv, FailoverTypeOK, Announce
<1>4. SpokeSound'
  BY <1>2 DEF FailoverInv, SpokeSound, ReplacedBeforeToken, Announce
<1>5. AuditTellsOutcome'
  BY <1>2 DEF FailoverInv, AuditTellsOutcome, Announce
<1>6. QED
  BY <1>2, <1>3, <1>4, <1>5 DEF FailoverInv

LEMMA TokenStep == ASSUME FailoverInv, Token PROVE FailoverInv'
<1>1. stage # "idle"
  BY DEF Token, Active
<1>2. /\ Resting' /\ ListSound' /\ FirstAlone' /\ LineSound' /\ NetSound'
      /\ Selected' = Selected /\ Current' = Current
  BY <1>1, SameCandidates DEF Token
<1>3. FailoverTypeOK'
  <2>1. Current.key \in 0..MaxCandidates
    BY <1>1, Executing DEF Candidates
  <2>2. QED
    BY <2>1 DEF FailoverInv, FailoverTypeOK, Token
<1>4. SpokeSound'
  <2>1. Len(tried) > 1 => Current.key # Selected.key
    <3> SUFFICES ASSUME Len(tried) > 1 PROVE Current.key # Selected.key
      OBVIOUS
    <3>1. /\ Line[Len(tried)] = Current /\ Line[1] = Selected
          /\ Len(tried) \in DOMAIN Line /\ 1 \in DOMAIN Line
      BY <1>1, Executing
    <3>2. KeysDiffer(Line)
      BY <1>1 DEF FailoverInv, LineSound
    <3>3. QED
      BY <3>1, <3>2 DEF KeysDiffer
  <2>2. QED
    BY <1>2, <2>1 DEF FailoverInv, SpokeSound, ReplacedBeforeToken, Token
<1>5. AuditTellsOutcome'
  BY <1>2 DEF FailoverInv, AuditTellsOutcome, Token
<1>6. QED
  BY <1>2, <1>3, <1>4, <1>5 DEF FailoverInv

LEMMA LeaveStep == ASSUME FailoverInv, ClientLeaves PROVE FailoverInv'
<1>1. stage # "idle" /\ stage \in {"first", "fallback"}
  BY DEF ClientLeaves, Active
<1>2. /\ Resting' /\ ListSound' /\ FirstAlone' /\ LineSound' /\ NetSound'
      /\ Selected' = Selected /\ Current' = Current
  BY <1>1, SameCandidates DEF ClientLeaves
<1>3. FailoverTypeOK'
  BY DEF FailoverInv, FailoverTypeOK, ClientLeaves
<1>4. SpokeSound'
  BY <1>2 DEF FailoverInv, SpokeSound, ReplacedBeforeToken, ClientLeaves
<1>5. AuditTellsOutcome'
  BY <1>1, <1>2 DEF FailoverInv, AuditTellsOutcome, ClientLeaves
<1>6. QED
  BY <1>2, <1>3, <1>4, <1>5 DEF FailoverInv

LEMMA AnswerStep == ASSUME FailoverInv, Answers PROVE FailoverInv'
<1>1. stage # "idle" /\ stage \in {"first", "fallback"}
  BY DEF Answers, Active
<1>2. /\ Resting' /\ ListSound' /\ FirstAlone' /\ LineSound' /\ NetSound'
      /\ Selected' = Selected /\ Current' = Current
  BY <1>1, SameCandidates DEF Answers
<1>3. FailoverTypeOK'
  <2>1. Current.key \in 0..MaxCandidates
    BY <1>1, Executing DEF Candidates
  <2>2. audits \in Seq([by: 0..MaxCandidates, success: BOOLEAN])
    BY DEF FailoverInv, FailoverTypeOK
  <2>3. audits' \in Seq([by: 0..MaxCandidates, success: BOOLEAN])
    BY <2>1, <2>2 DEF Answers, Metered
  <2>4. QED
    BY <2>3 DEF FailoverInv, FailoverTypeOK, Answers
<1>4. SpokeSound'
  <2>1. SpokeSound /\ kind' = kind /\ spoke' = spoke /\ tried' = tried
        /\ started' = (kind = "stream") /\ kind \in {"complete", "stream"}
    BY DEF FailoverInv, FailoverTypeOK, Answers
  <2>2. CASE kind = "complete"
    BY <1>2, <2>1, <2>2 DEF SpokeSound, ReplacedBeforeToken
  <2>3. CASE kind = "stream"
    BY <1>2, <2>1, <2>3 DEF SpokeSound, ReplacedBeforeToken
  <2>4. QED
    BY <2>1, <2>2, <2>3
<1>5. AuditTellsOutcome'
  <2>1. ~unwritten => audits = <<>>
    BY <1>1 DEF FailoverInv, AuditTellsOutcome
  <2>2. audits' = Append(audits, [by |-> Current.key, success |-> TRUE])
        /\ stage' = "returned" /\ unwritten' = unwritten
    BY DEF Answers, Metered
  <2>3. \A x : Append(<<>>, x) = <<x>>
    OBVIOUS
  <2>4. ~unwritten => audits' = <<[by |-> Current.key, success |-> TRUE]>>
    BY <2>1, <2>2, <2>3
  <2>5. QED
    BY <1>2, <2>2, <2>4 DEF AuditTellsOutcome
<1>6. QED
  BY <1>2, <1>3, <1>4, <1>5 DEF FailoverInv

(* A failure: the next of the chain takes over, or the request ends.       *)
LEMMA FailedStep ==
  ASSUME FailoverInv, Active, NEW how \in Failures, NEW announced \in BOOLEAN,
         NEW entries \in Seq([by: 0..MaxCandidates, success: BOOLEAN]),
         Failed(how, announced, entries),
         unwritten' \in BOOLEAN, ~unwritten' => entries = <<>>,
         MayFailover(announced) /\ Len(tried) = 1 => Selected.key \notin spoke
  PROVE  FailoverInv'
<1> DEFINE links == FailoverChain(Selected, how)
           next  == IF stage = "fallback" THEN chain
                    ELSE IF MayFailover(announced) THEN links ELSE <<>>
           line  == tried \o next
<1>1. /\ stage \in {"first", "fallback"} /\ stage # "idle"
      /\ list \in Seq(Candidates) /\ KeysDiffer(list) /\ HasNet(list)
      /\ tried \in Seq(Candidates) /\ chain \in Seq(Candidates)
      /\ kind \in {"complete", "stream"} /\ requested \in Models \cup {None}
      /\ failure \in Failures \cup {None}
      /\ spoke \subseteq 0..MaxCandidates /\ Len(list) <= MaxCandidates + 1
  BY DEF Active, FailoverInv, FailoverTypeOK, ListSound
<1>2. /\ Len(tried) \in 1..4 /\ Selected \in Candidates /\ Current \in Candidates
      /\ Current = tried[Len(tried)] /\ Selected = tried[1] /\ Line[1] = Selected
      /\ Line \in Seq(Candidates) /\ Len(Line) = Len(tried) + Len(chain)
  BY <1>1, Executing DEF Selected
<1>3. /\ \E i \in DOMAIN list : list[i] = Selected
      /\ \A i \in DOMAIN list : list[i].key = 0 => Selected.key = 0
  BY <1>1 DEF FailoverInv, ListSound
<1>4. /\ KeysDiffer(Line) /\ Pinned(Line) /\ FollowsSuit(Line, failure) /\ Len(Line) <= 4
  BY <1>1 DEF FailoverInv, LineSound
<1>5. stage = "first" => /\ Len(tried) = 1 /\ chain = <<>> /\ failure = None
                         /\ tried = <<Selected>> /\ Current = Selected
  <2>1. stage = "first" => Len(tried) = 1 /\ chain = <<>> /\ failure = None
    BY DEF FailoverInv, FirstAlone
  <2>2. Len(tried) = 1 => tried = <<tried[1]>>
    BY <1>1
  <2>3. QED
    BY <1>2, <2>1, <2>2
<1>6. Failures \cup {None} = {"auth", "client", "rate_limit", "payment", "context_window",
                              "retryable", None}
  BY DEF Failures
(* The line from here on, and what it is good for.                         *)
<1>7. /\ next \in Seq(Candidates) /\ Len(next) <= 3 /\ line \in Seq(Candidates)
      /\ Len(line) = Len(tried) + Len(next) /\ line[1] = Selected
      /\ Len(line) <= 4 /\ KeysDiffer(line) /\ Pinned(line)
      /\ FollowsSuit(line, failure')
      /\ (kind = "complete" /\ requested = None /\ failure' \in {"rate_limit", "retryable"})
            => HasNet(line)
  <2>1. CASE stage = "fallback"
    <3>1. next = chain /\ line = Line /\ failure' = failure
      BY <2>1 DEF Line, Failed
    <3>2. Len(chain) <= 3
      BY DEF FailoverInv, FailoverTypeOK
    <3>3. (kind = "complete" /\ requested = None /\ failure \in {"rate_limit", "retryable"})
            => HasNet(Line)
      BY <2>1 DEF FailoverInv, NetSound
    <3> HIDE DEF next, line
    <3>4. QED
      BY <1>1, <1>2, <1>4, <3>1, <3>2, <3>3
  <2>2. CASE stage = "first" /\ MayFailover(announced)
    <3>1. next = links /\ line = <<Selected>> \o links /\ failure' = how
      BY <1>5, <2>2 DEF Failed
    <3>2. Pinned(<<Selected>>)
      <4>1. Line[1].model = requested \/ requested = None
        BY <1>2, <1>4 DEF Pinned
      <4>2. QED
        BY <1>2, <4>1 DEF Pinned
    <3> HIDE DEF next, line
    <3>3. PICK selected \in Candidates : selected = Selected
      BY <1>2
    <3>4. /\ links \in Seq(Candidates) /\ Len(links) <= 3
          /\ line \in Seq(Candidates) /\ Len(line) = Len(links) + 1 /\ line[1] = selected
          /\ KeysDiffer(line) /\ Pinned(line) /\ FollowsSuit(line, how)
          /\ requested = None /\ how \in {"rate_limit", "retryable"} => HasNet(line)
      <4> HIDE DEF links
      <4>1. links = FailoverChain(selected, how) /\ line = <<selected>> \o links
        BY <3>1, <3>3 DEF links
      <4>2. QED
        <5> HIDE DEF line
        <5>1. \E i \in DOMAIN list : list[i] = selected
          BY <1>3, <3>3
        <5>2. \A i \in DOMAIN list : list[i].key = 0 => selected.key = 0
          BY <1>3, <3>3
        <5>3. Pinned(<<selected>>)
          BY <3>2, <3>3
        <5>4. list \in Seq(Candidates) /\ KeysDiffer(list) /\ HasNet(list)
          BY <1>1
        <5>5. PICK c, l : c = links /\ l = line
          OBVIOUS
        <5>6. c = FailoverChain(selected, how) /\ l = <<selected>> \o c
          BY <4>1, <5>5
        <5>7. GoodLine(selected, how, c, l)
          BY <5>1, <5>2, <5>3, <5>4, <5>6, NewLine
        <5>8. QED
          BY <5>5, <5>7 DEF GoodLine
    <3>5. Len(links) \in Nat
      BY <3>4, LenProperties
    <3> HIDE DEF links
    <3>6. Len(line) = Len(tried) + Len(next) /\ Len(line) <= 4
      <4>1. \A n \in Nat : n <= 3 => n + 1 = 1 + n /\ n + 1 <= 4
        OBVIOUS
      <4>2. Len(links) + 1 = 1 + Len(links) /\ Len(links) + 1 <= 4
        BY <3>4, <3>5, <4>1, Zenon
      <4>3. Len(tried) = 1 /\ next = links
        BY <1>5, <2>2, <3>1
      <4>4. QED
        BY <3>4, <4>2, <4>3, Zenon
    <3>7. QED
      BY <3>1, <3>3, <3>4, <3>6
  <2>3. CASE stage = "first" /\ ~MayFailover(announced)
    <3>0. next = <<>> /\ kind # "complete"
      BY <2>3 DEF MayFailover
    <3>1. next = <<>> /\ line = tried /\ Line = tried /\ kind # "complete"
      BY <1>1, <1>5, <2>3, <3>0, ConcatEmptySeq DEF Line
    <3>2. Len(tried) = 1
      BY <1>5, <2>3
    <3>3. FollowsSuit(Line, failure')
      BY <3>1, <3>2 DEF FollowsSuit
    <3> HIDE DEF next, line
    <3>4. QED
      BY <1>1, <1>2, <1>4, <3>1, <3>2, <3>3
  <2>4. QED
    BY <1>1, <2>1, <2>2, <2>3
<1> HIDE DEF line
<1>8. \/ next # <<>> /\ FallBack(next, entries)
      \/ next = <<>> /\ GiveUp(announced, entries)
  BY <1>1, <1>5 DEF Failed
<1> HIDE DEF next
<1>9. UNCHANGED <<kind, requested, list, spoke>>
      /\ failure' \in Failures \cup {None}
  BY <1>1 DEF Failed
<1>10. kind = "complete" => spoke = {}
  BY DEF FailoverInv, SpokeSound
<1>11. CASE next # <<>> /\ FallBack(next, entries)
  <2>1. /\ tried' = Append(tried, Head(next)) /\ chain' = Tail(next)
        /\ stage' = "fallback" /\ started' = FALSE /\ audits' = entries
    BY <1>11 DEF FallBack
  <2>2. tried' \in Seq(Candidates) /\ chain' \in Seq(Candidates) /\ Line' = line
    BY <1>1, <1>7, <1>11, <2>1, LineKept DEF Line, line
  <2>3. /\ Len(tried') = Len(tried) + 1 /\ Len(chain') = Len(next) - 1 /\ Len(next) \in Nat
        /\ Len(next) > 0
    BY <1>1, <1>7, <1>11, <2>1
  <2>4. tried'[1] = tried[1]
    BY <1>1, <1>2, <2>1
  <2>5. Selected' = Selected
    BY <2>4 DEF Selected
  <2>6. Len(tried') <= 4 /\ Len(chain') <= 3 /\ Len(tried') > 1
    BY <1>2, <1>7, <2>3
  <2>7. FailoverTypeOK'
    <3>1. QED
      BY <1>1, <1>9, <2>1, <2>2, <2>6, Zenon DEF FailoverTypeOK
  <2>8. ListSound'
    <3>1. Len(tried') > 0
      BY <1>2, <2>3
    <3>2. QED
      BY <1>1, <1>3, <1>9, <2>5, <3>1, Zenon DEF ListSound, KeysDiffer, HasNet
  <2>9. LineSound'
    BY <1>7, <1>9, <2>2 DEF LineSound, KeysDiffer, Pinned, FollowsSuit
  <2>10. NetSound'
    BY <1>7, <1>9, <2>1, <2>2 DEF NetSound, HasNet
  <2>11. Selected.key \notin spoke
    <3>1. CASE stage = "fallback"
      BY <3>1 DEF FailoverInv, FirstAlone, SpokeSound, ReplacedBeforeToken
    <3>2. CASE stage = "first"
      BY <1>5, <1>11, <3>2 DEF next
    <3>3. QED
      BY <1>1, <3>1, <3>2
  <2>12. SpokeSound'
    BY <1>9, <1>10, <2>5, <2>6, <2>11 DEF SpokeSound, ReplacedBeforeToken
  <2>13. Resting' /\ FirstAlone' /\ AuditTellsOutcome'
    BY <2>1, <2>6 DEF Resting, FirstAlone, AuditTellsOutcome
  <2>14. QED
    BY <2>7, <2>8, <2>9, <2>10, <2>12, <2>13 DEF FailoverInv
<1>12. CASE next = <<>> /\ GiveUp(announced, entries)
  <2>1. /\ stage' = "threw" /\ started' = announced /\ UNCHANGED <<tried, chain>>
        /\ audits' = Append(entries, [by |-> Selected.key, success |-> FALSE])
    BY <1>12 DEF GiveUp
  <2>2. chain = <<>>
    BY <1>1, <1>5, <1>12 DEF next
  <2>3. line = tried /\ Line' = line
    BY <1>1, <1>12, <2>1, <2>2 DEF line, Line
  <2>4. Selected' = Selected
    BY <2>1 DEF Selected
  <2>5. audits' \in Seq([by: 0..MaxCandidates, success: BOOLEAN])
    <3>1. Selected.key \in 0..MaxCandidates
      BY <1>2 DEF Candidates
    <3>2. QED
      BY <2>1, <3>1
  <2>6. FailoverTypeOK'
    <3>1. Len(tried) <= 4 /\ Len(chain) <= 3
      BY DEF FailoverInv, FailoverTypeOK
    <3>2. QED
      BY <1>1, <1>9, <2>1, <2>5, <3>1 DEF FailoverTypeOK
  <2>7. ListSound'
    <3>1. UNCHANGED list /\ Len(tried') > 0
      BY <1>2, <1>9, <2>1
    <3>2. QED
      BY <1>1, <1>3, <2>4, <3>1, Zenon DEF ListSound, KeysDiffer, HasNet
  <2>8. LineSound'
    BY <1>7, <1>9, <2>3 DEF LineSound, KeysDiffer, Pinned, FollowsSuit
  <2>9. NetSound'
    BY <1>7, <1>9, <2>1, <2>2, <2>3 DEF NetSound, HasNet
  <2>10. SpokeSound'
    <3>1. ReplacedBeforeToken
      BY DEF FailoverInv, SpokeSound
    <3>2. Len(tried) = 1 /\ ~announced => Selected.key \notin spoke
      BY DEF MayFailover
    <3>3. QED
      BY <1>9, <1>10, <2>1, <2>4, <3>1, <3>2 DEF SpokeSound, ReplacedBeforeToken
  <2>11. AuditTellsOutcome'
    <3>1. \A x : Append(<<>>, x) = <<x>>
      OBVIOUS
    <3>2. ~unwritten' => audits' = <<[by |-> Selected.key, success |-> FALSE]>>
      BY <2>1, <3>1
    <3>3. QED
      BY <2>1, <2>4, <3>2 DEF AuditTellsOutcome
  <2>12. Resting' /\ FirstAlone'
    BY <2>1 DEF Resting, FirstAlone
  <2>13. QED
    BY <2>6, <2>7, <2>8, <2>9, <2>10, <2>11, <2>12 DEF FailoverInv
<1>13. QED
  BY <1>8, <1>11, <1>12

-----------------------------------------------------------------------------
(* The theorems.                                                           *)

LEMMA NextStep == ASSUME FailoverInv, FailoverNext PROVE FailoverInv'
<1>1. ASSUME NEW how \in Failures, CandidateFails(how) PROVE FailoverInv'
  <2>1. started \in BOOLEAN /\ unwritten \in BOOLEAN
        /\ audits \in Seq([by: 0..MaxCandidates, success: BOOLEAN])
    BY DEF FailoverInv, FailoverTypeOK
  <2>2. Active /\ unwritten' = unwritten /\ Failed(how, started, audits)
    BY <1>1 DEF CandidateFails
  <2>3. ~unwritten => audits = <<>>
    BY <2>2 DEF FailoverInv, AuditTellsOutcome, Active
  <2>4. MayFailover(started) /\ Len(tried) = 1 => Selected.key \notin spoke
    BY DEF FailoverInv, SpokeSound, MayFailover
  <2>5. PICK announced \in BOOLEAN,
             entries \in Seq([by: 0..MaxCandidates, success: BOOLEAN]) :
          announced = started /\ entries = audits
    BY <2>1
  <2>6. QED
    BY <2>1, <2>2, <2>3, <2>4, <2>5, FailedStep
<1>2. CASE AnswerUnwritten
  <2>1. Active /\ unwritten' = TRUE
        /\ Failed("retryable", kind = "stream", Metered(Current, TRUE))
    BY <1>2 DEF AnswerUnwritten
  <2>2. Metered(Current, TRUE) \in Seq([by: 0..MaxCandidates, success: BOOLEAN])
    <3>1. Current.key \in 0..MaxCandidates
      BY <2>1, Executing DEF Candidates, Active
    <3>2. QED
      BY <3>1 DEF FailoverInv, FailoverTypeOK, Metered
  <2>3. MayFailover(kind = "stream") => Selected.key \notin spoke
    BY DEF FailoverInv, FailoverTypeOK, SpokeSound, MayFailover
  <2>4. PICK announced \in BOOLEAN,
             entries \in Seq([by: 0..MaxCandidates, success: BOOLEAN]) :
          announced = (kind = "stream") /\ entries = Metered(Current, TRUE)
    BY <2>2
  <2>5. "retryable" \in Failures
    BY DEF Failures
  <2>6. Failed("retryable", announced, entries)
    BY <2>1, <2>4
  <2>7. MayFailover(announced) => Selected.key \notin spoke
    BY <2>3, <2>4
  <2>8. QED
    BY <2>1, <2>5, <2>6, <2>7, FailedStep
<1>3. QED
  BY <1>1, <1>2, SelectStep, AnnounceStep, TokenStep, AnswerStep, LeaveStep DEF FailoverNext

LEMMA StutterStep == ASSUME FailoverInv, UNCHANGED failoverVars PROVE FailoverInv'
<1>1. Selected' = Selected /\ Current' = Current /\ Line' = Line
  BY DEF failoverVars, Selected, Current, Line
<1>2. FailoverTypeOK' /\ Resting' /\ FirstAlone'
  BY DEF failoverVars, FailoverInv, FailoverTypeOK, Resting, FirstAlone
<1>3. ListSound' /\ LineSound'
  <2>1. ListSound'
    BY <1>1 DEF failoverVars, FailoverInv, ListSound, KeysDiffer, HasNet
  <2>2. LineSound'
    BY <1>1 DEF failoverVars, FailoverInv, LineSound, KeysDiffer, Pinned, FollowsSuit
  <2>3. QED
    BY <2>1, <2>2
<1>4. NetSound' /\ SpokeSound' /\ AuditTellsOutcome'
  <2>1. NetSound'
    BY <1>1 DEF failoverVars, FailoverInv, NetSound, HasNet
  <2>2. SpokeSound'
    BY <1>1 DEF failoverVars, FailoverInv, SpokeSound, ReplacedBeforeToken
  <2>3. AuditTellsOutcome'
    BY <1>1 DEF failoverVars, FailoverInv, AuditTellsOutcome
  <2>4. QED
    BY <2>1, <2>2, <2>3
<1>5. QED
  BY <1>2, <1>3, <1>4 DEF FailoverInv

LEMMA Invariance == FailoverSpec => []FailoverInv
<1>1. FailoverInit => FailoverInv
  BY InitSound
<1>2. FailoverInv /\ [FailoverNext]_failoverVars => FailoverInv'
  BY NextStep, StutterStep
<1>3. QED
  BY <1>1, <1>2, PTL DEF FailoverSpec

(* The variables keep their types, and a chain its four candidates, for    *)
(* any number of candidates.                                               *)
THEOREM RoutingTypeCorrect == FailoverSpec => []FailoverTypeOK
<1>1. FailoverInv => FailoverTypeOK
  BY DEF FailoverInv
<1>2. QED
  BY <1>1, Invariance, PTL

(* streamComplete and complete serve a pinned request only by its model.   *)
THEOREM PinCorrect == FailoverSpec => []PinKept
<1>1. FailoverInv => PinKept
  <2> SUFFICES ASSUME FailoverInv, requested # None, NEW i \in DOMAIN tried
               PROVE  tried[i].model = requested
    BY DEF PinKept
  <2>1. tried \in Seq(Candidates) /\ DOMAIN tried = 1..Len(tried)
    BY DEF FailoverInv, FailoverTypeOK
  <2>2. stage # "idle"
    BY <2>1 DEF FailoverInv, Resting
  <2>3. i \in DOMAIN Line /\ Line[i] = tried[i]
    BY <2>1, <2>2, Executing
  <2>4. QED
    BY <2>2, <2>3 DEF FailoverInv, LineSound, Pinned
<1>2. QED
  BY <1>1, Invariance, PTL

(* Whom orderFailoverCandidates puts in the chain, for any list.           *)
THEOREM ChainCorrect == FailoverSpec => []ChainSound
<1>1. FailoverInv => ChainSound
  <2> SUFFICES ASSUME FailoverInv PROVE ChainSound
    OBVIOUS
  <2>1. CASE stage = "idle"
    <3>1. tried = <<>> /\ Len(tried) = 0 /\ DOMAIN tried = {}
      BY <2>1 DEF FailoverInv, Resting
    <3>2. QED
      BY <2>1, <3>1 DEF ChainSound, NoCandidateTwice, FollowersSuitFailure,
                        DefaultIsTheNet, Replaced
  <2>2. CASE stage # "idle"
    <3>1. /\ Len(tried) \in 1..4 /\ Len(chain) \in Nat /\ DOMAIN tried = 1..Len(tried)
          /\ Line[1] = Selected /\ \A i \in 1..Len(tried) : Line[i] = tried[i]
          /\ DOMAIN Line = 1..(Len(tried) + Len(chain))
          /\ Len(Line) = Len(tried) + Len(chain)
      BY <2>2, Executing DEF FailoverInv, FailoverTypeOK
    <3>2. KeysDiffer(Line) /\ FollowsSuit(Line, failure) /\ failure \in Failures \cup {None}
      BY <2>2 DEF FailoverInv, LineSound, FailoverTypeOK
    <3>3. NoCandidateTwice
      BY <3>1, <3>2 DEF NoCandidateTwice, KeysDiffer
    <3>4. \A i \in 2..Len(tried) :
            /\ Suits(tried[i], Selected, failure)
            /\ failure = "rate_limit" /\ SameModel(tried[i], Selected) /\ ~tried[i].default
                 => \A j \in 2..(i - 1) : SameModel(tried[j], Selected)
      BY <3>1, <3>2 DEF FollowsSuit
    <3>5. FollowersSuitFailure
      BY <3>1, <3>2, <3>4 DEF FollowersSuitFailure, Replaced, Suits
    <3>6. DefaultIsTheNet
      <4> SUFFICES ASSUME stage = "threw", kind = "complete", requested = None,
                          failure \in {"rate_limit", "retryable"}
                   PROVE  \E i \in DOMAIN tried : tried[i].default /\ tried[i].key # 0
        BY DEF DefaultIsTheNet
      <4>1. chain = <<>> /\ HasNet(Line)
        BY DEF FailoverInv, NetSound
      <4>2. Len(chain) = 0 /\ DOMAIN Line = DOMAIN tried
        BY <3>1, <4>1
      <4>3. QED
        BY <3>1, <4>1, <4>2 DEF HasNet
    <3>7. QED
      BY <3>3, <3>5, <3>6 DEF ChainSound
  <2>3. QED
    BY <2>1, <2>2
<1>2. QED
  BY <1>1, Invariance, PTL

(* A stream that gave tokens of the selected candidate does not give it up. *)
THEOREM TokenCorrect == FailoverSpec => []ReplacedBeforeToken
<1>1. FailoverInv => ReplacedBeforeToken
  BY DEF FailoverInv, SpokeSound
<1>2. QED
  BY <1>1, Invariance, PTL

(* recordAudit and wrapResult meter each request as its client saw it.     *)
THEOREM AuditCorrect == FailoverSpec => []AuditTellsOutcome
<1>1. FailoverInv => AuditTellsOutcome
  BY DEF FailoverInv
<1>2. QED
  BY <1>1, Invariance, PTL
==============================================================================

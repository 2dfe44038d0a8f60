-------------------------- MODULE MediaJobsProofs --------------------------
(***************************************************************************)
(* Proofs about MediaJobs, for any number of jobs, any providers with any  *)
(* limits and any bounds of the store.  The slots are counted by finite-set *)
(* cardinality; the truth told to hosts rests on the agreement of records  *)
(* with runs; retention rests on the order of creation being an injection  *)
(* of the stored jobs into an interval.                                    *)
(***************************************************************************)
EXTENDS MediaJobs, FiniteSetTheorems, TLAPS

USE JobsAssumption, LimitsAssumption

(* Every step of the store, the runs and the hosts keeps the types.        *)
LEMMA TypeStep == TypeOK /\ [Next]_vars => TypeOK'
<1> SUFFICES ASSUME TypeOK, [Next]_vars PROVE TypeOK'
  OBVIOUS
<1>0. /\ 0 \in 0..TTL + 1 /\ 0 \in 0..MaxPolls - 1
      /\ \A n \in 0..TTL + 1 : n <= TTL => n + 1 \in 0..TTL + 1
      /\ \A n \in 0..MaxPolls - 1 : n + 1 < MaxPolls => n + 1 \in 0..MaxPolls - 1
  OBVIOUS
<1>1. ASSUME NEW j \in Jobs, NEW p \in Providers, Start(j, p)
      PROVE  TypeOK'
  BY <1>0, <1>1 DEF TypeOK, Start, Evicted, Swept
<1>2. ASSUME NEW j \in Jobs, NEW o \in Final, Settles(j, o)
      PROVE  TypeOK'
  BY <1>0, <1>2 DEF TypeOK, Settles, Update, EndRun, Final
<1>3. ASSUME NEW j \in Jobs, PollingBegins(j)
      PROVE  TypeOK'
  BY <1>0, <1>3 DEF TypeOK, PollingBegins, Update
<1>4. ASSUME NEW j \in Jobs, StillPending(j)
      PROVE  TypeOK'
  BY <1>0, <1>4 DEF TypeOK, StillPending, recordVars
<1>5. ASSUME NEW j \in Jobs, Throws(j)
      PROVE  TypeOK'
  BY <1>0, <1>5 DEF TypeOK, Throws, EndRun, recordVars
<1>6. ASSUME NEW j \in Jobs, HostPolls(j)
      PROVE  TypeOK'
  BY <1>6 DEF TypeOK, HostPolls, Swept, runVars
<1>7. CASE Tick
  BY <1>0, <1>7 DEF TypeOK, Tick, runVars
<1>8. CASE UNCHANGED vars
  BY <1>8 DEF TypeOK, vars, recordVars, runVars
<1>9. QED
  BY <1>1, <1>2, <1>3, <1>4, <1>5, <1>6, <1>7, <1>8 DEF Next, RunStep

(* The variables keep their types (MediaJobStore and runVideoJob).         *)
THEOREM TypeCorrect == Spec => []TypeOK
<1>1. Init => TypeOK
  BY DEF Init, TypeOK, Final
<1>2. QED
  BY <1>1, TypeStep, PTL DEF Spec

-----------------------------------------------------------------------------
(* A job that was not created has no run, no record and no outcome.        *)
Unborn ==
  \A j \in Jobs : born[j] = 0 => run[j] = "none" /\ j \notin store /\ outcome[j] = "none"

SlotInv == TypeOK /\ Unborn /\ SlotsAreRuns

LEMMA UnbornStep == TypeOK /\ Unborn /\ [Next]_vars => Unborn'
<1> SUFFICES ASSUME TypeOK, Unborn, [Next]_vars PROVE Unborn'
  OBVIOUS
<1>1. ASSUME NEW j \in Jobs, NEW p \in Providers, Start(j, p)
      PROVE  Unborn'
  BY <1>1 DEF TypeOK, Unborn, Start, Evicted, Swept
<1>2. ASSUME NEW j \in Jobs, NEW o \in Final, Settles(j, o)
      PROVE  Unborn'
  BY <1>2 DEF TypeOK, Unborn, Settles, EndRun
<1>3. ASSUME NEW j \in Jobs, PollingBegins(j)
      PROVE  Unborn'
  BY <1>3 DEF TypeOK, Unborn, PollingBegins
<1>4. ASSUME NEW j \in Jobs, StillPending(j)
      PROVE  Unborn'
  BY <1>4 DEF TypeOK, Unborn, StillPending, recordVars
<1>5. ASSUME NEW j \in Jobs, Throws(j)
      PROVE  Unborn'
  BY <1>5 DEF TypeOK, Unborn, Throws, EndRun, recordVars
<1>6. ASSUME NEW j \in Jobs, HostPolls(j)
      PROVE  Unborn'
  BY <1>6 DEF TypeOK, Unborn, HostPolls, Swept, runVars
<1>7. CASE Tick
  BY <1>7 DEF Unborn, Tick, runVars
<1>8. CASE UNCHANGED vars
  BY <1>8 DEF Unborn, vars, recordVars, runVars
<1>9. QED
  BY <1>1, <1>2, <1>3, <1>4, <1>5, <1>6, <1>7, <1>8 DEF Next, RunStep

(* Sets of jobs are finite, so their cardinalities are naturals.           *)
LEMMA JobsFinite ==
  ASSUME NEW S \in SUBSET Jobs
  PROVE  IsFiniteSet(S) /\ Cardinality(S) \in Nat
BY FS_Subset, FS_CardinalityType

(* The counter and the runs stay right while neither changes.              *)
LEMMA SlotsKept ==
  ASSUME SlotsAreRuns, inFlight' = inFlight, Running' = Running,
         \A p \in Providers : RunsOf(p)' = RunsOf(p)
  PROVE  SlotsAreRuns'
BY DEF SlotsAreRuns

LEMMA SlotsIdle ==
  ASSUME SlotsAreRuns, inFlight' = inFlight, run' = run, provider' = provider
  PROVE  SlotsAreRuns'
<1>1. Running' = Running
  BY DEF Running
<1>2. \A p \in Providers : RunsOf(p)' = RunsOf(p)
  BY <1>1 DEF RunsOf
<1>3. QED
  BY <1>1, <1>2, SlotsKept

(* The end of a run takes one run away and one from the counter.           *)
LEMMA SlotsEnd ==
  ASSUME TypeOK, SlotsAreRuns, NEW j \in Jobs, NEW o, run[j] # "none", EndRun(j, o)
  PROVE  SlotsAreRuns'
<1>1. Running' = Running \ {j} /\ j \in Running /\ Running \in SUBSET Jobs
  BY DEF TypeOK, Running, EndRun
<1>2. IsFiniteSet(Running) /\ Cardinality(Running) \in Nat
  BY <1>1, JobsFinite
<1>3. Cardinality(Running') = Cardinality(Running) - 1 /\ Cardinality(Running') \in Nat
  <2>1. Cardinality(Running \ {j}) = Cardinality(Running) - 1
    BY <1>1, <1>2, FS_RemoveElement
  <2>2. Running \ {j} \in SUBSET Jobs
    BY <1>1
  <2>3. Cardinality(Running \ {j}) \in Nat
    BY <2>2, JobsFinite
  <2>4. QED
    BY <1>1, <2>1, <2>3
<1>4. inFlight' = Cardinality(Running')
  <2>1. inFlight = Cardinality(Running)
    BY DEF SlotsAreRuns
  <2>2. inFlight' = inFlight - 1
    BY <1>2, <1>3, <2>1 DEF EndRun
  <2>3. QED
    BY <1>3, <2>1, <2>2
<1>5. ASSUME NEW p \in Providers
      PROVE  Cardinality(RunsOf(p)') <= Limit[p]
  <2>1. RunsOf(p)' \in SUBSET RunsOf(p) /\ RunsOf(p) \in SUBSET Jobs
    BY <1>1 DEF RunsOf, Running, EndRun
  <2>2. /\ IsFiniteSet(RunsOf(p)) /\ Cardinality(RunsOf(p)) \in Nat
        /\ Cardinality(RunsOf(p)) <= Limit[p]
    BY <2>1, JobsFinite DEF SlotsAreRuns
  <2>3. Cardinality(RunsOf(p)') <= Cardinality(RunsOf(p))
    BY <2>1, <2>2, FS_Subset
  <2>4. RunsOf(p)' \in SUBSET Jobs
    BY <2>1
  <2>5. Cardinality(RunsOf(p)') \in Nat
    BY <2>4, JobsFinite
  <2>6. QED
    BY <2>2, <2>3, <2>5
<1>6. QED
  BY <1>4, <1>5 DEF SlotsAreRuns

(* A start adds one run of its provider, whose limit the counter allowed.  *)
LEMMA SlotsStart ==
  ASSUME TypeOK, Unborn, SlotsAreRuns, NEW j \in Jobs, NEW p \in Providers, Start(j, p)
  PROVE  SlotsAreRuns'
<1>1. j \notin Running /\ Running' = Running \cup {j} /\ Running \in SUBSET Jobs
  BY DEF TypeOK, Unborn, Start, Running
<1>2. IsFiniteSet(Running) /\ Cardinality(Running) \in Nat /\ inFlight = Cardinality(Running)
  BY <1>1, JobsFinite DEF SlotsAreRuns
<1>3. inFlight' = Cardinality(Running')
  <2>1. Cardinality(Running \cup {j}) = Cardinality(Running) + 1
    BY <1>1, <1>2, FS_AddElement
  <2>2. QED
    BY <1>1, <1>2, <2>1 DEF Start
<1>4. ASSUME NEW q \in Providers
      PROVE  Cardinality(RunsOf(q)') <= Limit[q]
  <2>1. CASE q # p
    <3>1. RunsOf(q)' = RunsOf(q)
      BY <1>1, <2>1 DEF TypeOK, RunsOf, Running, Start
    <3>2. QED
      BY <3>1 DEF SlotsAreRuns
  <2>2. CASE q = p
    <3>1. RunsOf(p)' = RunsOf(p) \cup {j} /\ j \notin RunsOf(p) /\ RunsOf(p) \in SUBSET Running
      BY <1>1 DEF TypeOK, RunsOf, Running, Start
    <3>2. RunsOf(p) \in SUBSET Jobs
      BY <1>1, <3>1
    <3>3. IsFiniteSet(RunsOf(p)) /\ Cardinality(RunsOf(p)) \in Nat
      BY <3>2, JobsFinite
    <3>4. Cardinality(RunsOf(p)) <= Cardinality(Running)
      BY <1>2, <3>1, FS_Subset
    <3>5. Cardinality(RunsOf(p) \cup {j}) = Cardinality(RunsOf(p)) + 1
      BY <3>1, <3>3, FS_AddElement
    <3>6. Cardinality(Running) < Limit[p] /\ Limit[p] \in Nat
      BY <1>2 DEF Start, HasSlot
    <3>7. QED
      BY <1>2, <2>2, <3>1, <3>3, <3>4, <3>5, <3>6
  <2>3. QED
    BY <2>1, <2>2
<1>5. QED
  BY <1>3, <1>4 DEF SlotsAreRuns

LEMMA SlotStep == SlotInv /\ [Next]_vars => SlotInv'
<1> SUFFICES ASSUME TypeOK, Unborn, SlotsAreRuns, [Next]_vars PROVE SlotInv'
  BY DEF SlotInv
<1>0. TypeOK' /\ Unborn'
  BY TypeStep, UnbornStep
<1>1. ASSUME NEW j \in Jobs, NEW p \in Providers, Start(j, p)
      PROVE  SlotsAreRuns'
  BY <1>1, SlotsStart
<1>2. ASSUME NEW j \in Jobs, NEW o \in Final, Settles(j, o)
      PROVE  SlotsAreRuns'
  BY <1>2, SlotsEnd DEF Settles
<1>3. ASSUME NEW j \in Jobs, PollingBegins(j)
      PROVE  SlotsAreRuns'
  <2>1. Running' = Running
    BY <1>3 DEF TypeOK, Running, PollingBegins
  <2>2. QED
    BY <1>3, <2>1, SlotsKept DEF PollingBegins, RunsOf
<1>4. ASSUME NEW j \in Jobs, StillPending(j)
      PROVE  SlotsAreRuns'
  <2>1. inFlight' = inFlight /\ run' = run /\ provider' = provider
    BY <1>4 DEF StillPending, recordVars
  <2>2. QED
    BY <2>1, SlotsIdle
<1>5. ASSUME NEW j \in Jobs, Throws(j)
      PROVE  SlotsAreRuns'
  BY <1>5, SlotsEnd DEF Throws
<1>6. ASSUME NEW j \in Jobs, HostPolls(j)
      PROVE  SlotsAreRuns'
  <2>1. inFlight' = inFlight /\ run' = run /\ provider' = provider
    BY <1>6 DEF HostPolls, runVars
  <2>2. QED
    BY <2>1, SlotsIdle
<1>7. ASSUME Tick PROVE SlotsAreRuns'
  <2>1. inFlight' = inFlight /\ run' = run /\ provider' = provider
    BY <1>7 DEF Tick, runVars
  <2>2. QED
    BY <2>1, SlotsIdle
<1>8. ASSUME UNCHANGED vars PROVE SlotsAreRuns'
  <2>1. inFlight' = inFlight /\ run' = run /\ provider' = provider
    BY <1>8 DEF vars, runVars
  <2>2. QED
    BY <2>1, SlotsIdle
<1>9. SlotsAreRuns'
  BY <1>1, <1>2, <1>3, <1>4, <1>5, <1>6, <1>7, <1>8 DEF Next, RunStep
<1>10. QED
  BY <1>0, <1>9 DEF SlotInv

(* The slot counter is the number of runs under way, and no provider runs  *)
(* more than its limit (tryAcquireSlot, releaseSlot).                      *)
THEOREM SlotsCorrect == Spec => []SlotsAreRuns
<1>1. Init => SlotInv
  <2> SUFFICES ASSUME Init PROVE SlotInv
    OBVIOUS
  <2>1. TypeOK
    BY DEF Init, TypeOK, Final
  <2>2. Unborn
    BY DEF Init, Unborn
  <2>3. Running = {} /\ \A p \in Providers : RunsOf(p) = {}
    BY DEF Init, Running, RunsOf
  <2>4. SlotsAreRuns
    <3>1. inFlight = Cardinality(Running)
      BY <2>3, FS_EmptySet DEF Init
    <3>2. ASSUME NEW p \in Providers
          PROVE  Cardinality(RunsOf(p)) <= Limit[p]
      <4>1. Cardinality(RunsOf(p)) = 0
        BY <2>3, FS_EmptySet
      <4>2. Limit[p] \in Nat
        OBVIOUS
      <4>3. QED
        BY <4>1, <4>2
    <3>3. QED
      BY <3>1, <3>2 DEF SlotsAreRuns
  <2>5. QED
    BY <2>1, <2>2, <2>4 DEF SlotInv
<1>2. SlotInv => SlotsAreRuns
  BY DEF SlotInv
<1>3. QED
  BY <1>1, <1>2, SlotStep, PTL DEF Spec

-----------------------------------------------------------------------------
(* Records and runs agree: an end is written once, by the run that ends.   *)
RecordInv ==
  /\ \A j \in Jobs : status[j] \in Final => outcome[j] = status[j]
  /\ \A j \in Jobs : run[j] # "none" => outcome[j] = "none"
  /\ ToldTheTruth

TruthInv == TypeOK /\ Unborn /\ RecordInv

LEMMA RecordStep == TruthInv /\ [Next]_vars => TruthInv'
<1> SUFFICES ASSUME TypeOK, Unborn, RecordInv, [Next]_vars PROVE TruthInv'
  BY DEF TruthInv
<1>0. TypeOK' /\ Unborn'
  BY TypeStep, UnbornStep
<1>1. ASSUME NEW j \in Jobs, NEW p \in Providers, Start(j, p)
      PROVE  RecordInv'
  BY <1>1 DEF TypeOK, Unborn, RecordInv, ToldTheTruth, Start, Final
<1>2. ASSUME NEW j \in Jobs, NEW o \in Final, Settles(j, o)
      PROVE  RecordInv'
  <2>1. outcome[j] = "none" /\ status[j] \notin Final /\ told[j] \notin Final
    BY <1>2 DEF RecordInv, ToldTheTruth, Settles, Final
  <2>2. /\ \A i \in Jobs : status'[i] \in Final => outcome'[i] = status'[i]
        /\ \A i \in Jobs : run'[i] # "none" => outcome'[i] = "none"
    BY <1>2, <2>1 DEF TypeOK, RecordInv, Settles, Update, EndRun, Final
  <2>3. ToldTheTruth'
    BY <1>2, <2>1 DEF TypeOK, RecordInv, ToldTheTruth, Settles, EndRun
  <2>4. QED
    BY <2>2, <2>3 DEF RecordInv
<1>3. ASSUME NEW j \in Jobs, PollingBegins(j)
      PROVE  RecordInv'
  BY <1>3 DEF TypeOK, RecordInv, ToldTheTruth, PollingBegins, Update
<1>4. ASSUME NEW j \in Jobs, StillPending(j)
      PROVE  RecordInv'
  BY <1>4 DEF RecordInv, ToldTheTruth, StillPending, recordVars
<1>5. ASSUME NEW j \in Jobs, Throws(j)
      PROVE  RecordInv'
  <2>1. outcome[j] = "none" /\ status[j] \notin Final /\ told[j] \notin Final
    BY <1>5 DEF RecordInv, ToldTheTruth, Throws, Final
  <2>2. QED
    BY <1>5, <2>1 DEF TypeOK, RecordInv, ToldTheTruth, Throws, EndRun, recordVars
<1>6. ASSUME NEW j \in Jobs, HostPolls(j)
      PROVE  RecordInv'
  BY <1>6 DEF TypeOK, RecordInv, ToldTheTruth, HostPolls, runVars, Final
<1>7. ASSUME Tick PROVE RecordInv'
  BY <1>7 DEF RecordInv, ToldTheTruth, Tick, runVars
<1>8. ASSUME UNCHANGED vars PROVE RecordInv'
  BY <1>8 DEF RecordInv, ToldTheTruth, vars, recordVars, runVars
<1>9. RecordInv'
  BY <1>1, <1>2, <1>3, <1>4, <1>5, <1>6, <1>7, <1>8 DEF Next, RunStep
<1>10. QED
  BY <1>0, <1>9 DEF TruthInv

(* A host is told of the end that the run of its job had (runVideoJob).    *)
THEOREM TruthCorrect == Spec => []ToldTheTruth
<1>1. Init => TruthInv
  BY DEF Init, TruthInv, TypeOK, Unborn, RecordInv, ToldTheTruth, Final
<1>2. TruthInv => ToldTheTruth
  BY DEF TruthInv, RecordInv
<1>3. QED
  BY <1>1, <1>2, RecordStep, PTL DEF Spec

-----------------------------------------------------------------------------
(* Jobs are numbered in the order of their creation.                       *)
OrderInv ==
  /\ \A j \in Jobs : born[j] <= created
  /\ \A j, k \in Jobs : born[j] > 0 /\ born[j] = born[k] => j = k

RetentionInv == TypeOK /\ Unborn /\ OrderInv /\ KeptWhileFresh

(* Among some jobs there is one than which none is older.                  *)
LEMMA OldestExists ==
  ASSUME TypeOK, NEW S \in SUBSET Jobs, S # {}
  PROVE  \E k \in S : \A m \in S : ~(born[m] < born[k])
<1> DEFINE Below(k) == {m \in S : born[m] < born[k]}
           D == {Below(k) : k \in S}
<1>1. D \subseteq SUBSET S /\ D # {}
  OBVIOUS
<1>2. IsWellFoundedOn(StrictSubsetOrdering(S), SUBSET S)
  BY JobsFinite, FS_StrictSubsetOrderingWellFounded, FS_FiniteSubsetsOfFinite
<1>3. \E B \in D : \A C \in D : ~(<<C, B>> \in StrictSubsetOrdering(S))
  <2> HIDE DEF D
  <2>1. QED
    BY <1>1, <1>2, WFMin
<1>4. PICK k \in S : \A C \in D : ~(<<C, Below(k)>> \in StrictSubsetOrdering(S))
  BY <1>3
<1>5. ASSUME NEW m \in S, born[m] < born[k]
      PROVE  FALSE
  <2>1. Below(m) \subseteq Below(k)
    <3>1. ASSUME NEW i \in S, born[i] < born[m]
          PROVE  born[i] < born[k]
      <4>1. born[i] \in Nat /\ born[m] \in Nat /\ born[k] \in Nat
        BY DEF TypeOK
      <4>2. QED
        BY <1>5, <3>1, <4>1
    <3>2. QED
      BY <3>1
  <2>2. m \in Below(k) /\ m \notin Below(m)
    <3>1. born[m] \in Nat
      BY DEF TypeOK
    <3>2. QED
      BY <1>5, <3>1
  <2>3. <<Below(m), Below(k)>> \in StrictSubsetOrdering(S)
    BY <2>1, <2>2 DEF StrictSubsetOrdering
  <2>4. QED
    BY <1>4, <2>3
<1>6. QED
  BY <1>5

(* Jobs none of which is older than k came since k.                        *)
LEMMA Crowd ==
  ASSUME TypeOK, OrderInv, NEW S \in SUBSET Jobs, NEW k \in S, born[k] > 0,
         \A m \in S : ~(born[m] < born[k])
  PROVE  Cardinality(S) <= created - born[k] + 1
<1> DEFINE f == [m \in S |-> born[m]]
           T == born[k]..created
<1>1. /\ born[k] \in Nat /\ created \in Nat /\ born[k] <= created
      /\ \A m \in S : born[m] \in Nat /\ born[m] <= created
  BY DEF TypeOK, OrderInv
<1>2. \A m \in S : born[m] \in T
  BY <1>1
<1>3. f \in Injection(S, T)
  <2>1. f \in [S -> T]
    BY <1>2
  <2>2. \A a, b \in S : born[a] = born[b] => a = b
    <3>1. \A a \in S : born[a] > 0
      BY <1>1
    <3>2. QED
      BY <3>1 DEF OrderInv
  <2>3. QED
    BY <2>1, <2>2 DEF Injection, IsInjective
<1>4. IsFiniteSet(T) /\ Cardinality(T) = created - born[k] + 1
  <2>1. born[k] \in Int /\ created \in Int /\ ~(born[k] > created)
    BY <1>1
  <2>2. /\ IsFiniteSet(born[k]..created)
        /\ Cardinality(born[k]..created) =
             IF born[k] > created THEN 0 ELSE created - born[k] + 1
    BY ONLY <2>1, FS_Interval
  <2>3. QED
    BY <2>1, <2>2
<1>5. Cardinality(S) <= Cardinality(T)
  <2> HIDE DEF f, T
  <2>1. QED
    BY <1>3, <1>4, FS_Injection
<1>6. QED
  BY <1>4, <1>5

LEMMA OrderStep == TypeOK /\ OrderInv /\ [Next]_vars => OrderInv'
<1> SUFFICES ASSUME TypeOK, OrderInv, [Next]_vars PROVE OrderInv'
  OBVIOUS
<1>1. ASSUME NEW j \in Jobs, NEW p \in Providers, Start(j, p)
      PROVE  OrderInv'
  <2>1. created' = created + 1 /\ created \in Nat
    BY <1>1 DEF TypeOK, Start
  <2>2. /\ born'[j] = created + 1
        /\ \A i \in Jobs \ {j} : born'[i] = born[i] /\ born[i] \in Nat /\ born[i] <= created
    BY <1>1 DEF TypeOK, OrderInv, Start
  <2>3. \A i \in Jobs : born'[i] <= created'
    BY <2>1, <2>2
  <2>4. ASSUME NEW i \in Jobs, NEW k \in Jobs, born'[i] > 0, born'[i] = born'[k]
        PROVE  i = k
    BY <2>1, <2>2, <2>4 DEF OrderInv
  <2>5. QED
    BY <2>3, <2>4 DEF OrderInv
<1>2. ASSUME born' = born, created' = created
      PROVE  OrderInv'
  BY <1>2 DEF OrderInv
<1>3. ASSUME NEW j \in Jobs, RunStep(j)
      PROVE  born' = born /\ created' = created
  <2>1. CASE \E o \in Final : Settles(j, o)
    BY <2>1 DEF Settles
  <2>2. CASE PollingBegins(j)
    BY <2>2 DEF PollingBegins
  <2>3. CASE StillPending(j) \/ Throws(j)
    BY <2>3 DEF StillPending, Throws, recordVars
  <2>4. QED
    BY <1>3, <2>1, <2>2, <2>3 DEF RunStep
<1>4. ASSUME (\E j \in Jobs : HostPolls(j)) \/ Tick \/ UNCHANGED vars
      PROVE  born' = born /\ created' = created
  BY <1>4 DEF HostPolls, Tick, vars, recordVars
<1>5. QED
  BY <1>1, <1>2, <1>3, <1>4 DEF Next

(* Retention while the store only loses the records that have expired.     *)
LEMMA RetentionKept ==
  ASSUME TypeOK, KeptWhileFresh, born' = born, created' = created,
         store' = store \/ store' = Swept,
         \A j \in Jobs : j \in store' \/ (age[j] > TTL => age'[j] > TTL)
  PROVE  KeptWhileFresh'
<1>1. store \in SUBSET Jobs /\ store' \in SUBSET store
  BY DEF TypeOK, Swept
<1>2. IsFiniteSet(store) /\ Cardinality(store) \in Nat
  BY <1>1, JobsFinite
<1>3. store' \in SUBSET Jobs
  BY <1>1
<1>4. Cardinality(store') \in Nat
  BY <1>3, JobsFinite
<1>5. Cardinality(store') <= Cardinality(store)
  BY <1>1, <1>2, FS_Subset
<1>6. Cardinality(store') <= MaxJobs
  BY <1>2, <1>4, <1>5 DEF KeptWhileFresh
<1>7. ASSUME NEW j \in Jobs, born'[j] > 0
      PROVE  j \in store' \/ age'[j] > TTL \/ created' - born'[j] >= MaxJobs
  <2>1. j \in store \/ age[j] > TTL \/ created - born[j] >= MaxJobs
    BY <1>7 DEF KeptWhileFresh
  <2>2. j \in store /\ j \notin store' => age[j] > TTL
    BY DEF TypeOK, Swept
  <2>3. QED
    BY <2>1, <2>2
<1>8. QED
  BY <1>6, <1>7 DEF KeptWhileFresh

(* A new job: the records that give way have expired or been overtaken.    *)
LEMMA RetentionStart ==
  ASSUME RetentionInv, NEW j \in Jobs, NEW p \in Providers, Start(j, p)
  PROVE  KeptWhileFresh'
<1> DEFINE kept == Swept
<1>1. /\ kept \in SUBSET store /\ store \in SUBSET Jobs /\ kept \in SUBSET Jobs
      /\ j \notin store
      /\ \A i \in store : born[i] > 0
  BY DEF RetentionInv, TypeOK, Unborn, Swept, Start
<1>2. /\ IsFiniteSet(store) /\ Cardinality(store) \in Nat
      /\ IsFiniteSet(kept) /\ Cardinality(kept) \in Nat
  BY <1>1, JobsFinite
<1>3. Cardinality(kept) <= MaxJobs
  <2>1. Cardinality(kept) <= Cardinality(store)
    BY <1>1, <1>2, FS_Subset
  <2>2. QED
    BY <1>2, <2>1 DEF RetentionInv, KeptWhileFresh
<1>4. Evicted(kept) \in SUBSET kept /\ store' = Evicted(kept) \cup {j}
  BY DEF Start, Evicted
<1>5. Cardinality(Evicted(kept)) \in Nat /\ IsFiniteSet(Evicted(kept))
  <2>1. Evicted(kept) \in SUBSET Jobs
    BY <1>1, <1>4
  <2>2. QED
    BY <2>1, JobsFinite
<1>6. Cardinality(Evicted(kept)) < MaxJobs
  <2>1. CASE Cardinality(kept) < MaxJobs
    BY <2>1 DEF Evicted
  <2>2. CASE ~(Cardinality(kept) < MaxJobs)
    <3>1. kept # {}
      BY <2>2, FS_EmptySet
    <3>2. PICK k \in kept : \A m \in kept : ~(born[m] < born[k])
      BY <1>1, <3>1, OldestExists DEF RetentionInv
    <3>3. Evicted(kept) \in SUBSET (kept \ {k})
      BY <2>2, <3>2 DEF Evicted
    <3>4. /\ IsFiniteSet(kept \ {k})
          /\ Cardinality(kept \ {k}) = Cardinality(kept) - 1
      BY <1>2, <3>2, FS_RemoveElement
    <3>5. Cardinality(Evicted(kept)) <= Cardinality(kept \ {k})
      BY <3>3, <3>4, FS_Subset
    <3>6. QED
      BY <1>2, <1>3, <1>5, <3>4, <3>5
  <2>3. QED
    BY <2>1, <2>2
<1>7. Cardinality(store') <= MaxJobs
  <2>1. j \notin Evicted(kept)
    BY <1>1, <1>4
  <2>2. Cardinality(Evicted(kept) \cup {j}) = Cardinality(Evicted(kept)) + 1
    BY <1>5, <2>1, FS_AddElement
  <2>3. QED
    BY <1>4, <1>5, <1>6, <2>2
<1>8. ASSUME NEW i \in Jobs, born'[i] > 0, i \notin store'
      PROVE  age'[i] > TTL \/ created' - born'[i] >= MaxJobs
  <2>1. i # j
    BY <1>4, <1>8
  <2>2. /\ born'[i] = born[i] /\ age'[i] = age[i] /\ created' = created + 1
        /\ born[i] \in Nat /\ created \in Nat /\ age[i] \in Int
    BY <2>1 DEF RetentionInv, TypeOK, Start
  <2>3. CASE i \notin store
    <3>1. age[i] > TTL \/ created - born[i] >= MaxJobs
      BY <1>8, <2>2, <2>3 DEF RetentionInv, KeptWhileFresh
    <3>2. QED
      BY <2>2, <3>1
  <2>4. CASE i \in store /\ i \notin kept
    BY <2>2, <2>4 DEF Swept
  <2>5. CASE i \in kept
    <3>1. ~(Cardinality(kept) < MaxJobs) /\ \A m \in kept : ~(born[m] < born[i])
      BY <1>4, <1>8, <2>5 DEF Evicted
    <3>2. Cardinality(kept) <= created - born[i] + 1
      BY <1>1, <2>5, <3>1, Crowd DEF RetentionInv
    <3>3. QED
      BY <1>2, <2>2, <3>1, <3>2
  <2>6. QED
    BY <2>3, <2>4, <2>5
<1>9. QED
  BY <1>7, <1>8 DEF KeptWhileFresh

LEMMA RetentionStep == RetentionInv /\ [Next]_vars => RetentionInv'
<1> SUFFICES ASSUME RetentionInv, [Next]_vars PROVE RetentionInv'
  OBVIOUS
<1>0. /\ TypeOK /\ KeptWhileFresh
      /\ TypeOK' /\ Unborn' /\ OrderInv'
  BY TypeStep, UnbornStep, OrderStep DEF RetentionInv
<1>1. ASSUME NEW j \in Jobs, NEW p \in Providers, Start(j, p)
      PROVE  KeptWhileFresh'
  BY <1>1, RetentionStart
<1>2. ASSUME NEW j \in Jobs, NEW o, Update(j, o), UNCHANGED <<store, created, born>>
      PROVE  KeptWhileFresh'
  <2>1. \A i \in Jobs : i \in store' \/ (age[i] > TTL => age'[i] > TTL)
    BY <1>0, <1>2 DEF TypeOK, Update
  <2>2. QED
    BY <1>0, <1>2, <2>1, RetentionKept
<1>3. ASSUME UNCHANGED <<store, created, born, age>>
      PROVE  KeptWhileFresh'
  BY <1>0, <1>3, RetentionKept
<1>4. ASSUME NEW j \in Jobs, HostPolls(j)
      PROVE  KeptWhileFresh'
  <2>1. store' = Swept /\ born' = born /\ created' = created /\ age' = age
    BY <1>4 DEF HostPolls
  <2>2. QED
    BY <1>0, <2>1, RetentionKept
<1>5. ASSUME Tick
      PROVE  KeptWhileFresh'
  <2>1. store' = store /\ born' = born /\ created' = created
    BY <1>5 DEF Tick
  <2>2. \A i \in Jobs : age[i] > TTL => age'[i] > TTL
    BY <1>0, <1>5 DEF TypeOK, Tick
  <2>3. QED
    BY <1>0, <2>1, <2>2, RetentionKept
<1>6. KeptWhileFresh'
  <2>1. ASSUME NEW j \in Jobs, RunStep(j)
        PROVE  KeptWhileFresh'
    BY <1>2, <1>3, <2>1 DEF RunStep, Settles, PollingBegins, StillPending, Throws, recordVars
  <2>2. ASSUME UNCHANGED vars
        PROVE  KeptWhileFresh'
    BY <1>3, <2>2 DEF vars, recordVars
  <2>3. QED
    BY <1>1, <1>4, <1>5, <2>1, <2>2 DEF Next
<1>7. QED
  BY <1>0, <1>6 DEF RetentionInv

(* A job stays pollable until its record expires or maxJobs newer ones     *)
(* have come, and the store never exceeds maxJobs (create, sweep).         *)
THEOREM RetentionCorrect == Spec => []KeptWhileFresh
<1>1. Init => RetentionInv
  <2> SUFFICES ASSUME Init PROVE RetentionInv
    OBVIOUS
  <2>1. TypeOK /\ Unborn /\ OrderInv
    BY DEF Init, TypeOK, Unborn, OrderInv, Final
  <2>2. Cardinality(store) <= MaxJobs
    BY FS_EmptySet DEF Init
  <2>3. KeptWhileFresh
    BY <2>2 DEF Init, KeptWhileFresh
  <2>4. QED
    BY <2>1, <2>3 DEF RetentionInv
<1>2. RetentionInv => KeptWhileFresh
  BY DEF RetentionInv
<1>3. QED
  BY <1>1, <1>2, RetentionStep, PTL DEF Spec
=============================================================================

----------------------------- MODULE ToolsProofs -----------------------------
(***************************************************************************)
(* What the pool of workers and the scheduler of tool calls promise, for   *)
(* any pool sizes, tasks and urgencies, and any plans, calls, dependencies,*)
(* keys and limits.                                                        *)
(***************************************************************************)
EXTENDS MCSchedulers, SequenceFacts

(***************************************************************************)
(* The worker pool.  Every task that is known waits or is worked on, once; *)
(* and a task that waits is owed an immediate for every idle worker.       *)
(***************************************************************************)
Crew(list)   == list \in Seq(Tasks \cup {Nothing})
IdleOf(crew) == {w \in 1..Len(crew) : crew[w] = Nothing}

Shared(crew, queue, map) ==
  /\ \A w, v \in 1..Len(crew) : crew[w] # Nothing /\ crew[w] = crew[v] => w = v
  /\ \A w \in 1..Len(crew) : crew[w] # Nothing => crew[w] \in map /\ ~In(crew[w], queue)
  /\ \A t : In(t, queue) => t \in map
  /\ \A t \in map : In(t, queue) \/ \E w \in 1..Len(crew) : crew[w] = t

Woken(crew, queue, later) == Len(queue) # 0 => Cardinality(IdleOf(crew)) <= later

Fitting(crew) == resized = 0 => poolSize[1] <= Len(crew) /\ Len(crew) <= poolSize[2]

PoolInv ==
  /\ PoolTypeOK
  /\ Distinct(taskQueue)
  /\ taskMap = {t \in Tasks : promise[t] = "open"}
  /\ shuttingDown => Len(taskQueue) = 0 /\ taskMap = {}
  /\ ~shuttingDown => /\ Shared(workers, taskQueue, taskMap)
                      /\ Fitting(workers)
                      /\ resized = 0 => Woken(workers, taskQueue, immediates)

LEMMA SeqFrom ==
  ASSUME NEW T, NEW n \in Nat, NEW s \in [1..n -> T]
  PROVE  s \in Seq(T) /\ Len(s) = n
  OBVIOUS

LEMMA IdleFinite ==
  ASSUME NEW crew, Crew(crew)
  PROVE  IsFiniteSet(IdleOf(crew)) /\ Cardinality(IdleOf(crew)) \in Nat /\ Len(crew) \in Nat
<1>1. PICK n \in Nat : n = Len(crew)  BY LenProperties DEF Crew
<1>2. PICK I : I = 1..n  OBVIOUS
<1>3. IsFiniteSet(I)  BY <1>1, <1>2, FS_Interval
<1>4. IdleOf(crew) \in SUBSET I  BY <1>1, <1>2 DEF IdleOf
<1>5. IsFiniteSet(IdleOf(crew))  BY <1>3, <1>4, FS_Subset
<1> QED  BY <1>1, <1>5, FS_CardinalityType

(* One worker gets a task, or is done with it.                             *)
HasWorkerAt(crew, w, t, new) ==
  /\ Crew(new) /\ Len(new) = Len(crew)
  /\ new[w] = t /\ \A v \in 1..Len(crew) : v # w => new[v] = crew[v]
  /\ t = Nothing => IdleOf(new) = IdleOf(crew) \cup {w}
  /\ t # Nothing => IdleOf(new) = IdleOf(crew) \ {w}

LEMMA CrewSet ==
  ASSUME NEW crew, Crew(crew), NEW w \in 1..Len(crew), NEW t \in Tasks \cup {Nothing},
         NEW new, new = [crew EXCEPT ![w] = t]
  PROVE  HasWorkerAt(crew, w, t, new)
<1>1. PICK n \in Nat : n = Len(crew)  BY LenProperties DEF Crew
<1>2. PICK S : S = Tasks \cup {Nothing}  OBVIOUS
<1>3. crew \in [1..n -> S] /\ w \in 1..n  BY <1>1, <1>2 DEF Crew
<1>4. new \in [1..n -> S] /\ \A v \in 1..n : new[v] = IF v = w THEN t ELSE crew[v]  BY <1>2, <1>3
<1>5. new \in Seq(S) /\ Len(new) = n
  <2>1. n \in Nat /\ new \in [1..n -> S]  BY <1>4
  <2> QED  BY <2>1, SeqFrom
<1>6. IdleOf(new) = IF t = Nothing THEN IdleOf(crew) \cup {w} ELSE IdleOf(crew) \ {w}
  BY <1>1, <1>3, <1>4, <1>5 DEF IdleOf
<1>7. Crew(new)  BY <1>2, <1>5 DEF Crew
<1>8. new[w] = t /\ \A v \in 1..n : v # w => new[v] = crew[v]  BY <1>3, <1>4
<1> QED  BY <1>1, <1>5, <1>6, <1>7, <1>8 DEF HasWorkerAt

LEMMA CrewGrows ==
  ASSUME NEW crew, Crew(crew), NEW new, new = Append(crew, Nothing)
  PROVE  /\ Crew(new) /\ Len(new) = Len(crew) + 1
         /\ \A v \in 1..Len(crew) : new[v] = crew[v]
         /\ new[Len(crew) + 1] = Nothing
         /\ IdleOf(new) = IdleOf(crew) \cup {Len(crew) + 1}
<1>1. PICK n \in Nat : n = Len(crew)  BY LenProperties DEF Crew
<1>2. PICK S : S = Tasks \cup {Nothing}  OBVIOUS
<1>3. crew \in Seq(S) /\ Nothing \in S  BY <1>2 DEF Crew
<1>4. /\ new \in Seq(S) /\ Len(new) = n + 1 /\ new[n + 1] = Nothing
      /\ \A v \in 1..n : new[v] = crew[v]
  BY <1>1, <1>3, AppendProperties
<1>5. \A v \in 1..n + 1 : v \in 1..n \/ v = n + 1  OBVIOUS
<1>6. \A v \in 1..n : v \in 1..n + 1  OBVIOUS
<1>7. n + 1 \in 1..n + 1  OBVIOUS
<1>8. IdleOf(new) = IdleOf(crew) \cup {n + 1}  BY <1>1, <1>4, <1>5, <1>6, <1>7 DEF IdleOf
<1> QED  BY <1>1, <1>2, <1>4, <1>8 DEF Crew

(* A worker goes; the others move up.                                      *)
LEMMA CrewShrinks ==
  ASSUME NEW crew, Crew(crew), NEW w \in 1..Len(crew), NEW new, new = RemoveAt(crew, w)
  PROVE  /\ Crew(new) /\ Len(new) = Len(crew) - 1
         /\ \A v \in 1..Len(crew) - 1 : new[v] = IF v < w THEN crew[v] ELSE crew[v + 1]
         /\ Cardinality(IdleOf(new)) <= Cardinality(IdleOf(crew))
         /\ crew[w] = Nothing => Cardinality(IdleOf(new)) + 1 <= Cardinality(IdleOf(crew))
<1>1. PICK n \in Nat : n = Len(crew)  BY LenProperties DEF Crew
<1>2. PICK S : S = Tasks \cup {Nothing}  OBVIOUS
<1>3. crew \in Seq(S) /\ w \in 1..n  BY <1>1, <1>2 DEF Crew
<1>4. /\ new \in Seq(S) /\ Len(new) = n - 1
      /\ \A v \in 1..n - 1 : new[v] = IF v < w THEN crew[v] ELSE crew[v + 1]
  <2>1. Len(crew) = n /\ w \in 1..Len(crew)  BY <1>1
  <2>2. /\ new \in Seq(S) /\ Len(new) = Len(crew) - 1
        /\ \A v \in 1..Len(crew) - 1 : new[v] = IF v < w THEN crew[v] ELSE crew[v + 1]
    BY <1>3, <2>1, RemovedIs
  <2> QED  BY <2>1, <2>2
<1>5. PICK I, J, f : I = IdleOf(crew) \ {w} /\ J = IdleOf(new)
                     /\ f = [v \in J |-> IF v < w THEN v ELSE v + 1]
  OBVIOUS
<1>6. ASSUME NEW v \in J PROVE f[v] \in I /\ v \in Nat
  <2>1. v \in 1..n - 1 /\ new[v] = Nothing  BY <1>4, <1>5 DEF IdleOf
  <2>2. CASE v < w
    <3>1. f[v] = v /\ v \in 1..n /\ v # w /\ crew[v] = Nothing  BY <1>3, <1>4, <1>5, <2>1, <2>2
    <3> QED  BY <1>1, <1>5, <2>1, <3>1 DEF IdleOf
  <2>3. CASE ~(v < w)
    <3>1. f[v] = v + 1 /\ v + 1 \in 1..n /\ v + 1 # w /\ crew[v + 1] = Nothing
      BY <1>1, <1>3, <1>4, <1>5, <2>1, <2>3
    <3> QED  BY <1>1, <1>5, <2>1, <3>1 DEF IdleOf
  <2> QED  BY <2>2, <2>3
<1>7. ASSUME NEW a \in J, NEW b \in J, f[a] = f[b] PROVE a = b
  <2>1. a \in Nat /\ b \in Nat /\ w \in Nat  BY <1>3, <1>6
  <2>2. \A v \in J : v \in Nat => (v < w /\ f[v] = v) \/ (v >= w /\ f[v] = v + 1)
    <3> SUFFICES ASSUME NEW v \in J, v \in Nat PROVE (v < w /\ f[v] = v) \/ (v >= w /\ f[v] = v + 1)
      OBVIOUS
    <3>1. f[v] = IF v < w THEN v ELSE v + 1  BY <1>5
    <3>2. CASE v < w  BY <3>1, <3>2
    <3>3. CASE ~(v < w)  BY <2>1, <3>1, <3>3
    <3> QED  BY <3>2, <3>3
  <2>3. PICK i, j : i = f[a] /\ j = f[b]  OBVIOUS
  <2>4. i = j  BY <1>7, <2>3
  <2>5. ((a < w /\ i = a) \/ (a >= w /\ i = a + 1)) /\ ((b < w /\ j = b) \/ (b >= w /\ j = b + 1))
    BY <2>1, <2>2, <2>3
  <2> QED  BY <2>1, <2>4, <2>5
<1>8. f \in [J -> I]  BY <1>5, <1>6
<1>9. f \in Injection(J, I)  BY <1>7, <1>8 DEF Injection, IsInjective
<1>10. PICK A : A = IdleOf(crew)  OBVIOUS
<1>11. IsFiniteSet(A) /\ Cardinality(A) \in Nat  BY <1>10, IdleFinite
<1>12. IsFiniteSet(I) /\ Cardinality(I) = IF w \in A THEN Cardinality(A) - 1 ELSE Cardinality(A)
  BY <1>5, <1>10, <1>11, FS_RemoveElement
<1>13. IsFiniteSet(J) /\ Cardinality(J) <= Cardinality(I)  BY <1>9, <1>12, FS_Injection
<1>14. Cardinality(J) \in Nat  BY <1>13, FS_CardinalityType
<1>15. w \in A <=> crew[w] = Nothing  BY <1>1, <1>3, <1>10 DEF IdleOf
<1>16. /\ Cardinality(J) <= Cardinality(A)
       /\ crew[w] = Nothing => Cardinality(J) + 1 <= Cardinality(A)
  BY <1>11, <1>12, <1>13, <1>14, <1>15
<1> QED  BY <1>1, <1>2, <1>4, <1>5, <1>10, <1>16 DEF Crew

LEMMA SizesAre ==
  ASSUME poolSize \in PoolSizes
  PROVE  poolSize[1] \in Nat /\ poolSize[2] \in Nat /\ poolSize[1] <= poolSize[2]
  BY PoolAssumption

HeadOff(queue, tail) ==
  /\ \A x : In(x, queue) <=> x = queue[1] \/ In(x, tail)
  /\ ~In(queue[1], tail) /\ Distinct(tail)

LEMMA LineTailHas ==
  ASSUME NEW T, NEW queue \in Seq(T), Distinct(queue), Len(queue) # 0, NEW tail, tail = Tail(queue)
  PROVE  /\ tail \in Seq(T) /\ Len(tail) = Len(queue) - 1 /\ Head(queue) = queue[1] /\ queue[1] \in T
         /\ HeadOff(queue, tail)
<1>1. PICK n \in Nat : n = Len(queue) /\ \A k \in 1..n : queue[k] \in T  BY LenProperties
<1>2. n # 0 /\ 1 \in 1..n  BY <1>1
<1>3. tail \in Seq(T) /\ Len(tail) = n - 1 /\ \A k \in 1..n - 1 : tail[k] = queue[k + 1]
  <2>1. queue # <<>>  BY <1>1, <1>2
  <2> QED  BY <1>1, <2>1, HeadTailProperties
<1>4. \A k \in 1..n - 1 : k + 1 \in 1..n /\ k + 1 # 1  OBVIOUS
<1>5. \A k \in 1..n : k # 1 => k - 1 \in 1..n - 1 /\ (k - 1) + 1 = k  OBVIOUS
<1>6. ASSUME NEW x PROVE In(x, queue) <=> x = queue[1] \/ In(x, tail)
  <2>1. ASSUME In(x, queue), x # queue[1] PROVE In(x, tail)
    <3>1. PICK k \in 1..n : queue[k] = x /\ k # 1  BY <1>1, <2>1 DEF In
    <3>2. tail[k - 1] = x /\ k - 1 \in 1..n - 1  BY <1>3, <1>5, <3>1
    <3> QED  BY <1>3, <3>2 DEF In
  <2>2. ASSUME In(x, tail) PROVE In(x, queue)
    <3>1. PICK k \in 1..n - 1 : tail[k] = x  BY <1>3, <2>2 DEF In
    <3>2. queue[k + 1] = x  BY <1>3, <3>1
    <3> QED  BY <1>1, <1>4, <3>1, <3>2 DEF In
  <2>3. In(queue[1], queue)  BY <1>1, <1>2 DEF In
  <2> QED  BY <2>1, <2>2, <2>3
<1>7. ~In(queue[1], tail)
  <2> SUFFICES ASSUME NEW k \in 1..n - 1, tail[k] = queue[1] PROVE FALSE  BY <1>3 DEF In
  <2>1. queue[k + 1] = queue[1]  BY <1>3
  <2> QED  BY <1>1, <1>2, <1>4, <2>1 DEF Distinct
<1>8. Distinct(tail)
  <2> SUFFICES ASSUME NEW a \in 1..n - 1, NEW b \in 1..n - 1, tail[a] = tail[b] PROVE a = b  BY <1>3 DEF Distinct
  <2>1. queue[a + 1] = queue[b + 1]  BY <1>3
  <2>2. a + 1 = b + 1  BY <1>1, <1>4, <2>1 DEF Distinct
  <2> QED  BY <2>2
<1>9. Head(queue) = queue[1]
  <2>1. queue # <<>>  BY <1>1, <1>2
  <2> QED  BY <2>1, HeadTailProperties
<1> QED  BY <1>1, <1>2, <1>3, <1>6, <1>7, <1>8, <1>9 DEF HeadOff

(* What processQueue leaves of a crew, a queue and the immediates.         *)
Turned(crew, queue, later, crewNow, queueNow, laterNow, map) ==
  /\ Crew(crewNow) /\ queueNow \in Seq(Tasks) /\ laterNow \in Nat
  /\ Distinct(queueNow) /\ Len(queueNow) <= Len(queue)
  /\ Shared(crewNow, queueNow, map)
  /\ Len(crew) <= Len(crewNow) /\ (Len(crewNow) = Len(crew) \/ Len(crewNow) <= poolSize[2])

(* One wakes the next, who wakes the next.                                 *)
WakesNext(crew, queue, later) == Len(queue) > 1 => Cardinality(IdleOf(crew)) <= later + 1

WithPoolTask(crew, w, t) == [crew EXCEPT ![w] = t]

HasTaken(crew, new, tail, map) ==
  /\ Crew(new) /\ Len(new) = Len(crew) /\ Shared(new, tail, map)
  /\ Cardinality(IdleOf(new)) = Cardinality(IdleOf(crew)) - 1

LEMMA TaskTaken ==
  ASSUME NEW crew, Crew(crew), NEW queue \in Seq(Tasks), Distinct(queue), Len(queue) # 0,
         NEW map, map \subseteq Tasks, Shared(crew, queue, map), NEW w \in IdleOf(crew),
         NEW new, new = WithPoolTask(crew, w, Head(queue)), NEW tail, tail = Tail(queue)
  PROVE  HasTaken(crew, new, tail, map)
<1>1. PICK n \in Nat : n = Len(crew)  BY IdleFinite
<1>2. w \in 1..n /\ crew[w] = Nothing  BY <1>1 DEF IdleOf
<1>3. PICK t : t = queue[1]  OBVIOUS
<1>4. tail \in Seq(Tasks) /\ Head(queue) = t /\ t \in Tasks /\ HeadOff(queue, tail)  BY <1>3, LineTailHas
<1>5. t # Nothing /\ t \in Tasks \cup {Nothing} /\ new = [crew EXCEPT ![w] = t]  BY <1>4, PoolAssumption DEF WithPoolTask
<1>6. /\ Crew(new) /\ Len(new) = n
      /\ \A v \in 1..n : new[v] = IF v = w THEN t ELSE crew[v]
      /\ IdleOf(new) = IdleOf(crew) \ {w}
  <2>1. w \in 1..Len(crew)  BY <1>1, <1>2
  <2>2. HasWorkerAt(crew, w, t, new)  BY <1>5, <2>1, CrewSet
  <2> QED  BY <1>1, <1>5, <2>2 DEF HasWorkerAt
<1>7. Cardinality(IdleOf(new)) = Cardinality(IdleOf(crew)) - 1
  <2>1. PICK A : A = IdleOf(crew)  OBVIOUS
  <2>2. IsFiniteSet(A) /\ w \in A  BY <2>1, IdleFinite
  <2>3. Cardinality(A \ {w}) = Cardinality(A) - 1  BY <2>2, FS_RemoveElement
  <2> QED  BY <1>6, <2>1, <2>3
<1>8. /\ \A x : In(x, queue) <=> x = t \/ In(x, tail)
      /\ ~In(t, tail)
  BY <1>3, <1>4 DEF HeadOff
<1>9. /\ \A v, u \in 1..n : crew[v] # Nothing /\ crew[v] = crew[u] => v = u
      /\ \A v \in 1..n : crew[v] # Nothing => crew[v] \in map /\ ~In(crew[v], queue)
      /\ \A x : In(x, queue) => x \in map
      /\ \A x \in map : In(x, queue) \/ \E v \in 1..n : crew[v] = x
  BY <1>1 DEF Shared
<1>10. \A v \in 1..n : v # w /\ crew[v] # Nothing => crew[v] # t /\ ~In(crew[v], tail)  BY <1>8, <1>9
<1>11. \A v, u \in 1..n : new[v] # Nothing /\ new[v] = new[u] => v = u
  <2> SUFFICES ASSUME NEW v \in 1..n, NEW u \in 1..n, new[v] # Nothing, new[v] = new[u] PROVE v = u  OBVIOUS
  <2>1. new[v] = (IF v = w THEN t ELSE crew[v]) /\ new[u] = IF u = w THEN t ELSE crew[u]  BY <1>6
  <2>2. CASE v = w  BY <1>5, <1>10, <2>1, <2>2
  <2>3. CASE v # w
    <3>1. crew[v] # Nothing /\ crew[v] # t  BY <1>10, <2>1, <2>3
    <3>2. u # w  BY <2>1, <2>3, <3>1
    <3> QED  BY <1>9, <2>1, <2>3, <3>1, <3>2
  <2> QED  BY <2>2, <2>3
<1>12. \A v \in 1..n : new[v] # Nothing => new[v] \in map /\ ~In(new[v], tail)
  <2> SUFFICES ASSUME NEW v \in 1..n, new[v] # Nothing PROVE new[v] \in map /\ ~In(new[v], tail)  OBVIOUS
  <2>1. CASE v = w
    <3>1. new[v] = t  BY <1>6, <2>1
    <3> QED  BY <1>8, <1>9, <3>1
  <2>2. CASE v # w
    <3>1. new[v] = crew[v]  BY <1>6, <2>2
    <3> QED  BY <1>9, <1>10, <2>2, <3>1
  <2> QED  BY <2>1, <2>2
<1>13. \A x \in map : In(x, tail) \/ \E v \in 1..n : new[v] = x
  <2> SUFFICES ASSUME NEW x \in map, ~In(x, tail) PROVE \E v \in 1..n : new[v] = x  OBVIOUS
  <2>1. CASE x = t  BY <1>2, <1>6, <2>1
  <2>2. CASE x # t
    <3>1. PICK v \in 1..n : crew[v] = x  BY <1>8, <1>9, <2>2
    <3>2. x # Nothing  BY PoolAssumption
    <3>3. v # w  BY <1>2, <3>1, <3>2
    <3> QED  BY <1>6, <3>1, <3>3
  <2> QED  BY <2>1, <2>2
<1>14. \A x : In(x, tail) => x \in map  BY <1>8, <1>9
<1>15. Shared(new, tail, map)  BY <1>6, <1>11, <1>12, <1>13, <1>14 DEF Shared
<1> QED  BY <1>1, <1>6, <1>7, <1>15 DEF HasTaken

LEMMA NewWorkerShares ==
  ASSUME NEW crew, Crew(crew), NEW queue, NEW map, map \subseteq Tasks, Shared(crew, queue, map),
         NEW new, new = Append(crew, Nothing)
  PROVE  Shared(new, queue, map)
<1>1. PICK n \in Nat : n = Len(crew)  BY IdleFinite
<1>2. Len(new) = n + 1 /\ new[n + 1] = Nothing /\ \A v \in 1..n : new[v] = crew[v]  BY <1>1, CrewGrows
<1>3. \A v \in 1..n + 1 : v \in 1..n \/ v = n + 1  OBVIOUS
<1>4. \A v \in 1..n : v \in 1..n + 1  OBVIOUS
<1>5. /\ \A v, u \in 1..n : crew[v] # Nothing /\ crew[v] = crew[u] => v = u
      /\ \A v \in 1..n : crew[v] # Nothing => crew[v] \in map /\ ~In(crew[v], queue)
      /\ \A x : In(x, queue) => x \in map
      /\ \A x \in map : In(x, queue) \/ \E v \in 1..n : crew[v] = x
  BY <1>1 DEF Shared
<1>6. \A v \in 1..n + 1 : new[v] # Nothing => v \in 1..n /\ new[v] = crew[v]  BY <1>2, <1>3
<1>7. \A v, u \in 1..n + 1 : new[v] # Nothing /\ new[v] = new[u] => v = u
  <2> SUFFICES ASSUME NEW v \in 1..n + 1, NEW u \in 1..n + 1, new[v] # Nothing, new[v] = new[u] PROVE v = u
    OBVIOUS
  <2>1. new[u] # Nothing  OBVIOUS
  <2>2. v \in 1..n /\ u \in 1..n /\ crew[v] # Nothing /\ crew[v] = crew[u]  BY <1>6, <2>1
  <2> QED  BY <1>5, <2>2
<1>8. \A v \in 1..n + 1 : new[v] # Nothing => new[v] \in map /\ ~In(new[v], queue)  BY <1>5, <1>6
<1>9. \A x \in map : In(x, queue) \/ \E v \in 1..n + 1 : new[v] = x  BY <1>2, <1>4, <1>5
<1> QED  BY <1>2, <1>5, <1>7, <1>8, <1>9 DEF Shared

LEMMA Processed ==
  ASSUME NEW crew, Crew(crew), NEW queue \in Seq(Tasks), Distinct(queue), NEW later \in Nat,
         NEW map, map \subseteq Tasks, Shared(crew, queue, map), poolSize \in PoolSizes, ~shuttingDown,
         ProcessQueue(crew, queue, later), NEW new, NEW left, NEW then,
         new = workers', left = taskQueue', then = immediates'
  PROVE  /\ Turned(crew, queue, later, new, left, then, map)
         /\ WakesNext(crew, queue, later) => Woken(new, left, then)
<1>1. PICK n \in Nat : n = Len(crew)  BY IdleFinite
<1>2. PICK q \in Nat : q = Len(queue)  BY LenProperties
<1>3. PICK I : I = IdleOf(crew)  OBVIOUS
<1>4. PICK idle : idle = IF I # {} THEN Min(I) ELSE 0  OBVIOUS
<1>5. SelectInSeq(crew, LAMBDA t : t = Nothing) = idle  BY <1>3, <1>4 DEF SelectInSeq, IdleOf
<1>6. I \subseteq 1..n /\ IsFiniteSet(I) /\ Cardinality(I) \in Nat
  <2>1. IsFiniteSet(I) /\ Cardinality(I) \in Nat  BY <1>3, IdleFinite
  <2> QED  BY <1>1, <1>3, <2>1 DEF IdleOf
<1>7. CASE q = 0
  <2>1. queue = <<>>  BY <1>2, <1>7, EmptySeq
  <2>2. new = crew /\ left = queue /\ then = later  BY <2>1 DEF ProcessQueue
  <2>3. Turned(crew, queue, later, new, left, then, map)  BY <1>1, <1>2, <2>2 DEF Turned
  <2> QED  BY <1>2, <1>7, <2>2, <2>3 DEF Woken
<1>8. CASE q # 0
  <2>1. queue # <<>>  BY <1>2, <1>8
  <2>2. \/ idle # 0 /\ new = [crew EXCEPT ![idle] = Head(queue)] /\ left = Tail(queue) /\ then = later
        \/ idle = 0 /\ Len(crew) < poolSize[2] /\ new = Append(crew, Nothing) /\ left = queue /\ then = later + 1
        \/ idle = 0 /\ Len(crew) >= poolSize[2] /\ new = crew /\ left = queue /\ then = later
    BY <1>5, <2>1 DEF ProcessQueue
  <2>3. idle # 0 => idle \in I
    <3>1. I # {} => Min(I) \in I  BY <1>6, ExtremesAre
    <3> QED  BY <1>4, <3>1
  <2>4. idle = 0 => I = {}
    <3>1. I # {} => Min(I) \in I /\ Min(I) # 0
      <4>1. I # {} => Min(I) \in I  BY <1>6, ExtremesAre
      <4> QED  BY <1>6, <4>1
    <3> QED  BY <1>4, <3>1
  <2>5. CASE idle # 0
    <3>1. new = [crew EXCEPT ![idle] = Head(queue)] /\ left = Tail(queue) /\ then = later  BY <2>2, <2>5
    <3>2. idle \in IdleOf(crew) /\ Len(queue) # 0  BY <1>2, <1>3, <1>8, <2>3, <2>5
    <3>3. left \in Seq(Tasks) /\ Len(left) = q - 1 /\ Distinct(left)
      BY <1>2, <3>1, <3>2, LineTailHas DEF HeadOff
    <3>4. /\ Crew(new) /\ Len(new) = n /\ Shared(new, left, map)
          /\ Cardinality(IdleOf(new)) = Cardinality(IdleOf(crew)) - 1
      <4>1. /\ Crew(new) /\ Len(new) = Len(crew) /\ Shared(new, left, map)
            /\ Cardinality(IdleOf(new)) = Cardinality(IdleOf(crew)) - 1
        <5>1. new = WithPoolTask(crew, idle, Head(queue)) /\ left = Tail(queue)  BY <3>1 DEF WithPoolTask
        <5>2. HasTaken(crew, new, left, map)  BY <3>2, <5>1, TaskTaken
        <5> QED  BY <5>2 DEF HasTaken
      <4> QED  BY <1>1, <4>1
    <3>5. Turned(crew, queue, later, new, left, then, map)
      BY <1>1, <1>2, <1>8, <3>1, <3>3, <3>4 DEF Turned
    <3>6. WakesNext(crew, queue, later) => Woken(new, left, then)
      <4>1. PICK c \in Nat : c = Cardinality(IdleOf(crew))  BY <1>3, <1>6
      <4>2. WakesNext(crew, queue, later) => (q > 1 => c <= later + 1)  BY <1>2, <4>1 DEF WakesNext
      <4>3. WakesNext(crew, queue, later) => (q - 1 # 0 => c - 1 <= later)  BY <1>8, <4>2
      <4> QED  BY <3>1, <3>3, <3>4, <4>1, <4>3 DEF Woken
    <3> QED  BY <3>5, <3>6
  <2>6. CASE idle = 0 /\ Len(crew) < poolSize[2]
    <3>0. poolSize[2] \in Nat  BY SizesAre
    <3>1. new = Append(crew, Nothing) /\ left = queue /\ then = later + 1  BY <1>1, <2>2, <2>6, <3>0
    <3>2. Crew(new) /\ Len(new) = n + 1 /\ IdleOf(new) = IdleOf(crew) \cup {n + 1}
      BY <1>1, <3>1, CrewGrows
    <3>3. Shared(new, queue, map)  BY <3>1, NewWorkerShares
    <3>4. Turned(crew, queue, later, new, left, then, map)
      <4>1. n <= n + 1 /\ n + 1 <= poolSize[2]  BY <1>1, <2>6, <3>0
      <4> QED  BY <1>1, <1>2, <3>1, <3>2, <3>3, <4>1 DEF Turned
    <3>5. Woken(new, left, then)
      <4>1. IdleOf(new) = {n + 1}  BY <1>3, <2>4, <2>6, <3>2
      <4>2. Cardinality(IdleOf(new)) = 1  BY <4>1, FS_Singleton
      <4>3. 1 <= then  BY <3>1
      <4> QED  BY <4>2, <4>3 DEF Woken
    <3> QED  BY <3>4, <3>5
  <2>7. CASE idle = 0 /\ ~(Len(crew) < poolSize[2])
    <3>1. new = crew /\ left = queue /\ then = later  BY <2>2, <2>7
    <3>2. Turned(crew, queue, later, new, left, then, map)  BY <1>1, <1>2, <3>1 DEF Turned
    <3>3. Cardinality(IdleOf(new)) = 0  BY <1>3, <2>4, <2>7, <3>1, FS_EmptySet
    <3>4. Woken(new, left, then)  BY <3>1, <3>3 DEF Woken
    <3> QED  BY <3>2, <3>4
  <2> QED  BY <2>5, <2>6, <2>7
<1> QED  BY <1>7, <1>8

OpenOnes(p) == {t \in Tasks : p[t] = "open"}
Promised(p) == p \in [Tasks -> {"none", "open"} \cup Answered]

Fits(crew) == resized = 0 => poolSize[1] <= Len(crew) /\ Len(crew) <= poolSize[2]

LEMMA TurnKeeps ==
  ASSUME PoolInv, ~shuttingDown, UNCHANGED <<shuttingDown, poolSize, resized>>,
         NEW crew, Crew(crew), NEW queue \in Seq(Tasks), Distinct(queue), NEW later \in Nat,
         NEW map, map = taskMap', NEW given, given = promise', Promised(given), map = OpenOnes(given),
         Shared(crew, queue, map), Fits(crew),
         resized = 0 => WakesNext(crew, queue, later),
         ProcessQueue(crew, queue, later)
  PROVE  PoolInv'
<1>1. PICK new, left, then : new = workers' /\ left = taskQueue' /\ then = immediates'  OBVIOUS
<1>2. PoolTypeOK /\ poolSize \in PoolSizes /\ map \subseteq Tasks  BY DEF PoolInv, PoolTypeOK, OpenOnes
<1>3. /\ Turned(crew, queue, later, new, left, then, map)
      /\ WakesNext(crew, queue, later) => Woken(new, left, then)
  BY <1>1, <1>2, Processed
<1>4. /\ Crew(new) /\ left \in Seq(Tasks) /\ then \in Nat /\ Distinct(left) /\ Shared(new, left, map)
      /\ Len(crew) <= Len(new) /\ (Len(new) = Len(crew) \/ Len(new) <= poolSize[2])
  BY <1>3 DEF Turned
<1>5. Fits(new)
  <2>1. Len(crew) \in Nat /\ Len(new) \in Nat  BY <1>4, IdleFinite
  <2>2. poolSize[1] \in Nat /\ poolSize[2] \in Nat  BY <1>2, SizesAre
  <2> QED  BY <1>4, <2>1, <2>2 DEF Fits
<1>6. PoolTypeOK'
  <2>1. workers' \in Seq(Tasks \cup {Nothing})  BY <1>1, <1>4 DEF Crew
  <2>2. promise' \in [Tasks -> {"none", "open"} \cup Answered]  BY DEF Promised
  <2> QED  BY <1>1, <1>2, <1>4, <2>1, <2>2 DEF PoolTypeOK
<1>7. Distinct(taskQueue')  BY <1>1, <1>4
<1>8. taskMap' = {t \in Tasks : promise'[t] = "open"}  BY DEF OpenOnes
<1>9. Shared(workers', taskQueue', taskMap')  BY <1>1, <1>4
<1>10. Fitting(workers)'  BY <1>1, <1>5 DEF Fits, Fitting
<1>11. resized' = 0 => Woken(workers', taskQueue', immediates')  BY <1>1, <1>3
<1> QED  BY <1>6, <1>7, <1>8, <1>9, <1>10, <1>11 DEF PoolInv

(* What is known of the pool while it is not shut down, said of values.    *)
LEMMA PoolIs ==
  ASSUME PoolInv
  PROVE  /\ Crew(workers) /\ taskQueue \in Seq(Tasks) /\ Distinct(taskQueue) /\ immediates \in Nat
         /\ taskMap = OpenOnes(promise) /\ taskMap \subseteq Tasks /\ Promised(promise)
         /\ poolSize \in PoolSizes /\ Len(taskQueue) \in Nat /\ Len(workers) \in Nat
         /\ ~shuttingDown => Shared(workers, taskQueue, taskMap) /\ Fits(workers)
         /\ ~shuttingDown /\ resized = 0 => Woken(workers, taskQueue, immediates)
         /\ shuttingDown => Len(taskQueue) = 0 /\ taskMap = {}
<1>1. Crew(workers) /\ taskQueue \in Seq(Tasks)  BY DEF PoolInv, PoolTypeOK, Crew
<1>2. Len(taskQueue) \in Nat /\ Len(workers) \in Nat  BY <1>1, LenProperties, IdleFinite
<1>3. taskMap = OpenOnes(promise) /\ taskMap \subseteq Tasks /\ Promised(promise)
  BY DEF PoolInv, PoolTypeOK, OpenOnes, Promised
<1>4. ~shuttingDown => Fits(workers)  BY DEF PoolInv, Fitting, Fits
<1> QED  BY <1>1, <1>2, <1>3, <1>4 DEF PoolInv, PoolTypeOK

LEMMA ImmediateKeeps ==
  ASSUME PoolInv, Immediate
  PROVE  PoolInv'
<1>1. PICK c, q, m, i, g : c = workers /\ q = taskQueue /\ m = taskMap /\ i = immediates /\ g = promise  OBVIOUS
<1>2. /\ Crew(c) /\ q \in Seq(Tasks) /\ Distinct(q) /\ i \in Nat /\ m = OpenOnes(g) /\ Promised(g)
      /\ ~shuttingDown => Shared(c, q, m) /\ Fits(c)
      /\ ~shuttingDown /\ resized = 0 => Woken(c, q, i)
  BY <1>1, PoolIs
<1>3. /\ i > 0 /\ ProcessQueue(c, q, i - 1) /\ m = taskMap' /\ g = promise'
      /\ UNCHANGED <<shuttingDown, poolSize, resized>>
  BY <1>1 DEF Immediate
<1>4. PICK l \in Nat : l = i - 1  BY <1>2, <1>3
<1>5. CASE ~shuttingDown
  <2>1. ProcessQueue(c, q, l)  BY <1>3, <1>4
  <2>2. resized = 0 => WakesNext(c, q, l)
    <3>1. Woken(c, q, i) => WakesNext(c, q, l)
      <4>1. Cardinality(IdleOf(c)) \in Nat /\ Len(q) \in Nat  BY <1>2, IdleFinite, LenProperties
      <4> QED  BY <1>2, <1>4, <4>1 DEF Woken, WakesNext
    <3> QED  BY <1>2, <1>5, <3>1
  <2> QED  BY <1>2, <1>3, <1>5, <2>1, <2>2, TurnKeeps
<1>6. CASE shuttingDown
  <2>1. workers' = c /\ taskQueue' = q /\ immediates' = l  BY <1>3, <1>4, <1>6 DEF ProcessQueue
  <2>2. PoolTypeOK'  BY <1>1, <1>3, <1>4, <2>1 DEF PoolInv, PoolTypeOK
  <2> QED  BY <1>1, <1>3, <1>6, <2>1, <2>2 DEF PoolInv
<1> QED  BY <1>5, <1>6

LEMMA OneMoreShared ==
  ASSUME NEW crew, Crew(crew), NEW queue, NEW map, map \subseteq Tasks, Shared(crew, queue, map),
         NEW t \in Tasks, t \notin map, NEW now, \A x : In(x, now) <=> x = t \/ In(x, queue)
  PROVE  Shared(crew, now, map \cup {t})
<1>1. PICK n \in Nat : n = Len(crew)  BY IdleFinite
<1>2. /\ \A v, u \in 1..n : crew[v] # Nothing /\ crew[v] = crew[u] => v = u
      /\ \A v \in 1..n : crew[v] # Nothing => crew[v] \in map /\ ~In(crew[v], queue)
      /\ \A x : In(x, queue) => x \in map
      /\ \A x \in map : In(x, queue) \/ \E v \in 1..n : crew[v] = x
  BY <1>1 DEF Shared
<1>3. \A v \in 1..n : crew[v] # Nothing => crew[v] \in map \cup {t} /\ ~In(crew[v], now)  BY <1>2
<1>4. \A x : In(x, now) => x \in map \cup {t}  BY <1>2
<1>5. \A x \in map \cup {t} : In(x, now) \/ \E v \in 1..n : crew[v] = x  BY <1>2
<1> QED  BY <1>1, <1>2, <1>3, <1>4, <1>5 DEF Shared

LEMMA OneOpened ==
  ASSUME NEW p, Promised(p), NEW t \in Tasks, NEW g, g = [p EXCEPT ![t] = "open"]
  PROVE  Promised(g) /\ OpenOnes(g) = OpenOnes(p) \cup {t}
<1>1. g \in [Tasks -> {"none", "open"} \cup Answered]  BY DEF Promised
<1>2. \A k \in Tasks : g[k] = IF k = t THEN "open" ELSE p[k]  BY DEF Promised
<1> QED  BY <1>1, <1>2 DEF Promised, OpenOnes

LEMMA OneAnswered ==
  ASSUME NEW p, Promised(p), NEW t \in Tasks, NEW end \in Answered, NEW g, g = [p EXCEPT ![t] = end]
  PROVE  Promised(g) /\ OpenOnes(g) = OpenOnes(p) \ {t}
<1>1. g \in [Tasks -> {"none", "open"} \cup Answered]  BY DEF Promised
<1>2. \A k \in Tasks : g[k] = IF k = t THEN end ELSE p[k]  BY DEF Promised
<1>3. end # "open"  BY DEF Answered
<1> QED  BY <1>1, <1>2, <1>3 DEF Promised, OpenOnes

LEMMA ExecuteKeeps ==
  ASSUME PoolInv, NEW t \in Tasks, Execute(t)
  PROVE  PoolInv'
<1>1. PICK c, q, m, i, g : c = workers /\ q = taskQueue /\ m = taskMap /\ i = immediates /\ g = promise  OBVIOUS
<1>2. /\ Crew(c) /\ q \in Seq(Tasks) /\ Distinct(q) /\ i \in Nat /\ m = OpenOnes(g) /\ Promised(g)
      /\ m \subseteq Tasks
      /\ ~shuttingDown => Shared(c, q, m) /\ Fits(c)
      /\ ~shuttingDown /\ resized = 0 => Woken(c, q, i)
  BY <1>1, PoolIs
<1>3. g[t] = "none" /\ UNCHANGED <<poolSize, shuttingDown, resized>>  BY <1>1 DEF Execute
<1>4. PICK h : h = promise'  OBVIOUS
<1>5. CASE shuttingDown \/ Len(taskQueue) >= QueueSize
  <2>1. h = [g EXCEPT ![t] = "rejected"] /\ UNCHANGED <<workers, taskQueue, taskMap, immediates>>
    BY <1>1, <1>4, <1>5 DEF Execute
  <2>2. "rejected" \in Answered  BY DEF Answered
  <2>3. Promised(h) /\ OpenOnes(h) = OpenOnes(g) \ {t}  BY <1>2, <2>1, <2>2, OneAnswered
  <2>4. t \notin OpenOnes(g)  BY <1>3 DEF OpenOnes
  <2>5. OpenOnes(h) = m  BY <1>2, <2>3, <2>4
  <2>6. PoolTypeOK'  BY <1>3, <1>4, <2>1, <2>3 DEF PoolInv, PoolTypeOK, Promised
  <2>7. taskMap' = {k \in Tasks : promise'[k] = "open"}  BY <1>1, <1>4, <2>1, <2>5 DEF OpenOnes
  <2>8. Fitting(workers)' <=> Fitting(workers)  BY <1>3, <2>1 DEF Fitting
  <2> QED  BY <1>3, <2>1, <2>6, <2>7, <2>8 DEF PoolInv
<1>6. CASE ~(shuttingDown \/ Len(taskQueue) >= QueueSize)
  <2>1. PICK n \in Nat : n = Len(q)  BY <1>2, LenProperties
  <2>2. PICK I : I = {k \in 1..n : UrgencyOf[q[k]] < UrgencyOf[t]}  OBVIOUS
  <2>3. PICK lower : lower = IF I # {} THEN Min(I) ELSE 0  OBVIOUS
  <2>4. SelectInSeq(taskQueue, LAMBDA k : UrgencyOf[k] < UrgencyOf[t]) = lower
    BY <1>1, <2>1, <2>2, <2>3 DEF SelectInSeq
  <2>5. PICK place : place = IF lower = 0 THEN n + 1 ELSE lower  OBVIOUS
  <2>6. place \in 1..n + 1
    <3>1. lower \in 0..n
      <4>1. I \subseteq 1..n  BY <2>2
      <4>2. I # {} => Min(I) \in I  BY <4>1, ExtremesAre
      <4>3. CASE I = {}  BY <2>1, <2>3, <4>3
      <4>4. CASE I # {}
        <5>1. lower \in 1..n  BY <2>3, <4>1, <4>2, <4>4
        <5> QED  BY <5>1
      <4> QED  BY <4>3, <4>4
    <3> QED  BY <2>1, <2>5, <3>1
  <2>7. PICK s : s = InsertAt(q, place, t)  OBVIOUS
  <2>8. /\ h = [g EXCEPT ![t] = "open"] /\ taskMap' = m \cup {t} /\ ProcessQueue(c, s, i)
    BY <1>1, <1>4, <1>6, <2>1, <2>4, <2>5, <2>7 DEF Execute
  <2>9. Promised(h) /\ OpenOnes(h) = OpenOnes(g) \cup {t}  BY <1>2, <2>8, OneOpened
  <2>10. t \notin m  BY <1>2, <1>3 DEF OpenOnes
  <2>11. Shared(c, q, m)  BY <1>2, <1>6
  <2>12. ~In(t, q)  BY <2>10, <2>11 DEF Shared
  <2>13. s \in Seq(Tasks) /\ Len(s) = n + 1 /\ Distinct(s) /\ \A x : In(x, s) <=> x = t \/ In(x, q)
    <3>1. place \in 1..Len(q) + 1  BY <2>1, <2>6
    <3> QED  BY <1>2, <2>1, <2>7, <2>12, <3>1, InsertedHas
  <2>14. PICK map : map = taskMap'  OBVIOUS
  <2>15. Shared(c, s, map)
    <3>1. Shared(c, s, m \cup {t})  BY <1>2, <2>10, <2>11, <2>13, OneMoreShared
    <3> QED  BY <2>8, <2>14, <3>1
  <2>16. resized = 0 => WakesNext(c, s, i)
    <3>1. Woken(c, q, i) => WakesNext(c, s, i)
      <4>1. Cardinality(IdleOf(c)) \in Nat  BY <1>2, IdleFinite
      <4> QED  BY <1>2, <2>1, <2>13, <4>1 DEF Woken, WakesNext
    <3> QED  BY <1>2, <1>6, <3>1
  <2>17. map = OpenOnes(h)  BY <1>2, <2>8, <2>9, <2>14
  <2>18. ~shuttingDown /\ Fits(c)  BY <1>2, <1>6
  <2> QED  BY <1>2, <1>3, <1>4, <2>8, <2>9, <2>13, <2>14, <2>15, <2>16, <2>17, <2>18, TurnKeeps
<1> QED  BY <1>5, <1>6

(* A worker is done with its task.                                         *)
LEMMA DoneShared ==
  ASSUME NEW crew, Crew(crew), NEW queue, NEW map, map \subseteq Tasks, Shared(crew, queue, map),
         NEW w \in 1..Len(crew), NEW t, t = crew[w], t # Nothing,
         NEW new, HasWorkerAt(crew, w, Nothing, new)
  PROVE  Shared(new, queue, map \ {t})
<1>1. PICK n \in Nat : n = Len(crew)  BY IdleFinite
<1>2. /\ \A v, u \in 1..n : crew[v] # Nothing /\ crew[v] = crew[u] => v = u
      /\ \A v \in 1..n : crew[v] # Nothing => crew[v] \in map /\ ~In(crew[v], queue)
      /\ \A x : In(x, queue) => x \in map
      /\ \A x \in map : In(x, queue) \/ \E v \in 1..n : crew[v] = x
  BY <1>1 DEF Shared
<1>3. Len(new) = n /\ new[w] = Nothing /\ \A v \in 1..n : v # w => new[v] = crew[v]  BY <1>1 DEF HasWorkerAt
<1>4. \A v \in 1..n : new[v] # Nothing => v # w /\ new[v] = crew[v] /\ crew[v] # t  BY <1>1, <1>2, <1>3
<1>5. \A v, u \in 1..n : new[v] # Nothing /\ new[v] = new[u] => v = u  BY <1>2, <1>4
<1>6. \A v \in 1..n : new[v] # Nothing => new[v] \in map \ {t} /\ ~In(new[v], queue)  BY <1>2, <1>4
<1>7. ~In(t, queue)  BY <1>1, <1>2
<1>8. \A x : In(x, queue) => x \in map \ {t}  BY <1>2, <1>7
<1>9. \A x \in map \ {t} : In(x, queue) \/ \E v \in 1..n : new[v] = x
  <2> SUFFICES ASSUME NEW x \in map, x # t, ~In(x, queue) PROVE \E v \in 1..n : new[v] = x  OBVIOUS
  <2>1. PICK v \in 1..n : crew[v] = x  BY <1>2
  <2>2. v # w  BY <2>1
  <2> QED  BY <1>3, <2>1, <2>2
<1> QED  BY <1>3, <1>5, <1>6, <1>8, <1>9 DEF Shared

(* A worker goes, and with it its task.                                    *)
LEMMA GoneShared ==
  ASSUME NEW crew, Crew(crew), NEW queue, NEW map, map \subseteq Tasks, Shared(crew, queue, map),
         NEW w \in 1..Len(crew), NEW new, new = RemoveAt(crew, w)
  PROVE  Shared(new, queue, map \ {crew[w]})
<1>1. PICK n \in Nat : n = Len(crew)  BY IdleFinite
<1>2. PICK t : t = crew[w]  OBVIOUS
<1>3. /\ \A v, u \in 1..n : crew[v] # Nothing /\ crew[v] = crew[u] => v = u
      /\ \A v \in 1..n : crew[v] # Nothing => crew[v] \in map /\ ~In(crew[v], queue)
      /\ \A x : In(x, queue) => x \in map
      /\ \A x \in map : In(x, queue) \/ \E v \in 1..n : crew[v] = x
  BY <1>1 DEF Shared
<1>4. Len(new) = n - 1 /\ \A v \in 1..n - 1 : new[v] = IF v < w THEN crew[v] ELSE crew[v + 1]
  BY <1>1, CrewShrinks
<1>5. w \in 1..n /\ w \in Nat  BY <1>1
<1> DEFINE Was(v) == IF v < w THEN v ELSE v + 1
<1>6. ASSUME NEW v \in 1..n - 1 PROVE Was(v) \in 1..n /\ Was(v) # w /\ new[v] = crew[Was(v)]  BY <1>4, <1>5
<1>7. \A a, b \in 1..n - 1 : Was(a) = Was(b) => a = b  BY <1>5
<1>8. ASSUME NEW v \in 1..n, v # w PROVE \E a \in 1..n - 1 : Was(a) = v
  <2>1. CASE v < w
    <3>1. v \in 1..n - 1 /\ Was(v) = v  BY <1>5, <2>1
    <3> QED  BY <3>1
  <2>2. CASE v > w
    <3>1. v - 1 \in 1..n - 1 /\ Was(v - 1) = v  BY <1>5, <2>2
    <3> QED  BY <3>1
  <2> QED  BY <1>5, <1>8, <2>1, <2>2
<1> HIDE DEF Was
<1>9. \A v, u \in 1..n - 1 : new[v] # Nothing /\ new[v] = new[u] => v = u
  <2> SUFFICES ASSUME NEW v \in 1..n - 1, NEW u \in 1..n - 1, new[v] # Nothing, new[v] = new[u] PROVE v = u
    OBVIOUS
  <2>1. Was(v) = Was(u)  BY <1>3, <1>6
  <2> QED  BY <1>7, <2>1
<1>10. \A v \in 1..n - 1 : new[v] # Nothing => new[v] \in map \ {t} /\ ~In(new[v], queue)
  <2> SUFFICES ASSUME NEW v \in 1..n - 1, new[v] # Nothing PROVE new[v] \in map \ {t} /\ ~In(new[v], queue)
    OBVIOUS
  <2>1. PICK u \in 1..n : u # w /\ new[v] = crew[u]  BY <1>6
  <2>2. crew[u] # t  BY <1>2, <1>3, <1>5, <2>1
  <2> QED  BY <1>3, <2>1, <2>2
<1>11. \A x : In(x, queue) => x \in map \ {t}
  <2>1. ~In(t, queue)
    <3>1. CASE t = Nothing
      <4>1. t \notin map  BY <3>1, PoolAssumption
      <4> QED  BY <1>3, <4>1
    <3>2. CASE t # Nothing  BY <1>2, <1>3, <1>5, <3>2
    <3> QED  BY <3>1, <3>2
  <2> QED  BY <1>3, <2>1
<1>12. \A x \in map \ {t} : In(x, queue) \/ \E v \in 1..n - 1 : new[v] = x
  <2> SUFFICES ASSUME NEW x \in map, x # t, ~In(x, queue) PROVE \E v \in 1..n - 1 : new[v] = x  OBVIOUS
  <2>1. PICK v \in 1..n : crew[v] = x  BY <1>3
  <2>2. v # w  BY <1>2, <2>1
  <2>3. PICK a \in 1..n - 1 : Was(a) = v  BY <1>8, <2>2
  <2> QED  BY <1>6, <2>1, <2>3
<1>13. Shared(new, queue, map \ {t})  BY <1>4, <1>9, <1>10, <1>11, <1>12 DEF Shared
<1> QED  BY <1>2, <1>13

LEMMA AnswersKeeps ==
  ASSUME PoolInv, NEW w \in DOMAIN workers, WorkerAnswers(w)
  PROVE  PoolInv'
<1>1. PICK c, q, m, i, g : c = workers /\ q = taskQueue /\ m = taskMap /\ i = immediates /\ g = promise  OBVIOUS
<1>2. /\ Crew(c) /\ q \in Seq(Tasks) /\ Distinct(q) /\ i \in Nat /\ m = OpenOnes(g) /\ Promised(g)
      /\ m \subseteq Tasks
      /\ ~shuttingDown => Shared(c, q, m) /\ Fits(c)
      /\ ~shuttingDown /\ resized = 0 => Woken(c, q, i)
      /\ shuttingDown => m = {}
  BY <1>1, PoolIs
<1>3. PICK n \in Nat : n = Len(c)  BY <1>2, IdleFinite
<1>4. w \in 1..n
  <2>1. c \in Seq(Tasks \cup {Nothing})  BY <1>2 DEF Crew
  <2>2. DOMAIN c = 1..n  BY <1>3, <2>1, LenProperties
  <2> QED  BY <1>1, <2>2
<1>5. PICK t : t = c[w]  OBVIOUS
<1>6. t # Nothing /\ UNCHANGED <<poolSize, shuttingDown, resized>>  BY <1>1, <1>5 DEF WorkerAnswers
<1>7. PICK new : new = [c EXCEPT ![w] = Nothing]  OBVIOUS
<1>8. HasWorkerAt(c, w, Nothing, new)
  <2>1. Nothing \in Tasks \cup {Nothing} /\ w \in 1..Len(c)  BY <1>3, <1>4
  <2> QED  BY <1>2, <1>7, <2>1, CrewSet
<1>9. Crew(new) /\ Len(new) = n /\ IdleOf(new) = IdleOf(c) \cup {w}  BY <1>3, <1>8 DEF HasWorkerAt
<1>10. CASE t \in m
  <2>1. ~shuttingDown  BY <1>2, <1>10
  <2>2. PICK map, h : map = taskMap' /\ h = promise'  OBVIOUS
  <2>3. map = m \ {t} /\ ProcessQueue(new, q, i)  BY <1>1, <1>5, <1>7, <1>10, <2>2 DEF WorkerAnswers, NextTask
  <2>4. PICK end \in Answered : h = [g EXCEPT ![t] = end]  BY <1>1, <1>5, <1>10, <2>2 DEF WorkerAnswers
  <2>5. t \in Tasks  BY <1>2, <1>10
  <2>6. Promised(h) /\ OpenOnes(h) = OpenOnes(g) \ {t}  BY <1>2, <2>4, <2>5, OneAnswered
  <2>7. Shared(new, q, map)
    <3>1. w \in 1..Len(c) /\ Shared(c, q, m)  BY <1>2, <1>3, <1>4, <2>1
    <3>2. Shared(new, q, m \ {t})  BY <1>2, <1>5, <1>6, <1>8, <3>1, DoneShared
    <3> QED  BY <2>3, <3>2
  <2>8. Fits(new)  BY <1>2, <1>3, <1>9, <2>1 DEF Fits
  <2>9. resized = 0 => WakesNext(new, q, i)
    <3>1. Woken(c, q, i) => WakesNext(new, q, i)
      <4>1. PICK A : A = IdleOf(c)  OBVIOUS
      <4>2. IsFiniteSet(A) /\ Cardinality(A) \in Nat /\ Len(q) \in Nat  BY <1>2, <4>1, IdleFinite, LenProperties
      <4>3. Cardinality(A \cup {w}) = IF w \in A THEN Cardinality(A) ELSE Cardinality(A) + 1  BY <4>2, FS_AddElement
      <4>4. PICK k, l \in Nat : k = Cardinality(A) /\ l = Cardinality(A \cup {w}) /\ l <= k + 1
        <5>1. CASE w \in A  BY <4>2, <4>3, <5>1
        <5>2. CASE w \notin A  BY <4>2, <4>3, <5>2
        <5> QED  BY <5>1, <5>2
      <4>5. Cardinality(IdleOf(new)) = l /\ Cardinality(IdleOf(c)) = k  BY <1>9, <4>1, <4>4
      <4> QED  BY <1>2, <4>2, <4>4, <4>5 DEF Woken, WakesNext
    <3> QED  BY <1>2, <2>1, <3>1
  <2>10. map = OpenOnes(h)  BY <1>2, <2>3, <2>6
  <2> QED  BY <1>2, <1>6, <1>9, <2>1, <2>2, <2>3, <2>6, <2>7, <2>8, <2>9, <2>10, TurnKeeps
<1>11. CASE t \notin m
  <2>1. shuttingDown
    <3>1. Shared(c, q, m) => t \in m  BY <1>3, <1>4, <1>5, <1>6 DEF Shared
    <3> QED  BY <1>2, <1>11, <3>1
  <2>2. workers' = new /\ UNCHANGED <<taskQueue, taskMap, immediates, promise>>
    BY <1>1, <1>5, <1>7, <1>11 DEF WorkerAnswers
  <2>3. PoolTypeOK'  BY <1>6, <1>9, <2>2 DEF PoolInv, PoolTypeOK, Crew
  <2> QED  BY <1>6, <2>1, <2>2, <2>3 DEF PoolInv
<1> QED  BY <1>10, <1>11

LEMMA RecycleKeeps ==
  ASSUME PoolInv, NEW w \in DOMAIN workers, Recycle(w)
  PROVE  PoolInv'
<1>1. PICK c, q, m, i, g : c = workers /\ q = taskQueue /\ m = taskMap /\ i = immediates /\ g = promise  OBVIOUS
<1>2. /\ Crew(c) /\ q \in Seq(Tasks) /\ Distinct(q) /\ i \in Nat /\ m = OpenOnes(g) /\ Promised(g)
      /\ m \subseteq Tasks /\ poolSize \in PoolSizes
      /\ ~shuttingDown => Shared(c, q, m) /\ Fits(c)
      /\ ~shuttingDown /\ resized = 0 => Woken(c, q, i)
      /\ shuttingDown => Len(q) = 0 /\ m = {}
  BY <1>1, PoolIs
<1>3. PICK n \in Nat : n = Len(c)  BY <1>2, IdleFinite
<1>4. w \in 1..n
  <2>1. c \in Seq(Tasks \cup {Nothing})  BY <1>2 DEF Crew
  <2>2. DOMAIN c = 1..n  BY <1>3, <2>1, LenProperties
  <2> QED  BY <1>1, <2>2
<1>5. PICK t : t = c[w]  OBVIOUS
<1>6. PICK gone : gone = RemoveAt(c, w)  OBVIOUS
<1>7. /\ Crew(gone) /\ Len(gone) = n - 1
      /\ Cardinality(IdleOf(gone)) <= Cardinality(IdleOf(c))
  <2>1. w \in 1..Len(c)  BY <1>3, <1>4
  <2> QED  BY <1>2, <1>3, <1>6, <2>1, CrewShrinks
<1>8. PICK new : new = Refilled(gone)  OBVIOUS
<1>9. PICK map, h : map = taskMap' /\ h = promise'  OBVIOUS
<1>10. /\ map = m \ {t} /\ h = (IF t \in m THEN [g EXCEPT ![t] = "rejected"] ELSE g)
       /\ ProcessQueue(new, q, i) /\ UNCHANGED <<poolSize, shuttingDown, resized>>
  BY <1>1, <1>5, <1>6, <1>8, <1>9 DEF Recycle, TaskRejected
<1>11. Promised(h) /\ map = OpenOnes(h)
  <2>1. CASE t \in m
    <3>1. t \in Tasks /\ "rejected" \in Answered /\ h = [g EXCEPT ![t] = "rejected"]
      BY <1>2, <1>10, <2>1 DEF Answered
    <3>2. Promised(h) /\ OpenOnes(h) = OpenOnes(g) \ {t}  BY <1>2, <3>1, OneAnswered
    <3> QED  BY <1>2, <1>10, <3>2
  <2>2. CASE t \notin m
    <3>1. h = g /\ map = m  BY <1>10, <2>2
    <3> QED  BY <1>2, <3>1
  <2> QED  BY <2>1, <2>2
<1>12. poolSize[1] \in Nat /\ poolSize[2] \in Nat /\ poolSize[1] <= poolSize[2]  BY <1>2, SizesAre
<1>13. new = gone \/ (~shuttingDown /\ Len(gone) < poolSize[1] /\ new = Append(gone, Nothing))
  BY <1>8 DEF Refilled
<1>14. Crew(new)  BY <1>7, <1>13, CrewGrows
<1>15. CASE ~shuttingDown
  <2>1. Shared(gone, q, m \ {t})
    <3>1. w \in 1..Len(c) /\ Shared(c, q, m)  BY <1>2, <1>3, <1>4, <1>15
    <3> QED  BY <1>2, <1>5, <1>6, <3>1, GoneShared
  <2>2. Shared(new, q, map)
    <3>1. map \subseteq Tasks /\ Shared(gone, q, map)  BY <1>2, <1>10, <2>1
    <3> QED  BY <1>7, <1>13, <3>1, NewWorkerShares
  <2>3. Len(new) \in Nat /\ ((Len(new) = n - 1 /\ poolSize[1] <= n - 1) \/ (Len(new) = n /\ n - 1 < poolSize[1]))
    <3>1. CASE Len(gone) < poolSize[1]
      <4>1. new = Append(gone, Nothing)  BY <1>8, <1>15, <3>1 DEF Refilled
      <4>2. Len(new) = Len(gone) + 1  BY <1>7, <4>1, CrewGrows
      <4> QED  BY <1>3, <1>7, <3>1, <4>2
    <3>2. CASE ~(Len(gone) < poolSize[1])
      <4>1. new = gone /\ Len(gone) \in Nat  BY <1>7, <1>8, <3>2, IdleFinite DEF Refilled
      <4>2. Len(new) = n - 1 /\ Len(new) \in Nat  BY <1>7, <4>1
      <4>3. poolSize[1] <= n - 1  BY <1>7, <1>12, <3>2, <4>1, <4>2
      <4> QED  BY <4>2, <4>3
    <3> QED  BY <3>1, <3>2
  <2>4. Fits(new)
    <3>1. resized = 0 => poolSize[1] <= n /\ n <= poolSize[2]  BY <1>2, <1>3, <1>15 DEF Fits
    <3> QED  BY <1>12, <2>3, <3>1 DEF Fits
  <2>5. resized = 0 => WakesNext(new, q, i)
    <3>1. Woken(c, q, i) => WakesNext(new, q, i)
      <4>1. PICK A : A = IdleOf(gone)  OBVIOUS
      <4>2. PICK a, k \in Nat : a = Cardinality(A) /\ k = Cardinality(IdleOf(c)) /\ a <= k
        BY <1>2, <1>7, <4>1, IdleFinite
      <4>3. PICK l \in Nat : l = Cardinality(IdleOf(new)) /\ l <= a + 1
        <5>1. CASE new = gone  BY <4>1, <4>2, <5>1
        <5>2. CASE new = Append(gone, Nothing)
          <6>1. PICK e : e = Len(gone) + 1  OBVIOUS
          <6>2. IdleOf(new) = A \cup {e}  BY <1>7, <4>1, <5>2, <6>1, CrewGrows
          <6>3. IsFiniteSet(A)  BY <1>7, <4>1, IdleFinite
          <6>4. Cardinality(A \cup {e}) = IF e \in A THEN Cardinality(A) ELSE Cardinality(A) + 1
            BY <6>3, FS_AddElement
          <6>5. CASE e \in A  BY <4>2, <6>2, <6>4, <6>5
          <6>6. CASE e \notin A  BY <4>2, <6>2, <6>4, <6>6
          <6> QED  BY <6>5, <6>6
        <5> QED  BY <1>13, <5>1, <5>2
      <4>4. Len(q) \in Nat  BY <1>2, LenProperties
      <4> QED  BY <1>2, <4>2, <4>3, <4>4 DEF Woken, WakesNext
    <3> QED  BY <1>2, <1>15, <3>1
  <2> QED  BY <1>2, <1>9, <1>10, <1>11, <1>14, <1>15, <2>2, <2>4, <2>5, TurnKeeps
<1>16. CASE shuttingDown
  <2>1. workers' = new /\ taskQueue' = q /\ immediates' = i  BY <1>10, <1>16 DEF ProcessQueue
  <2>2. map = {}  BY <1>2, <1>10, <1>16
  <2>3. PoolTypeOK'
    <3>1. workers' \in Seq(Tasks \cup {Nothing})  BY <1>14, <2>1 DEF Crew
    <3>2. promise' \in [Tasks -> {"none", "open"} \cup Answered]  BY <1>9, <1>11 DEF Promised
    <3> QED  BY <1>1, <1>2, <1>9, <1>10, <2>1, <2>2, <3>1, <3>2 DEF PoolInv, PoolTypeOK
  <2>4. taskMap' = {k \in Tasks : promise'[k] = "open"}  BY <1>9, <1>11 DEF OpenOnes
  <2> QED  BY <1>1, <1>2, <1>9, <1>10, <1>16, <2>1, <2>2, <2>3, <2>4 DEF PoolInv
<1> QED  BY <1>15, <1>16

(* Workers who have nothing to do yet are more of the crew.                *)
LEMMA MoreShared ==
  ASSUME NEW crew, Crew(crew), NEW k \in Nat, NEW new, new = crew \o AllIdle(k),
         NEW queue, NEW map, map \subseteq Tasks
  PROVE  Crew(new) /\ (Shared(crew, queue, map) => Shared(new, queue, map))
<1>1. PICK n \in Nat : n = Len(crew)  BY IdleFinite
<1>2. PICK S : S = Tasks \cup {Nothing}  OBVIOUS
<1>3. crew \in Seq(S)  BY <1>2 DEF Crew
<1>4. PICK more : more = AllIdle(k)  OBVIOUS
<1>5. more \in [1..k -> S] /\ \A v \in 1..k : more[v] = Nothing  BY <1>2, <1>4 DEF AllIdle
<1>6. more \in Seq(S) /\ Len(more) = k  BY <1>5, SeqFrom
<1>7. /\ new \in Seq(S) /\ Len(new) = n + k
      /\ \A v \in 1..n + k : new[v] = IF v <= n THEN crew[v] ELSE more[v - n]
  <2>1. new = crew \o more  BY <1>4
  <2>2. /\ crew \o more \in Seq(S) /\ Len(crew \o more) = Len(crew) + Len(more)
        /\ \A v \in 1..Len(crew) + Len(more) :
             (crew \o more)[v] = IF v <= Len(crew) THEN crew[v] ELSE more[v - Len(crew)]
    BY <1>3, <1>6, ConcatProperties
  <2> QED  BY <1>1, <1>6, <2>1, <2>2
<1>8. \A v \in 1..n : v \in 1..n + k /\ new[v] = crew[v]  BY <1>7
<1>9. \A v \in 1..n + k : v \in 1..n \/ new[v] = Nothing
  <2> SUFFICES ASSUME NEW v \in 1..n + k, v \notin 1..n PROVE new[v] = Nothing  OBVIOUS
  <2>1. v - n \in 1..k /\ ~(v <= n)  OBVIOUS
  <2>2. new[v] = more[v - n]  BY <1>7, <2>1
  <2> QED  BY <1>5, <2>1, <2>2
<1>10. ASSUME Shared(crew, queue, map) PROVE Shared(new, queue, map)
  <2>1. /\ \A v, u \in 1..n : crew[v] # Nothing /\ crew[v] = crew[u] => v = u
        /\ \A v \in 1..n : crew[v] # Nothing => crew[v] \in map /\ ~In(crew[v], queue)
        /\ \A x : In(x, queue) => x \in map
        /\ \A x \in map : In(x, queue) \/ \E v \in 1..n : crew[v] = x
    BY <1>1, <1>10 DEF Shared
  <2>2. \A v \in 1..n + k : new[v] # Nothing => v \in 1..n /\ new[v] = crew[v]  BY <1>8, <1>9
  <2>3. \A v, u \in 1..n + k : new[v] # Nothing /\ new[v] = new[u] => v = u
    <3> SUFFICES ASSUME NEW v \in 1..n + k, NEW u \in 1..n + k, new[v] # Nothing, new[v] = new[u] PROVE v = u
      OBVIOUS
    <3>1. new[u] # Nothing  OBVIOUS
    <3>2. v \in 1..n /\ u \in 1..n /\ crew[v] # Nothing /\ crew[v] = crew[u]  BY <2>2, <3>1
    <3> QED  BY <2>1, <3>2
  <2>4. \A v \in 1..n + k : new[v] # Nothing => new[v] \in map /\ ~In(new[v], queue)  BY <2>1, <2>2
  <2>5. \A x \in map : In(x, queue) \/ \E v \in 1..n + k : new[v] = x
    <3> SUFFICES ASSUME NEW x \in map, ~In(x, queue) PROVE \E v \in 1..n + k : new[v] = x  OBVIOUS
    <3>1. PICK v \in 1..n : crew[v] = x  BY <2>1
    <3> QED  BY <1>8, <3>1
  <2>6. PICK m : m = n + k  OBVIOUS
  <2>7. /\ \A v, u \in 1..m : new[v] # Nothing /\ new[v] = new[u] => v = u
        /\ \A v \in 1..m : new[v] # Nothing => new[v] \in map /\ ~In(new[v], queue)
        /\ \A x \in map : In(x, queue) \/ \E v \in 1..m : new[v] = x
    BY <2>3, <2>4, <2>5, <2>6
  <2>8. m = Len(new) /\ \A x : In(x, queue) => x \in map  BY <1>7, <2>1, <2>6
  <2> QED  BY <2>7, <2>8 DEF Shared
<1> QED  BY <1>2, <1>7, <1>10 DEF Crew

LEMMA ResizeKeeps ==
  ASSUME PoolInv, NEW s \in PoolSizes, Resize(s)
  PROVE  PoolInv'
<1>1. PICK c, q, m : c = workers /\ q = taskQueue /\ m = taskMap  OBVIOUS
<1>2. /\ Crew(c) /\ m \subseteq Tasks /\ (~shuttingDown => Shared(c, q, m))
  BY <1>1, PoolIs
<1>3. /\ resized < Resizes /\ resized' = resized + 1 /\ poolSize' = s
      /\ workers' = (IF Len(c) < s[1] THEN c \o AllIdle(s[1] - Len(c)) ELSE c)
      /\ UNCHANGED <<taskQueue, taskMap, immediates, shuttingDown, promise>>
  BY <1>1 DEF Resize
<1>4. PICK new : new = workers'  OBVIOUS
<1>5. Crew(new) /\ (~shuttingDown => Shared(new, q, m))
  <2>1. CASE Len(c) < s[1]
    <3>1. s[1] \in Nat /\ Len(c) \in Nat  BY <1>2, PoolAssumption, IdleFinite
    <3>2. PICK k \in Nat : k = s[1] - Len(c)  BY <2>1, <3>1
    <3>3. new = c \o AllIdle(k)  BY <1>3, <1>4, <2>1, <3>2
    <3> QED  BY <1>2, <3>3, MoreShared
  <2>2. CASE ~(Len(c) < s[1])  BY <1>2, <1>3, <1>4, <2>2
  <2> QED  BY <2>1, <2>2
<1>6. resized \in 0..Resizes /\ Resizes \in Nat  BY PoolAssumption DEF PoolInv, PoolTypeOK
<1>7. resized' \in 0..Resizes /\ resized' # 0  BY <1>3, <1>6
<1>8. PoolTypeOK'
  <2>1. workers' \in Seq(Tasks \cup {Nothing})  BY <1>4, <1>5 DEF Crew
  <2> QED  BY <1>3, <1>7, <2>1 DEF PoolInv, PoolTypeOK
<1>9. Fitting(workers)'  BY <1>7 DEF Fitting
<1>10. ~shuttingDown => Shared(workers', taskQueue', taskMap')  BY <1>1, <1>3, <1>4, <1>5
<1> QED  BY <1>3, <1>7, <1>8, <1>9, <1>10 DEF PoolInv

LEMMA ShutdownKeeps ==
  ASSUME PoolInv, Shutdown \/ WorkersTerminated \/ UNCHANGED poolVars
  PROVE  PoolInv'
<1>1. CASE Shutdown
  <2>1. /\ shuttingDown' /\ taskQueue' = <<>> /\ taskMap' = {}
        /\ promise' = [t \in Tasks |-> IF t \in taskMap THEN "rejected" ELSE promise[t]]
        /\ UNCHANGED <<workers, immediates, poolSize, resized>>
    BY <1>1 DEF Shutdown
  <2>2. promise' \in [Tasks -> {"none", "open"} \cup Answered]  BY <2>1 DEF PoolInv, PoolTypeOK, Answered
  <2>3. shuttingDown' = TRUE  BY <1>1 DEF Shutdown
  <2>4. taskQueue' \in Seq(Tasks) /\ Len(taskQueue') = 0  BY <2>1, EmptySeq
  <2>5. PoolTypeOK'  BY <2>1, <2>2, <2>3, <2>4 DEF PoolInv, PoolTypeOK
  <2>6. {k \in Tasks : promise'[k] = "open"} = {}
    <3>1. \A k \in Tasks : promise[k] = "open" => k \in taskMap  BY DEF PoolInv
    <3>2. \A k \in Tasks : promise'[k] = IF k \in taskMap THEN "rejected" ELSE promise[k]  BY <2>1
    <3> QED  BY <3>1, <3>2
  <2>7. Distinct(taskQueue')  BY <2>4 DEF Distinct
  <2> QED  BY <2>1, <2>3, <2>4, <2>5, <2>6, <2>7 DEF PoolInv
<1>2. CASE WorkersTerminated
  <2>1. /\ shuttingDown /\ workers' = <<>>
        /\ UNCHANGED <<taskQueue, taskMap, immediates, poolSize, shuttingDown, promise, resized>>
    BY <1>2 DEF WorkersTerminated
  <2>2. workers' \in Seq(Tasks \cup {Nothing})  BY <2>1, EmptySeq
  <2>3. PoolTypeOK'  BY <2>1, <2>2 DEF PoolInv, PoolTypeOK
  <2> QED  BY <2>1, <2>3 DEF PoolInv
<1>3. CASE UNCHANGED poolVars  BY <1>3 DEF poolVars, PoolInv, PoolTypeOK, Fitting, Shared, Woken, IdleOf, Distinct, In
<1> QED  BY <1>1, <1>2, <1>3

LEMMA PoolSteps ==
  ASSUME PoolInv, PoolNext \/ UNCHANGED poolVars
  PROVE  PoolInv'
<1>1. CASE \E t \in Tasks : Execute(t)  BY <1>1, ExecuteKeeps
<1>2. CASE Immediate  BY <1>2, ImmediateKeeps
<1>3. CASE \E w \in DOMAIN workers : WorkerAnswers(w)  BY <1>3, AnswersKeeps
<1>4. CASE \E w \in DOMAIN workers : Recycle(w)  BY <1>4, RecycleKeeps
<1>5. CASE \E s \in PoolSizes : Resize(s)  BY <1>5, ResizeKeeps
<1>6. CASE Shutdown \/ WorkersTerminated \/ UNCHANGED poolVars  BY <1>6, ShutdownKeeps
<1> QED  BY <1>1, <1>2, <1>3, <1>4, <1>5, <1>6 DEF PoolNext, WorkerDies, TaskTimesOut, IdleTooLong

LEMMA PoolStarts ==
  ASSUME PoolInit
  PROVE  PoolInv
<1>1. PICK n \in Nat : n = poolSize[1]  BY PoolAssumption DEF PoolInit
<1>2. PICK c : c = AllIdle(n)  OBVIOUS
<1>3. workers = c /\ c = [k \in 1..n |-> Nothing]  BY <1>1, <1>2 DEF PoolInit, AllIdle
<1>4. c \in [1..n -> Tasks \cup {Nothing}] /\ \A k \in 1..n : c[k] = Nothing  BY <1>3
<1>5. c \in Seq(Tasks \cup {Nothing}) /\ Len(c) = n  BY <1>4, SeqFrom
<1>6. /\ poolSize \in PoolSizes /\ taskQueue = <<>> /\ taskMap = {} /\ immediates = 0
      /\ shuttingDown = FALSE /\ promise = [t \in Tasks |-> "none"] /\ resized = 0
  BY DEF PoolInit
<1>7. taskQueue \in Seq(Tasks) /\ Len(taskQueue) = 0  BY <1>6, EmptySeq
<1>8. PoolTypeOK
  <2>1. promise \in [Tasks -> {"none", "open"} \cup Answered]  BY <1>6
  <2>0. Resizes \in Nat  BY PoolAssumption
  <2>4. 0 \in 0..Resizes  BY <2>0
  <2>2. resized \in 0..Resizes /\ immediates \in Nat  BY <1>6, <2>4
  <2>5. taskMap \subseteq Tasks /\ shuttingDown \in BOOLEAN  BY <1>6
  <2>3. workers \in Seq(Tasks \cup {Nothing})  BY <1>3, <1>5
  <2> QED  BY <1>6, <1>7, <2>1, <2>2, <2>3, <2>5 DEF PoolTypeOK
<1>9. Shared(workers, taskQueue, taskMap)  BY <1>3, <1>4, <1>5, <1>6, <1>7 DEF Shared, In
<1>10. Fitting(workers)
  <2>1. poolSize[2] \in Nat /\ poolSize[1] <= poolSize[2]  BY <1>6, SizesAre
  <2> QED  BY <1>1, <1>3, <1>5, <2>1 DEF Fitting
<1>11. Distinct(taskQueue) /\ Woken(workers, taskQueue, immediates)  BY <1>7 DEF Distinct, Woken
<1> QED  BY <1>6, <1>7, <1>8, <1>9, <1>10, <1>11 DEF PoolInv

LEMMA PoolIsSound == PoolInv => PoolSound
<1> SUFFICES ASSUME PoolInv PROVE PoolSound  OBVIOUS
<1>1. PICK c, q, m, i, g : c = workers /\ q = taskQueue /\ m = taskMap /\ i = immediates /\ g = promise  OBVIOUS
<1>2. /\ Crew(c) /\ q \in Seq(Tasks) /\ Distinct(q) /\ i \in Nat /\ m = OpenOnes(g)
      /\ m \subseteq Tasks /\ poolSize \in PoolSizes
      /\ ~shuttingDown => Shared(c, q, m) /\ Fits(c)
      /\ ~shuttingDown /\ resized = 0 => Woken(c, q, i)
      /\ shuttingDown => Len(q) = 0 /\ m = {}
  BY <1>1, PoolIs
<1>3. PICK n \in Nat : n = Len(c)  BY <1>2, IdleFinite
<1>4. DOMAIN c = 1..n
  <2>1. c \in Seq(Tasks \cup {Nothing})  BY <1>2 DEF Crew
  <2> QED  BY <1>3, <2>1, LenProperties
<1>5. PICK Q : Q = ToSet(q)  OBVIOUS
<1>6. IsFiniteSet(Q) /\ Cardinality(Q) = Len(q) /\ Len(q) \in Nat /\ \A x : x \in Q <=> In(x, q)
  BY <1>2, <1>5, DistinctCount, InIsToSet, LenProperties
<1>7. PICK B : B = IF shuttingDown THEN {} ELSE {w \in 1..n : c[w] # Nothing}  OBVIOUS
<1>8. PICK W : W = {c[w] : w \in B}  OBVIOUS
<1>9. IsFiniteSet(B) /\ IsFiniteSet(W) /\ Cardinality(W) = Cardinality(B) /\ Cardinality(B) \in Nat
  <2>1. PICK J : J = 1..n  OBVIOUS
  <2>2. IsFiniteSet(J) /\ B \in SUBSET J  BY <1>7, <2>1, FS_Interval
  <2>3. IsFiniteSet(B)  BY <2>2, FS_Subset
  <2>4. PICK f : f = [w \in B |-> c[w]]  OBVIOUS
  <2>5. f \in Surjection(B, W)  BY <1>8, <2>4 DEF Surjection
  <2>6. \A v, w \in B : f[v] = f[w] => v = w
    <3>1. CASE shuttingDown  BY <1>7, <3>1
    <3>2. CASE ~shuttingDown  BY <1>2, <1>3, <1>7, <2>4, <3>2 DEF Shared
    <3> QED  BY <3>1, <3>2
  <2>7. f \in Injection(B, W)  BY <2>5, <2>6 DEF Surjection, Injection, IsInjective
  <2>8. IsFiniteSet(W) /\ Cardinality(W) = Cardinality(B)  BY <2>3, <2>5, <2>7, FS_Surjection
  <2> QED  BY <2>3, <2>8, FS_CardinalityType
<1>10. m = Q \cup W /\ Q \cap W = {}
  <2>1. CASE shuttingDown
    <3>1. B = {} /\ Cardinality(Q) = 0  BY <1>2, <1>6, <1>7, <2>1
    <3>2. W = {} /\ Q = {}  BY <1>6, <1>8, <3>1, FS_EmptySet
    <3> QED  BY <1>2, <2>1, <3>2
  <2>2. CASE ~shuttingDown
    <3>1. B = {w \in 1..n : c[w] # Nothing}  BY <1>7, <2>2
    <3>2. /\ \A w \in 1..n : c[w] # Nothing => c[w] \in m /\ ~In(c[w], q)
          /\ \A x : In(x, q) => x \in m
          /\ \A x \in m : In(x, q) \/ \E w \in 1..n : c[w] = x
      BY <1>2, <1>3, <2>2 DEF Shared
    <3>3. \A x \in m : x # Nothing  BY <1>2, PoolAssumption
    <3> QED  BY <1>6, <1>8, <3>1, <3>2, <3>3
  <2> QED  BY <2>1, <2>2
<1>11. Cardinality(m) = Len(q) + Cardinality(B)
  <2>1. Cardinality(Q \cup W) = Cardinality(Q) + Cardinality(W) - Cardinality(Q \cap W)  BY <1>6, <1>9, FS_Union
  <2>2. Cardinality(Q \cap W) = 0  BY <1>10, FS_EmptySet
  <2> QED  BY <1>6, <1>9, <1>10, <2>1, <2>2
<1>12. TaskMapExact
  <2>1. B = IF shuttingDown THEN {} ELSE {w \in DOMAIN workers : workers[w] # Nothing}  BY <1>1, <1>4, <1>7
  <2>2. W = {workers[w] : w \in B}  BY <1>1, <1>8
  <2>3. taskMap = {t \in Tasks : promise[t] = "open"}  BY <1>1, <1>2 DEF OpenOnes
  <2> QED  BY <1>1, <1>5, <1>10, <1>11, <2>1, <2>2, <2>3 DEF TaskMapExact
<1>13. CrewWithinSizes
  <2>1. poolSize[1] \in Nat /\ poolSize[2] \in Nat  BY <1>2, SizesAre
  <2> SUFFICES ASSUME ~shuttingDown, ~(resized > 0) PROVE Len(workers) \in poolSize[1]..poolSize[2]
    BY DEF CrewWithinSizes
  <2>2. resized = 0  BY DEF PoolInv, PoolTypeOK
  <2>3. poolSize[1] <= n /\ n <= poolSize[2]  BY <1>2, <1>3, <2>2 DEF Fits
  <2> QED  BY <1>1, <1>3, <2>1, <2>3
<1>14. WaitingMeansBusy
  <2> SUFFICES ASSUME taskQueue # <<>>, Nothing \in ToSet(workers), ~(resized > 0) PROVE immediates > 0
    BY DEF WaitingMeansBusy
  <2>1. Len(q) # 0  BY <1>1, <1>2, EmptySeq
  <2>2. resized = 0  BY DEF PoolInv, PoolTypeOK
  <2>3. Woken(c, q, i)  BY <1>2, <2>1, <2>2
  <2>4. PICK w \in 1..n : c[w] = Nothing  BY <1>1, <1>4 DEF ToSet
  <2>5. PICK A : A = IdleOf(c)  OBVIOUS
  <2>6. IsFiniteSet(A) /\ Cardinality(A) \in Nat /\ w \in A  BY <1>2, <1>3, <2>4, <2>5, IdleFinite DEF IdleOf
  <2>7. Cardinality(A) # 0  BY <2>6, FS_EmptySet
  <2>8. Cardinality(A) <= i  BY <2>1, <2>3, <2>5 DEF Woken
  <2> QED  BY <1>1, <1>2, <2>6, <2>7, <2>8
<1> QED  BY <1>12, <1>13, <1>14 DEF PoolInv, PoolSound

(***************************************************************************)
(* The cache of tool calls: what is looked up is moved, what is dropped is *)
(* gone, and nothing is in it that was not stored.                         *)
(***************************************************************************)
LEMMA JoinedHas ==
  ASSUME NEW T, NEW s \in Seq(T), NEW t \in Seq(T), NEW j, j = s \o t
  PROVE  j \in Seq(T) /\ \A x : In(x, j) => In(x, s) \/ In(x, t)
<1>1. PICK m, n \in Nat : m = Len(s) /\ n = Len(t)  BY LenProperties
<1>2. /\ j \in Seq(T) /\ Len(j) = m + n
      /\ \A i \in 1..m + n : j[i] = IF i <= m THEN s[i] ELSE t[i - m]
  <2>1. /\ j \in Seq(T) /\ Len(j) = Len(s) + Len(t)
        /\ \A i \in 1..Len(s) + Len(t) : j[i] = IF i <= Len(s) THEN s[i] ELSE t[i - Len(s)]
    BY ConcatProperties
  <2> QED  BY <1>1, <2>1
<1>3. ASSUME NEW x, In(x, j) PROVE In(x, s) \/ In(x, t)
  <2>1. PICK i \in 1..m + n : j[i] = x  BY <1>2, <1>3 DEF In
  <2>2. CASE i <= m
    <3>1. i \in 1..m /\ s[i] = x  BY <1>2, <2>1, <2>2
    <3> QED  BY <1>1, <3>1 DEF In
  <2>3. CASE ~(i <= m)
    <3>1. i - m \in 1..n /\ t[i - m] = x  BY <1>2, <2>1, <2>3
    <3> QED  BY <1>1, <3>1 DEF In
  <2> QED  BY <2>2, <2>3
<1> QED  BY <1>2, <1>3

LEMMA LookedHas ==
  ASSUME NEW T, NEW list \in Seq(T), NEW k, NEW l, l = Looked(list, k)
  PROVE  l \in Seq(T) /\ \A x : In(x, l) => In(x, list)
<1>1. PICK n \in Nat : n = Len(list) /\ DOMAIN list = 1..n  BY LenProperties
<1>2. PICK F, G : F = {i \in 1..n : list[i][1] = k} /\ G = (1..n) \ F  OBVIOUS
<1>3. PICK s, t : s = AtPlaces(list, G) /\ t = AtPlaces(list, F)  OBVIOUS
<1>4. l = s \o t  BY <1>1, <1>2, <1>3 DEF Looked
<1>5. ArePlaces(F, list) /\ ArePlaces(G, list)  BY <1>1, <1>2 DEF ArePlaces
<1>6. s \in Seq(T) /\ SiftedTo(list, G, s)  BY <1>3, <1>5, AtPlacesIs
<1>7. t \in Seq(T) /\ SiftedTo(list, F, t)  BY <1>3, <1>5, AtPlacesIs
<1>8. \A x : In(x, s) => In(x, list)  BY <1>1, <1>2, <1>6 DEF SiftedTo, In
<1>9. \A x : In(x, t) => In(x, list)  BY <1>1, <1>2, <1>7 DEF SiftedTo, In
<1> QED  BY <1>4, <1>6, <1>7, <1>8, <1>9, JoinedHas

LookedUpTo(f, list, order, n) ==
  f = [k \in 0..n |-> IF k = 0 THEN list ELSE Looked(f[k - 1], KeyOf[order[k]])]

LEMMA LookingGoesOn ==
  ASSUME NEW list, NEW order, NEW n \in Nat
  PROVE  \E f : LookedUpTo(f, list, order, n)
<1> DEFINE Bad == {i \in Nat : ~\E f : LookedUpTo(f, list, order, i)}
<1>1. ASSUME Bad # {} PROVE FALSE
  <2>1. PICK m \in Bad : \A i \in Bad : m <= i  BY <1>1, LeastNumber
  <2>2. m \in Nat /\ ~\E f : LookedUpTo(f, list, order, m)  BY <2>1
  <2>3. m # 0
    <3>1. PICK f : f = [k \in 0..0 |-> list]  OBVIOUS
    <3>2. \A k \in 0..0 : k = 0  OBVIOUS
    <3>3. f = [k \in 0..0 |-> IF k = 0 THEN list ELSE Looked(f[k - 1], KeyOf[order[k]])]  BY <3>1, <3>2
    <3>4. LookedUpTo(f, list, order, 0)  BY <3>3 DEF LookedUpTo
    <3> QED  BY <2>2, <3>4
  <2>4. PICK i \in Nat : i = m - 1  BY <2>2, <2>3
  <2>5. i \notin Bad  BY <2>1, <2>2, <2>4
  <2>6. PICK g : LookedUpTo(g, list, order, i)  BY <2>4, <2>5
  <2>7. g = [k \in 0..i |-> IF k = 0 THEN list ELSE Looked(g[k - 1], KeyOf[order[k]])]  BY <2>6 DEF LookedUpTo
  <2>8. PICK last : last = Looked(g[i], KeyOf[order[m]])  OBVIOUS
  <2>9. PICK f : f = [k \in 0..m |-> IF k = m THEN last ELSE g[k]]  OBVIOUS
  <2>10. \A k \in 0..m : k = m \/ k \in 0..i  BY <2>2, <2>4
  <2>11. \A k \in 0..i : k \in 0..m /\ k # m /\ f[k] = g[k]  BY <2>2, <2>4, <2>9
  <2>12. ASSUME NEW k \in 0..m PROVE f[k] = IF k = 0 THEN list ELSE Looked(f[k - 1], KeyOf[order[k]])
    <3>1. CASE k = m
      <4>1. k - 1 = i /\ i \in 0..i /\ k # 0  BY <2>2, <2>3, <2>4, <3>1
      <4>2. f[k - 1] = g[i]  BY <2>11, <4>1
      <4>3. f[k] = last  BY <2>9, <3>1
      <4> QED  BY <2>8, <3>1, <4>1, <4>2, <4>3
    <3>2. CASE k # m
      <4>1. k \in 0..i  BY <2>10, <3>2
      <4>2. f[k] = g[k] /\ g[k] = IF k = 0 THEN list ELSE Looked(g[k - 1], KeyOf[order[k]])  BY <2>7, <2>11, <4>1
      <4>3. CASE k = 0  BY <4>2, <4>3
      <4>4. CASE k # 0
        <5>1. k - 1 \in 0..i  BY <2>4, <4>1, <4>4
        <5>2. f[k - 1] = g[k - 1]  BY <2>11, <5>1
        <5> QED  BY <4>2, <4>4, <5>2
      <4> QED  BY <4>3, <4>4
    <3> QED  BY <3>1, <3>2
  <2>13. f = [k \in 0..m |-> IF k = 0 THEN list ELSE Looked(f[k - 1], KeyOf[order[k]])]  BY <2>9, <2>12
  <2>14. LookedUpTo(f, list, order, m)  BY <2>13 DEF LookedUpTo
  <2> QED  BY <2>2, <2>14
<1> QED  BY <1>1

AllLookedUp(list, order) == CHOOSE f : LookedUpTo(f, list, order, Len(order))

LEMMA LookedInOrderIs ==
  ASSUME NEW list, NEW order
  PROVE  LookedInOrder(list, order) = AllLookedUp(list, order)[Len(order)]
BY DEF LookedInOrder, AllLookedUp, LookedUpTo

LEMMA LookedInOrderHas ==
  ASSUME NEW T, NEW list \in Seq(T), NEW order, NEW n \in Nat, n = Len(order),
         NEW l, l = LookedInOrder(list, order)
  PROVE  l \in Seq(T) /\ \A x : In(x, l) => In(x, list)
<1>1. PICK f : f = AllLookedUp(list, order)  OBVIOUS
<1>2. l = f[n]  BY <1>1, LookedInOrderIs
<1>3. LookedUpTo(f, list, order, n)
  <2>1. \E g : LookedUpTo(g, list, order, n)  BY LookingGoesOn
  <2> QED  BY <1>1, <2>1 DEF AllLookedUp
<1>4. f[0] = list /\ \A k \in 1..n : f[k] = Looked(f[k - 1], KeyOf[order[k]])
  <2>1. f = [k \in 0..n |-> IF k = 0 THEN list ELSE Looked(f[k - 1], KeyOf[order[k]])]  BY <1>3 DEF LookedUpTo
  <2>2. 0 \in 0..n /\ \A k \in 1..n : k \in 0..n /\ k # 0  OBVIOUS
  <2>3. f[0] = list  BY <2>1, <2>2
  <2>4. ASSUME NEW k \in 1..n PROVE f[k] = Looked(f[k - 1], KeyOf[order[k]])
    <3>1. k \in 0..n /\ k # 0  BY <2>2
    <3> QED  BY <2>1, <3>1
  <2> QED  BY <2>3, <2>4
<1> DEFINE Good(i) == f[i] \in Seq(T) /\ \A x : In(x, f[i]) => In(x, list)
<1>5. Good(0)  BY <1>4
<1>6. ASSUME NEW i \in Nat, i + 1 <= n, Good(i) PROVE Good(i + 1)
  <2>1. PICK m, a, b, e : m = i + 1 /\ a = f[i] /\ b = f[m] /\ e = KeyOf[order[m]]  OBVIOUS
  <2>2. m \in 1..n /\ m - 1 = i  BY <1>6, <2>1
  <2>3. b = Looked(a, e)  BY <1>4, <2>1, <2>2
  <2>4. a \in Seq(T) /\ \A x : In(x, a) => In(x, list)  BY <1>6, <2>1
  <2>5. b \in Seq(T) /\ \A x : In(x, b) => In(x, a)  BY <2>3, <2>4, LookedHas
  <2> QED  BY <2>1, <2>4, <2>5
<1>7. Good(n)
  <2> DEFINE Bad == {i \in Nat : i <= n /\ ~Good(i)}
  <2>1. ASSUME Bad # {} PROVE FALSE
    <3>1. PICK m \in Bad : \A i \in Bad : m <= i  BY <2>1, LeastNumber
    <3>2. m \in Nat /\ m <= n /\ ~Good(m)  BY <3>1
    <3> HIDE DEF Good
    <3>3. m # 0  BY <1>5, <3>2
    <3>4. PICK i \in Nat : i = m - 1 /\ i + 1 = m  BY <3>2, <3>3
    <3>5. i \notin Bad  BY <3>1, <3>2, <3>4
    <3>6. Good(i)  BY <3>2, <3>4, <3>5
    <3> QED  BY <1>6, <3>2, <3>4, <3>6
  <2> HIDE DEF Good
  <2> QED  BY <2>1
<1> QED  BY <1>2, <1>7

(***************************************************************************)
(* Plans of tool calls.  What is over stays over; a plan's calls are those *)
(* it is through with, those of its group, and those that are untouched;   *)
(* who is queued waits for a permit, and the cache has only what was told. *)
(***************************************************************************)
CacheEntries  == Keys \X Calls
ToolResults  == [of : SUBSET Calls, ok : BOOLEAN]
Phases   == {"new", "queued", "hit", "running", "backoff", "threw", "over", "thrown"}
Starting == {"hit", "running", "threw"}
Going    == Starting \cup {"backoff"}
OwnSuccess(d) == [of |-> {d}, ok |-> TRUE]

SoundEntry(e, ph, an) == KeyOf[e[2]] = e[1] /\ ph[e[2]] = "over" /\ an[e[2]] = OwnSuccess(e[2])
CacheFits(list, ph, an) == \A e : In(e, list) => SoundEntry(e, ph, an)
Told(an, ph) ==
  \A c, d \in Calls : c # d /\ d \in an[c].of => KeyOf[d] = KeyOf[c] /\ ph[d] = "over" /\ an[d] = OwnSuccess(d)

LEMMA MemberIsEntry ==
  ASSUME NEW list \in Seq(CacheEntries), NEW e, In(e, list)
  PROVE  e \in CacheEntries /\ e[1] \in Keys /\ e[2] \in Calls
<1>1. e \in CacheEntries  BY LenProperties DEF In
<1> QED  BY <1>1 DEF CacheEntries

LEMMA StoredHas ==
  ASSUME NEW list \in Seq(CacheEntries), NEW c \in Calls, NEW k, k = KeyOf[c], NEW l, l = Stored(list, k, c)
  PROVE  l \in Seq(CacheEntries) /\ \A x : In(x, l) => x = <<k, c>> \/ In(x, list)
<1>1. PICK n \in Nat : n = Len(list) /\ DOMAIN list = 1..n /\ \A i \in 1..n : list[i] \in CacheEntries
  BY LenProperties
<1>2. PICK e : e = <<k, c>>  OBVIOUS
<1>3. e \in CacheEntries  BY <1>2, DagAssumption DEF CacheEntries
<1>4. CASE \E x \in ToSet(list) : x[1] = k
  <2>1. l = [i \in 1..n |-> IF list[i][1] = k THEN e ELSE list[i]]  BY <1>1, <1>2, <1>4 DEF Stored
  <2>2. l \in [1..n -> CacheEntries]  BY <1>1, <1>3, <2>1
  <2>3. l \in Seq(CacheEntries) /\ Len(l) = n  BY <2>2
  <2>4. \A i \in 1..n : l[i] = e \/ l[i] = list[i]  BY <2>1
  <2> QED  BY <1>1, <1>2, <2>3, <2>4 DEF In
<1>5. CASE ~\E x \in ToSet(list) : x[1] = k
  <2>1. PICK s : s = IF n >= CacheSize THEN Tail(list) ELSE list  OBVIOUS
  <2>2. l = Append(s, e)  BY <1>1, <1>2, <1>5, <2>1 DEF Stored
  <2>3. s \in Seq(CacheEntries) /\ \A x : In(x, s) => In(x, list)
    <3>1. CASE n >= CacheSize
      <4>1. n # 0  BY <1>1, <3>1, DagAssumption
      <4>2. list # <<>>  BY <1>1, <4>1
      <4>3. s \in Seq(CacheEntries) /\ Len(s) = n - 1 /\ \A i \in 1..n - 1 : s[i] = list[i + 1]
        BY <1>1, <2>1, <3>1, <4>2, HeadTailProperties
      <4>4. \A i \in 1..n - 1 : i + 1 \in 1..n  OBVIOUS
      <4> QED  BY <1>1, <4>3, <4>4 DEF In
    <3>2. CASE ~(n >= CacheSize)  BY <2>1, <3>2
    <3> QED  BY <3>1, <3>2
  <2>4. PICK m \in Nat : m = Len(s)  BY <2>3, LenProperties
  <2>5. l \in Seq(CacheEntries) /\ Len(l) = m + 1 /\ l[m + 1] = e /\ \A i \in 1..m : l[i] = s[i]
    BY <1>3, <2>2, <2>3, <2>4, AppendIs
  <2>6. \A i \in 1..m + 1 : i \in 1..m \/ i = m + 1  OBVIOUS
  <2>7. \A x : In(x, l) => x = e \/ In(x, s)  BY <2>4, <2>5, <2>6 DEF In
  <2> QED  BY <1>2, <2>3, <2>5, <2>7
<1> QED  BY <1>4, <1>5

(* What a step makes of the phases, when the calls of an order begin.      *)
Begun(order, others, ph) ==
  /\ ph \in [Calls -> Phases]
  /\ \A c \in Calls : ~In(c, order) => ph[c] = others[c]
  /\ \A c \in Calls : In(c, order) => ph[c] \in Starting

(* Who begins may be given what the cache has for its key.                 *)
GivenFrom(order, given, list, an) ==
  /\ an \in [Calls -> ToolResults]
  /\ \A c \in Calls : ~In(c, order) => an[c] = given[c]
  /\ \A c \in Calls : an[c] = given[c] \/ \E e : In(e, list) /\ e[1] = KeyOf[c] /\ an[c] = OwnSuccess(e[2])

(* What it makes of the attempts and of the cache.                         *)
Tried(order, at)   == at \in [Calls -> 0..MaxAttempts] /\ \A c \in Calls : ~In(c, order) => at[c] = attempt[c]
KeepsOf(list, l)   == l \in Seq(CacheEntries) /\ \A x : In(x, l) => In(x, list)

LEMMA BeginIs ==
  ASSUME NEW others \in [Calls -> Phases], NEW order \in Seq(Calls), NEW list \in Seq(CacheEntries), NEW old,
         attempt \in [Calls -> 0..MaxAttempts], Begin(order, others, list, old),
         NEW ph, NEW a, NEW l, ph = phase', a = attempt', l = cache'
  PROVE  Begun(order, others, ph) /\ Tried(order, a) /\ KeepsOf(list, l)
<1>1. PICK S : S = ToSet(order)  OBVIOUS
<1>2. \A x : x \in S <=> In(x, order)  BY <1>1, InIsToSet
<1>3. PICK H : H = {c \in S : Hit(c, list, old) # {}}  OBVIOUS
<1>4. /\ ph = [c \in Calls |-> IF c \notin S THEN others[c]
                ELSE IF c \in H THEN "hit" ELSE IF c \in Registered THEN "running" ELSE "threw"]
      /\ a = [c \in Calls |-> IF c \in S \ H THEN 1 ELSE attempt[c]]
      /\ l = LookedInOrder(list, order)
  BY <1>1, <1>3 DEF Begin
<1>5. \A c \in Calls : c \notin S => ph[c] = others[c]  BY <1>4
<1>6. \A c \in Calls : c \in S => ph[c] \in Starting  BY <1>4 DEF Starting
<1>7. ph \in [Calls -> Phases]
  <2>1. \A c \in Calls : ph[c] \in Phases  BY <1>5, <1>6 DEF Starting, Phases
  <2>2. ph = [c \in Calls |-> ph[c]]  BY <1>4
  <2> QED  BY <2>1, <2>2
<1>8. a \in [Calls -> 0..MaxAttempts]
  <2>1. 1 \in 0..MaxAttempts  BY DagAssumption
  <2> QED  BY <1>4, <2>1
<1>9. \A c \in Calls : ~In(c, order) => a[c] = attempt[c]  BY <1>2, <1>4
<1>10. l \in Seq(CacheEntries) /\ \A x : In(x, l) => In(x, list)
  <2>1. PICK n \in Nat : n = Len(order)  BY LenProperties
  <2> QED  BY <1>4, <2>1, LookedInOrderHas
<1> QED  BY <1>2, <1>5, <1>6, <1>7, <1>8, <1>9, <1>10 DEF Begun, Tried, KeepsOf

LEMMA AnswersWithIs ==
  ASSUME NEW given \in [Calls -> ToolResults], NEW order \in Seq(Calls), NEW list \in Seq(CacheEntries), NEW old,
         AnswersWith(order, given, list, old), NEW an, an = answer'
  PROVE  GivenFrom(order, given, list, an)
<1>1. \A x : x \in ToSet(order) <=> In(x, order)  BY InIsToSet
<1>2. \A x : x \in ToSet(list) <=> In(x, list)  BY InIsToSet
<1>3. PICK e : e = [c \in Calls |-> CHOOSE x \in Hit(c, list, old) : TRUE]  OBVIOUS
<1>4. an = [c \in Calls |-> IF c \in ToSet(order) /\ Hit(c, list, old) # {}
                            THEN [of |-> {(CHOOSE x \in Hit(c, list, old) : TRUE)[2]}, ok |-> TRUE]
                            ELSE given[c]]
  BY DEF AnswersWith
<1>5. \A c \in Calls : Hit(c, list, old) # {} => e[c] \in Hit(c, list, old)  BY <1>3
<1>6. ASSUME NEW c \in Calls, Hit(c, list, old) # {} PROVE In(e[c], list) /\ e[c][1] = KeyOf[c] /\ e[c][2] \in Calls
  <2>1. e[c] \in Hit(c, list, old)  BY <1>5, <1>6
  <2>2. In(e[c], list) /\ e[c][1] = KeyOf[c]  BY <1>2, <2>1 DEF Hit
  <2> QED  BY <2>2, MemberIsEntry
<1>7. ASSUME NEW c \in Calls
      PROVE  \/ an[c] = given[c]
             \/ In(c, order) /\ Hit(c, list, old) # {} /\ an[c] = OwnSuccess(e[c][2])
  <2>1. CASE c \in ToSet(order) /\ Hit(c, list, old) # {}
    <3>1. an[c] = [of |-> {(CHOOSE x \in Hit(c, list, old) : TRUE)[2]}, ok |-> TRUE]  BY <1>4, <2>1
    <3>2. e[c] = CHOOSE x \in Hit(c, list, old) : TRUE  BY <1>3
    <3>3. an[c] = [of |-> {e[c][2]}, ok |-> TRUE]  BY <3>1, <3>2
    <3> QED  BY <1>1, <2>1, <3>3 DEF OwnSuccess
  <2>2. CASE ~(c \in ToSet(order) /\ Hit(c, list, old) # {})  BY <1>4, <2>2
  <2> QED  BY <2>1, <2>2
<1>8. \A c \in Calls : an[c] \in ToolResults
  <2> SUFFICES ASSUME NEW c \in Calls PROVE an[c] \in ToolResults  OBVIOUS
  <2>1. CASE an[c] = given[c]  BY <2>1
  <2>2. CASE Hit(c, list, old) # {} /\ an[c] = OwnSuccess(e[c][2])
    <3>1. e[c][2] \in Calls  BY <1>6, <2>2
    <3> QED  BY <2>2, <3>1 DEF OwnSuccess, ToolResults
  <2> QED  BY <1>7, <2>1, <2>2
<1>9. an \in [Calls -> ToolResults]
  <2>1. an = [c \in Calls |-> an[c]]  BY <1>4
  <2> QED  BY <1>8, <2>1
<1>10. \A c \in Calls : ~In(c, order) => an[c] = given[c]  BY <1>7
<1>11. \A c \in Calls : an[c] = given[c] \/ \E x : In(x, list) /\ x[1] = KeyOf[c] /\ an[c] = OwnSuccess(x[2])
  BY <1>6, <1>7
<1> QED  BY <1>9, <1>10, <1>11 DEF GivenFrom

(* What is told stays true, whoever begins: what is over does not.         *)
LEMMA TruthStays ==
  ASSUME NEW list \in Seq(CacheEntries), NEW others, NEW given, CacheFits(list, others, given), Told(given, others),
         NEW order, \A c \in Calls : In(c, order) => others[c] # "over",
         NEW ph, Begun(order, others, ph), NEW an, GivenFrom(order, given, list, an),
         NEW l, \A x : In(x, l) => In(x, list)
  PROVE  CacheFits(l, ph, an) /\ Told(an, ph)
<1>1. /\ \A c \in Calls : ~In(c, order) => ph[c] = others[c]
      /\ \A c \in Calls : ~In(c, order) => an[c] = given[c]
  BY DEF Begun, GivenFrom
<1>2. \A d \in Calls : others[d] = "over" => ph[d] = "over" /\ an[d] = given[d]  BY <1>1
<1>3. ASSUME NEW e, In(e, list) PROVE SoundEntry(e, ph, an) /\ e[2] \in Calls
  <2>1. e[2] \in Calls  BY <1>3, MemberIsEntry
  <2>2. SoundEntry(e, others, given)  BY <1>3 DEF CacheFits
  <2> QED  BY <1>2, <2>1, <2>2 DEF SoundEntry
<1>4. CacheFits(l, ph, an)  BY <1>3 DEF CacheFits
<1>5. ASSUME NEW c \in Calls, NEW d \in Calls, c # d, d \in an[c].of
      PROVE  KeyOf[d] = KeyOf[c] /\ ph[d] = "over" /\ an[d] = OwnSuccess(d)
  <2>1. CASE an[c] = given[c]
    <3>1. KeyOf[d] = KeyOf[c] /\ others[d] = "over" /\ given[d] = OwnSuccess(d)  BY <1>5, <2>1 DEF Told
    <3> QED  BY <1>2, <3>1
  <2>2. CASE \E e : In(e, list) /\ e[1] = KeyOf[c] /\ an[c] = OwnSuccess(e[2])
    <3>1. PICK e : In(e, list) /\ e[1] = KeyOf[c] /\ an[c] = OwnSuccess(e[2])  BY <2>2
    <3>2. d = e[2]  BY <1>5, <3>1 DEF OwnSuccess
    <3>3. SoundEntry(e, ph, an)  BY <1>3, <3>1
    <3> QED  BY <3>1, <3>2, <3>3 DEF SoundEntry
  <2> QED  BY <2>1, <2>2 DEF GivenFrom
<1>6. Told(an, ph)  BY <1>5 DEF Told
<1> QED  BY <1>4, <1>6

GroupsFit(p, done, grp, ph) ==
  /\ done \subseteq CallsOf(p) /\ grp \subseteq CallsOf(p)
  /\ \A c \in done : ph[c] = "over"
  /\ \A c \in CallsOf(p) : c \notin done \cup grp => ph[c] = "new"
  /\ \A c \in done \cup grp : DependsOn[c] \subseteq done
QueueFits(p, q, ph) ==
  /\ q \in Seq(Calls) /\ Distinct(q)
  /\ \A x : In(x, q) <=> x \in CallsOf(p) /\ ph[x] = "queued"
GoingOf(p, ph)  == {c \in CallsOf(p) : ph[c] \in Going}
RoomFits(p, ph) == Cardinality(GoingOf(p, ph)) <= MaxConcurrency
PlanFits(p, pl, done, grp) ==
  /\ pl = "new" => done = {} /\ grp = {}
  /\ pl = "waiting" => Sortable(p)
  /\ pl = "resolved" => CallsOf(p) \subseteq done
OnePlan(p, pl, done, grp, q, ph) ==
  GroupsFit(p, done, grp, ph) /\ QueueFits(p, q, ph) /\ RoomFits(p, ph) /\ PlanFits(p, pl, done, grp)

LEMMA CallsFinite ==
  ASSUME NEW p
  PROVE  IsFiniteSet(CallsOf(p)) /\ CallsOf(p) \subseteq Calls
<1>1. PICK S : S = CallsOf(p)  OBVIOUS
<1>2. S \subseteq Calls  BY <1>1 DEF CallsOf
<1>3. IsFiniteSet(Calls)  BY DagAssumption
<1>4. IsFiniteSet(S)  BY <1>2, <1>3, FS_Subset
<1> QED  BY <1>1, <1>2, <1>4

LEMMA GoingFinite ==
  ASSUME NEW p, NEW ph
  PROVE  IsFiniteSet(GoingOf(p, ph)) /\ Cardinality(GoingOf(p, ph)) \in Nat
<1>1. PICK S, G : S = CallsOf(p) /\ G = GoingOf(p, ph)  OBVIOUS
<1>2. IsFiniteSet(S)  BY <1>1, CallsFinite
<1>3. G \subseteq S  BY <1>1 DEF GoingOf
<1>4. IsFiniteSet(G)  BY <1>2, <1>3, FS_Subset
<1> QED  BY <1>1, <1>4, FS_CardinalityType

(* What does not touch a plan's calls leaves the plan as it is.            *)
LEMMA OtherPlanStays ==
  ASSUME NEW p, NEW pl, NEW done, NEW grp, NEW q, NEW ph, OnePlan(p, pl, done, grp, q, ph),
         NEW qh, \A c \in CallsOf(p) : qh[c] = ph[c]
  PROVE  OnePlan(p, pl, done, grp, q, qh)
<1>1. GroupsFit(p, done, grp, qh)  BY DEF OnePlan, GroupsFit
<1>2. QueueFits(p, q, qh)  BY DEF OnePlan, QueueFits
<1>3. GoingOf(p, qh) = GoingOf(p, ph)  BY DEF GoingOf
<1>4. RoomFits(p, qh)  BY <1>3 DEF OnePlan, RoomFits
<1> QED  BY <1>1, <1>2, <1>4 DEF OnePlan

(* A call of a plan goes on, going or queued as it was.                    *)
LEMMA CallGoesOnIn ==
  ASSUME NEW p, NEW pl, NEW done, NEW grp, NEW q, NEW ph, OnePlan(p, pl, done, grp, q, ph),
         NEW c \in CallsOf(p), ph[c] \in Going, NEW to \in Going,
         NEW qh, qh[c] = to, \A d \in CallsOf(p) : d # c => qh[d] = ph[d]
  PROVE  OnePlan(p, pl, done, grp, q, qh)
<1>0. /\ GroupsFit(p, done, grp, ph) /\ QueueFits(p, q, ph) /\ RoomFits(p, ph) /\ PlanFits(p, pl, done, grp)
  BY DEF OnePlan
<1>1. \A x \in Going : x # "over" /\ x # "new" /\ x # "queued"  BY DEF Going, Starting
<1>2. c \notin done /\ c \in done \cup grp  BY <1>0, <1>1 DEF GroupsFit
<1>3. GroupsFit(p, done, grp, qh)
  <2>1. done \subseteq CallsOf(p) /\ grp \subseteq CallsOf(p)  BY <1>0 DEF GroupsFit
  <2>2. \A d \in done : qh[d] = "over"  BY <1>0, <1>2, <2>1 DEF GroupsFit
  <2>3. \A d \in CallsOf(p) : d \notin done \cup grp => qh[d] = "new"  BY <1>0, <1>2 DEF GroupsFit
  <2>4. \A d \in done \cup grp : DependsOn[d] \subseteq done  BY <1>0 DEF GroupsFit
  <2> QED  BY <2>1, <2>2, <2>3, <2>4 DEF GroupsFit
<1>4. QueueFits(p, q, qh)
  <2>1. \A x \in CallsOf(p) : qh[x] = "queued" <=> ph[x] = "queued"  BY <1>1
  <2> QED  BY <1>0, <2>1 DEF QueueFits
<1>5. GoingOf(p, qh) = GoingOf(p, ph)  BY DEF GoingOf
<1>6. RoomFits(p, qh)  BY <1>0, <1>5 DEF RoomFits
<1> QED  BY <1>0, <1>3, <1>4, <1>6 DEF OnePlan

(* Who takes the place of a call that ends.                                *)
After(q) == IF q = <<>> THEN <<>> ELSE <<Head(q)>>
Left(q)  == IF q = <<>> THEN q ELSE Tail(q)

LEMMA InLineIs ==
  ASSUME NEW q \in Seq(Calls), Distinct(q)
  PROVE  /\ After(q) \in Seq(Calls) /\ Left(q) \in Seq(Calls) /\ Distinct(Left(q))
         /\ \A x : In(x, Left(q)) <=> In(x, q) /\ ~In(x, After(q))
         /\ \A x : In(x, After(q)) => In(x, q)
         /\ \A x, y : In(x, After(q)) /\ In(y, After(q)) => x = y
<1>1. PICK n \in Nat : n = Len(q) /\ \A k \in 1..n : q[k] \in Calls  BY LenProperties
<1>2. PICK s, t : s = After(q) /\ t = Left(q)  OBVIOUS
<1>3. CASE q = <<>>
  <2>1. s = q /\ t = q /\ \A x : ~In(x, q)
    <3>1. Len(q) = 0  BY <1>3
    <3> QED  BY <1>2, <1>3, <3>1 DEF After, Left, In
  <2> QED  BY <1>2, <2>1
<1>4. CASE q # <<>>
  <2>1. n # 0 /\ 1 \in 1..n
    <3>1. n # 0  BY <1>1, <1>4, EmptySeq
    <3> QED  BY <3>1
  <2>2. t = Tail(q) /\ s = <<Head(q)>> /\ Head(q) = q[1]  BY <1>2, <1>4, HeadTailProperties DEF After, Left
  <2>3. q[1] \in Calls  BY <1>1, <2>1
  <2>4. s \in Seq(Calls) /\ \A x : In(x, s) <=> x = q[1]
    <3>1. PICK e : e = q[1]  OBVIOUS
    <3>2. s = <<e>> /\ e \in Calls  BY <2>2, <2>3, <3>1
    <3>3. Len(s) = 1 /\ s[1] = e /\ s \in Seq(Calls)  BY <3>2
    <3>4. \A k \in 1..1 : k = 1  OBVIOUS
    <3>5. 1 \in 1..1  OBVIOUS
    <3> QED  BY <3>1, <3>3, <3>4, <3>5 DEF In
  <2>5. t \in Seq(Calls) /\ Len(t) = n - 1 /\ \A k \in 1..n - 1 : t[k] = q[k + 1]
    BY <1>1, <1>4, <2>2, HeadTailProperties
  <2>6. \A k \in 1..n - 1 : k + 1 \in 1..n /\ k + 1 # 1  OBVIOUS
  <2>7. \A k \in 1..n : k # 1 => k - 1 \in 1..n - 1 /\ (k - 1) + 1 = k  OBVIOUS
  <2>8. ASSUME NEW x PROVE In(x, t) <=> In(x, q) /\ x # q[1]
    <3>1. ASSUME In(x, q), x # q[1] PROVE In(x, t)
      <4>1. PICK k \in 1..n : q[k] = x /\ k # 1  BY <1>1, <3>1 DEF In
      <4>2. t[k - 1] = x /\ k - 1 \in 1..n - 1  BY <2>5, <2>7, <4>1
      <4> QED  BY <2>5, <4>2 DEF In
    <3>2. ASSUME In(x, t) PROVE In(x, q) /\ x # q[1]
      <4>1. PICK k \in 1..n - 1 : t[k] = x  BY <2>5, <3>2 DEF In
      <4>2. q[k + 1] = x /\ k + 1 \in 1..n /\ k + 1 # 1  BY <2>5, <2>6, <4>1
      <4> QED  BY <1>1, <2>1, <4>2 DEF In, Distinct
    <3> QED  BY <3>1, <3>2
  <2>9. Distinct(t)
    <3> SUFFICES ASSUME NEW a \in 1..n - 1, NEW b \in 1..n - 1, t[a] = t[b] PROVE a = b  BY <2>5 DEF Distinct
    <3>1. q[a + 1] = q[b + 1]  BY <2>5
    <3>2. a + 1 = b + 1  BY <1>1, <2>6, <3>1 DEF Distinct
    <3> QED  BY <3>2
  <2>10. In(q[1], q)  BY <1>1, <2>1 DEF In
  <2> QED  BY <1>2, <2>4, <2>5, <2>8, <2>9, <2>10
<1> QED  BY <1>3, <1>4

(* A call ends, and who waited longest takes its place.                    *)
LEMMA EndStays ==
  ASSUME NEW p, NEW pl, NEW done, NEW grp, NEW q, NEW ph, OnePlan(p, pl, done, grp, q, ph),
         NEW c \in CallsOf(p), ph[c] \in Starting, NEW how \in {"over", "thrown"},
         NEW others, others[c] = how, \A d \in Calls : d # c => others[d] = ph[d],
         NEW qh, Begun(After(q), others, qh), NEW r, r = Left(q)
  PROVE  /\ OnePlan(p, pl, done, grp, r, qh)
         /\ \A d \in Calls : d \notin CallsOf(p) => qh[d] = ph[d]
<1>0. /\ GroupsFit(p, done, grp, ph) /\ QueueFits(p, q, ph) /\ RoomFits(p, ph) /\ PlanFits(p, pl, done, grp)
  BY DEF OnePlan
<1>1. CallsOf(p) \subseteq Calls  BY CallsFinite
<1>2. q \in Seq(Calls) /\ Distinct(q) /\ \A x : In(x, q) <=> x \in CallsOf(p) /\ ph[x] = "queued"
  BY <1>0 DEF QueueFits
<1>3. PICK s : s = After(q)  OBVIOUS
<1>4. /\ s \in Seq(Calls) /\ r \in Seq(Calls) /\ Distinct(r)
      /\ \A x : In(x, r) <=> In(x, q) /\ ~In(x, s)
      /\ \A x : In(x, s) => In(x, q)
      /\ \A x, y : In(x, s) /\ In(y, s) => x = y
  BY <1>2, <1>3, InLineIs
<1>5. /\ \A d \in Calls : ~In(d, s) => qh[d] = others[d]
      /\ \A d \in Calls : In(d, s) => qh[d] \in Starting
  BY <1>3 DEF Begun
<1>6. \A x \in Going : x # "over" /\ x # "new" /\ x # "queued" /\ x # "thrown"  BY DEF Going, Starting
<1>7. ph[c] \in Going /\ Starting \subseteq Going  BY DEF Going
<1>8. ~In(c, s) /\ qh[c] = how  BY <1>1, <1>2, <1>4, <1>5, <1>6, <1>7
<1>9. \A d \in Calls : d # c /\ ~In(d, s) => qh[d] = ph[d]  BY <1>5
<1>10. \A d \in Calls : In(d, s) => d \in CallsOf(p) /\ ph[d] = "queued" /\ qh[d] \in Going
  BY <1>2, <1>4, <1>5, <1>7
<1>11. \A d \in Calls : d \notin CallsOf(p) => qh[d] = ph[d]  BY <1>9, <1>10
<1>12. GroupsFit(p, done, grp, qh)
  <2>1. done \subseteq CallsOf(p) /\ grp \subseteq CallsOf(p)  BY <1>0 DEF GroupsFit
  <2>2. \A d \in done : qh[d] = "over"
    <3> SUFFICES ASSUME NEW d \in done PROVE qh[d] = "over"  OBVIOUS
    <3>1. d \in Calls /\ ph[d] = "over"  BY <1>0, <1>1, <2>1 DEF GroupsFit
    <3>2. d # c /\ ~In(d, s)  BY <1>6, <1>7, <1>10, <3>1
    <3> QED  BY <1>9, <3>1, <3>2
  <2>3. \A d \in CallsOf(p) : d \notin done \cup grp => qh[d] = "new"
    <3> SUFFICES ASSUME NEW d \in CallsOf(p), d \notin done \cup grp PROVE qh[d] = "new"  OBVIOUS
    <3>1. d \in Calls /\ ph[d] = "new"  BY <1>0, <1>1 DEF GroupsFit
    <3>2. d # c /\ ~In(d, s)  BY <1>6, <1>7, <1>10, <3>1
    <3> QED  BY <1>9, <3>1, <3>2
  <2>4. \A d \in done \cup grp : DependsOn[d] \subseteq done  BY <1>0 DEF GroupsFit
  <2> QED  BY <2>1, <2>2, <2>3, <2>4 DEF GroupsFit
<1>13. QueueFits(p, r, qh)
  <2>1. ASSUME NEW x PROVE In(x, r) <=> x \in CallsOf(p) /\ qh[x] = "queued"
    <3>1. CASE x \notin CallsOf(p)  BY <1>2, <1>4, <3>1
    <3>2. CASE x \in CallsOf(p) /\ x = c
      <4>1. qh[x] # "queued" /\ ph[x] # "queued"  BY <1>6, <1>7, <1>8, <3>2
      <4> QED  BY <1>2, <1>4, <4>1
    <3>3. CASE x \in CallsOf(p) /\ x # c /\ In(x, s)
      <4>1. qh[x] # "queued"  BY <1>1, <1>6, <1>10, <3>3
      <4> QED  BY <1>4, <3>3, <4>1
    <3>4. CASE x \in CallsOf(p) /\ x # c /\ ~In(x, s)
      <4>1. qh[x] = ph[x]  BY <1>1, <1>9, <3>4
      <4> QED  BY <1>2, <1>4, <3>4, <4>1
    <3> QED  BY <3>1, <3>2, <3>3, <3>4
  <2> QED  BY <1>4, <2>1 DEF QueueFits
<1>14. RoomFits(p, qh)
  <2>1. PICK G, H : G = GoingOf(p, ph) /\ H = GoingOf(p, qh)  OBVIOUS
  <2>2. IsFiniteSet(G) /\ IsFiniteSet(H)  BY <2>1, GoingFinite
  <2>3. c \in G  BY <1>7, <2>1 DEF GoingOf
  <2>4. PICK k, h \in Nat : k = Cardinality(G) /\ h = Cardinality(H)  BY <2>1, GoingFinite
  <2>5. IsFiniteSet(G \ {c}) /\ Cardinality(G \ {c}) = k - 1  BY <2>2, <2>3, <2>4, FS_RemoveElement
  <2>6. \A d \in H : d \in G \ {c} \/ In(d, s)
    <3> SUFFICES ASSUME NEW d \in H, ~In(d, s) PROVE d \in G \ {c}  OBVIOUS
    <3>1. d \in CallsOf(p) /\ d \in Calls /\ qh[d] \in Going  BY <1>1, <2>1 DEF GoingOf
    <3>2. d # c  BY <1>6, <1>8, <3>1
    <3>3. ph[d] \in Going  BY <1>9, <3>1, <3>2
    <3> QED  BY <2>1, <3>1, <3>2, <3>3 DEF GoingOf
  <2>7. h <= k
    <3>1. CASE \E d : In(d, s)
      <4>1. PICK d : In(d, s)  BY <3>1
      <4>2. \A x \in H : x \in (G \ {c}) \cup {d}  BY <1>4, <2>6, <4>1
      <4>3. PICK U : U = (G \ {c}) \cup {d}  OBVIOUS
      <4>4. IsFiniteSet(U) /\ Cardinality(U) = IF d \in G \ {c} THEN Cardinality(G \ {c}) ELSE Cardinality(G \ {c}) + 1
        BY <2>5, <4>3, FS_AddElement
      <4>5. Cardinality(U) = k - 1 \/ Cardinality(U) = k  BY <2>4, <2>5, <4>4
      <4>6. H \in SUBSET U  BY <4>2, <4>3
      <4>7. h <= Cardinality(U)  BY <2>4, <4>4, <4>6, FS_Subset
      <4> QED  BY <2>4, <4>5, <4>7
    <3>2. CASE ~\E d : In(d, s)
      <4>1. H \in SUBSET (G \ {c})  BY <2>6, <3>2
      <4>2. h <= k - 1  BY <2>4, <2>5, <4>1, FS_Subset
      <4> QED  BY <2>4, <4>2
    <3> QED  BY <3>1, <3>2
  <2>8. k <= MaxConcurrency /\ MaxConcurrency \in Nat  BY <1>0, <2>1, <2>4, DagAssumption DEF RoomFits
  <2> QED  BY <2>1, <2>4, <2>7, <2>8 DEF RoomFits
<1> QED  BY <1>0, <1>11, <1>12, <1>13, <1>14 DEF OnePlan

(* An order of a set has each of its members once.                         *)
LEMMA OrderIs ==
  ASSUME NEW S, IsFiniteSet(S), NEW order \in SetToSeqs(S)
  PROVE  order \in Seq(S) /\ Distinct(order) /\ \A x : In(x, order) <=> x \in S
<1>1. PICK n \in Nat : n = Cardinality(S)  BY FS_CardinalityType
<1>2. order \in [1..n -> S] /\ \A i, j \in 1..n : i # j => order[i] # order[j]  BY <1>1 DEF SetToSeqs
<1>3. order \in Injection(1..n, S)  BY <1>2 DEF Injection, IsInjective
<1>4. IsFiniteSet(1..n) /\ Cardinality(1..n) = n  BY <1>1, FS_Interval
<1>5. order \in Surjection(1..n, S)  BY <1>1, <1>3, <1>4, FS_Injection
<1>6. order \in Seq(S) /\ Len(order) = n  BY <1>1, <1>2
<1>7. Distinct(order)  BY <1>2, <1>6 DEF Distinct
<1>8. \A x : In(x, order) <=> x \in S  BY <1>2, <1>5, <1>6 DEF Surjection, In
<1> QED  BY <1>6, <1>7, <1>8

(* A group is split in those who get a permit and those who wait.          *)
Splits(order, first, rest) ==
  /\ first \in Seq(Calls) /\ rest \in Seq(Calls) /\ Distinct(rest)
  /\ \A x : In(x, rest) <=> In(x, order) /\ ~In(x, first)
  /\ \A x : In(x, first) => In(x, order)
  /\ \E F : IsFiniteSet(F) /\ Cardinality(F) <= MaxConcurrency /\ \A x : x \in F <=> In(x, first)

LEMMA GroupSplit ==
  ASSUME NEW order \in Seq(Calls), Distinct(order), NEW first, first = LetIn(order),
         NEW rest, rest = SubSeq(order, Len(first) + 1, Len(order))
  PROVE  Splits(order, first, rest)
<1>1. PICK n \in Nat : n = Len(order) /\ \A k \in 1..n : order[k] \in Calls  BY LenProperties
<1>2. PICK k : k = Min({MaxConcurrency, n})  OBVIOUS
<1>3. MaxConcurrency \in Nat  BY DagAssumption
<1>4. k \in Nat /\ k <= n /\ k <= MaxConcurrency
  <2>1. PICK S : S = {MaxConcurrency, n}  OBVIOUS
  <2>2. \A i \in S : i \in Nat  BY <1>3, <2>1
  <2>3. PICK b \in Nat : \A i \in S : i <= b
    <3>1. MaxConcurrency <= MaxConcurrency + n /\ n <= MaxConcurrency + n /\ MaxConcurrency + n \in Nat  BY <1>3
    <3> QED  BY <2>1, <3>1
  <2>4. S \subseteq 0..b /\ S # {} /\ 0 \in Nat  BY <2>1, <2>2, <2>3
  <2>5. k \in S /\ \A i \in S : k <= i  BY <1>2, <2>1, <2>3, <2>4, ExtremesAre
  <2> QED  BY <2>1, <2>2, <2>5
<1>5. first = SubSeq(order, 1, k)  BY <1>1, <1>2 DEF LetIn
<1>6. first \in Seq(Calls) /\ Len(first) = k /\ \A i \in 1..k : first[i] = order[i]
  <2>1. 1 \in Int /\ k \in Int /\ \A i \in 1..k : order[i] \in Calls  BY <1>1, <1>4
  <2>2. /\ first \in Seq(Calls)
        /\ Len(first) = IF 1 <= k THEN k - 1 + 1 ELSE 0
        /\ \A i \in 1..k - 1 + 1 : first[i] = order[1 + i - 1]
    BY <1>5, <2>1, SubSeqProperties
  <2>3. k - 1 + 1 = k /\ \A i \in 1..k : 1 + i - 1 = i  BY <1>4
  <2>4. k = IF 1 <= k THEN k - 1 + 1 ELSE 0  BY <1>4
  <2> QED  BY <2>2, <2>3, <2>4
<1>7. PICK F : F = First(order, k)  OBVIOUS
<1>8. k \in 0..Len(order)  BY <1>1, <1>4
<1>9. IsFiniteSet(F) /\ Cardinality(F) = k  BY <1>7, <1>8, FirstCount
<1>10. \A x : x \in F <=> In(x, first)  BY <1>6, <1>7 DEF First, In
<1>11. rest \in Seq(Calls) /\ Distinct(rest) /\ \A x : In(x, rest) <=> In(x, order) /\ x \notin F
  <2>1. rest = SubSeq(order, k + 1, Len(order))  BY <1>6
  <2> QED  BY <1>7, <1>8, <2>1, DroppedHas
<1>12. \A i \in 1..k : i \in 1..n  BY <1>4
<1>13. \A x : In(x, first) => In(x, order)  BY <1>1, <1>6, <1>12 DEF In
<1> QED  BY <1>4, <1>6, <1>9, <1>10, <1>11, <1>13 DEF Splits

(* A plan may go on: what it is through with is over, the rest untouched.  *)
Ready(p, done, ph) ==
  /\ done \subseteq CallsOf(p) /\ Sortable(p)
  /\ \A c \in done : ph[c] = "over" /\ DependsOn[c] \subseteq done
  /\ \A c \in CallsOf(p) : c \notin done => ph[c] = "new"

(* A plan that can be sorted is through when there is no next group.       *)
LEMMA ThroughIsComplete ==
  ASSUME NEW p, NEW done, Sortable(p), Layer(p, done) = {}
  PROVE  CallsOf(p) \subseteq done
<1> SUFFICES ASSUME ~(CallsOf(p) \subseteq done) PROVE FALSE  OBVIOUS
<1>1. PICK S : S = CallsOf(p) \ done  OBVIOUS
<1>2. S \in (SUBSET CallsOf(p)) \ {{}}
  <2>1. S # {} /\ S \subseteq CallsOf(p)  BY <1>1
  <2> QED  BY <2>1
<1>3. PICK c \in S : DependsOn[c] \subseteq CallsOf(p) \ S  BY <1>2 DEF Sortable
<1>4. DependsOn[c] \subseteq done  BY <1>1, <1>3
<1>5. c \in Layer(p, done)  BY <1>1, <1>3, <1>4 DEF Layer
<1> QED  BY <1>5

LEMMA PlanThrough ==
  ASSUME NEW p, NEW done, NEW ph, Ready(p, done, ph), Layer(p, done) = {},
         NEW grp, grp \subseteq done, NEW q, QueueFits(p, q, ph)
  PROVE  OnePlan(p, "resolved", done, grp, q, ph)
<1>1. CallsOf(p) \subseteq done  BY ThroughIsComplete DEF Ready
<1>2. GroupsFit(p, done, grp, ph)  BY DEF Ready, GroupsFit
<1>3. GoingOf(p, ph) = {}  BY <1>1 DEF Ready, GoingOf, Going, Starting
<1>4. RoomFits(p, ph)
  <2>1. Cardinality(GoingOf(p, ph)) = 0  BY <1>3, FS_EmptySet
  <2>2. MaxConcurrency \in Nat  BY DagAssumption
  <2> QED  BY <2>1, <2>2 DEF RoomFits
<1>5. PlanFits(p, "resolved", done, grp)  BY <1>1 DEF PlanFits
<1> QED  BY <1>2, <1>4, <1>5 DEF OnePlan

(* An order of a group has the calls of the group, each once.              *)
LEMMA GroupOrder ==
  ASSUME NEW p, NEW done, NEW next, next = Layer(p, done), NEW order \in SetToSeqs(next)
  PROVE  order \in Seq(Calls) /\ Distinct(order) /\ \A x : In(x, order) <=> x \in next
<1>1. IsFiniteSet(CallsOf(p)) /\ CallsOf(p) \subseteq Calls  BY CallsFinite
<1>2. next \subseteq CallsOf(p)  BY DEF Layer
<1>3. IsFiniteSet(next)
  <2>1. PICK S : S = CallsOf(p)  OBVIOUS
  <2> QED  BY <1>1, <1>2, <2>1, FS_Subset
<1>4. order \in Seq(next) /\ Distinct(order) /\ \A x : In(x, order) <=> x \in next  BY <1>3, OrderIs
<1>5. order \in Seq(Calls)
  <2>1. PICK n \in Nat : n = Len(order) /\ \A k \in 1..n : order[k] \in next  BY <1>4, LenProperties
  <2>2. \A k \in 1..n : order[k] \in Calls  BY <1>1, <1>2, <2>1
  <2>3. order = [k \in 1..n |-> order[k]]  BY <1>4, <2>1, LenProperties
  <2>4. order \in [1..n -> Calls]  BY <2>2, <2>3
  <2> QED  BY <2>4
<1> QED  BY <1>4, <1>5

(* The plan as its group begins, from the phases before and after; those   *)
(* that are not let in wait.                                               *)
Enters(p, done, next, rest, ph, qh) ==
  /\ OnePlan(p, "waiting", done, next, rest, qh)
  /\ \A d \in Calls : d \notin CallsOf(p) => qh[d] = ph[d]
WaitsIn(rest, ph, others) == \A c \in Calls : others[c] = IF In(c, rest) THEN "queued" ELSE ph[c]

LEMMA GroupBegins ==
  ASSUME NEW p, NEW done, NEW ph, Ready(p, done, ph), NEW next, next = Layer(p, done),
         NEW order \in SetToSeqs(next), NEW first, first = LetIn(order),
         NEW rest, rest = SubSeq(order, Len(first) + 1, Len(order)),
         NEW others, WaitsIn(rest, ph, others),
         NEW qh, Begun(first, others, qh)
  PROVE  Enters(p, done, next, rest, ph, qh)
<1>0. \A c \in Calls : others[c] = IF In(c, rest) THEN "queued" ELSE ph[c]  BY DEF WaitsIn
<1>1. IsFiniteSet(CallsOf(p)) /\ CallsOf(p) \subseteq Calls  BY CallsFinite
<1>2. next \subseteq CallsOf(p) /\ (\A c \in next : c \notin done /\ DependsOn[c] \subseteq done)
  BY DEF Layer
<1>4. order \in Seq(Calls) /\ Distinct(order) /\ \A x : In(x, order) <=> x \in next  BY GroupOrder
<1>6. /\ first \in Seq(Calls) /\ rest \in Seq(Calls) /\ Distinct(rest)
      /\ \A x : In(x, rest) <=> In(x, order) /\ ~In(x, first)
      /\ \A x : In(x, first) => In(x, order)
      /\ \E F : IsFiniteSet(F) /\ Cardinality(F) <= MaxConcurrency /\ \A x : x \in F <=> In(x, first)
  <2>1. Splits(order, first, rest)  BY <1>4, GroupSplit
  <2> QED  BY <2>1 DEF Splits
<1>7. /\ \A x : In(x, rest) => x \in next /\ ~In(x, first)
      /\ \A x : In(x, first) => x \in next
      /\ \A x \in next : In(x, rest) \/ In(x, first)
  BY <1>4, <1>6
<1>8. /\ \A c \in Calls : ~In(c, first) => qh[c] = others[c]
      /\ \A c \in Calls : In(c, first) => qh[c] \in Starting
  BY DEF Begun
<1>9. \A c \in Calls : In(c, rest) => qh[c] = "queued"  BY <1>0, <1>7, <1>8
<1>10. \A c \in Calls : c \notin next => qh[c] = ph[c]
  <2> SUFFICES ASSUME NEW c \in Calls, c \notin next PROVE qh[c] = ph[c]  OBVIOUS
  <2>1. ~In(c, rest) /\ ~In(c, first)  BY <1>7
  <2> QED  BY <1>0, <1>8, <2>1
<1>11. \A x \in Starting : x \in Going /\ x # "queued"  BY DEF Going, Starting
<1>12. GroupsFit(p, done, next, qh)
  <2>1. done \subseteq CallsOf(p)  BY DEF Ready
  <2>2. \A c \in done : qh[c] = "over"  BY <1>1, <1>2, <1>10, <2>1 DEF Ready
  <2>3. \A c \in CallsOf(p) : c \notin done \cup next => qh[c] = "new"  BY <1>1, <1>10 DEF Ready
  <2>4. \A c \in done \cup next : DependsOn[c] \subseteq done  BY <1>2 DEF Ready
  <2> QED  BY <1>2, <2>1, <2>2, <2>3, <2>4 DEF GroupsFit
<1>13. QueueFits(p, rest, qh)
  <2>1. ASSUME NEW x PROVE In(x, rest) <=> x \in CallsOf(p) /\ qh[x] = "queued"
    <3>1. CASE In(x, rest)
      <4>1. x \in CallsOf(p) /\ x \in Calls  BY <1>1, <1>2, <1>7, <3>1
      <4> QED  BY <1>9, <3>1, <4>1
    <3>2. CASE x \in CallsOf(p) /\ In(x, first)
      <4>1. qh[x] # "queued"  BY <1>1, <1>8, <1>11, <3>2
      <4> QED  BY <1>7, <3>2, <4>1
    <3>3. CASE x \in CallsOf(p) /\ ~In(x, rest) /\ ~In(x, first)
      <4>1. qh[x] = ph[x] /\ x \in Calls  BY <1>1, <1>7, <1>10, <3>3
      <4>2. ph[x] = "over" \/ ph[x] = "new"  BY <3>3 DEF Ready
      <4> QED  BY <3>3, <4>1, <4>2
    <3>4. CASE x \notin CallsOf(p)  BY <1>2, <1>7, <3>4
    <3> QED  BY <3>1, <3>2, <3>3, <3>4
  <2> QED  BY <1>6, <2>1 DEF QueueFits
<1>14. RoomFits(p, qh)
  <2>1. PICK F : IsFiniteSet(F) /\ Cardinality(F) <= MaxConcurrency /\ \A x : x \in F <=> In(x, first)  BY <1>6
  <2>2. PICK G : G = GoingOf(p, qh)  OBVIOUS
  <2>3. \A x \in G : x \in F
    <3> SUFFICES ASSUME NEW x \in G, ~In(x, first) PROVE FALSE  BY <2>1
    <3>1. x \in CallsOf(p) /\ x \in Calls /\ qh[x] \in Going  BY <1>1, <2>2 DEF GoingOf
    <3>2. \A y \in Going : y # "queued" /\ y # "over" /\ y # "new"  BY DEF Going, Starting
    <3>3. ~In(x, rest)  BY <1>9, <3>1, <3>2
    <3>4. qh[x] = ph[x]  BY <1>0, <1>7, <1>10, <3>1, <3>3
    <3> QED  BY <3>1, <3>2, <3>4 DEF Ready
  <2>4. G \in SUBSET F  BY <2>3
  <2>5. Cardinality(G) <= Cardinality(F)  BY <2>1, <2>4, FS_Subset
  <2>6. Cardinality(G) \in Nat /\ Cardinality(F) \in Nat /\ MaxConcurrency \in Nat
    BY <2>1, <2>2, GoingFinite, FS_CardinalityType, DagAssumption
  <2> QED  BY <2>1, <2>2, <2>5, <2>6 DEF RoomFits
<1>15. PlanFits(p, "waiting", done, next)  BY DEF PlanFits, Ready
<1>16. \A d \in Calls : d \notin CallsOf(p) => qh[d] = ph[d]  BY <1>2, <1>10
<1> QED  BY <1>12, <1>13, <1>14, <1>15, <1>16 DEF OnePlan, Enters

(***************************************************************************)
(* The invariant.                                                          *)
(***************************************************************************)
PlansFit(pl, done, grp, q, ph) == \A p \in Plans : OnePlan(p, pl[p], done[p], grp[p], q[p], ph)
PausesFit(ph, at) == \A c \in Calls : ph[c] = "backoff" => at[c] < MaxAttempts

DagInv ==
  /\ DagTypeOK
  /\ PlansFit(plan, doneCalls, group, semQueue, phase)
  /\ CacheFits(cache, phase, answer) /\ Told(answer, phase)
  /\ PausesFit(phase, attempt)

(* Who begins does not pause.                                              *)
LEMMA BegunPauses ==
  ASSUME NEW order, NEW others, NEW at, NEW ph, NEW new, Begun(order, others, ph),
         \A c \in Calls : ~In(c, order) => new[c] = at[c], PausesFit(others, at)
  PROVE  PausesFit(ph, new)
<1> SUFFICES ASSUME NEW c \in Calls, ph[c] = "backoff" PROVE new[c] < MaxAttempts  BY DEF PausesFit
<1>1. ~In(c, order)  BY DEF Begun, Starting
<1> QED  BY <1>1 DEF Begun, PausesFit

(* The types of what a step sets for one plan.                             *)
LEMMA OnePlanTypes ==
  ASSUME NEW p, NEW pl, NEW done, NEW grp, NEW q, NEW ph, OnePlan(p, pl, done, grp, q, ph)
  PROVE  done \in SUBSET Calls /\ grp \in SUBSET Calls /\ q \in Seq(Calls)
  BY CallsFinite DEF OnePlan, GroupsFit, QueueFits

(* A step of one plan leaves the others as they are.                       *)
LEMMA PlansFitAfter ==
  ASSUME NEW pl, NEW done, NEW grp, NEW q, NEW ph, PlansFit(pl, done, grp, q, ph), NEW p \in Plans,
         NEW pl2, NEW done2, NEW grp2, NEW q2, NEW qh, OnePlan(p, pl2[p], done2[p], grp2[p], q2[p], qh),
         \A r \in Plans : r # p => pl2[r] = pl[r] /\ done2[r] = done[r] /\ grp2[r] = grp[r] /\ q2[r] = q[r],
         \A d \in Calls : d \notin CallsOf(p) => qh[d] = ph[d]
  PROVE  PlansFit(pl2, done2, grp2, q2, qh)
<1> SUFFICES ASSUME NEW r \in Plans, r # p PROVE OnePlan(r, pl2[r], done2[r], grp2[r], q2[r], qh)  BY DEF PlansFit
<1>1. OnePlan(r, pl[r], done[r], grp[r], q[r], ph)  BY DEF PlansFit
<1>2. \A d \in CallsOf(r) : qh[d] = ph[d]
  <2>1. \A d \in CallsOf(r) : d \in Calls /\ d \notin CallsOf(p)  BY DEF CallsOf
  <2> QED  BY <2>1
<1>3. OnePlan(r, pl[r], done[r], grp[r], q[r], qh)  BY <1>1, <1>2, OtherPlanStays
<1> QED  BY <1>3

(* What a call that ends is given is true, and what was told stays true.   *)
LEMMA EndGives ==
  ASSUME NEW ph \in [Calls -> Phases], NEW an \in [Calls -> ToolResults], Told(an, ph),
         NEW c \in Calls, ph[c] # "over", NEW how, NEW result,
         \A d \in Calls : d \in result.of => d = c \/ d \in an[c].of,
         NEW others, others = [ph EXCEPT ![c] = how], NEW given, given = [an EXCEPT ![c] = result]
  PROVE  /\ Told(given, others)
         /\ \A e : e[2] \in Calls /\ SoundEntry(e, ph, an) => SoundEntry(e, others, given)
<1>1. \A d \in Calls : d # c => others[d] = ph[d] /\ given[d] = an[d]  OBVIOUS
<1>2. given[c] = result  OBVIOUS
<1>3. ASSUME NEW b \in Calls, NEW d \in Calls, b # d, d \in given[b].of
      PROVE  KeyOf[d] = KeyOf[b] /\ others[d] = "over" /\ given[d] = OwnSuccess(d)
  <2>1. d \in an[b].of
    <3>1. CASE b = c  BY <1>2, <1>3, <3>1
    <3>2. CASE b # c  BY <1>1, <1>3, <3>2
    <3> QED  BY <3>1, <3>2
  <2>2. KeyOf[d] = KeyOf[b] /\ ph[d] = "over" /\ an[d] = OwnSuccess(d)  BY <1>3, <2>1 DEF Told
  <2>3. d # c  BY <2>2
  <2> QED  BY <1>1, <2>2, <2>3
<1>4. Told(given, others)  BY <1>3 DEF Told
<1>5. ASSUME NEW e, e[2] \in Calls, SoundEntry(e, ph, an) PROVE SoundEntry(e, others, given)
  <2>1. e[2] # c  BY <1>5 DEF SoundEntry
  <2> QED  BY <1>1, <1>5, <2>1 DEF SoundEntry
<1> QED  BY <1>4, <1>5

(* What the cache holds when a call ends was in it, or is its success.     *)
OrOwn(list, c, how, result) ==
  \A x : In(x, list) =>
    \/ In(x, cache)
    \/ x = <<KeyOf[c], c>> /\ how = "over" /\ result = OwnSuccess(c)

(* What a call that ends does to its own plan, and to what is told.        *)
LEMMA CallEndsWell ==
  ASSUME DagInv, NEW c \in Calls, NEW p, p = PlanOf[c], phase[c] \in Starting,
         NEW how \in {"over", "thrown"}, NEW result \in ToolResults,
         \A d \in Calls : d \in result.of => d = c \/ d \in answer[c].of,
         NEW list \in Seq(CacheEntries), OrOwn(list, c, how, result), NEW old,
         Ends(c, how, result, list, old),
         NEW ph, NEW an, NEW at, NEW l, NEW q,
         ph = phase', an = answer', at = attempt', l = cache', q = semQueue'
  PROVE  /\ ph \in [Calls -> Phases] /\ an \in [Calls -> ToolResults] /\ at \in [Calls -> 0..MaxAttempts]
         /\ l \in Seq(CacheEntries)
         /\ OnePlan(p, plan[p], doneCalls[p], group[p], q[p], ph)
         /\ \A d \in Calls : d \notin CallsOf(p) => ph[d] = phase[d]
         /\ q \in [Plans -> Seq(Calls)] /\ \A r \in Plans : r # p => q[r] = semQueue[r]
         /\ CacheFits(l, ph, an) /\ Told(an, ph) /\ PausesFit(ph, at)
<1>1. /\ phase \in [Calls -> Phases] /\ answer \in [Calls -> ToolResults] /\ cache \in Seq(CacheEntries)
      /\ attempt \in [Calls -> 0..MaxAttempts] /\ semQueue \in [Plans -> Seq(Calls)]
  BY DEF DagInv, DagTypeOK, Phases, ToolResults, CacheEntries
<1>2. p \in Plans /\ c \in CallsOf(p)  BY DagAssumption DEF CallsOf
<1>3. PICK others, given, sq : /\ others = [phase EXCEPT ![c] = how] /\ given = [answer EXCEPT ![c] = result]
                               /\ sq = semQueue[p]
  OBVIOUS
<1>4. others \in [Calls -> Phases] /\ given \in [Calls -> ToolResults]
  <2>1. how \in Phases  BY DEF Phases
  <2> QED  BY <1>1, <1>3, <2>1
<1>5. OnePlan(p, plan[p], doneCalls[p], group[p], sq, phase)  BY <1>2, <1>3 DEF DagInv, PlansFit
<1>6. sq \in Seq(Calls) /\ Distinct(sq) /\ \A x : In(x, sq) <=> x \in CallsOf(p) /\ phase[x] = "queued"
  BY <1>5 DEF OnePlan, QueueFits
<1>7. PICK s, r : s = After(sq) /\ r = Left(sq)  OBVIOUS
<1>8. s \in Seq(Calls) /\ r \in Seq(Calls) /\ \A x : In(x, s) => In(x, sq)  BY <1>6, <1>7, InLineIs
<1>9. NextInLine(p) = s  BY <1>3, <1>7 DEF NextInLine, After
<1>10. /\ Begin(s, others, list, old) /\ AnswersWith(s, given, list, old)
       /\ semQueue' = [semQueue EXCEPT ![p] = IF s = <<>> THEN @ ELSE Tail(@)]
  BY <1>3, <1>9 DEF Ends
<1>11. /\ Begun(s, others, ph)
       /\ at \in [Calls -> 0..MaxAttempts] /\ \A d \in Calls : ~In(d, s) => at[d] = attempt[d]
       /\ l \in Seq(CacheEntries) /\ \A x : In(x, l) => In(x, list)
  <2>1. others \in [Calls -> Phases] /\ s \in Seq(Calls) /\ attempt \in [Calls -> 0..MaxAttempts]
    BY <1>1, <1>4, <1>8
  <2>2. Begin(s, others, list, old)  BY <1>10
  <2>3. Begun(s, others, ph) /\ Tried(s, at) /\ KeepsOf(list, l)  BY <2>1, <2>2, BeginIs
  <2> QED  BY <2>3 DEF Tried, KeepsOf
<1>12. GivenFrom(s, given, list, an)  BY <1>4, <1>8, <1>10, AnswersWithIs
<1>13. q \in [Plans -> Seq(Calls)] /\ q[p] = r /\ \A b \in Plans : b # p => q[b] = semQueue[b]
  <2>1. (IF s = <<>> THEN sq ELSE Tail(sq)) = r
    <3>1. CASE sq = <<>>  BY <1>7, <3>1 DEF After, Left
    <3>2. CASE sq # <<>>
      <4>1. s # <<>>
        <5>1. PICK h : h = Head(sq)  OBVIOUS
        <5>2. s = <<h>>  BY <1>7, <3>2, <5>1 DEF After
        <5> QED  BY <5>2
      <4> QED  BY <1>7, <3>2, <4>1 DEF Left
    <3> QED  BY <3>1, <3>2
  <2>2. q = [semQueue EXCEPT ![p] = r]  BY <1>3, <1>10, <2>1
  <2> QED  BY <1>1, <1>2, <1>8, <2>2
<1>14. others[c] = how /\ \A d \in Calls : d # c => others[d] = phase[d]  BY <1>1, <1>3
<1>15. /\ OnePlan(p, plan[p], doneCalls[p], group[p], r, ph)
       /\ \A d \in Calls : d \notin CallsOf(p) => ph[d] = phase[d]
  <2>1. PICK pl, dn, gr, fs : pl = plan[p] /\ dn = doneCalls[p] /\ gr = group[p] /\ fs = phase  OBVIOUS
  <2>2. OnePlan(p, pl, dn, gr, sq, fs) /\ fs[c] \in Starting  BY <1>5, <2>1
  <2>3. \A d \in Calls : d # c => others[d] = fs[d]  BY <1>14, <2>1
  <2>4. Begun(After(sq), others, ph)  BY <1>7, <1>11
  <2>5. /\ OnePlan(p, pl, dn, gr, r, ph)
        /\ \A d \in Calls : d \notin CallsOf(p) => ph[d] = fs[d]
    BY <1>2, <1>7, <1>14, <2>2, <2>3, <2>4, EndStays
  <2> QED  BY <2>1, <2>5
<1>16. phase[c] # "over" /\ phase[c] # "queued"
  <2>1. \A x \in Starting : x # "over" /\ x # "queued"  BY DEF Starting
  <2> QED  BY <2>1
<1>17. /\ Told(given, others)
       /\ \A e : e[2] \in Calls /\ SoundEntry(e, phase, answer) => SoundEntry(e, others, given)
  <2>1. PICK fs, as : fs = phase /\ as = answer  OBVIOUS
  <2>2. fs \in [Calls -> Phases] /\ as \in [Calls -> ToolResults] /\ Told(as, fs) /\ fs[c] # "over"
    BY <1>1, <1>16, <2>1 DEF DagInv
  <2>3. \A d \in Calls : d \in result.of => d = c \/ d \in as[c].of  BY <2>1
  <2>4. others = [fs EXCEPT ![c] = how] /\ given = [as EXCEPT ![c] = result]  BY <1>3, <2>1
  <2>5. /\ Told(given, others)
        /\ \A e : e[2] \in Calls /\ SoundEntry(e, fs, as) => SoundEntry(e, others, given)
    BY <2>2, <2>3, <2>4, EndGives
  <2> QED  BY <2>1, <2>5
<1>18. CacheFits(list, others, given)
  <2> SUFFICES ASSUME NEW e, In(e, list) PROVE SoundEntry(e, others, given)  BY DEF CacheFits
  <2>1. CASE In(e, cache)
    <3>1. e[2] \in Calls  BY <1>1, <2>1, MemberIsEntry
    <3>2. SoundEntry(e, phase, answer)  BY <2>1 DEF DagInv, CacheFits
    <3> QED  BY <1>17, <3>1, <3>2
  <2>2. CASE e = <<KeyOf[c], c>> /\ how = "over" /\ result = OwnSuccess(c)
    <3>1. e[1] = KeyOf[c] /\ e[2] = c  BY <2>2
    <3>2. others[c] = "over" /\ given[c] = OwnSuccess(c)  BY <1>1, <1>3, <2>2
    <3> QED  BY <3>1, <3>2 DEF SoundEntry
  <2> QED  BY <2>1, <2>2 DEF OrOwn
<1>19. \A d \in Calls : In(d, s) => others[d] # "over"
  <2> SUFFICES ASSUME NEW d \in Calls, In(d, s) PROVE others[d] # "over"  OBVIOUS
  <2>1. phase[d] = "queued"  BY <1>6, <1>8
  <2>2. d # c  BY <1>16, <2>1
  <2> QED  BY <1>14, <2>1, <2>2
<1>20. CacheFits(l, ph, an) /\ Told(an, ph)  BY <1>11, <1>12, <1>17, <1>18, <1>19, TruthStays
<1>21. PausesFit(ph, at)
  <2>1. PICK as : as = attempt  OBVIOUS
  <2>2. \A d \in Calls : ~In(d, s) => at[d] = as[d]  BY <1>11, <2>1
  <2>3. PausesFit(others, as)
    <3> SUFFICES ASSUME NEW d \in Calls, others[d] = "backoff" PROVE as[d] < MaxAttempts  BY DEF PausesFit
    <3>1. d # c  BY <1>14
    <3> QED  BY <1>14, <2>1, <3>1 DEF DagInv, PausesFit
  <2> QED  BY <1>11, <2>2, <2>3, BegunPauses
<1>22. ph \in [Calls -> Phases]  BY <1>11 DEF Begun
<1>23. an \in [Calls -> ToolResults]  BY <1>12 DEF GivenFrom
<1> QED  BY <1>11, <1>13, <1>15, <1>20, <1>21, <1>22, <1>23

(* A plan that is rejected is as it was, but for its name.                 *)
LEMMA RejectedFits ==
  ASSUME NEW p, NEW pl, NEW done, NEW grp, NEW q, NEW ph, OnePlan(p, pl, done, grp, q, ph),
         NEW to, to = pl \/ to = "rejected"
  PROVE  OnePlan(p, to, done, grp, q, ph)
<1>1. PlanFits(p, to, done, grp)  BY DEF OnePlan, PlanFits
<1> QED  BY <1>1 DEF OnePlan

(* The parts of what holds after a step.                                   *)
LEMMA DagInvFrom ==
  ASSUME NEW pl, NEW grp, NEW done, NEW q, NEW ph, NEW at, NEW an, NEW l,
         pl = plan', grp = group', done = doneCalls', q = semQueue', ph = phase', at = attempt',
         an = answer', l = cache', permits' \in [Plans -> Int], expired' \subseteq Keys,
         pl \in [Plans -> {"new", "waiting", "resolved", "rejected", "refused"}],
         grp \in [Plans -> SUBSET Calls], done \in [Plans -> SUBSET Calls], q \in [Plans -> Seq(Calls)],
         ph \in [Calls -> Phases], at \in [Calls -> 0..MaxAttempts], an \in [Calls -> ToolResults],
         l \in Seq(CacheEntries), PlansFit(pl, done, grp, q, ph), CacheFits(l, ph, an), Told(an, ph),
         PausesFit(ph, at)
  PROVE  DagInv'
<1>1. DagTypeOK'  BY DEF DagTypeOK, Phases, ToolResults, CacheEntries
<1> QED  BY <1>1 DEF DagInv

LEMMA CallEndsKeeps ==
  ASSUME DagInv, NEW c \in Calls, phase[c] \in Starting,
         NEW how \in {"over", "thrown"}, NEW result \in ToolResults,
         \A d \in Calls : d \in result.of => d = c \/ d \in answer[c].of,
         NEW list \in Seq(CacheEntries), OrOwn(list, c, how, result), NEW old,
         Ends(c, how, result, list, old), UNCHANGED <<group, doneCalls>>, expired' \subseteq Keys,
         NEW pl, pl = plan', pl = plan \/ pl = [plan EXCEPT ![PlanOf[c]] = "rejected"]
  PROVE  DagInv'
<1>1. PICK p, ph, an, at, l, q :
        p = PlanOf[c] /\ ph = phase' /\ an = answer' /\ at = attempt' /\ l = cache' /\ q = semQueue'
  OBVIOUS
<1>2. PICK wa, grp, done, fs, sq :
        wa = plan /\ grp = group /\ done = doneCalls /\ fs = phase /\ sq = semQueue
  OBVIOUS
<1>3. /\ ph \in [Calls -> Phases] /\ an \in [Calls -> ToolResults] /\ at \in [Calls -> 0..MaxAttempts]
      /\ l \in Seq(CacheEntries)
      /\ OnePlan(p, plan[p], doneCalls[p], group[p], q[p], ph)
      /\ \A d \in Calls : d \notin CallsOf(p) => ph[d] = phase[d]
      /\ q \in [Plans -> Seq(Calls)] /\ \A r \in Plans : r # p => q[r] = semQueue[r]
      /\ CacheFits(l, ph, an) /\ Told(an, ph) /\ PausesFit(ph, at)
  BY <1>1, CallEndsWell
<1>4. p \in Plans  BY <1>1, DagAssumption
<1>5. /\ wa \in [Plans -> {"new", "waiting", "resolved", "rejected", "refused"}]
      /\ grp \in [Plans -> SUBSET Calls] /\ done \in [Plans -> SUBSET Calls]
      /\ permits \in [Plans -> Int]
  BY <1>2 DEF DagInv, DagTypeOK
<1>6. /\ pl \in [Plans -> {"new", "waiting", "resolved", "rejected", "refused"}]
      /\ (pl[p] = wa[p] \/ pl[p] = "rejected") /\ \A r \in Plans : r # p => pl[r] = wa[r]
  <2>1. CASE pl = wa  BY <1>5, <2>1
  <2>2. CASE pl = [wa EXCEPT ![p] = "rejected"]  BY <1>4, <1>5, <2>2
  <2> QED  BY <1>1, <1>2, <2>1, <2>2
<1>7. permits' \in [Plans -> Int]
  <2>1. PICK s, k : s = NextInLine(p) /\ k = permits[p]  OBVIOUS
  <2>2. permits' = [permits EXCEPT ![p] = IF s = <<>> THEN k + 1 ELSE k - 1]  BY <1>1, <2>1 DEF Ends
  <2>3. k \in Int  BY <1>4, <1>5, <2>1
  <2>4. k + 1 \in Int /\ k - 1 \in Int  BY <2>3
  <2>5. (IF s = <<>> THEN k + 1 ELSE k - 1) \in Int  BY <2>4
  <2> QED  BY <1>5, <2>2, <2>5
<1>8. OnePlan(p, pl[p], done[p], grp[p], q[p], ph)
  <2>1. PICK x, d, g, b, to : x = wa[p] /\ d = done[p] /\ g = grp[p] /\ b = q[p] /\ to = pl[p]  OBVIOUS
  <2>2. OnePlan(p, x, d, g, b, ph) /\ (to = x \/ to = "rejected")  BY <1>2, <1>3, <1>6, <2>1
  <2>3. OnePlan(p, to, d, g, b, ph)  BY <2>2, RejectedFits
  <2> QED  BY <2>1, <2>3
<1>9. PlansFit(pl, done, grp, q, ph)
  <2>1. PlansFit(wa, done, grp, sq, fs)  BY <1>2 DEF DagInv
  <2>2. \A r \in Plans : r # p => pl[r] = wa[r] /\ done[r] = done[r] /\ grp[r] = grp[r] /\ q[r] = sq[r]
    BY <1>2, <1>3, <1>6
  <2>3. \A d \in Calls : d \notin CallsOf(p) => ph[d] = fs[d]  BY <1>2, <1>3
  <2> QED  BY <1>4, <1>8, <2>1, <2>2, <2>3, PlansFitAfter
<1>10. grp = group' /\ done = doneCalls'  BY <1>2
<1> QED  BY <1>1, <1>3, <1>5, <1>6, <1>7, <1>9, <1>10, DagInvFrom

LEMMA HitReturnsKeeps ==
  ASSUME DagInv, NEW c \in Calls, HitReturns(c)
  PROVE  DagInv'
<1>1. PICK result, list, old, pl : result = answer[c] /\ list = cache /\ old = expired /\ pl = plan'  OBVIOUS
<1>2. answer \in [Calls -> ToolResults] /\ cache \in Seq(CacheEntries) /\ expired \subseteq Keys
  BY DEF DagInv, DagTypeOK, ToolResults, CacheEntries
<1>3. result \in ToolResults /\ list \in Seq(CacheEntries)  BY <1>1, <1>2
<1>4. Ends(c, "over", result, list, old)  BY <1>1 DEF HitReturns
<1>5. phase[c] \in Starting  BY DEF HitReturns, Starting
<1>6. UNCHANGED <<group, doneCalls>> /\ pl = plan /\ expired' = expired  BY <1>1 DEF HitReturns, planPart
<1>7. OrOwn(list, c, "over", result)  BY <1>1 DEF OrOwn
<1>8. \A d \in Calls : d \in result.of => d = c \/ d \in answer[c].of  BY <1>1
<1>9. PICK how : how = "over"  OBVIOUS
<1>10. how \in {"over", "thrown"} /\ Ends(c, how, result, list, old) /\ OrOwn(list, c, how, result)
  BY <1>4, <1>7, <1>9
<1> QED  BY <1>1, <1>2, <1>3, <1>5, <1>6, <1>8, <1>10, CallEndsKeeps

LEMMA ThrowReturnsKeeps ==
  ASSUME DagInv, NEW c \in Calls, ThrowReturns(c)
  PROVE  DagInv'
<1>1. PICK result, list, old, pl, how :
        result = None /\ list = cache /\ old = expired /\ pl = plan' /\ how = "thrown"
  OBVIOUS
<1>2. cache \in Seq(CacheEntries) /\ expired \subseteq Keys  BY DEF DagInv, DagTypeOK, CacheEntries
<1>3. result \in ToolResults /\ list \in Seq(CacheEntries) /\ result.of = {}  BY <1>1, <1>2 DEF None, ToolResults
<1>4. Ends(c, how, result, list, old) /\ how \in {"over", "thrown"}  BY <1>1 DEF ThrowReturns
<1>5. phase[c] \in Starting  BY DEF ThrowReturns, Starting
<1>6. UNCHANGED <<group, doneCalls>> /\ pl = [plan EXCEPT ![PlanOf[c]] = "rejected"] /\ expired' = expired
  BY <1>1 DEF ThrowReturns
<1>7. OrOwn(list, c, how, result)  BY <1>1 DEF OrOwn
<1>8. \A d \in Calls : d \in result.of => d = c \/ d \in answer[c].of  BY <1>3
<1> QED  BY <1>1, <1>2, <1>3, <1>4, <1>5, <1>6, <1>7, <1>8, CallEndsKeeps

LEMMA ResultKeeps ==
  ASSUME DagInv, NEW c \in Calls, phase[c] = "running", NEW ok \in BOOLEAN, Result(c, ok)
  PROVE  DagInv'
<1>1. PICK k : k = KeyOf[c]  OBVIOUS
<1>2. PICK result, list, old, pl, how :
        /\ result = [of |-> {c}, ok |-> ok] /\ list = CacheAfter(c, ok)
        /\ old = (IF ok THEN expired \ {k} ELSE expired) /\ pl = plan' /\ how = "over"
  OBVIOUS
<1>3. cache \in Seq(CacheEntries) /\ expired \subseteq Keys  BY DEF DagInv, DagTypeOK, CacheEntries
<1>4. result \in ToolResults /\ \A d \in Calls : d \in result.of => d = c \/ d \in answer[c].of
  BY <1>2 DEF ToolResults
<1>5. list \in Seq(CacheEntries) /\ OrOwn(list, c, how, result)
  <2>1. CASE ok
    <3>1. PICK s : s = cache  OBVIOUS
    <3>2. s \in Seq(CacheEntries) /\ list = Stored(s, k, c)  BY <1>1, <1>2, <1>3, <2>1, <3>1 DEF CacheAfter
    <3>3. list \in Seq(CacheEntries) /\ \A x : In(x, list) => x = <<k, c>> \/ In(x, s)  BY <1>1, <3>2, StoredHas
    <3>4. result = OwnSuccess(c)  BY <1>2, <2>1 DEF OwnSuccess
    <3> QED  BY <1>1, <1>2, <3>1, <3>3, <3>4 DEF OrOwn
  <2>2. CASE ~ok
    <3>1. list = cache  BY <1>2, <2>2 DEF CacheAfter
    <3> QED  BY <1>3, <3>1 DEF OrOwn
  <2> QED  BY <2>1, <2>2
<1>6. Ends(c, how, result, list, old) /\ expired' = old /\ how \in {"over", "thrown"}
  BY <1>1, <1>2 DEF Result
<1>7. UNCHANGED <<group, doneCalls>> /\ pl = plan  BY <1>2 DEF Result, planPart
<1>8. phase[c] \in Starting  BY DEF Starting
<1>9. expired' \subseteq Keys
  <2>1. old \subseteq expired  BY <1>2
  <2> QED  BY <1>3, <1>6, <2>1
<1> QED  BY <1>2, <1>4, <1>5, <1>6, <1>7, <1>8, <1>9, CallEndsKeeps

(* A call of a plan pauses, or tries again.                                *)
LEMMA CallTriesKeeps ==
  ASSUME DagInv, NEW c \in Calls, phase[c] \in Going, NEW to \in {"running", "backoff"},
         phase' = [phase EXCEPT ![c] = to], NEW at, at = attempt', at \in [Calls -> 0..MaxAttempts],
         \A d \in Calls : d # c => at[d] = attempt[d], to = "backoff" => at[c] < MaxAttempts,
         UNCHANGED <<planPart, semPart, answer, cache, expired>>
  PROVE  DagInv'
<1>1. PICK p, pl, grp, done, fs, q, an, l, as, ph :
        /\ p = PlanOf[c] /\ pl = plan /\ grp = group /\ done = doneCalls /\ fs = phase
        /\ q = semQueue /\ an = answer /\ l = cache /\ as = attempt /\ ph = phase'
  OBVIOUS
<1>2. /\ pl = plan' /\ grp = group' /\ done = doneCalls' /\ q = semQueue' /\ an = answer' /\ l = cache'
      /\ permits' = permits /\ expired' = expired
  BY <1>1 DEF planPart, semPart
<1>3. /\ fs \in [Calls -> Phases] /\ an \in [Calls -> ToolResults] /\ l \in Seq(CacheEntries)
      /\ pl \in [Plans -> {"new", "waiting", "resolved", "rejected", "refused"}]
      /\ grp \in [Plans -> SUBSET Calls] /\ done \in [Plans -> SUBSET Calls]
      /\ q \in [Plans -> Seq(Calls)] /\ permits \in [Plans -> Int] /\ expired \subseteq Keys
  BY <1>1 DEF DagInv, DagTypeOK, Phases, ToolResults, CacheEntries
<1>4. p \in Plans /\ c \in CallsOf(p)  BY <1>1, DagAssumption DEF CallsOf
<1>5. PlansFit(pl, done, grp, q, fs) /\ CacheFits(l, fs, an) /\ Told(an, fs) /\ PausesFit(fs, as)
  BY <1>1 DEF DagInv
<1>6. ph = [fs EXCEPT ![c] = to]  BY <1>1
<1>7. to \in Phases /\ to \in Going  BY DEF Phases, Going, Starting
<1>8. ph \in [Calls -> Phases] /\ ph[c] = to /\ \A d \in Calls : d # c => ph[d] = fs[d]  BY <1>3, <1>6, <1>7
<1>9. \A x \in Going : x # "over"  BY DEF Going, Starting
<1>10. fs[c] \in Going  BY <1>1
<1>11. \A d \in Calls : fs[d] = "over" => ph[d] = "over"  BY <1>8, <1>9, <1>10
<1>12. OnePlan(p, pl[p], done[p], grp[p], q[p], ph)
  <2>1. PICK x, d, g, b : x = pl[p] /\ d = done[p] /\ g = grp[p] /\ b = q[p]  OBVIOUS
  <2>2. OnePlan(p, x, d, g, b, fs)  BY <1>4, <1>5, <2>1 DEF PlansFit
  <2>3. \A e \in CallsOf(p) : e # c => ph[e] = fs[e]  BY <1>8 DEF CallsOf
  <2>4. OnePlan(p, x, d, g, b, ph)  BY <1>4, <1>7, <1>8, <1>10, <2>2, <2>3, CallGoesOnIn
  <2> QED  BY <2>1, <2>4
<1>13. PlansFit(pl, done, grp, q, ph)
  <2>1. \A r \in Plans : r # p => pl[r] = pl[r] /\ done[r] = done[r] /\ grp[r] = grp[r] /\ q[r] = q[r]  OBVIOUS
  <2>2. \A d \in Calls : d \notin CallsOf(p) => ph[d] = fs[d]  BY <1>4, <1>8
  <2> QED  BY <1>4, <1>5, <1>12, <2>1, <2>2, PlansFitAfter
<1>14. CacheFits(l, ph, an)
  <2> SUFFICES ASSUME NEW e, In(e, l) PROVE SoundEntry(e, ph, an)  BY DEF CacheFits
  <2>1. e[2] \in Calls  BY <1>3, MemberIsEntry
  <2>2. SoundEntry(e, fs, an)  BY <1>5 DEF CacheFits
  <2> QED  BY <1>11, <2>1, <2>2 DEF SoundEntry
<1>15. Told(an, ph)
  <2> SUFFICES ASSUME NEW a \in Calls, NEW d \in Calls, a # d, d \in an[a].of
               PROVE  KeyOf[d] = KeyOf[a] /\ ph[d] = "over" /\ an[d] = OwnSuccess(d)
    BY DEF Told
  <2>1. KeyOf[d] = KeyOf[a] /\ fs[d] = "over" /\ an[d] = OwnSuccess(d)  BY <1>5 DEF Told
  <2> QED  BY <1>11, <2>1
<1>16. PausesFit(ph, at)
  <2> SUFFICES ASSUME NEW d \in Calls, ph[d] = "backoff" PROVE at[d] < MaxAttempts  BY DEF PausesFit
  <2>1. CASE d = c  BY <1>8, <2>1
  <2>2. CASE d # c
    <3>1. fs[d] = "backoff" /\ at[d] = as[d]  BY <1>1, <1>8, <2>2
    <3> QED  BY <1>5, <3>1 DEF PausesFit
  <2> QED  BY <2>1, <2>2
<1>17. permits' \in [Plans -> Int] /\ expired' \subseteq Keys /\ ph = phase'  BY <1>1, <1>2, <1>3
<1> QED  BY <1>2, <1>3, <1>8, <1>13, <1>14, <1>15, <1>16, <1>17, DagInvFrom

LEMMA AttemptFailsKeeps ==
  ASSUME DagInv, NEW c \in Calls, phase[c] = "running", NEW retryable \in BOOLEAN,
         AttemptFails(c, retryable)
  PROVE  DagInv'
<1>1. CASE retryable /\ attempt[c] < MaxAttempts
  <2>1. PICK to, at : to = "backoff" /\ at = attempt'  OBVIOUS
  <2>2. phase' = [phase EXCEPT ![c] = to] /\ UNCHANGED <<planPart, semPart, attempt, answer, cache, expired>>
    BY <1>1, <2>1 DEF AttemptFails
  <2>3. at = attempt  BY <2>1, <2>2
  <2>4. at \in [Calls -> 0..MaxAttempts]  BY <2>3 DEF DagInv, DagTypeOK
  <2>5. (\A d \in Calls : d # c => at[d] = attempt[d]) /\ at[c] < MaxAttempts  BY <1>1, <2>3
  <2>6. phase[c] \in Going  BY DEF Going, Starting
  <2>7. UNCHANGED <<planPart, semPart, answer, cache, expired>>  BY <2>2
  <2> QED  BY <2>1, <2>2, <2>4, <2>5, <2>6, <2>7, CallTriesKeeps
<1>2. CASE ~(retryable /\ attempt[c] < MaxAttempts)
  <2>1. PICK ok : ok = FALSE  OBVIOUS
  <2>2. Result(c, ok) /\ ok \in BOOLEAN  BY <1>2, <2>1 DEF AttemptFails
  <2> QED  BY <2>2, ResultKeeps
<1> QED  BY <1>1, <1>2

LEMMA PauseOverKeeps ==
  ASSUME DagInv, NEW c \in Calls, PauseOver(c)
  PROVE  DagInv'
<1>1. PICK to, at, as : to = "running" /\ at = attempt' /\ as = attempt  OBVIOUS
<1>2. /\ phase[c] = "backoff" /\ phase' = [phase EXCEPT ![c] = to] /\ at = [as EXCEPT ![c] = as[c] + 1]
      /\ UNCHANGED <<planPart, semPart, answer, cache, expired>>
  BY <1>1 DEF PauseOver
<1>3. as \in [Calls -> 0..MaxAttempts] /\ as[c] < MaxAttempts
  BY <1>1, <1>2 DEF DagInv, DagTypeOK, PausesFit
<1>4. MaxAttempts \in Nat  BY DagAssumption
<1>5. as[c] + 1 \in 0..MaxAttempts
  <2>1. PICK k, m : k = as[c] /\ m = MaxAttempts  OBVIOUS
  <2>2. m \in Nat /\ k \in 0..m /\ k < m  BY <1>3, <1>4, <2>1
  <2>3. k + 1 \in 0..m  BY <2>2
  <2> QED  BY <2>1, <2>3
<1>6. at \in [Calls -> 0..MaxAttempts] /\ \A d \in Calls : d # c => at[d] = as[d]  BY <1>2, <1>3, <1>5
<1>7. phase[c] \in Going /\ to # "backoff" /\ to \in {"running", "backoff"}  BY <1>1, <1>2 DEF Going
<1> QED  BY <1>1, <1>2, <1>6, <1>7, CallTriesKeeps

(* The cache loses entries, or its order; entries expire.                  *)
LEMMA CacheOnlyKeeps ==
  ASSUME DagInv, UNCHANGED <<planPart, semPart, callPart>>, expired' \subseteq Keys,
         NEW l, l = cache', KeepsOf(cache, l)
  PROVE  DagInv'
<1>1. PICK pl, grp, done, ph, q, an, at :
        /\ pl = plan /\ grp = group /\ done = doneCalls /\ ph = phase /\ q = semQueue
        /\ an = answer /\ at = attempt
  OBVIOUS
<1>2. /\ pl = plan' /\ grp = group' /\ done = doneCalls' /\ q = semQueue' /\ an = answer'
      /\ ph = phase' /\ at = attempt' /\ permits' = permits
  BY <1>1 DEF planPart, semPart, callPart
<1>3. /\ ph \in [Calls -> Phases] /\ an \in [Calls -> ToolResults] /\ at \in [Calls -> 0..MaxAttempts]
      /\ pl \in [Plans -> {"new", "waiting", "resolved", "rejected", "refused"}]
      /\ grp \in [Plans -> SUBSET Calls] /\ done \in [Plans -> SUBSET Calls]
      /\ q \in [Plans -> Seq(Calls)] /\ permits \in [Plans -> Int]
  BY <1>1 DEF DagInv, DagTypeOK, Phases, ToolResults, CacheEntries
<1>4. PlansFit(pl, done, grp, q, ph) /\ CacheFits(cache, ph, an) /\ Told(an, ph) /\ PausesFit(ph, at)
  BY <1>1 DEF DagInv
<1>5. l \in Seq(CacheEntries) /\ CacheFits(l, ph, an)  BY <1>4 DEF KeepsOf, CacheFits
<1>6. permits' \in [Plans -> Int]  BY <1>2, <1>3
<1> QED  BY <1>2, <1>3, <1>4, <1>5, <1>6, DagInvFrom

LEMMA CacheStepsKeep ==
  ASSUME DagInv,
         \/ \E k \in Keys : EntryExpires(k)
         \/ \E c \in Calls : Prefetch(c)
         \/ ClearCache
         \/ UNCHANGED dagVars
  PROVE  DagInv'
<1>1. cache \in Seq(CacheEntries) /\ expired \subseteq Keys  BY DEF DagInv, DagTypeOK, CacheEntries
<1>2. PICK l, old : l = cache' /\ old = expired'  OBVIOUS
<1>3. CASE (\E k \in Keys : EntryExpires(k)) \/ UNCHANGED dagVars
  <2>1. UNCHANGED <<planPart, semPart, callPart>> /\ l = cache /\ old \subseteq Keys
    <3>1. CASE \E k \in Keys : EntryExpires(k)  BY <1>1, <1>2, <3>1 DEF EntryExpires
    <3>2. CASE UNCHANGED dagVars  BY <1>1, <1>2, <3>2 DEF dagVars
    <3> QED  BY <1>3, <3>1, <3>2
  <2>2. KeepsOf(cache, l)  BY <1>1, <2>1 DEF KeepsOf
  <2> QED  BY <1>2, <2>1, <2>2, CacheOnlyKeeps
<1>4. CASE \E c \in Calls : Prefetch(c)
  <2>1. PICK c \in Calls : Prefetch(c)  BY <1>4
  <2>2. PICK s, k : s = cache /\ k = KeyOf[c]  OBVIOUS
  <2>3. UNCHANGED <<planPart, semPart, callPart>> /\ old = expired /\ l = Looked(s, k)
    BY <1>2, <2>1, <2>2 DEF Prefetch
  <2>4. s \in Seq(CacheEntries)  BY <1>1, <2>2
  <2>5. l \in Seq(CacheEntries) /\ \A x : In(x, l) => In(x, s)  BY <2>3, <2>4, LookedHas
  <2>6. KeepsOf(cache, l)  BY <2>2, <2>5 DEF KeepsOf
  <2> QED  BY <1>1, <1>2, <2>3, <2>6, CacheOnlyKeeps
<1>5. CASE ClearCache
  <2>1. UNCHANGED <<planPart, semPart, callPart>> /\ old = expired /\ l = <<>>
    BY <1>2, <1>5 DEF ClearCache
  <2>2. l \in Seq(CacheEntries) /\ Len(l) = 0  BY <2>1
  <2>3. KeepsOf(cache, l)  BY <2>2 DEF KeepsOf, In
  <2> QED  BY <1>1, <1>2, <2>1, <2>3, CacheOnlyKeeps
<1> QED  BY <1>3, <1>4, <1>5

(* What is over stays over: what was told stays true.                      *)
LEMMA TruthWith ==
  ASSUME NEW list \in Seq(CacheEntries), NEW ph, NEW an, CacheFits(list, ph, an), Told(an, ph),
         NEW qh, \A d \in Calls : ph[d] = "over" => qh[d] = "over"
  PROVE  CacheFits(list, qh, an) /\ Told(an, qh)
<1>1. ASSUME NEW e, In(e, list) PROVE SoundEntry(e, qh, an)
  <2>1. e[2] \in Calls  BY <1>1, MemberIsEntry
  <2>2. SoundEntry(e, ph, an)  BY <1>1 DEF CacheFits
  <2> QED  BY <2>1, <2>2 DEF SoundEntry
<1>2. ASSUME NEW a \in Calls, NEW d \in Calls, a # d, d \in an[a].of
      PROVE  KeyOf[d] = KeyOf[a] /\ qh[d] = "over" /\ an[d] = OwnSuccess(d)
  <2>1. KeyOf[d] = KeyOf[a] /\ ph[d] = "over" /\ an[d] = OwnSuccess(d)  BY <1>2 DEF Told
  <2> QED  BY <2>1
<1> QED  BY <1>1, <1>2 DEF CacheFits, Told

(* A plan that is through has its results, and the cache is cleaned.       *)
LEMMA GoOnThrough ==
  ASSUME DagInv, NEW p \in Plans, NEW done, Ready(p, done, phase), group[p] \subseteq done,
         Layer(p, done) = {}, doneCalls' = [doneCalls EXCEPT ![p] = done],
         plan' = [plan EXCEPT ![p] = "resolved"],
         cache' = AtPlaces(cache, {n \in DOMAIN cache : cache[n][1] \notin expired}),
         UNCHANGED <<group, semPart, callPart>>, expired' = expired
  PROVE  DagInv'
<1>1. PICK wa, old, pl, dn, grp, ph, q, an, at, s, l :
        /\ wa = plan /\ old = doneCalls /\ pl = plan' /\ dn = doneCalls' /\ grp = group /\ ph = phase
        /\ q = semQueue /\ an = answer /\ at = attempt /\ s = cache /\ l = cache'
  OBVIOUS
<1>2. /\ grp = group' /\ q = semQueue' /\ an = answer' /\ ph = phase' /\ at = attempt' /\ permits' = permits
  BY <1>1 DEF semPart, callPart
<1>3. /\ ph \in [Calls -> Phases] /\ an \in [Calls -> ToolResults] /\ at \in [Calls -> 0..MaxAttempts]
      /\ wa \in [Plans -> {"new", "waiting", "resolved", "rejected", "refused"}]
      /\ grp \in [Plans -> SUBSET Calls] /\ old \in [Plans -> SUBSET Calls]
      /\ q \in [Plans -> Seq(Calls)] /\ permits \in [Plans -> Int]
      /\ s \in Seq(CacheEntries) /\ expired \subseteq Keys
  BY <1>1 DEF DagInv, DagTypeOK, Phases, ToolResults, CacheEntries
<1>4. PlansFit(wa, old, grp, q, ph) /\ CacheFits(s, ph, an) /\ Told(an, ph) /\ PausesFit(ph, at)
  BY <1>1 DEF DagInv
<1>5. CallsOf(p) \subseteq Calls /\ done \subseteq CallsOf(p)  BY CallsFinite DEF Ready
<1>6. /\ pl \in [Plans -> {"new", "waiting", "resolved", "rejected", "refused"}]
      /\ pl[p] = "resolved" /\ \A r \in Plans : r # p => pl[r] = wa[r]
  BY <1>1, <1>3
<1>7. /\ dn \in [Plans -> SUBSET Calls] /\ dn[p] = done /\ \A r \in Plans : r # p => dn[r] = old[r]
  BY <1>1, <1>3, <1>5
<1>8. OnePlan(p, pl[p], dn[p], grp[p], q[p], ph)
  <2>1. PICK g, b : g = grp[p] /\ b = q[p]  OBVIOUS
  <2>2. QueueFits(p, b, ph)  BY <1>4, <2>1 DEF PlansFit, OnePlan
  <2>3. Ready(p, done, ph) /\ g \subseteq done  BY <1>1, <2>1
  <2>4. OnePlan(p, "resolved", done, g, b, ph)  BY <2>2, <2>3, PlanThrough
  <2> QED  BY <1>6, <1>7, <2>1, <2>4
<1>9. PlansFit(pl, dn, grp, q, ph)
  <2>1. \A r \in Plans : r # p => pl[r] = wa[r] /\ dn[r] = old[r] /\ grp[r] = grp[r] /\ q[r] = q[r]
    BY <1>6, <1>7
  <2>2. \A d \in Calls : d \notin CallsOf(p) => ph[d] = ph[d]  OBVIOUS
  <2> QED  BY <1>4, <1>8, <2>1, <2>2, PlansFitAfter
<1>10. l \in Seq(CacheEntries) /\ CacheFits(l, ph, an)
  <2>1. PICK n \in Nat : n = Len(s) /\ DOMAIN s = 1..n  BY <1>3, LenProperties
  <2>2. PICK F : F = {i \in DOMAIN s : s[i][1] \notin expired}  OBVIOUS
  <2>3. l = AtPlaces(s, F)  BY <1>1, <2>2
  <2>4. ArePlaces(F, s)  BY <2>1, <2>2 DEF ArePlaces
  <2>5. l \in Seq(CacheEntries) /\ SiftedTo(s, F, l)  BY <1>3, <2>3, <2>4, AtPlacesIs
  <2>6. \A x : In(x, l) => In(x, s)  BY <2>1, <2>2, <2>5 DEF SiftedTo, In
  <2> QED  BY <1>4, <2>5, <2>6 DEF CacheFits
<1>11. permits' \in [Plans -> Int] /\ expired' \subseteq Keys  BY <1>2, <1>3
<1>12. pl = plan' /\ dn = doneCalls' /\ l = cache'  BY <1>1
<1> QED  BY <1>2, <1>3, <1>4, <1>6, <1>7, <1>9, <1>10, <1>11, <1>12, DagInvFrom

(* A group begins: those the semaphore lets in, and the rest waits.        *)
LEMMA GoOnWaits ==
  ASSUME DagInv, NEW p \in Plans, NEW done, Ready(p, done, phase), NEW next, next = Layer(p, done),
         NEW order \in SetToSeqs(next), NEW first, first = LetIn(order),
         NEW rest, rest = SubSeq(order, Len(first) + 1, Len(order)),
         doneCalls' = [doneCalls EXCEPT ![p] = done],
         plan' = [plan EXCEPT ![p] = "waiting"], group' = [group EXCEPT ![p] = next],
         permits' = [permits EXCEPT ![p] = MaxConcurrency - Len(first)],
         semQueue' = [semQueue EXCEPT ![p] = rest], NEW others,
         others = [c \in Calls |-> IF c \in ToSet(rest) THEN "queued" ELSE phase[c]],
         Begin(first, others, cache, expired), AnswersWith(first, answer, cache, expired), expired' = expired
  PROVE  DagInv'
<1>1. PICK wa, old, was, sq, fs, as, s, ts, e :
        /\ wa = plan /\ old = doneCalls /\ was = group /\ sq = semQueue /\ fs = phase
        /\ as = answer /\ s = cache /\ ts = attempt /\ e = expired
  OBVIOUS
<1>2. PICK pl, dn, grp, q, ph, an, l, at :
        /\ pl = plan' /\ dn = doneCalls' /\ grp = group' /\ q = semQueue' /\ ph = phase'
        /\ an = answer' /\ l = cache' /\ at = attempt'
  OBVIOUS
<1>3. /\ fs \in [Calls -> Phases] /\ as \in [Calls -> ToolResults] /\ ts \in [Calls -> 0..MaxAttempts]
      /\ wa \in [Plans -> {"new", "waiting", "resolved", "rejected", "refused"}]
      /\ was \in [Plans -> SUBSET Calls] /\ old \in [Plans -> SUBSET Calls]
      /\ sq \in [Plans -> Seq(Calls)] /\ permits \in [Plans -> Int]
      /\ s \in Seq(CacheEntries) /\ e \subseteq Keys
  BY <1>1 DEF DagInv, DagTypeOK, Phases, ToolResults, CacheEntries
<1>4. PlansFit(wa, old, was, sq, fs) /\ CacheFits(s, fs, as) /\ Told(as, fs) /\ PausesFit(fs, ts)
  BY <1>1 DEF DagInv
<1>5. order \in Seq(Calls) /\ Distinct(order) /\ \A x : In(x, order) <=> x \in next  BY GroupOrder
<1>6. /\ first \in Seq(Calls) /\ rest \in Seq(Calls)
      /\ \A x : In(x, rest) => x \in next /\ ~In(x, first)
      /\ \A x : In(x, first) => x \in next
  <2>1. Splits(order, first, rest)  BY <1>5, GroupSplit
  <2> QED  BY <1>5, <2>1 DEF Splits
<1>7. CallsOf(p) \subseteq Calls /\ done \subseteq CallsOf(p) /\ next \subseteq CallsOf(p)
  BY CallsFinite DEF Ready, Layer
<1>8. \A c \in next : fs[c] = "new"  BY <1>1, <1>7 DEF Ready, Layer
<1>9. \A x : x \in ToSet(rest) <=> In(x, rest)  BY <1>6, InIsToSet
<1>10. \A c \in Calls : others[c] = IF In(c, rest) THEN "queued" ELSE fs[c]  BY <1>1, <1>9
<1>11. others \in [Calls -> Phases]
  <2>1. "queued" \in Phases  BY DEF Phases
  <2> QED  BY <1>1, <1>3, <2>1
<1>12. Begun(first, others, ph) /\ Tried(first, at) /\ KeepsOf(s, l)
  <2>1. attempt \in [Calls -> 0..MaxAttempts] /\ Begin(first, others, s, e)  BY <1>1, <1>3
  <2> QED  BY <1>2, <1>3, <1>6, <1>11, <2>1, BeginIs
<1>13. GivenFrom(first, as, s, an)
  <2>1. AnswersWith(first, as, s, e)  BY <1>1
  <2> QED  BY <1>2, <1>3, <1>6, <2>1, AnswersWithIs
<1>14. /\ OnePlan(p, "waiting", done, next, rest, ph)
       /\ \A d \in Calls : d \notin CallsOf(p) => ph[d] = fs[d]
  <2>1. Ready(p, done, fs)  BY <1>1
  <2>2. WaitsIn(rest, fs, others)  BY <1>10 DEF WaitsIn
  <2>3. Begun(first, others, ph)  BY <1>12
  <2>4. Enters(p, done, next, rest, fs, ph)  BY <2>1, <2>2, <2>3, GroupBegins
  <2> QED  BY <2>4 DEF Enters
<1>15. \A d \in Calls : fs[d] = "over" => others[d] = "over"  BY <1>6, <1>8, <1>10
<1>16. CacheFits(s, others, as) /\ Told(as, others)  BY <1>3, <1>4, <1>15, TruthWith
<1>17. \A c \in Calls : In(c, first) => others[c] # "over"
  <2> SUFFICES ASSUME NEW c \in Calls, In(c, first) PROVE others[c] # "over"  OBVIOUS
  <2>1. c \in next /\ ~In(c, rest)  BY <1>6
  <2> QED  BY <1>8, <1>10, <2>1
<1>18. l \in Seq(CacheEntries) /\ \A x : In(x, l) => In(x, s)  BY <1>12 DEF KeepsOf
<1>19. CacheFits(l, ph, an) /\ Told(an, ph)  BY <1>3, <1>12, <1>13, <1>16, <1>17, <1>18, TruthStays
<1>20. PausesFit(ph, at)
  <2>1. PausesFit(others, ts)
    <3> SUFFICES ASSUME NEW d \in Calls, others[d] = "backoff" PROVE ts[d] < MaxAttempts  BY DEF PausesFit
    <3>1. fs[d] = "backoff"
      <4>1. CASE In(d, rest)  BY <1>10, <4>1
      <4>2. CASE ~In(d, rest)  BY <1>10, <4>2
      <4> QED  BY <4>1, <4>2
    <3> QED  BY <1>4, <3>1 DEF PausesFit
  <2>2. \A d \in Calls : ~In(d, first) => at[d] = ts[d]  BY <1>1, <1>12 DEF Tried
  <2> QED  BY <1>12, <2>1, <2>2, BegunPauses
<1>21. /\ pl \in [Plans -> {"new", "waiting", "resolved", "rejected", "refused"}]
       /\ pl[p] = "waiting" /\ \A r \in Plans : r # p => pl[r] = wa[r]
  BY <1>1, <1>2, <1>3
<1>22. dn \in [Plans -> SUBSET Calls] /\ dn[p] = done /\ \A r \in Plans : r # p => dn[r] = old[r]
  BY <1>1, <1>2, <1>3, <1>7
<1>23. grp \in [Plans -> SUBSET Calls] /\ grp[p] = next /\ \A r \in Plans : r # p => grp[r] = was[r]
  BY <1>1, <1>2, <1>3, <1>7
<1>24. q \in [Plans -> Seq(Calls)] /\ q[p] = rest /\ \A r \in Plans : r # p => q[r] = sq[r]
  BY <1>1, <1>2, <1>3, <1>6
<1>25. permits' \in [Plans -> Int]
  <2>1. PICK n \in Nat : n = Len(first)  BY <1>6, LenProperties
  <2>2. MaxConcurrency - n \in Int  BY <2>1, DagAssumption
  <2> QED  BY <1>3, <2>1, <2>2
<1>26. PlansFit(pl, dn, grp, q, ph)
  <2>1. OnePlan(p, pl[p], dn[p], grp[p], q[p], ph)  BY <1>14, <1>21, <1>22, <1>23, <1>24
  <2>2. \A r \in Plans : r # p => pl[r] = wa[r] /\ dn[r] = old[r] /\ grp[r] = was[r] /\ q[r] = sq[r]
    BY <1>21, <1>22, <1>23, <1>24
  <2>3. \A d \in Calls : d \notin CallsOf(p) => ph[d] = fs[d]  BY <1>14
  <2>4. PlansFit(wa, old, was, sq, fs)  BY <1>4
  <2> QED  BY <2>1, <2>2, <2>3, <2>4, PlansFitAfter
<1>27. ph \in [Calls -> Phases]  BY <1>12 DEF Begun
<1>28. an \in [Calls -> ToolResults]  BY <1>13 DEF GivenFrom
<1>29. at \in [Calls -> 0..MaxAttempts]  BY <1>12 DEF Tried
<1>30. expired' \subseteq Keys  BY <1>1, <1>3
<1> QED  BY <1>2, <1>18, <1>19, <1>20, <1>21, <1>22, <1>23, <1>24, <1>25, <1>26, <1>27, <1>28, <1>29, <1>30, DagInvFrom

LEMMA GoOnKeeps ==
  ASSUME DagInv, NEW p \in Plans, NEW done, Ready(p, done, phase), group[p] \subseteq done,
         GoOn(p, done), expired' = expired
  PROVE  DagInv'
<1>1. PICK next : next = Layer(p, done)  OBVIOUS
<1>2. doneCalls' = [doneCalls EXCEPT ![p] = done]  BY DEF GoOn
<1>3. CASE /\ next = {}
           /\ plan' = [plan EXCEPT ![p] = "resolved"]
           /\ cache' = AtPlaces(cache, {n \in DOMAIN cache : cache[n][1] \notin expired})
           /\ UNCHANGED <<group, semPart, callPart>>
  BY <1>1, <1>2, <1>3, GoOnThrough
<1>4. CASE \E order \in SetToSeqs(next) :
             LET first == LetIn(order)
                 rest  == SubSeq(order, Len(first) + 1, Len(order))
             IN
             /\ plan' = [plan EXCEPT ![p] = "waiting"]
             /\ group' = [group EXCEPT ![p] = next]
             /\ permits' = [permits EXCEPT ![p] = MaxConcurrency - Len(first)]
             /\ semQueue' = [semQueue EXCEPT ![p] = rest]
             /\ Begin(first, [c \in Calls |-> IF c \in ToSet(rest) THEN "queued" ELSE phase[c]],
                      cache, expired)
             /\ AnswersWith(first, answer, cache, expired)
  <2>1. PICK order \in SetToSeqs(next) :
             LET first == LetIn(order)
                 rest  == SubSeq(order, Len(first) + 1, Len(order))
             IN
             /\ plan' = [plan EXCEPT ![p] = "waiting"]
             /\ group' = [group EXCEPT ![p] = next]
             /\ permits' = [permits EXCEPT ![p] = MaxConcurrency - Len(first)]
             /\ semQueue' = [semQueue EXCEPT ![p] = rest]
             /\ Begin(first, [c \in Calls |-> IF c \in ToSet(rest) THEN "queued" ELSE phase[c]],
                      cache, expired)
             /\ AnswersWith(first, answer, cache, expired)
    BY <1>4
  <2>2. PICK first : first = LetIn(order)  OBVIOUS
  <2>3. PICK rest : rest = SubSeq(order, Len(first) + 1, Len(order))  OBVIOUS
  <2>4. PICK others : others = [c \in Calls |-> IF c \in ToSet(rest) THEN "queued" ELSE phase[c]]  OBVIOUS
  <2>5. /\ plan' = [plan EXCEPT ![p] = "waiting"]
        /\ group' = [group EXCEPT ![p] = next]
        /\ permits' = [permits EXCEPT ![p] = MaxConcurrency - Len(first)]
        /\ semQueue' = [semQueue EXCEPT ![p] = rest]
        /\ Begin(first, others, cache, expired)
        /\ AnswersWith(first, answer, cache, expired)
    BY <2>1, <2>2, <2>3, <2>4
  <2> QED  BY <1>1, <1>2, <2>2, <2>3, <2>4, <2>5, GoOnWaits
<1> QED  BY <1>1, <1>3, <1>4 DEF GoOn

LEMMA ExecutePlanKeeps ==
  ASSUME DagInv, NEW p \in Plans, ExecutePlan(p)
  PROVE  DagInv'
<1>1. plan[p] = "new" /\ expired' = expired  BY DEF ExecutePlan
<1>2. OnePlan(p, plan[p], doneCalls[p], group[p], semQueue[p], phase)  BY DEF DagInv, PlansFit
<1>3. doneCalls[p] = {} /\ group[p] = {}  BY <1>1, <1>2 DEF OnePlan, PlanFits
<1>4. CASE Sortable(p)
  <2>1. \A c \in CallsOf(p) : phase[c] = "new"  BY <1>2, <1>3 DEF OnePlan, GroupsFit
  <2>2. PICK done : done = {}  OBVIOUS
  <2>3. Ready(p, done, phase)  BY <1>4, <2>1, <2>2 DEF Ready
  <2>4. GoOn(p, done) /\ group[p] \subseteq done  BY <1>3, <1>4, <2>2 DEF ExecutePlan
  <2> QED  BY <1>1, <2>3, <2>4, GoOnKeeps
<1>5. CASE ~Sortable(p)
  <2>1. PICK wa, pl, grp, done, ph, q, an, at, l :
          /\ wa = plan /\ pl = plan' /\ grp = group /\ done = doneCalls /\ ph = phase
          /\ q = semQueue /\ an = answer /\ at = attempt /\ l = cache
    OBVIOUS
  <2>2. /\ pl = [wa EXCEPT ![p] = "refused"] /\ grp = group' /\ done = doneCalls' /\ q = semQueue'
        /\ an = answer' /\ ph = phase' /\ at = attempt' /\ l = cache' /\ permits' = permits
    BY <1>5, <2>1 DEF ExecutePlan, semPart, callPart
  <2>3. /\ ph \in [Calls -> Phases] /\ an \in [Calls -> ToolResults] /\ at \in [Calls -> 0..MaxAttempts]
        /\ wa \in [Plans -> {"new", "waiting", "resolved", "rejected", "refused"}]
        /\ grp \in [Plans -> SUBSET Calls] /\ done \in [Plans -> SUBSET Calls]
        /\ q \in [Plans -> Seq(Calls)] /\ permits \in [Plans -> Int]
        /\ l \in Seq(CacheEntries) /\ expired \subseteq Keys
    BY <2>1 DEF DagInv, DagTypeOK, Phases, ToolResults, CacheEntries
  <2>4. PlansFit(wa, done, grp, q, ph) /\ CacheFits(l, ph, an) /\ Told(an, ph) /\ PausesFit(ph, at)
    BY <2>1 DEF DagInv
  <2>5. /\ pl \in [Plans -> {"new", "waiting", "resolved", "rejected", "refused"}]
        /\ pl[p] = "refused" /\ \A r \in Plans : r # p => pl[r] = wa[r]
    BY <2>2, <2>3
  <2>6. OnePlan(p, pl[p], done[p], grp[p], q[p], ph)
    <3>1. PlanFits(p, pl[p], done[p], grp[p])  BY <2>5 DEF PlanFits
    <3> QED  BY <1>2, <2>1, <3>1 DEF OnePlan
  <2>7. PlansFit(pl, done, grp, q, ph)
    <3>1. \A r \in Plans : r # p => pl[r] = wa[r] /\ done[r] = done[r] /\ grp[r] = grp[r] /\ q[r] = q[r]
      BY <2>5
    <3>2. \A d \in Calls : d \notin CallsOf(p) => ph[d] = ph[d]  OBVIOUS
    <3> QED  BY <2>4, <2>6, <3>1, <3>2, PlansFitAfter
  <2>8. permits' \in [Plans -> Int] /\ expired' \subseteq Keys /\ pl = plan'  BY <1>1, <2>1, <2>2, <2>3
  <2> QED  BY <2>2, <2>3, <2>4, <2>5, <2>7, <2>8, DagInvFrom
<1> QED  BY <1>4, <1>5

LEMMA GroupOverKeeps ==
  ASSUME DagInv, NEW p \in Plans, GroupOver(p)
  PROVE  DagInv'
<1>1. plan[p] = "waiting" /\ expired' = expired /\ \A c \in group[p] : phase[c] = "over"
  BY DEF GroupOver, AllOver
<1>2. PICK dn, grp, done : dn = doneCalls[p] /\ grp = group[p] /\ done = dn \cup grp  OBVIOUS
<1>3. OnePlan(p, plan[p], dn, grp, semQueue[p], phase)  BY <1>2 DEF DagInv, PlansFit
<1>4. GroupsFit(p, dn, grp, phase) /\ Sortable(p)  BY <1>1, <1>3 DEF OnePlan, PlanFits
<1>5. Ready(p, done, phase)
  <2>1. done \subseteq CallsOf(p)  BY <1>2, <1>4 DEF GroupsFit
  <2>2. \A c \in done : phase[c] = "over" /\ DependsOn[c] \subseteq done  BY <1>1, <1>2, <1>4 DEF GroupsFit
  <2>3. \A c \in CallsOf(p) : c \notin done => phase[c] = "new"  BY <1>2, <1>4 DEF GroupsFit
  <2> QED  BY <1>4, <2>1, <2>2, <2>3 DEF Ready
<1>6. GoOn(p, done) /\ group[p] \subseteq done  BY <1>2 DEF GroupOver
<1> QED  BY <1>1, <1>5, <1>6, GoOnKeeps

LEMMA DagSteps ==
  ASSUME DagInv, DagNext \/ UNCHANGED dagVars
  PROVE  DagInv'
<1>1. CASE \E p \in Plans : ExecutePlan(p) \/ GroupOver(p)  BY <1>1, ExecutePlanKeeps, GroupOverKeeps
<1>2. CASE \E c \in Calls : CallGoesOn(c)
  <2>1. PICK c \in Calls : CallGoesOn(c)  BY <1>2
  <2>2. CASE HitReturns(c)  BY <2>2, HitReturnsKeeps
  <2>3. CASE ThrowReturns(c)  BY <2>3, ThrowReturnsKeeps
  <2>4. CASE ToolTimesOut(c)
    <3>1. PICK retryable : retryable = TRUE  OBVIOUS
    <3>2. phase[c] = "running" /\ AttemptFails(c, retryable)  BY <2>4, <3>1 DEF ToolTimesOut
    <3> QED  BY <3>1, <3>2, AttemptFailsKeeps
  <2>5. CASE PauseOver(c)  BY <2>5, PauseOverKeeps
  <2> QED  BY <2>1, <2>2, <2>3, <2>4, <2>5 DEF CallGoesOn
<1>3. CASE \E c \in Calls : ToolAnswers(c)
  <2>1. PICK c \in Calls : ToolAnswers(c)  BY <1>3
  <2>2. PICK ok : ok = TRUE  OBVIOUS
  <2>3. phase[c] = "running" /\ Result(c, ok)  BY <2>1, <2>2 DEF ToolAnswers
  <2> QED  BY <2>2, <2>3, ResultKeeps
<1>4. CASE \E c \in Calls : \E retryable \in BOOLEAN : ToolFails(c, retryable)
  BY <1>4, AttemptFailsKeeps DEF ToolFails
<1>5. CASE (\E k \in Keys : EntryExpires(k)) \/ (\E c \in Calls : Prefetch(c)) \/ ClearCache \/ UNCHANGED dagVars
  BY <1>5, CacheStepsKeep
<1> QED  BY <1>1, <1>2, <1>3, <1>4, <1>5 DEF DagNext

LEMMA DagStarts ==
  ASSUME DagInit
  PROVE  DagInv
<1>1. PICK ph, an, at, e : /\ ph = [c \in Calls |-> "new"] /\ an = [c \in Calls |-> None]
                           /\ at = [c \in Calls |-> 0] /\ e = <<>>
  OBVIOUS
<1>2. phase = ph /\ answer = an /\ attempt = at /\ cache = e  BY <1>1 DEF DagInit
<1>3. e \in Seq(CacheEntries) /\ e \in Seq(Calls) /\ \A x : ~In(x, e)
  <2>1. Len(e) = 0  BY <1>1
  <2>2. \A x : ~In(x, e)  BY <2>1 DEF In
  <2> QED  BY <1>1, <2>2
<1>4. DagTypeOK
  <2>1. None \in ToolResults  BY DEF None, ToolResults
  <2>2. answer \in [Calls -> ToolResults]  BY <1>1, <1>2, <2>1
  <2>3. attempt \in [Calls -> 0..MaxAttempts]
    <3>1. 0 \in 0..MaxAttempts  BY DagAssumption
    <3> QED  BY <1>1, <1>2, <3>1
  <2>4. semQueue \in [Plans -> Seq(Calls)]  BY <1>1, <1>3 DEF DagInit
  <2>5. permits \in [Plans -> Int]  BY DEF DagInit
  <2>6. cache \in Seq(CacheEntries) /\ expired \subseteq Keys  BY <1>2, <1>3 DEF DagInit
  <2>7. phase \in [Calls -> Phases]  BY DEF DagInit, Phases
  <2>8. /\ plan \in [Plans -> {"new", "waiting", "resolved", "rejected", "refused"}]
        /\ group \in [Plans -> SUBSET Calls] /\ doneCalls \in [Plans -> SUBSET Calls]
    BY DEF DagInit
  <2> QED  BY <2>2, <2>3, <2>4, <2>5, <2>6, <2>7, <2>8 DEF DagTypeOK, Phases, ToolResults, CacheEntries
<1>5. CacheFits(cache, phase, answer)  BY <1>2, <1>3 DEF CacheFits
<1>6. Told(answer, phase)
  <2>1. \A c \in Calls : an[c].of = {}  BY <1>1 DEF None
  <2> QED  BY <1>2, <2>1 DEF Told
<1>7. PausesFit(phase, attempt)  BY <1>1, <1>2 DEF PausesFit
<1>8. PlansFit(plan, doneCalls, group, semQueue, phase)
  <2> SUFFICES ASSUME NEW p \in Plans
               PROVE  OnePlan(p, plan[p], doneCalls[p], group[p], semQueue[p], phase)
    BY DEF PlansFit
  <2>1. plan[p] = "new" /\ doneCalls[p] = {} /\ group[p] = {} /\ semQueue[p] = e  BY <1>1 DEF DagInit
  <2>2. CallsOf(p) \subseteq Calls  BY CallsFinite
  <2>3. \A c \in CallsOf(p) : ph[c] = "new"  BY <1>1, <2>2
  <2>4. GroupsFit(p, {}, {}, ph)  BY <2>3 DEF GroupsFit
  <2>5. QueueFits(p, e, ph)
    <3>1. Distinct(e)
      <4>1. Len(e) = 0  BY <1>1
      <4> QED  BY <4>1 DEF Distinct
    <3> QED  BY <1>3, <2>3, <3>1 DEF QueueFits
  <2>6. RoomFits(p, ph)
    <3>1. GoingOf(p, ph) = {}  BY <2>3 DEF GoingOf, Going, Starting
    <3>2. Cardinality(GoingOf(p, ph)) = 0  BY <3>1, FS_EmptySet
    <3>3. MaxConcurrency \in Nat  BY DagAssumption
    <3> QED  BY <3>2, <3>3 DEF RoomFits
  <2>7. PlanFits(p, "new", {}, {})  BY DEF PlanFits
  <2>8. OnePlan(p, "new", {}, {}, e, ph)  BY <2>4, <2>5, <2>6, <2>7 DEF OnePlan
  <2> QED  BY <1>2, <2>1, <2>8
<1> QED  BY <1>4, <1>5, <1>6, <1>7, <1>8 DEF DagInv

LEMMA DagIsSound == DagInv => DagSound
<1> SUFFICES ASSUME DagInv PROVE DagSound  OBVIOUS
<1>1. \A p \in Plans : OnePlan(p, plan[p], doneCalls[p], group[p], semQueue[p], phase)
  BY DEF DagInv, PlansFit
<1>2. DependenciesFirst
  <2> SUFFICES ASSUME NEW c \in Calls, phase[c] # "new", NEW d \in DependsOn[c] PROVE phase[d] = "over"
    BY DEF DependenciesFirst
  <2>1. PICK p : p = PlanOf[c]  OBVIOUS
  <2>2. p \in Plans /\ c \in CallsOf(p)  BY <2>1, DagAssumption DEF CallsOf
  <2>3. GroupsFit(p, doneCalls[p], group[p], phase)  BY <1>1, <2>2 DEF OnePlan
  <2>4. DependsOn[c] \subseteq doneCalls[p]  BY <2>2, <2>3 DEF GroupsFit
  <2> QED  BY <2>3, <2>4 DEF GroupsFit
<1>3. WithinConcurrency
  <2> SUFFICES ASSUME NEW p \in Plans
               PROVE  Cardinality({c \in CallsOf(p) : phase[c] \in {"hit", "running", "backoff", "threw"}})
                        <= MaxConcurrency
    BY DEF WithinConcurrency
  <2>1. RoomFits(p, phase)  BY <1>1 DEF OnePlan
  <2>2. GoingOf(p, phase) = {c \in CallsOf(p) : phase[c] \in {"hit", "running", "backoff", "threw"}}
    BY DEF GoingOf, Going, Starting
  <2> QED  BY <2>1, <2>2 DEF RoomFits
<1>4. CacheTellsSuccess  BY DEF DagInv, Told, CacheTellsSuccess, OwnSuccess
<1>5. ResolvedIsComplete
  <2> SUFFICES ASSUME NEW p \in Plans, plan[p] = "resolved", NEW c \in CallsOf(p) PROVE phase[c] = "over"
    BY DEF ResolvedIsComplete
  <2>1. PlanFits(p, plan[p], doneCalls[p], group[p]) /\ GroupsFit(p, doneCalls[p], group[p], phase)
    BY <1>1 DEF OnePlan
  <2>2. CallsOf(p) \subseteq doneCalls[p]  BY <2>1 DEF PlanFits
  <2> QED  BY <2>1, <2>2 DEF GroupsFit
<1> QED  BY <1>2, <1>3, <1>4, <1>5 DEF DagSound, DagInv

LEMMA PartsPoolStep ==
  ASSUME [SchedulersNext]_parts
  PROVE  PoolNext \/ UNCHANGED poolVars
  BY DEF SchedulersNext, parts

LEMMA PartsDagStep ==
  ASSUME [SchedulersNext]_parts
  PROVE  DagNext \/ UNCHANGED dagVars
  BY DEF SchedulersNext, parts

(* The pool's task map is what waits and what is worked on, once each, its *)
(* idle workers are woken for those who wait; the calls of a plan run      *)
(* after those they depend on and within the semaphore's number, what the  *)
(* cache hands out is a success of the same key, and a plan that resolves  *)
(* has all its results: for any pool sizes, tasks, urgencies, plans,       *)
(* dependencies, keys and limits.                                          *)
THEOREM ToolsCorrect == SchedulersSpec => []ToolsSound
<1>1. SchedulersInit => PoolInv /\ DagInv  BY PoolStarts, DagStarts DEF SchedulersInit
<1>2. PoolInv /\ [SchedulersNext]_parts => PoolInv'  BY PartsPoolStep, PoolSteps
<1>3. DagInv /\ [SchedulersNext]_parts => DagInv'  BY PartsDagStep, DagSteps
<1>4. PoolInv /\ DagInv => ToolsSound  BY PoolIsSound, DagIsSound DEF ToolsSound
<1> QED  BY <1>1, <1>2, <1>3, <1>4, PTL DEF SchedulersSpec
=============================================================================

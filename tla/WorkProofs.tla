----------------------------- MODULE WorkProofs -----------------------------
(***************************************************************************)
(* Proofs about the work that others wait for: the runs of agents and      *)
(* their teams (MultiAgent over IntentLoop), for any runs, teams, tools    *)
(* and rounds; the native core in its process (RustCore), for any number   *)
(* of processes and calls and any length of streams; and the process of a  *)
(* worker (WorkerLifecycle), for any ids and number of attempts.           *)
(***************************************************************************)
EXTENDS RustCore, MultiAgent, WorkerLifecycle, SequenceTheorems, FiniteSetTheorems, TLAPS

(***************************************************************************)
(* What a log has of one run.                                              *)
(***************************************************************************)
LogTypes == {"input", "tool", "final"}
Records  == [run : Runs, type : LogTypes]

PlacesIn(log, r) == {k \in 1..Len(log) : log[k].run = r}
ToolsIn(log, r)  == {k \in PlacesIn(log, r) : log[k].type = "tool"}

(* The types of what is logged of a run, which is over or not.             *)
TypesRight(log, places, over) ==
  \A k \in places : log[k].type = (IF IsFirst(k, places) THEN "input"
                                   ELSE IF IsLast(k, places) /\ over THEN "final"
                                   ELSE "tool")

Counted(places, tools, n, extra) ==
  /\ IsFiniteSet(places) /\ IsFiniteSet(tools)
  /\ Cardinality(places) = n + extra /\ Cardinality(tools) = n

(* The log has the input of a run, n results, and its end if it is over.   *)
NoneLogged(log, r)    == PlacesIn(log, r) = {}
OpenLogged(log, r, n) ==
  /\ PlacesIn(log, r) # {}
  /\ Counted(PlacesIn(log, r), ToolsIn(log, r), n, 1)
  /\ TypesRight(log, PlacesIn(log, r), FALSE)
AllLogged(log, r, n)  ==
  /\ PlacesIn(log, r) # {}
  /\ Counted(PlacesIn(log, r), ToolsIn(log, r), n, 2)
  /\ TypesRight(log, PlacesIn(log, r), TRUE)

(* m is log and an entry of run r.                                         *)
OneEntryMore(log, m, r, type) ==
  /\ log \in Seq(Records) /\ m \in Seq(Records)
  /\ Len(log) \in Nat /\ Len(m) = Len(log) + 1
  /\ m[Len(log) + 1] = Entry(r, type)
  /\ \A k \in 1..Len(log) : m[k] = log[k]

LEMMA EntryAppended ==
  ASSUME NEW log \in Seq(Records), NEW r \in Runs, NEW type \in LogTypes, NEW m, m = Append(log, Entry(r, type))
  PROVE  OneEntryMore(log, m, r, type)
<1>1. PICK S : S = Records  OBVIOUS
<1>2. PICK e : e = Entry(r, type)  OBVIOUS
<1>3. e \in S  BY <1>1, <1>2 DEF Entry, Records
<1>4. m \in Seq(S) /\ Len(m) = Len(log) + 1 /\ m[Len(log) + 1] = e /\ \A k \in 1..Len(log) : m[k] = log[k]
  BY <1>1, <1>2, <1>3, AppendProperties
<1>5. Len(log) \in Nat  BY LenProperties
<1> QED  BY <1>1, <1>2, <1>4, <1>5 DEF OneEntryMore

LEMMA OthersPlaces ==
  ASSUME NEW log, NEW m, NEW r, NEW type, OneEntryMore(log, m, r, type), NEW q, q # r
  PROVE  /\ PlacesIn(m, q) = PlacesIn(log, q) /\ ToolsIn(m, q) = ToolsIn(log, q)
         /\ \A k \in PlacesIn(log, q) : m[k] = log[k]
<1>1. PICK n \in Nat : n = Len(log) /\ Len(m) = n + 1  BY DEF OneEntryMore
<1>2. m[n + 1].run = r /\ \A k \in 1..n : m[k] = log[k]  BY <1>1 DEF OneEntryMore, Entry
<1>3. \A k \in 1..n + 1 : k \in 1..n \/ k = n + 1  OBVIOUS
<1>4. PlacesIn(m, q) = PlacesIn(log, q)  BY <1>1, <1>2, <1>3 DEF PlacesIn
<1>5. \A k \in PlacesIn(log, q) : m[k] = log[k]  BY <1>1, <1>2 DEF PlacesIn
<1> QED  BY <1>4, <1>5 DEF ToolsIn

LEMMA OwnPlaces ==
  ASSUME NEW log, NEW m, NEW r, NEW type, OneEntryMore(log, m, r, type), NEW n, n = Len(log) + 1
  PROVE  /\ n \in Nat /\ m[n].type = type /\ n \notin PlacesIn(log, r)
         /\ PlacesIn(m, r) = PlacesIn(log, r) \cup {n}
         /\ ToolsIn(m, r) = IF type = "tool" THEN ToolsIn(log, r) \cup {n} ELSE ToolsIn(log, r)
         /\ \A k \in PlacesIn(log, r) : m[k] = log[k] /\ k \in Nat /\ k < n
<1>1. PICK l \in Nat : l = Len(log) /\ Len(m) = l + 1 /\ n = l + 1  BY DEF OneEntryMore
<1>2. m[n].run = r /\ m[n].type = type /\ \A k \in 1..l : m[k] = log[k]  BY <1>1 DEF OneEntryMore, Entry
<1>3. \A k \in 1..n : k \in 1..l \/ k = n  BY <1>1
<1>4. n \in Nat /\ n \in 1..n /\ \A k \in 1..l : k \in 1..n /\ k \in Nat /\ k < n  BY <1>1
<1>5. \A k \in PlacesIn(log, r) : m[k] = log[k] /\ k \in Nat /\ k < n  BY <1>1, <1>2, <1>4 DEF PlacesIn
<1>6. n \notin PlacesIn(log, r)  BY <1>1 DEF PlacesIn
<1>7. PlacesIn(m, r) = PlacesIn(log, r) \cup {n}  BY <1>1, <1>2, <1>3, <1>4 DEF PlacesIn
<1>8. CASE type = "tool"  BY <1>2, <1>4, <1>5, <1>6, <1>7, <1>8 DEF ToolsIn
<1>9. CASE type # "tool"  BY <1>2, <1>4, <1>5, <1>6, <1>7, <1>9 DEF ToolsIn
<1> QED  BY <1>2, <1>4, <1>5, <1>6, <1>7, <1>8, <1>9

LEMMA TypesOfOthers ==
  ASSUME NEW log, NEW m, NEW places, \A k \in places : m[k] = log[k], NEW over, TypesRight(log, places, over)
  PROVE  TypesRight(m, places, over)
  BY DEF TypesRight

LEMMA OthersLogged ==
  ASSUME NEW log, NEW m, NEW r, NEW type, OneEntryMore(log, m, r, type), NEW q, q # r, NEW n
  PROVE  /\ NoneLogged(log, q) => NoneLogged(m, q)
         /\ OpenLogged(log, q, n) => OpenLogged(m, q, n)
         /\ AllLogged(log, q, n) => AllLogged(m, q, n)
<1>1. /\ PlacesIn(m, q) = PlacesIn(log, q) /\ ToolsIn(m, q) = ToolsIn(log, q)
      /\ \A k \in PlacesIn(log, q) : m[k] = log[k]
  BY OthersPlaces
<1>2. \A b \in BOOLEAN : TypesRight(log, PlacesIn(log, q), b) => TypesRight(m, PlacesIn(m, q), b)
  BY <1>1, TypesOfOthers
<1> QED  BY <1>1, <1>2 DEF NoneLogged, OpenLogged, AllLogged

LEMMA InputLogged ==
  ASSUME NEW log, NEW m, NEW r, OneEntryMore(log, m, r, "input"), NoneLogged(log, r)
  PROVE  OpenLogged(m, r, 0)
<1>1. PICK n : n = Len(log) + 1  OBVIOUS
<1>2. n \in Nat /\ m[n].type = "input" /\ PlacesIn(m, r) = {n} /\ ToolsIn(m, r) = {}
  <2>1. /\ n \in Nat /\ m[n].type = "input" /\ PlacesIn(m, r) = PlacesIn(log, r) \cup {n}
        /\ ToolsIn(m, r) = IF "input" = "tool" THEN ToolsIn(log, r) \cup {n} ELSE ToolsIn(log, r)
    BY <1>1, OwnPlaces
  <2> QED  BY <2>1 DEF NoneLogged, ToolsIn
<1>3. PICK P, T : P = PlacesIn(m, r) /\ T = ToolsIn(m, r)  OBVIOUS
<1>4. P = {n} /\ T = {}  BY <1>2, <1>3
<1>5. Counted(P, T, 0, 1)
  <2>1. IsFiniteSet(P) /\ Cardinality(P) = 1  BY <1>4, FS_Singleton
  <2>2. IsFiniteSet(T) /\ Cardinality(T) = 0  BY <1>4, FS_EmptySet
  <2> QED  BY <2>1, <2>2 DEF Counted
<1>6. TypesRight(m, P, FALSE)  BY <1>2, <1>4 DEF TypesRight, IsFirst
<1> QED  BY <1>3, <1>4, <1>5, <1>6 DEF OpenLogged

(* A result or an end is logged after what there is.                       *)
LEMMA TypesGoOn ==
  ASSUME NEW log, NEW m, NEW r, NEW type, OneEntryMore(log, m, r, type), NEW n, OpenLogged(log, r, n),
         NEW over \in BOOLEAN, type = IF over THEN "final" ELSE "tool"
  PROVE  TypesRight(m, PlacesIn(m, r), over)
<1>1. PICK l, P, Q : l = Len(log) + 1 /\ P = PlacesIn(log, r) /\ Q = PlacesIn(m, r)  OBVIOUS
<1>2. /\ l \in Nat /\ m[l].type = type /\ Q = P \cup {l}
      /\ \A k \in P : m[k] = log[k] /\ k \in Nat /\ k < l
  BY <1>1, OwnPlaces
<1>3. P # {} /\ TypesRight(log, P, FALSE)  BY <1>1 DEF OpenLogged
<1>4. ~IsFirst(l, Q) /\ IsLast(l, Q)
  <2>1. PICK k \in P : TRUE  BY <1>3
  <2> QED  BY <1>2, <2>1 DEF IsFirst, IsLast
<1>5. ASSUME NEW k \in P PROVE ~IsLast(k, Q) /\ (IsFirst(k, Q) <=> IsFirst(k, P))
  BY <1>2 DEF IsFirst, IsLast
<1>6. \A k \in P : log[k].type = (IF IsFirst(k, P) THEN "input" ELSE "tool")  BY <1>3 DEF TypesRight
<1>7. TypesRight(m, Q, over)
  <2> SUFFICES ASSUME NEW k \in Q
               PROVE  m[k].type = (IF IsFirst(k, Q) THEN "input" ELSE IF IsLast(k, Q) /\ over THEN "final" ELSE "tool")
    BY DEF TypesRight
  <2>1. CASE k = l  BY <1>2, <1>4, <2>1
  <2>2. CASE k \in P  BY <1>2, <1>5, <1>6, <2>2
  <2> QED  BY <1>2, <2>1, <2>2
<1> QED  BY <1>1, <1>7

LEMMA ToolLogged ==
  ASSUME NEW log, NEW m, NEW r, OneEntryMore(log, m, r, "tool"), NEW n \in Nat, OpenLogged(log, r, n)
  PROVE  OpenLogged(m, r, n + 1)
<1>1. PICK l, P, Q, T, U : /\ l = Len(log) + 1 /\ P = PlacesIn(log, r) /\ Q = PlacesIn(m, r)
                           /\ T = ToolsIn(log, r) /\ U = ToolsIn(m, r)
  OBVIOUS
<1>2. l \notin P /\ Q = P \cup {l} /\ U = T \cup {l}
  <2>1. /\ l \notin PlacesIn(log, r) /\ PlacesIn(m, r) = PlacesIn(log, r) \cup {l}
        /\ ToolsIn(m, r) = IF "tool" = "tool" THEN ToolsIn(log, r) \cup {l} ELSE ToolsIn(log, r)
    BY <1>1, OwnPlaces
  <2> QED  BY <1>1, <2>1
<1>3. l \notin T  BY <1>1, <1>2 DEF ToolsIn
<1>4. /\ IsFiniteSet(P) /\ IsFiniteSet(T) /\ Cardinality(P) = n + 1 /\ Cardinality(T) = n
  BY <1>1 DEF OpenLogged, Counted
<1>5. IsFiniteSet(Q) /\ Cardinality(Q) = n + 2  BY <1>2, <1>4, FS_AddElement
<1>6. IsFiniteSet(U) /\ Cardinality(U) = n + 1  BY <1>2, <1>3, <1>4, FS_AddElement
<1>7. Counted(Q, U, n + 1, 1)  BY <1>5, <1>6 DEF Counted
<1>8. TypesRight(m, PlacesIn(m, r), FALSE)  BY TypesGoOn
<1> QED  BY <1>1, <1>2, <1>7, <1>8 DEF OpenLogged

LEMMA FinalLogged ==
  ASSUME NEW log, NEW m, NEW r, OneEntryMore(log, m, r, "final"), NEW n \in Nat, OpenLogged(log, r, n)
  PROVE  AllLogged(m, r, n)
<1>1. PICK l, P, Q, T, U : /\ l = Len(log) + 1 /\ P = PlacesIn(log, r) /\ Q = PlacesIn(m, r)
                           /\ T = ToolsIn(log, r) /\ U = ToolsIn(m, r)
  OBVIOUS
<1>2. l \notin P /\ Q = P \cup {l} /\ U = T
  <2>1. /\ l \notin PlacesIn(log, r) /\ PlacesIn(m, r) = PlacesIn(log, r) \cup {l}
        /\ ToolsIn(m, r) = IF "final" = "tool" THEN ToolsIn(log, r) \cup {l} ELSE ToolsIn(log, r)
    BY <1>1, OwnPlaces
  <2> QED  BY <1>1, <2>1
<1>4. /\ IsFiniteSet(P) /\ IsFiniteSet(T) /\ Cardinality(P) = n + 1 /\ Cardinality(T) = n
  BY <1>1 DEF OpenLogged, Counted
<1>5. IsFiniteSet(Q) /\ Cardinality(Q) = n + 2  BY <1>2, <1>4, FS_AddElement
<1>7. Counted(Q, U, n, 2)  BY <1>2, <1>4, <1>5 DEF Counted
<1>8. TypesRight(m, PlacesIn(m, r), TRUE)  BY TypesGoOn
<1> QED  BY <1>1, <1>2, <1>7, <1>8 DEF AllLogged

(***************************************************************************)
(* The runs.  n results of a run are logged: all it has but one that is    *)
(* being remembered, or was when the memory threw.                         *)
(***************************************************************************)
RunTold(log, st, r, n) ==
  /\ st = "new" => NoneLogged(log, r)
  /\ st = "returned" => AllLogged(log, r, n)
  /\ st \notin {"new", "returned"} => OpenLogged(log, r, n)

Fits(st, n, round, results) ==
  /\ st \in {"new", "building"} => n = 0 /\ Len(results) = 0 /\ round = 0
  /\ st \in {"asking", "executing"} => Len(results) = n /\ round = Len(results) + 1
  /\ st = "remembering" => HasMemory /\ Len(results) = n + 1 /\ results[n + 1] /\ round = Len(results)
  /\ st = "returned" => Len(results) = n /\ Len(results) <= round
  /\ st = "threw" => Len(results) \in {n, n + 1} /\ Len(results) <= round

Memorized(memory, results, r, n) ==
  \A k \in Nat : <<r, k>> \in memory <=> k \in 1..Len(results) /\ results[k] /\ k <= n

RunOK(log, st, round, results, memory, r) ==
  \E n \in Nat : /\ RunTold(log, st, r, n)
                 /\ Fits(st, n, round, results)
                 /\ HasMemory => Memorized(memory, results, r, n)

RunInv(r) == RunOK(sessionLog, runState[r], runRound[r], toolResults[r], memoryChunks, r)

Aimed(chosen, aim, aims) ==
  /\ chosen = NoRuntime => aim = NoRuntime
  /\ \A i \in 1..Len(aims) : aims[i] # NoRuntime => aims[i] = aim
  /\ \A i, j \in 1..Len(aims) : i < j /\ aims[i] # NoRuntime => aims[j] = aims[i]

LoopInv ==
  LoopTypeOK /\ \A r \in Runs : RunInv(r) /\ Aimed(affinity[r], target[r], targeted[r])

(* What is logged in one step is of one run.                               *)
OnlyLogs(log, m, r) ==
  \/ m = log
  \/ \E type \in LogTypes : OneEntryMore(log, m, r, type)
  \/ \E mid, type, last : OneEntryMore(log, mid, r, type) /\ OneEntryMore(mid, m, r, last)

LEMMA OthersTold ==
  ASSUME NEW log, NEW m, NEW r, OnlyLogs(log, m, r), NEW q, q # r, NEW st, NEW n, RunTold(log, st, q, n)
  PROVE  RunTold(m, st, q, n)
<1>1. ASSUME NEW a, NEW b, NEW type, OneEntryMore(a, b, r, type), RunTold(a, st, q, n) PROVE RunTold(b, st, q, n)
  <2>1. /\ NoneLogged(a, q) => NoneLogged(b, q)
        /\ OpenLogged(a, q, n) => OpenLogged(b, q, n)
        /\ AllLogged(a, q, n) => AllLogged(b, q, n)
    BY <1>1, OthersLogged
  <2> QED  BY <1>1, <2>1 DEF RunTold
<1>2. CASE m = log  BY <1>2
<1>3. CASE \E type \in LogTypes : OneEntryMore(log, m, r, type)  BY <1>1, <1>3
<1>4. CASE \E mid, type, last : OneEntryMore(log, mid, r, type) /\ OneEntryMore(mid, m, r, last)
  <2>1. PICK mid, type, last : OneEntryMore(log, mid, r, type) /\ OneEntryMore(mid, m, r, last)  BY <1>4
  <2>2. RunTold(mid, st, q, n)  BY <1>1, <2>1
  <2> QED  BY <1>1, <2>1, <2>2
<1> QED  BY <1>2, <1>3, <1>4 DEF OnlyLogs

(* A run goes on, and the others with their part of log and memory.        *)
LEMMA OthersStay ==
  ASSUME NEW log, NEW m, NEW r, OnlyLogs(log, m, r), NEW q, q # r,
         NEW st, NEW round, NEW results, NEW memory, NEW mem,
         \A k \in Nat : <<q, k>> \in mem <=> <<q, k>> \in memory,
         RunOK(log, st, round, results, memory, q)
  PROVE  RunOK(m, st, round, results, mem, q)
<1>1. PICK n \in Nat : /\ RunTold(log, st, q, n) /\ Fits(st, n, round, results)
                       /\ HasMemory => Memorized(memory, results, q, n)
  BY DEF RunOK
<1>2. RunTold(m, st, q, n)  BY <1>1, OthersTold
<1>3. HasMemory => Memorized(mem, results, q, n)  BY <1>1 DEF Memorized
<1> QED  BY <1>1, <1>2, <1>3 DEF RunOK

LEMMA LogsAre ==
  ASSUME sessionLog \in Seq(Records), NEW r \in Runs, NEW types \in Seq(LogTypes), Logs(r, types)
  PROVE  /\ Len(types) = 0 => sessionLog' = sessionLog
         /\ Len(types) = 1 => OneEntryMore(sessionLog, sessionLog', r, types[1])
         /\ Len(types) = 2 => \E mid : /\ OneEntryMore(sessionLog, mid, r, types[1])
                                       /\ OneEntryMore(mid, sessionLog', r, types[2])
<1>1. PICK S : S = Records  OBVIOUS
<1>2. PICK s, t : s = sessionLog /\ t = sessionLog'  OBVIOUS
<1>3. PICK m \in Nat : m = Len(types) /\ DOMAIN types = 1..m /\ \A k \in 1..m : types[k] \in LogTypes
  BY LenProperties
<1>4. PICK new : new = [k \in 1..m |-> Entry(r, types[k])]  OBVIOUS
<1>5. \A type \in LogTypes : Entry(r, type) \in S  BY <1>1 DEF Records, Entry
<1>6. new \in [1..m -> S] /\ \A k \in 1..m : new[k] = Entry(r, types[k])  BY <1>3, <1>4, <1>5
<1>7. new \in Seq(S) /\ Len(new) = m  BY <1>6
<1>8. t = s \o new  BY <1>2, <1>3, <1>4 DEF Logs
<1>9. s \in Seq(S) /\ Len(s) \in Nat  BY <1>1, <1>2, LenProperties
<1>10. /\ t \in Seq(S) /\ Len(t) = Len(s) + m
       /\ \A k \in 1..Len(s) + m : t[k] = IF k <= Len(s) THEN s[k] ELSE new[k - Len(s)]
  BY <1>7, <1>8, <1>9, ConcatProperties
<1>11. PICK l \in Nat : l = Len(s)  BY <1>9
<1>12. (\A k \in 1..l : t[k] = s[k]) /\ \A k \in 1..m : t[l + k] = Entry(r, types[k])
  BY <1>6, <1>10, <1>11
<1>13. CASE m = 0
  <2>1. new = <<>>  BY <1>7, <1>13, EmptySeq
  <2> QED  BY <1>2, <1>3, <1>8, <1>9, <1>13, <2>1, ConcatEmptySeq
<1>14. CASE m = 1
  <2>1. Len(t) = Len(s) + 1  BY <1>10, <1>14
  <2>2. t[Len(s) + 1] = Entry(r, types[1])
    <3>1. t[l + 1] = Entry(r, types[1])  BY <1>12, <1>14
    <3> QED  BY <1>11, <3>1
  <2>3. \A k \in 1..Len(s) : t[k] = s[k]  BY <1>11, <1>12
  <2>4. t \in Seq(Records) /\ s \in Seq(Records)  BY <1>1, <1>9, <1>10
  <2>5. OneEntryMore(s, t, r, types[1])  BY <1>9, <2>1, <2>2, <2>3, <2>4 DEF OneEntryMore
  <2> QED  BY <1>2, <1>3, <1>14, <2>5
<1>15. CASE m = 2
  <2>1. PICK mid : mid = Append(s, Entry(r, types[1]))  OBVIOUS
  <2>2. types[1] \in LogTypes  BY <1>3, <1>15
  <2>3. OneEntryMore(s, mid, r, types[1])  BY <1>2, <2>1, <2>2, EntryAppended
  <2>4. /\ mid \in Seq(S) /\ Len(mid) = l + 1 /\ mid[l + 1] = Entry(r, types[1])
        /\ \A k \in 1..l : mid[k] = s[k]
    BY <1>1, <1>11, <2>3 DEF OneEntryMore
  <2>5. \A k \in 1..l + 1 : t[k] = mid[k]
    <3>1. t[l + 1] = Entry(r, types[1])  BY <1>12, <1>15
    <3>2. \A k \in 1..l + 1 : k \in 1..l \/ k = l + 1  OBVIOUS
    <3> QED  BY <1>12, <2>4, <3>1, <3>2
  <2>6. t[l + 1 + 1] = Entry(r, types[2])
    <3>1. t[l + 2] = Entry(r, types[2])  BY <1>12, <1>15
    <3> QED  BY <3>1
  <2>7. Len(t) = (l + 1) + 1 /\ l + 1 \in Nat  BY <1>10, <1>11, <1>15
  <2>8. OneEntryMore(mid, t, r, types[2])  BY <1>1, <1>10, <2>4, <2>5, <2>6, <2>7 DEF OneEntryMore
  <2> QED  BY <1>2, <1>3, <1>15, <2>3, <2>8
<1> QED  BY <1>3, <1>13, <1>14, <1>15

LEMMA LiteralTypes ==
  /\ <<>> \in Seq(LogTypes) /\ Len(<<>>) = 0
  /\ \A x \in LogTypes : <<x>> \in Seq(LogTypes) /\ Len(<<x>>) = 1 /\ <<x>>[1] = x
  /\ \A x, y \in LogTypes : /\ <<x>> \o <<y>> \in Seq(LogTypes) /\ Len(<<x>> \o <<y>>) = 2
                            /\ (<<x>> \o <<y>>)[1] = x /\ (<<x>> \o <<y>>)[2] = y
  /\ \A x \in LogTypes : <<>> \o <<x>> = <<x>>
<1>1. PICK T : T = LogTypes  OBVIOUS
<1>2. <<>> \in Seq(T) /\ Len(<<>>) = 0  BY EmptySeq
<1>3. \A x \in T : <<x>> \in Seq(T) /\ Len(<<x>>) = 1 /\ <<x>>[1] = x  OBVIOUS
<1>4. \A x, y \in T : /\ <<x>> \o <<y>> \in Seq(T) /\ Len(<<x>> \o <<y>>) = 2
                      /\ (<<x>> \o <<y>>)[1] = x /\ (<<x>> \o <<y>>)[2] = y
  <2> SUFFICES ASSUME NEW x \in T, NEW y \in T
               PROVE  /\ <<x>> \o <<y>> \in Seq(T) /\ Len(<<x>> \o <<y>>) = 2
                      /\ (<<x>> \o <<y>>)[1] = x /\ (<<x>> \o <<y>>)[2] = y
    OBVIOUS
  <2>1. PICK a, b : a = <<x>> /\ b = <<y>>  OBVIOUS
  <2>2. a \in Seq(T) /\ b \in Seq(T) /\ Len(a) = 1 /\ Len(b) = 1 /\ a[1] = x /\ b[1] = y  BY <2>1
  <2>3. /\ a \o b \in Seq(T) /\ Len(a \o b) = Len(a) + Len(b)
        /\ \A i \in 1..Len(a) + Len(b) : (a \o b)[i] = IF i <= Len(a) THEN a[i] ELSE b[i - Len(a)]
    BY <2>2, ConcatProperties
  <2> QED  BY <2>1, <2>2, <2>3
<1>5. \A x \in T : <<>> \o <<x>> = <<x>>  BY <1>3, ConcatEmptySeq
<1> QED  BY <1>1, <1>2, <1>3, <1>4, <1>5

RunStates == {"new", "building", "asking", "executing", "remembering", "returned", "threw"}
Aims      == Runtimes \cup {NoRuntime}

(* Every round of a run asks once.                                         *)
Shaped == runRound \in [Runs -> Nat] /\ \A r \in Runs : Len(targeted[r]) = runRound[r]

AllRuns == Shaped /\ LoopInv

Elsewhere(mem, memory, r) == \A q \in Runs, k \in Nat : q # r => (<<q, k>> \in mem <=> <<q, k>> \in memory)
Chunks(mem)               == \A c \in mem : c[1] \in Runs /\ c[2] \in 1..MaxRounds[c[1]]

(* What a step of run r does to the states and the log.                    *)
Moves(r) ==
  /\ OnlyLogs(sessionLog, sessionLog', r)
  /\ \E st \in RunStates \ {"new"} : runState' = [runState EXCEPT ![r] = st]

(* One run of all takes a step.                                            *)
LEMMA OneRunSteps ==
  ASSUME AllRuns, NEW r \in Runs, OnlyLogs(sessionLog, sessionLog', r), sessionLog' \in Seq(Records),
         NEW st \in RunStates, runState' = [runState EXCEPT ![r] = st],
         NEW round \in 0..MaxRounds[r], runRound' = [runRound EXCEPT ![r] = round],
         NEW results \in Seq(BOOLEAN), toolResults' = [toolResults EXCEPT ![r] = results],
         NEW chosen \in Aims, affinity' = [affinity EXCEPT ![r] = chosen],
         NEW aim \in Aims, target' = [target EXCEPT ![r] = aim],
         NEW aims \in Seq(Aims), Len(aims) = round, targeted' = [targeted EXCEPT ![r] = aims],
         NEW mem, memoryChunks' = mem, Elsewhere(mem, memoryChunks, r), Chunks(mem),
         NEW m, m = sessionLog', RunOK(m, st, round, results, mem, r), Aimed(chosen, aim, aims)
  PROVE  AllRuns'
<1>1. LoopTypeOK /\ runRound \in [Runs -> Nat] /\ MaxRounds \in [Runs -> Nat]
  BY LoopAssumption DEF AllRuns, Shaped, LoopInv
<1>2. Shaped'
  <2>1. MaxRounds[r] \in Nat /\ round \in Nat  BY <1>1
  <2>2. runRound' \in [Runs -> Nat]  BY <1>1, <2>1
  <2>3. ASSUME NEW q \in Runs PROVE Len(targeted'[q]) = runRound'[q]
    <3>1. Len(targeted[q]) = runRound[q]  BY DEF AllRuns, Shaped
    <3>2. targeted'[q] = IF q = r THEN aims ELSE targeted[q]  BY <1>1 DEF LoopTypeOK
    <3>3. runRound'[q] = IF q = r THEN round ELSE runRound[q]  BY <1>1
    <3> QED  BY <3>1, <3>2, <3>3
  <2> QED  BY <2>2, <2>3 DEF Shaped
<1>3. LoopTypeOK'
  <2>1. runState' \in [Runs -> RunStates]  BY <1>1 DEF LoopTypeOK, RunStates
  <2>2. \A q \in Runs : runRound'[q] \in 0..MaxRounds[q]
    <3> SUFFICES ASSUME NEW q \in Runs PROVE runRound'[q] \in 0..MaxRounds[q]  OBVIOUS
    <3>1. runRound[q] \in 0..MaxRounds[q]  BY <1>1 DEF LoopTypeOK
    <3> QED  BY <1>1, <3>1
  <2>3. toolResults' \in [Runs -> Seq(BOOLEAN)]
    <3>1. PICK S : S = Seq(BOOLEAN)  OBVIOUS
    <3>2. toolResults \in [Runs -> S] /\ results \in S  BY <1>1, <3>1 DEF LoopTypeOK
    <3>3. toolResults' \in [Runs -> S]  BY <3>2
    <3> QED  BY <3>1, <3>3
  <2>4. affinity' \in [Runs -> Aims] /\ target' \in [Runs -> Aims]  BY <1>1 DEF LoopTypeOK, Aims
  <2>5. targeted' \in [Runs -> Seq(Aims)]
    <3>1. PICK S : S = Seq(Aims)  OBVIOUS
    <3>2. targeted \in [Runs -> S] /\ aims \in S  BY <1>1, <3>1 DEF LoopTypeOK, Aims
    <3>3. targeted' \in [Runs -> S]  BY <3>2
    <3> QED  BY <3>1, <3>3
  <2>6. \A c \in memoryChunks' : c[1] \in Runs /\ c[2] \in 1..MaxRounds[c[1]]  BY DEF Chunks
  <2> QED  BY <2>1, <2>2, <2>3, <2>4, <2>5, <2>6 DEF LoopTypeOK, RunStates, Aims, Records, LogTypes
<1>4. ASSUME NEW q \in Runs
      PROVE  /\ RunOK(m, runState'[q], runRound'[q], toolResults'[q], mem, q)
             /\ Aimed(affinity'[q], target'[q], targeted'[q])
  <2>1. /\ RunOK(sessionLog, runState[q], runRound[q], toolResults[q], memoryChunks, q)
        /\ Aimed(affinity[q], target[q], targeted[q])
    BY DEF AllRuns, LoopInv, RunInv
  <2>2. /\ q = r => /\ runState'[q] = st /\ runRound'[q] = round /\ toolResults'[q] = results
                    /\ affinity'[q] = chosen /\ target'[q] = aim /\ targeted'[q] = aims
        /\ q # r => /\ runState'[q] = runState[q] /\ runRound'[q] = runRound[q]
                    /\ toolResults'[q] = toolResults[q] /\ affinity'[q] = affinity[q]
                    /\ target'[q] = target[q] /\ targeted'[q] = targeted[q]
    BY <1>1 DEF LoopTypeOK
  <2>3. CASE q = r  BY <2>2, <2>3
  <2>4. CASE q # r
    <3>1. PICK log, s, o, u, c : /\ log = sessionLog /\ s = runState[q] /\ o = runRound[q]
                                 /\ u = toolResults[q] /\ c = memoryChunks
      OBVIOUS
    <3>2. \A k \in Nat : <<q, k>> \in mem <=> <<q, k>> \in c  BY <2>4, <3>1 DEF Elsewhere
    <3>3. OnlyLogs(log, m, r) /\ RunOK(log, s, o, u, c, q)  BY <2>1, <3>1
    <3>4. RunOK(m, s, o, u, mem, q)  BY <2>4, <3>2, <3>3, OthersStay
    <3> QED  BY <2>1, <2>2, <2>4, <3>1, <3>4
  <2> QED  BY <2>3, <2>4
<1> QED  BY <1>2, <1>3, <1>4 DEF AllRuns, LoopInv, RunInv

AsksOnce(r, t) ==
  /\ runRound[r] < MaxRounds[r]
  /\ runState' = [runState EXCEPT ![r] = "asking"]
  /\ runRound' = [runRound EXCEPT ![r] = runRound[r] + 1]
  /\ targeted' = [targeted EXCEPT ![r] = Append(targeted[r], t)]

Ends(r) ==
  /\ runState' = [runState EXCEPT ![r] = "returned"]
  /\ runRound' = runRound /\ targeted' = targeted

GoneOn(r, t, n) ==
  /\ OnlyLogs(sessionLog, sessionLog', r) /\ sessionLog' \in Seq(Records)
  /\ \/ AsksOnce(r, t) /\ OpenLogged(sessionLog', r, n)
     \/ Ends(r) /\ AllLogged(sessionLog', r, n)

LEMMA GoesOnSo ==
  ASSUME AllRuns, NEW r \in Runs, NEW t \in Aims, NEW n \in Nat, OpenLogged(sessionLog, r, n)
  PROVE  GoesOnAs(r, t, <<>>) => GoneOn(r, t, n)
<1>1. sessionLog \in Seq(Records) /\ "final" \in LogTypes
  BY DEF AllRuns, LoopInv, LoopTypeOK, Records, LogTypes
<1>2. PICK none, last : none = <<>> /\ last = <<"final">>  OBVIOUS
<1>3. /\ none \in Seq(LogTypes) /\ Len(none) = 0
      /\ last \in Seq(LogTypes) /\ Len(last) = 1 /\ last[1] = "final" /\ none \o last = last
  <2>1. <<>> \in Seq(LogTypes) /\ Len(<<>>) = 0  BY LiteralTypes
  <2>2. \A x \in LogTypes : <<x>> \in Seq(LogTypes) /\ Len(<<x>>) = 1 /\ <<x>>[1] = x  BY LiteralTypes
  <2>3. \A x \in LogTypes : <<>> \o <<x>> = <<x>>  BY LiteralTypes
  <2> QED  BY <1>1, <1>2, <2>1, <2>2, <2>3
<1> SUFFICES ASSUME GoesOnAs(r, t, <<>>) PROVE GoneOn(r, t, n)  OBVIOUS
<1>4. CASE runRound[r] < MaxRounds[r]
  <2>1. AsksOnce(r, t) /\ Logs(r, none)  BY <1>2, <1>4 DEF GoesOnAs, AsksOnce
  <2>2. sessionLog' = sessionLog  BY <1>1, <1>3, <2>1, LogsAre
  <2> QED  BY <1>1, <2>1, <2>2 DEF GoneOn, OnlyLogs
<1>5. CASE ~(runRound[r] < MaxRounds[r])
  <2>1. Ends(r) /\ Logs(r, last)  BY <1>2, <1>3, <1>5 DEF GoesOnAs, Ends, LogsFinal
  <2>2. OneEntryMore(sessionLog, sessionLog', r, "final")  BY <1>1, <1>3, <2>1, LogsAre
  <2>3. PICK log, m : log = sessionLog /\ m = sessionLog'  OBVIOUS
  <2>4. OneEntryMore(log, m, r, "final") /\ OpenLogged(log, r, n)  BY <2>2, <2>3
  <2>5. AllLogged(m, r, n) /\ m \in Seq(Records)  BY <2>4, FinalLogged DEF OneEntryMore
  <2> QED  BY <1>1, <2>1, <2>2, <2>3, <2>5 DEF GoneOn, OnlyLogs
<1> QED  BY <1>4, <1>5

LEMMA GoesOnWithResult ==
  ASSUME AllRuns, NEW r \in Runs, NEW t \in Aims, NEW n \in Nat, OpenLogged(sessionLog, r, n)
  PROVE  GoesOnAs(r, t, <<"tool">>) => GoneOn(r, t, n + 1)
<1>1. sessionLog \in Seq(Records) /\ "final" \in LogTypes /\ "tool" \in LogTypes
  BY DEF AllRuns, LoopInv, LoopTypeOK, Records, LogTypes
<1>2. PICK one, both : one = <<"tool">> /\ both = <<"tool">> \o <<"final">>  OBVIOUS
<1>3. /\ one \in Seq(LogTypes) /\ Len(one) = 1 /\ one[1] = "tool"
      /\ both \in Seq(LogTypes) /\ Len(both) = 2 /\ both[1] = "tool" /\ both[2] = "final"
  <2>1. \A x \in LogTypes : <<x>> \in Seq(LogTypes) /\ Len(<<x>>) = 1 /\ <<x>>[1] = x  BY LiteralTypes
  <2>2. \A x, y \in LogTypes : /\ <<x>> \o <<y>> \in Seq(LogTypes) /\ Len(<<x>> \o <<y>>) = 2
                               /\ (<<x>> \o <<y>>)[1] = x /\ (<<x>> \o <<y>>)[2] = y
    BY LiteralTypes
  <2> QED  BY <1>1, <1>2, <2>1, <2>2
<1> SUFFICES ASSUME GoesOnAs(r, t, <<"tool">>) PROVE GoneOn(r, t, n + 1)  OBVIOUS
<1>4. PICK log, m : log = sessionLog /\ m = sessionLog'  OBVIOUS
<1>5. OpenLogged(log, r, n) /\ n + 1 \in Nat  BY <1>4
<1>6. CASE runRound[r] < MaxRounds[r]
  <2>1. AsksOnce(r, t) /\ Logs(r, one)  BY <1>2, <1>6 DEF GoesOnAs, AsksOnce
  <2>2. OneEntryMore(sessionLog, sessionLog', r, "tool")  BY <1>1, <1>3, <2>1, LogsAre
  <2>3. OneEntryMore(log, m, r, "tool")  BY <1>4, <2>2
  <2>4. OpenLogged(m, r, n + 1) /\ m \in Seq(Records)  BY <1>5, <2>3, ToolLogged DEF OneEntryMore
  <2> QED  BY <1>1, <1>4, <2>1, <2>2, <2>4 DEF GoneOn, OnlyLogs
<1>7. CASE ~(runRound[r] < MaxRounds[r])
  <2>1. Ends(r) /\ Logs(r, both)  BY <1>2, <1>7 DEF GoesOnAs, Ends, LogsFinal
  <2>2. \E mid : /\ OneEntryMore(sessionLog, mid, r, "tool")
                 /\ OneEntryMore(mid, sessionLog', r, "final")
    BY <1>1, <1>3, <2>1, LogsAre
  <2>3. PICK mid : OneEntryMore(log, mid, r, "tool") /\ OneEntryMore(mid, m, r, "final")  BY <1>4, <2>2
  <2>4. OpenLogged(mid, r, n + 1)  BY <1>5, <2>3, ToolLogged
  <2>5. AllLogged(m, r, n + 1)  BY <1>5, <2>3, <2>4, FinalLogged
  <2>6. m \in Seq(Records)  BY <2>3 DEF OneEntryMore
  <2>7. OnlyLogs(log, m, r)  BY <2>3 DEF OnlyLogs
  <2> QED  BY <1>4, <2>1, <2>5, <2>6, <2>7 DEF GoneOn
<1> QED  BY <1>6, <1>7

LEMMA AimedOnceMore ==
  ASSUME NEW chosen, NEW aim \in Aims, NEW aims \in Seq(Aims), Aimed(chosen, aim, aims),
         NEW more, more = Append(aims, aim)
  PROVE  more \in Seq(Aims) /\ Aimed(chosen, aim, more)
<1>1. PICK n \in Nat : n = Len(aims)  BY LenProperties
<1>2. PICK S : S = Aims  OBVIOUS
<1>3. /\ more \in Seq(S) /\ Len(more) = n + 1 /\ more[n + 1] = aim
      /\ \A i \in 1..n : more[i] = aims[i]
  BY <1>1, <1>2, AppendProperties
<1>4. \A i \in 1..n : more[i] # NoRuntime => more[i] = aim  BY <1>1, <1>3 DEF Aimed
<1>5. \A i \in 1..n + 1 : i \in 1..n \/ i = n + 1  OBVIOUS
<1>6. \A i \in 1..n + 1 : more[i] # NoRuntime => more[i] = aim  BY <1>3, <1>4, <1>5
<1>7. ASSUME NEW i \in 1..n + 1, NEW j \in 1..n + 1, i < j, more[i] # NoRuntime PROVE more[j] = more[i]
  <2>1. i \in 1..n  BY <1>7
  <2>2. more[i] = aim  BY <1>6, <1>7
  <2>3. CASE j = n + 1  BY <1>3, <2>2, <2>3
  <2>4. CASE j \in 1..n
    <3>1. more[i] = aims[i] /\ more[j] = aims[j]  BY <1>3, <2>1, <2>4
    <3> QED  BY <1>1, <1>7, <2>1, <2>4, <3>1 DEF Aimed
  <2> QED  BY <1>5, <2>3, <2>4
<1>8. chosen = NoRuntime => aim = NoRuntime  BY DEF Aimed
<1> QED  BY <1>2, <1>3, <1>6, <1>7, <1>8 DEF Aimed

(* What a step leaves of a run is what it was.                             *)
LEMMA AsBefore ==
  ASSUME AllRuns, NEW r \in Runs
  PROVE  /\ runRound = [runRound EXCEPT ![r] = runRound[r]] /\ runRound[r] \in 0..MaxRounds[r]
         /\ toolResults = [toolResults EXCEPT ![r] = toolResults[r]] /\ toolResults[r] \in Seq(BOOLEAN)
         /\ affinity = [affinity EXCEPT ![r] = affinity[r]] /\ affinity[r] \in Aims
         /\ target = [target EXCEPT ![r] = target[r]] /\ target[r] \in Aims
         /\ targeted = [targeted EXCEPT ![r] = targeted[r]] /\ targeted[r] \in Seq(Aims)
         /\ Elsewhere(memoryChunks, memoryChunks, r) /\ Chunks(memoryChunks)
         /\ sessionLog \in Seq(Records) /\ OnlyLogs(sessionLog, sessionLog, r)
         /\ runRound[r] \in Nat /\ MaxRounds[r] \in Nat /\ Len(toolResults[r]) \in Nat
         /\ Len(targeted[r]) = runRound[r]
<1>1. LoopTypeOK /\ runRound \in [Runs -> Nat] /\ MaxRounds \in [Runs -> Nat]
  BY LoopAssumption DEF AllRuns, Shaped, LoopInv
<1>2. runRound = [runRound EXCEPT ![r] = runRound[r]] /\ runRound[r] \in Nat /\ MaxRounds[r] \in Nat  BY <1>1
<1>3. runRound[r] \in 0..MaxRounds[r]  BY <1>1 DEF LoopTypeOK
<1>4. PICK S, T : S = Seq(BOOLEAN) /\ T = Seq(Aims)  OBVIOUS
<1>5. toolResults \in [Runs -> S] /\ targeted \in [Runs -> T]  BY <1>1, <1>4 DEF LoopTypeOK, Aims
<1>6. /\ toolResults = [toolResults EXCEPT ![r] = toolResults[r]] /\ toolResults[r] \in S
      /\ targeted = [targeted EXCEPT ![r] = targeted[r]] /\ targeted[r] \in T
  BY <1>5
<1>7. affinity \in [Runs -> Aims] /\ target \in [Runs -> Aims]  BY <1>1 DEF LoopTypeOK, Aims
<1>8. /\ affinity = [affinity EXCEPT ![r] = affinity[r]] /\ affinity[r] \in Aims
      /\ target = [target EXCEPT ![r] = target[r]] /\ target[r] \in Aims
  BY <1>7
<1>9. Elsewhere(memoryChunks, memoryChunks, r)  BY DEF Elsewhere
<1>10. Chunks(memoryChunks)  BY <1>1 DEF LoopTypeOK, Chunks
<1>11. sessionLog \in Seq(Records)  BY <1>1 DEF LoopTypeOK, Records, LogTypes
<1>12. OnlyLogs(sessionLog, sessionLog, r)  BY DEF OnlyLogs
<1>13. Len(toolResults[r]) \in Nat
  <2>1. toolResults[r] \in Seq(BOOLEAN)  BY <1>4, <1>6
  <2> QED  BY <2>1, LenProperties
<1>14. Len(targeted[r]) = runRound[r]  BY DEF AllRuns, Shaped
<1> QED  BY <1>2, <1>3, <1>4, <1>6, <1>8, <1>9, <1>10, <1>11, <1>12, <1>13, <1>14

(* The run goes on from n results of n rounds, or the input at round 0.    *)
LEMMA RunWentOn ==
  ASSUME AllRuns, NEW r \in Runs, NEW n \in Nat, runRound[r] = n,
         NEW aim \in Aims, target' = [target EXCEPT ![r] = aim], GoneOn(r, aim, n),
         NEW chosen \in Aims, affinity' = [affinity EXCEPT ![r] = chosen],
         Aimed(chosen, aim, targeted[r]),
         NEW results \in Seq(BOOLEAN), toolResults' = [toolResults EXCEPT ![r] = results], Len(results) = n,
         NEW mem, memoryChunks' = mem, Elsewhere(mem, memoryChunks, r), Chunks(mem),
         HasMemory => Memorized(mem, results, r, n)
  PROVE  AllRuns' /\ Moves(r)
<1>1. PICK m : m = sessionLog'  OBVIOUS
<1>2. OnlyLogs(sessionLog, sessionLog', r) /\ sessionLog' \in Seq(Records)  BY DEF GoneOn
<1>3. /\ runRound = [runRound EXCEPT ![r] = runRound[r]] /\ runRound[r] \in 0..MaxRounds[r]
      /\ targeted = [targeted EXCEPT ![r] = targeted[r]] /\ targeted[r] \in Seq(Aims)
      /\ MaxRounds[r] \in Nat /\ Len(targeted[r]) = runRound[r]
  BY AsBefore
<1>4. CASE AsksOnce(r, aim) /\ OpenLogged(sessionLog', r, n)
  <2>1. PICK more : more = Append(targeted[r], aim)  OBVIOUS
  <2>2. /\ runState' = [runState EXCEPT ![r] = "asking"]
        /\ runRound' = [runRound EXCEPT ![r] = n + 1]
        /\ targeted' = [targeted EXCEPT ![r] = more] /\ n < MaxRounds[r]
    BY <1>4, <2>1 DEF AsksOnce
  <2>3. n + 1 \in 0..MaxRounds[r]  BY <1>3, <2>2
  <2>4. more \in Seq(Aims) /\ Aimed(chosen, aim, more)  BY <1>3, <2>1, AimedOnceMore
  <2>8. Len(more) = n + 1  BY <1>3, <2>1, AppendProperties
  <2>5. RunOK(m, "asking", n + 1, results, mem, r)
    <3>1. RunTold(m, "asking", r, n)  BY <1>1, <1>4 DEF RunTold
    <3>2. Fits("asking", n, n + 1, results)  BY DEF Fits
    <3> QED  BY <3>1, <3>2 DEF RunOK
  <2>6. "asking" \in RunStates \ {"new"}  BY DEF RunStates
  <2>7. AllRuns'  BY <1>1, <1>2, <2>2, <2>3, <2>4, <2>5, <2>6, <2>8, OneRunSteps
  <2> QED  BY <1>2, <2>2, <2>6, <2>7 DEF Moves
<1>5. CASE Ends(r) /\ AllLogged(sessionLog', r, n)
  <2>1. PICK aims, round : aims = targeted[r] /\ round = runRound[r]  OBVIOUS
  <2>2. /\ runState' = [runState EXCEPT ![r] = "returned"]
        /\ runRound' = [runRound EXCEPT ![r] = round]
        /\ targeted' = [targeted EXCEPT ![r] = aims]
    BY <1>3, <1>5, <2>1 DEF Ends
  <2>3. round \in 0..MaxRounds[r] /\ aims \in Seq(Aims) /\ Len(aims) = round /\ Aimed(chosen, aim, aims)
    BY <1>3, <2>1
  <2>4. RunOK(m, "returned", round, results, mem, r)
    <3>1. RunTold(m, "returned", r, n)  BY <1>1, <1>5 DEF RunTold
    <3>2. Fits("returned", n, round, results)  BY <2>1 DEF Fits
    <3> QED  BY <3>1, <3>2 DEF RunOK
  <2>5. "returned" \in RunStates \ {"new"}  BY DEF RunStates
  <2>6. AllRuns'  BY <1>1, <1>2, <2>2, <2>3, <2>4, <2>5, OneRunSteps
  <2> QED  BY <1>2, <2>2, <2>5, <2>6 DEF Moves
<1> QED  BY <1>4, <1>5 DEF GoneOn

LEMMA RunAsIs ==
  ASSUME AllRuns, NEW r \in Runs
  PROVE  \E n \in Nat : /\ RunTold(sessionLog, runState[r], r, n)
                        /\ Fits(runState[r], n, runRound[r], toolResults[r])
                        /\ HasMemory => Memorized(memoryChunks, toolResults[r], r, n)
  BY DEF AllRuns, LoopInv, RunInv, RunOK

LEMMA Arrived ==
  ASSUME AllRuns, NEW r \in Runs, NEW named \in Aims, NEW aimed \in Aims, RunArrives(r, named, aimed)
  PROVE  AllRuns' /\ Moves(r)
<1>1. PICK m, results, aims, mem, round :
        /\ m = sessionLog' /\ results = toolResults[r] /\ aims = targeted[r]
        /\ mem = memoryChunks /\ round = runRound[r]
  OBVIOUS
<1>2. PICK chosen : chosen = IF named # NoRuntime THEN named ELSE aimed  OBVIOUS
<1>3. PICK one : one = <<"input">>  OBVIOUS
<1>4. one \in Seq(LogTypes) /\ Len(one) = 1 /\ one[1] = "input"
  <2>1. \A x \in LogTypes : <<x>> \in Seq(LogTypes) /\ Len(<<x>>) = 1 /\ <<x>>[1] = x  BY LiteralTypes
  <2>2. "input" \in LogTypes  BY DEF LogTypes
  <2> QED  BY <1>3, <2>1, <2>2
<1>5. /\ runRound = [runRound EXCEPT ![r] = round] /\ round \in 0..MaxRounds[r]
      /\ toolResults = [toolResults EXCEPT ![r] = results] /\ results \in Seq(BOOLEAN)
      /\ targeted = [targeted EXCEPT ![r] = aims] /\ aims \in Seq(Aims)
      /\ Elsewhere(mem, memoryChunks, r) /\ Chunks(mem) /\ sessionLog \in Seq(Records)
  BY <1>1, AsBefore
<1>6. OneEntryMore(sessionLog, sessionLog', r, "input")
  <2>1. Logs(r, one)  BY <1>3 DEF RunArrives
  <2> QED  BY <1>4, <1>5, <2>1, LogsAre
<1>7. PICK n \in Nat : /\ RunTold(sessionLog, runState[r], r, n)
                       /\ Fits(runState[r], n, runRound[r], toolResults[r])
                       /\ HasMemory => Memorized(memoryChunks, toolResults[r], r, n)
  BY RunAsIs
<1>8. runState[r] = "new"  BY DEF RunArrives
<1>9. NoneLogged(sessionLog, r) /\ n = 0 /\ Len(results) = 0 /\ round = 0
  BY <1>1, <1>7, <1>8 DEF RunTold, Fits
<1>10. OpenLogged(m, r, 0)
  <2>1. PICK log : log = sessionLog  OBVIOUS
  <2>2. OneEntryMore(log, m, r, "input") /\ NoneLogged(log, r)  BY <1>1, <1>6, <1>9, <2>1
  <2> QED  BY <2>2, InputLogged
<1>11. RunOK(m, "building", round, results, mem, r)
  <2>1. RunTold(m, "building", r, 0)  BY <1>10 DEF RunTold
  <2>2. Fits("building", 0, round, results)  BY <1>9 DEF Fits
  <2>3. HasMemory => Memorized(mem, results, r, 0)  BY <1>1, <1>7, <1>9
  <2>4. 0 \in Nat  OBVIOUS
  <2> QED  BY <2>1, <2>2, <2>3, <2>4 DEF RunOK
<1>12. chosen \in Aims /\ Aimed(chosen, aimed, aims)
  <2>1. Len(aims) = 0  BY <1>1, <1>9, AsBefore
  <2>2. \A i \in 1..0 : FALSE  OBVIOUS
  <2> QED  BY <1>2, <2>1, <2>2 DEF Aimed
<1>13. Len(aims) = round  BY <1>1, AsBefore
<1>14. "building" \in RunStates \ {"new"}  BY DEF RunStates
<1>15. /\ runState' = [runState EXCEPT ![r] = "building"]
       /\ affinity' = [affinity EXCEPT ![r] = chosen] /\ target' = [target EXCEPT ![r] = aimed]
       /\ runRound' = runRound /\ toolResults' = toolResults /\ targeted' = targeted /\ memoryChunks' = mem
  BY <1>1, <1>2 DEF RunArrives
<1>16. /\ runRound' = [runRound EXCEPT ![r] = round] /\ toolResults' = [toolResults EXCEPT ![r] = results]
       /\ targeted' = [targeted EXCEPT ![r] = aims]
  BY <1>5, <1>15
<1>17. sessionLog' \in Seq(Records) /\ OnlyLogs(sessionLog, sessionLog', r)
  <2>1. "input" \in LogTypes  BY DEF LogTypes
  <2> QED  BY <1>6, <2>1 DEF OnlyLogs, OneEntryMore
<1>18. AllRuns'  BY <1>1, <1>5, <1>11, <1>12, <1>13, <1>14, <1>15, <1>16, <1>17, OneRunSteps
<1> QED  BY <1>14, <1>15, <1>17, <1>18 DEF Moves

LEMMA ResultAppended ==
  ASSUME NEW results \in Seq(BOOLEAN), NEW n \in Nat, Len(results) = n, NEW ok \in BOOLEAN,
         NEW more, more = Append(results, ok)
  PROVE  /\ more \in Seq(BOOLEAN) /\ Len(more) = n + 1 /\ more[n + 1] = ok
         /\ \A k \in 1..n : more[k] = results[k]
<1>1. PICK S : S = BOOLEAN  OBVIOUS
<1> QED  BY <1>1, AppendProperties

LEMMA MemoryOfMore ==
  ASSUME NEW results \in Seq(BOOLEAN), NEW n \in Nat, Len(results) = n, NEW ok \in BOOLEAN,
         NEW more, more = Append(results, ok), NEW mem, NEW r, Memorized(mem, results, r, n)
  PROVE  Memorized(mem, more, r, n) /\ (~ok => Memorized(mem, more, r, n + 1))
<1>1. /\ Len(more) = n + 1 /\ more[n + 1] = ok
      /\ \A k \in 1..n : more[k] = results[k]
  BY ResultAppended
<1>2. ASSUME NEW k \in Nat
      PROVE  /\ <<r, k>> \in mem <=> k \in 1..n + 1 /\ more[k] /\ k <= n
             /\ ~ok => (<<r, k>> \in mem <=> k \in 1..n + 1 /\ more[k] /\ k <= n + 1)
  <2>1. PICK here : here <=> <<r, k>> \in mem  OBVIOUS
  <2>2. here <=> k \in 1..n /\ results[k] /\ k <= n  BY <2>1 DEF Memorized
  <2>3. CASE k \in 1..n
    <3>1. more[k] = results[k] /\ k \in 1..n + 1 /\ k <= n /\ k <= n + 1  BY <1>1, <2>3
    <3> QED  BY <2>1, <2>2, <2>3, <3>1
  <2>4. CASE k = n + 1
    <3>1. k \notin 1..n /\ ~(k <= n) /\ more[k] = ok  BY <1>1, <2>4
    <3> QED  BY <2>1, <2>2, <3>1
  <2>5. CASE k \notin 1..n /\ k # n + 1
    <3>1. k \notin 1..n + 1  BY <2>5
    <3> QED  BY <2>1, <2>2, <2>5, <3>1
  <2> QED  BY <2>3, <2>4, <2>5
<1> QED  BY <1>1, <1>2 DEF Memorized

LEMMA MemoryAdded ==
  ASSUME NEW results \in Seq(BOOLEAN), NEW n \in Nat, Len(results) = n + 1, results[n + 1],
         NEW mem, NEW r, Memorized(mem, results, r, n), NEW all, all = mem \cup {<<r, n + 1>>}
  PROVE  Memorized(all, results, r, n + 1)
<1>1. ASSUME NEW k \in Nat PROVE <<r, k>> \in all <=> k \in 1..n + 1 /\ results[k] /\ k <= n + 1
  <2>1. <<r, k>> \in all <=> <<r, k>> \in mem \/ k = n + 1  OBVIOUS
  <2>2. <<r, k>> \in mem <=> k \in 1..n + 1 /\ results[k] /\ k <= n  BY DEF Memorized
  <2>3. CASE k = n + 1
    <3>1. k \in 1..n + 1 /\ k <= n + 1 /\ results[k]  BY <2>3
    <3> QED  BY <2>1, <2>3, <3>1
  <2>4. CASE k # n + 1
    <3>1. k <= n + 1 <=> k <= n  BY <2>4
    <3> QED  BY <2>1, <2>2, <2>4, <3>1
  <2> QED  BY <2>3, <2>4
<1> QED  BY <1>1 DEF Memorized

LEMMA KeepsBuilt ==
  ASSUME AllRuns, NEW r \in Runs, ContextBuilt(r)
  PROVE  AllRuns' /\ Moves(r)
<1>1. PICK mem, results, aim, chosen, aims :
        /\ mem = memoryChunks /\ results = toolResults[r] /\ aim = target[r]
        /\ chosen = affinity[r] /\ aims = targeted[r]
  OBVIOUS
<1>2. PICK n \in Nat : /\ RunTold(sessionLog, runState[r], r, n)
                       /\ Fits(runState[r], n, runRound[r], toolResults[r])
                       /\ HasMemory => Memorized(memoryChunks, toolResults[r], r, n)
  BY RunAsIs
<1>3. runState[r] = "building"  BY DEF ContextBuilt
<1>4. OpenLogged(sessionLog, r, n) /\ n = 0 /\ Len(results) = 0 /\ runRound[r] = n
  BY <1>1, <1>2, <1>3 DEF RunTold, Fits
<1>5. /\ toolResults = [toolResults EXCEPT ![r] = results] /\ results \in Seq(BOOLEAN)
      /\ affinity = [affinity EXCEPT ![r] = chosen] /\ chosen \in Aims
      /\ target = [target EXCEPT ![r] = aim] /\ aim \in Aims
      /\ Elsewhere(mem, memoryChunks, r) /\ Chunks(mem)
  BY <1>1, AsBefore
<1>6. GoneOn(r, aim, n)
  <2>1. GoesOnAs(r, aim, <<>>)  BY <1>1 DEF ContextBuilt
  <2> QED  BY <1>4, <1>5, <2>1, GoesOnSo
<1>7. /\ toolResults' = [toolResults EXCEPT ![r] = results]
      /\ affinity' = [affinity EXCEPT ![r] = chosen] /\ target' = [target EXCEPT ![r] = aim]
      /\ memoryChunks' = mem
  BY <1>1, <1>5 DEF ContextBuilt
<1>8. Aimed(chosen, aim, targeted[r])  BY <1>1 DEF AllRuns, LoopInv
<1>9. HasMemory => Memorized(mem, results, r, n)  BY <1>1, <1>2
<1>10. Len(results) = n  BY <1>4
<1> QED  BY <1>4, <1>5, <1>6, <1>7, <1>8, <1>9, <1>10, RunWentOn

LEMMA KeepsThrows ==
  ASSUME AllRuns, NEW r \in Runs, RunThrows(r)
  PROVE  AllRuns' /\ Moves(r)
<1>1. PICK m, mem, results, aim, chosen, aims, round :
        /\ m = sessionLog' /\ mem = memoryChunks /\ results = toolResults[r] /\ aim = target[r]
        /\ chosen = affinity[r] /\ aims = targeted[r] /\ round = runRound[r]
  OBVIOUS
<1>2. PICK n \in Nat : /\ RunTold(sessionLog, runState[r], r, n)
                       /\ Fits(runState[r], n, runRound[r], toolResults[r])
                       /\ HasMemory => Memorized(memoryChunks, toolResults[r], r, n)
  BY RunAsIs
<1>3. PICK st : st = runState[r]  OBVIOUS
<1>4. st \in {"building", "asking", "remembering"}  BY <1>3 DEF RunThrows
<1>5. m = sessionLog  BY <1>1 DEF RunThrows
<1>6. /\ runRound = [runRound EXCEPT ![r] = round] /\ round \in 0..MaxRounds[r]
      /\ toolResults = [toolResults EXCEPT ![r] = results] /\ results \in Seq(BOOLEAN)
      /\ affinity = [affinity EXCEPT ![r] = chosen] /\ chosen \in Aims
      /\ target = [target EXCEPT ![r] = aim] /\ aim \in Aims
      /\ targeted = [targeted EXCEPT ![r] = aims] /\ aims \in Seq(Aims)
      /\ Elsewhere(mem, memoryChunks, r) /\ Chunks(mem) /\ Len(aims) = round
      /\ sessionLog \in Seq(Records) /\ OnlyLogs(sessionLog, sessionLog, r) /\ round \in Nat
  BY <1>1, AsBefore
<1>7. RunOK(m, "threw", round, results, mem, r)
  <2>1. OpenLogged(m, r, n)  BY <1>2, <1>3, <1>4, <1>5 DEF RunTold
  <2>2. RunTold(m, "threw", r, n)  BY <2>1 DEF RunTold
  <2>3. Fits(st, n, round, results)  BY <1>1, <1>2, <1>3
  <2>4. Fits("threw", n, round, results)  BY <1>4, <1>6, <2>3 DEF Fits
  <2>5. HasMemory => Memorized(mem, results, r, n)  BY <1>1, <1>2
  <2> QED  BY <2>2, <2>4, <2>5 DEF RunOK
<1>8. /\ runState' = [runState EXCEPT ![r] = "threw"]
      /\ runRound' = [runRound EXCEPT ![r] = round]
      /\ toolResults' = [toolResults EXCEPT ![r] = results]
      /\ affinity' = [affinity EXCEPT ![r] = chosen] /\ target' = [target EXCEPT ![r] = aim]
      /\ targeted' = [targeted EXCEPT ![r] = aims] /\ memoryChunks' = mem
  BY <1>1, <1>6 DEF RunThrows
<1>9. Aimed(chosen, aim, aims)  BY <1>1 DEF AllRuns, LoopInv
<1>10. "threw" \in RunStates \ {"new"}  BY DEF RunStates
<1>11. sessionLog' \in Seq(Records) /\ OnlyLogs(sessionLog, sessionLog', r)  BY <1>1, <1>5, <1>6
<1>12. AllRuns'  BY <1>1, <1>6, <1>7, <1>8, <1>9, <1>10, <1>11, OneRunSteps
<1> QED  BY <1>8, <1>10, <1>11, <1>12 DEF Moves

LEMMA KeepsRemembered ==
  ASSUME AllRuns, NEW r \in Runs, Remembered(r)
  PROVE  AllRuns' /\ Moves(r)
<1>1. PICK mem, results, aim, chosen :
        /\ mem = memoryChunks /\ results = toolResults[r] /\ aim = target[r] /\ chosen = affinity[r]
  OBVIOUS
<1>2. PICK n \in Nat : /\ RunTold(sessionLog, runState[r], r, n)
                       /\ Fits(runState[r], n, runRound[r], toolResults[r])
                       /\ HasMemory => Memorized(memoryChunks, toolResults[r], r, n)
  BY RunAsIs
<1>3. runState[r] = "remembering"  BY DEF Remembered
<1>4. /\ OpenLogged(sessionLog, r, n) /\ HasMemory /\ Len(results) = n + 1 /\ results[n + 1]
      /\ runRound[r] = n + 1 /\ n + 1 \in Nat /\ Memorized(mem, results, r, n)
  BY <1>1, <1>2, <1>3 DEF RunTold, Fits
<1>5. /\ toolResults = [toolResults EXCEPT ![r] = results] /\ results \in Seq(BOOLEAN)
      /\ affinity = [affinity EXCEPT ![r] = chosen] /\ chosen \in Aims
      /\ target = [target EXCEPT ![r] = aim] /\ aim \in Aims
      /\ Chunks(mem) /\ runRound[r] \in 0..MaxRounds[r] /\ MaxRounds[r] \in Nat
  BY <1>1, AsBefore
<1>6. GoneOn(r, aim, n + 1)
  <2>1. GoesOnAs(r, aim, <<"tool">>)  BY <1>1 DEF Remembered
  <2> QED  BY <1>4, <1>5, <2>1, GoesOnWithResult
<1>7. /\ toolResults' = [toolResults EXCEPT ![r] = results]
      /\ affinity' = [affinity EXCEPT ![r] = chosen] /\ target' = [target EXCEPT ![r] = aim]
  BY <1>5 DEF Remembered
<1>8. Aimed(chosen, aim, targeted[r])  BY <1>1 DEF AllRuns, LoopInv
<1>9. PICK all : all = mem \cup {<<r, n + 1>>}  OBVIOUS
<1>10. memoryChunks' = all  BY <1>1, <1>4, <1>9 DEF Remembered
<1>11. Memorized(all, results, r, n + 1)  BY <1>4, <1>5, <1>9, MemoryAdded
<1>12. Elsewhere(all, memoryChunks, r)  BY <1>1, <1>9 DEF Elsewhere
<1>13. Chunks(all)
  <2>1. n + 1 \in 1..MaxRounds[r]  BY <1>4, <1>5
  <2> QED  BY <1>5, <1>9, <2>1 DEF Chunks
<1>14. PICK k \in Nat : k = n + 1  BY <1>4
<1>15. /\ runRound[r] = k /\ GoneOn(r, aim, k) /\ Len(results) = k /\ (HasMemory => Memorized(all, results, r, k))
  BY <1>4, <1>6, <1>11, <1>14
<1> QED  BY <1>5, <1>7, <1>8, <1>10, <1>12, <1>13, <1>15, RunWentOn

LEMMA KeepsToolEnds ==
  ASSUME AllRuns, NEW r \in Runs, NEW ok \in BOOLEAN, ToolEnds(r, ok)
  PROVE  AllRuns' /\ Moves(r)
<1>1. PICK m, mem, results, aim, chosen, aims, round :
        /\ m = sessionLog' /\ mem = memoryChunks /\ results = toolResults[r] /\ aim = target[r]
        /\ chosen = affinity[r] /\ aims = targeted[r] /\ round = runRound[r]
  OBVIOUS
<1>2. PICK n \in Nat : /\ RunTold(sessionLog, runState[r], r, n)
                       /\ Fits(runState[r], n, runRound[r], toolResults[r])
                       /\ HasMemory => Memorized(memoryChunks, toolResults[r], r, n)
  BY RunAsIs
<1>3. runState[r] = "executing"  BY DEF ToolEnds
<1>4. /\ OpenLogged(sessionLog, r, n) /\ Len(results) = n /\ round = n + 1 /\ n + 1 \in Nat
      /\ HasMemory => Memorized(mem, results, r, n)
  BY <1>1, <1>2, <1>3 DEF RunTold, Fits
<1>5. /\ runRound = [runRound EXCEPT ![r] = round] /\ round \in 0..MaxRounds[r]
      /\ results \in Seq(BOOLEAN)
      /\ affinity = [affinity EXCEPT ![r] = chosen] /\ chosen \in Aims
      /\ target = [target EXCEPT ![r] = aim] /\ aim \in Aims
      /\ targeted = [targeted EXCEPT ![r] = aims] /\ aims \in Seq(Aims)
      /\ Elsewhere(mem, memoryChunks, r) /\ Chunks(mem) /\ Len(aims) = round
      /\ sessionLog \in Seq(Records) /\ OnlyLogs(sessionLog, sessionLog, r)
  BY <1>1, AsBefore
<1>6. PICK more : more = Append(results, ok)  OBVIOUS
<1>7. more \in Seq(BOOLEAN) /\ Len(more) = n + 1 /\ more[n + 1] = ok  BY <1>4, <1>5, <1>6, ResultAppended
<1>8. HasMemory => Memorized(mem, more, r, n) /\ (~ok => Memorized(mem, more, r, n + 1))
  BY <1>4, <1>5, <1>6, MemoryOfMore
<1>9. /\ toolResults' = [toolResults EXCEPT ![r] = more]
      /\ affinity' = [affinity EXCEPT ![r] = chosen] /\ target' = [target EXCEPT ![r] = aim]
      /\ memoryChunks' = mem
  BY <1>1, <1>5, <1>6 DEF ToolEnds
<1>10. Aimed(chosen, aim, aims)  BY <1>1 DEF AllRuns, LoopInv
<1>11. CASE ok /\ HasMemory
  <2>1. /\ runState' = [runState EXCEPT ![r] = "remembering"] /\ m = sessionLog
        /\ runRound' = [runRound EXCEPT ![r] = round] /\ targeted' = [targeted EXCEPT ![r] = aims]
    BY <1>1, <1>5, <1>11 DEF ToolEnds
  <2>2. RunOK(m, "remembering", round, more, mem, r)
    <3>1. RunTold(m, "remembering", r, n)  BY <1>4, <2>1 DEF RunTold
    <3>2. Fits("remembering", n, round, more)  BY <1>4, <1>7, <1>11 DEF Fits
    <3> QED  BY <1>8, <3>1, <3>2 DEF RunOK
  <2>3. "remembering" \in RunStates \ {"new"}  BY DEF RunStates
  <2>4. sessionLog' \in Seq(Records) /\ OnlyLogs(sessionLog, sessionLog', r)  BY <1>1, <1>5, <2>1
  <2>5. AllRuns'  BY <1>1, <1>5, <1>7, <1>9, <1>10, <2>1, <2>2, <2>3, <2>4, OneRunSteps
  <2> QED  BY <2>1, <2>3, <2>4, <2>5 DEF Moves
<1>12. CASE ~(ok /\ HasMemory)
  <2>1. GoneOn(r, aim, n + 1)
    <3>1. GoesOnAs(r, aim, <<"tool">>)  BY <1>1, <1>12 DEF ToolEnds
    <3> QED  BY <1>4, <1>5, <3>1, GoesOnWithResult
  <2>2. PICK k \in Nat : k = n + 1  BY <1>4
  <2>3. /\ runRound[r] = k /\ GoneOn(r, aim, k) /\ Len(more) = k /\ Aimed(chosen, aim, targeted[r])
        /\ HasMemory => Memorized(mem, more, r, k)
    BY <1>1, <1>4, <1>7, <1>8, <1>10, <1>12, <2>1, <2>2
  <2> QED  BY <1>5, <1>7, <1>9, <2>3, RunWentOn
<1> QED  BY <1>11, <1>12

LEMMA KeepsAnswers ==
  ASSUME AllRuns, NEW r \in Runs, NEW answer, NEW selected \in Aims, ModelAnswers(r, answer, selected)
  PROVE  AllRuns' /\ Moves(r)
<1>1. PICK m, mem, results, aims, round :
        /\ m = sessionLog' /\ mem = memoryChunks /\ results = toolResults[r]
        /\ aims = targeted[r] /\ round = runRound[r]
  OBVIOUS
<1>2. PICK n \in Nat : /\ RunTold(sessionLog, runState[r], r, n)
                       /\ Fits(runState[r], n, runRound[r], toolResults[r])
                       /\ HasMemory => Memorized(memoryChunks, toolResults[r], r, n)
  BY RunAsIs
<1>3. runState[r] = "asking"  BY DEF ModelAnswers
<1>4. /\ OpenLogged(sessionLog, r, n) /\ Len(results) = n /\ round = n + 1 /\ n + 1 \in Nat
      /\ HasMemory => Memorized(mem, results, r, n)
  BY <1>1, <1>2, <1>3 DEF RunTold, Fits
<1>5. /\ runRound = [runRound EXCEPT ![r] = round] /\ round \in 0..MaxRounds[r]
      /\ toolResults = [toolResults EXCEPT ![r] = results] /\ results \in Seq(BOOLEAN)
      /\ affinity = [affinity EXCEPT ![r] = affinity[r]] /\ affinity[r] \in Aims
      /\ target = [target EXCEPT ![r] = target[r]] /\ target[r] \in Aims
      /\ targeted = [targeted EXCEPT ![r] = aims] /\ aims \in Seq(Aims)
      /\ Elsewhere(mem, memoryChunks, r) /\ Chunks(mem) /\ Len(aims) = round
      /\ sessionLog \in Seq(Records) /\ OnlyLogs(sessionLog, sessionLog, r)
  BY <1>1, AsBefore
<1>6. Aimed(affinity[r], target[r], aims)  BY <1>1 DEF AllRuns, LoopInv
<1>7. \E chosen, aim \in Aims : /\ affinity' = [affinity EXCEPT ![r] = chosen]
                                /\ target' = [target EXCEPT ![r] = aim]
                                /\ Aimed(chosen, aim, aims)
  <2>1. CASE FirstRouting(r, selected)
    <3>1. /\ affinity' = [affinity EXCEPT ![r] = selected] /\ target' = [target EXCEPT ![r] = selected]
      BY <2>1 DEF ModelAnswers
    <3>2. \A i \in 1..Len(aims) : aims[i] = NoRuntime  BY <1>6, <2>1 DEF Aimed, FirstRouting
    <3>3. Aimed(selected, selected, aims)  BY <3>2 DEF Aimed
    <3> QED  BY <3>1, <3>3
  <2>2. CASE ~FirstRouting(r, selected)
    <3>1. affinity' = affinity /\ target' = target  BY <2>2 DEF ModelAnswers
    <3> QED  BY <1>5, <1>6, <3>1
  <2> QED  BY <2>1, <2>2
<1>8. PICK chosen \in Aims, aim \in Aims : /\ affinity' = [affinity EXCEPT ![r] = chosen]
                                           /\ target' = [target EXCEPT ![r] = aim]
                                           /\ Aimed(chosen, aim, aims)
  BY <1>7
<1>9. target'[r] = aim  BY <1>8 DEF AllRuns, LoopInv, LoopTypeOK
<1>10. memoryChunks' = mem  BY <1>1 DEF ModelAnswers
<1>11. CASE /\ runState' = [runState EXCEPT ![r] = "returned"]
            /\ Logs(r, LogsFinal(answer))
            /\ UNCHANGED <<runRound, targeted, toolResults>>
  <2>1. PICK one : one = <<"final">>  OBVIOUS
  <2>2. one \in Seq(LogTypes) /\ Len(one) = 1 /\ one[1] = "final" /\ "final" \in LogTypes
    <3>1. \A x \in LogTypes : <<x>> \in Seq(LogTypes) /\ Len(<<x>>) = 1 /\ <<x>>[1] = x  BY LiteralTypes
    <3>2. "final" \in LogTypes  BY DEF LogTypes
    <3> QED  BY <2>1, <3>1, <3>2
  <2>3. OneEntryMore(sessionLog, sessionLog', r, "final")
    <3>1. Logs(r, one)  BY <1>11, <2>1 DEF LogsFinal
    <3> QED  BY <1>5, <2>2, <3>1, LogsAre
  <2>4. AllLogged(m, r, n)
    <3>1. PICK log : log = sessionLog  OBVIOUS
    <3>2. OneEntryMore(log, m, r, "final") /\ OpenLogged(log, r, n)  BY <1>1, <1>4, <2>3, <3>1
    <3> QED  BY <3>2, FinalLogged
  <2>5. RunOK(m, "returned", round, results, mem, r)
    <3>1. RunTold(m, "returned", r, n)  BY <2>4 DEF RunTold
    <3>2. Fits("returned", n, round, results)  BY <1>4 DEF Fits
    <3> QED  BY <1>4, <3>1, <3>2 DEF RunOK
  <2>6. "returned" \in RunStates \ {"new"}  BY DEF RunStates
  <2>7. sessionLog' \in Seq(Records) /\ OnlyLogs(sessionLog, sessionLog', r)
    BY <2>2, <2>3 DEF OneEntryMore, OnlyLogs
  <2>8. /\ runRound' = [runRound EXCEPT ![r] = round] /\ targeted' = [targeted EXCEPT ![r] = aims]
        /\ toolResults' = [toolResults EXCEPT ![r] = results]
        /\ runState' = [runState EXCEPT ![r] = "returned"]
    BY <1>5, <1>11
  <2>9. AllRuns'  BY <1>1, <1>5, <1>8, <1>10, <2>5, <2>6, <2>7, <2>8, OneRunSteps
  <2> QED  BY <2>6, <2>7, <2>8, <2>9 DEF Moves
<1>12. CASE /\ runState' = [runState EXCEPT ![r] = "executing"]
            /\ UNCHANGED <<runRound, targeted, toolResults, sessionLog>>
  <2>1. RunOK(m, "executing", round, results, mem, r)
    <3>1. m = sessionLog  BY <1>1, <1>12
    <3>2. RunTold(m, "executing", r, n)  BY <1>4, <3>1 DEF RunTold
    <3>3. Fits("executing", n, round, results)  BY <1>4 DEF Fits
    <3> QED  BY <1>4, <3>2, <3>3 DEF RunOK
  <2>2. "executing" \in RunStates \ {"new"}  BY DEF RunStates
  <2>3. sessionLog' \in Seq(Records) /\ OnlyLogs(sessionLog, sessionLog', r)  BY <1>5, <1>12
  <2>4. /\ runRound' = [runRound EXCEPT ![r] = round] /\ targeted' = [targeted EXCEPT ![r] = aims]
        /\ toolResults' = [toolResults EXCEPT ![r] = results]
        /\ runState' = [runState EXCEPT ![r] = "executing"]
    BY <1>5, <1>12
  <2>5. AllRuns'  BY <1>1, <1>5, <1>8, <1>10, <2>1, <2>2, <2>3, <2>4, OneRunSteps
  <2> QED  BY <2>2, <2>3, <2>4, <2>5 DEF Moves
<1>13. CASE /\ toolResults' = [toolResults EXCEPT ![r] = Append(@, FALSE)]
            /\ GoesOnAs(r, target'[r], <<"tool">>)
  <2>1. PICK more : more = Append(results, FALSE)  OBVIOUS
  <2>2. more \in Seq(BOOLEAN) /\ Len(more) = n + 1  BY <1>4, <1>5, <2>1, ResultAppended
  <2>3. HasMemory => Memorized(mem, more, r, n + 1)
    <3>1. FALSE \in BOOLEAN /\ ~FALSE  OBVIOUS
    <3> QED  BY <1>4, <1>5, <2>1, <3>1, MemoryOfMore
  <2>4. toolResults' = [toolResults EXCEPT ![r] = more]  BY <1>1, <1>13, <2>1
  <2>5. GoneOn(r, aim, n + 1)
    <3>1. GoesOnAs(r, aim, <<"tool">>)  BY <1>9, <1>13
    <3> QED  BY <1>4, <3>1, GoesOnWithResult
  <2>6. PICK k \in Nat : k = n + 1  BY <1>4
  <2>7. /\ runRound[r] = k /\ GoneOn(r, aim, k) /\ Len(more) = k /\ Aimed(chosen, aim, targeted[r])
        /\ HasMemory => Memorized(mem, more, r, k)
    BY <1>1, <1>4, <1>8, <2>2, <2>3, <2>5, <2>6
  <2> QED  BY <1>5, <1>8, <1>10, <2>2, <2>4, <2>7, RunWentOn
<1> QED  BY <1>11, <1>12, <1>13 DEF ModelAnswers

LEMMA RunsStart ==
  ASSUME LoopInit
  PROVE  AllRuns
<1>1. /\ sessionLog = <<>> /\ memoryChunks = {} /\ runRound = [r \in Runs |-> 0]
      /\ runState = [r \in Runs |-> "new"] /\ toolResults = [r \in Runs |-> <<>>]
      /\ affinity = [r \in Runs |-> NoRuntime] /\ target = [r \in Runs |-> NoRuntime]
      /\ targeted = [r \in Runs |-> <<>>]
  BY DEF LoopInit
<1>2. \A S : <<>> \in Seq(S)  BY EmptySeq
<1>3. \A S : Len(<<>>) = 0  BY EmptySeq
<1>4. PICK none : none = <<>>  OBVIOUS
<1>5. (\A S : none \in Seq(S)) /\ Len(none) = 0  BY <1>2, <1>3, <1>4
<1>6. LoopTypeOK
  <2>1. \A r \in Runs : runRound[r] \in 0..MaxRounds[r]
    <3> SUFFICES ASSUME NEW r \in Runs PROVE 0 \in 0..MaxRounds[r]  BY <1>1
    <3>1. MaxRounds[r] \in Nat  BY LoopAssumption
    <3> QED  BY <3>1
  <2>2. toolResults \in [Runs -> Seq(BOOLEAN)]
    <3>1. PICK S : S = Seq(BOOLEAN)  OBVIOUS
    <3>2. none \in S  BY <1>5, <3>1
    <3> QED  BY <1>1, <1>4, <3>1, <3>2
  <2>3. targeted \in [Runs -> Seq(Aims)]
    <3>1. PICK S : S = Seq(Aims)  OBVIOUS
    <3>2. none \in S  BY <1>5, <3>1
    <3> QED  BY <1>1, <1>4, <3>1, <3>2
  <2>4. sessionLog \in Seq(Records)  BY <1>1, <1>2
  <2>5. affinity \in [Runs -> Aims] /\ target \in [Runs -> Aims]  BY <1>1 DEF Aims
  <2>6. runState \in [Runs -> RunStates]  BY <1>1 DEF RunStates
  <2>7. \A c \in memoryChunks : c[1] \in Runs /\ c[2] \in 1..MaxRounds[c[1]]  BY <1>1
  <2> QED  BY <2>1, <2>2, <2>3, <2>4, <2>5, <2>6, <2>7 DEF LoopTypeOK, Aims, Records, LogTypes, RunStates
<1>7. Shaped  BY <1>1, <1>4, <1>5 DEF Shaped
<1>8. ASSUME NEW r \in Runs PROVE RunInv(r) /\ Aimed(affinity[r], target[r], targeted[r])
  <2>1. /\ runState[r] = "new" /\ runRound[r] = 0 /\ toolResults[r] = none /\ affinity[r] = NoRuntime
        /\ target[r] = NoRuntime /\ targeted[r] = none
    BY <1>1, <1>4
  <2>2. \A i \in 1..0 : FALSE  OBVIOUS
  <2>3. PlacesIn(none, r) = {}  BY <1>5, <2>2 DEF PlacesIn
  <2>4. RunTold(none, "new", r, 0)  BY <2>3 DEF RunTold, NoneLogged
  <2>5. Fits("new", 0, 0, none)  BY <1>5 DEF Fits
  <2>6. Memorized({}, none, r, 0)  BY <1>5, <2>2 DEF Memorized
  <2>7. RunOK(none, "new", 0, none, {}, r)
    <3>1. 0 \in Nat  OBVIOUS
    <3> QED  BY <2>4, <2>5, <2>6, <3>1 DEF RunOK
  <2>8. Aimed(NoRuntime, NoRuntime, none)  BY <1>5, <2>2 DEF Aimed
  <2> QED  BY <1>1, <1>4, <2>1, <2>7, <2>8 DEF RunInv
<1> QED  BY <1>6, <1>7, <1>8 DEF AllRuns, LoopInv

LEMMA RunKeeps ==
  ASSUME AllRuns, NEW r \in Runs, RunGoesOn(r)
  PROVE  AllRuns' /\ Moves(r) /\ runState[r] \notin {"new", "returned", "threw"}
<1>1. AllRuns' /\ Moves(r)
  <2>1. CASE ContextBuilt(r)  BY <2>1, KeepsBuilt
  <2>2. CASE RunThrows(r)  BY <2>2, KeepsThrows
  <2>3. CASE Remembered(r)  BY <2>3, KeepsRemembered
  <2>4. CASE \E a \in Answers, t \in Runtimes \cup {NoRuntime} : ModelAnswers(r, a, t)
    BY <2>4, KeepsAnswers DEF Aims
  <2>5. CASE \E ok \in BOOLEAN : ToolEnds(r, ok)  BY <2>5, KeepsToolEnds
  <2> QED  BY <2>1, <2>2, <2>3, <2>4, <2>5 DEF RunGoesOn
<1>2. runState[r] \notin {"new", "returned", "threw"}
  BY DEF RunGoesOn, ContextBuilt, RunThrows, Remembered, ModelAnswers, ToolEnds
<1> QED  BY <1>1, <1>2

LEMMA RunsUntouched ==
  ASSUME AllRuns, UNCHANGED intentVars
  PROVE  AllRuns'
<1>1. /\ runState' = runState /\ runRound' = runRound /\ toolResults' = toolResults
      /\ affinity' = affinity /\ target' = target /\ targeted' = targeted
      /\ sessionLog' = sessionLog /\ memoryChunks' = memoryChunks
  BY DEF intentVars
<1>2. Shaped'  BY <1>1 DEF AllRuns, Shaped
<1>3. LoopTypeOK'  BY <1>1 DEF AllRuns, LoopInv, LoopTypeOK
<1>4. ASSUME NEW r \in Runs PROVE (RunInv(r) /\ Aimed(affinity[r], target[r], targeted[r]))'
  <2>1. RunInv(r) /\ Aimed(affinity[r], target[r], targeted[r])  BY DEF AllRuns, LoopInv
  <2> QED  BY <1>1, <2>1 DEF RunInv
<1> QED  BY <1>2, <1>3, <1>4 DEF AllRuns, LoopInv

LEMMA RunsSound ==
  ASSUME AllRuns
  PROVE  LoopSound
<1>1. sessionLog \in Seq(Records) /\ LoopTypeOK
  BY DEF AllRuns, LoopInv, LoopTypeOK, Records, LogTypes
<1>2. DOMAIN sessionLog = 1..Len(sessionLog)  BY <1>1, LenProperties
<1>3. ASSUME NEW r \in Runs
      PROVE  \E n \in Nat :
               /\ RunTold(sessionLog, runState[r], r, n)
               /\ Fits(runState[r], n, runRound[r], toolResults[r])
               /\ HasMemory => Memorized(memoryChunks, toolResults[r], r, n)
               /\ Cardinality(InLog(r)) = n
  <2>1. PICK n \in Nat : /\ RunTold(sessionLog, runState[r], r, n)
                         /\ Fits(runState[r], n, runRound[r], toolResults[r])
                         /\ HasMemory => Memorized(memoryChunks, toolResults[r], r, n)
    BY RunAsIs
  <2>2. InLog(r) = ToolsIn(sessionLog, r)  BY <1>2 DEF InLog, EntriesOf, ToolsIn, PlacesIn
  <2>3. CASE runState[r] = "new"
    <3>1. PlacesIn(sessionLog, r) = {} /\ n = 0  BY <2>1, <2>3 DEF RunTold, Fits, NoneLogged
    <3>2. InLog(r) = {}  BY <2>2, <3>1 DEF ToolsIn
    <3>3. Cardinality(InLog(r)) = 0  BY <3>2, FS_EmptySet
    <3> QED  BY <2>1, <3>1, <3>3
  <2>4. CASE runState[r] # "new"
    <3>1. Cardinality(ToolsIn(sessionLog, r)) = n
      BY <2>1, <2>4 DEF RunTold, OpenLogged, AllLogged, Counted
    <3> QED  BY <2>1, <2>2, <3>1
  <2> QED  BY <2>3, <2>4
<1>4. SessionTells
  <2> SUFFICES ASSUME NEW r \in Runs
               PROVE /\ runState[r] = "new" <=> EntriesOf(r) = {}
                     /\ \A k \in EntriesOf(r) :
                          sessionLog[k].type = (IF IsFirst(k, EntriesOf(r)) THEN "input"
                                                ELSE IF IsLast(k, EntriesOf(r)) /\ runState[r] = "returned" THEN "final"
                                                ELSE "tool")
                     /\ runState[r] = "returned" => Cardinality(EntriesOf(r)) = Len(toolResults[r]) + 2
                     /\ Len(toolResults[r]) - Cardinality(InLog(r)) \in
                          (IF runState[r] = "remembering" THEN {1}
                           ELSE IF runState[r] = "threw" THEN {0, 1} ELSE {0})
    BY DEF SessionTells
  <2>1. PICK n \in Nat : /\ RunTold(sessionLog, runState[r], r, n)
                         /\ Fits(runState[r], n, runRound[r], toolResults[r])
                         /\ Cardinality(InLog(r)) = n
    BY <1>3
  <2>2. EntriesOf(r) = PlacesIn(sessionLog, r)  BY <1>2 DEF EntriesOf, PlacesIn
  <2>3. runState[r] = "new" <=> EntriesOf(r) = {}
    BY <2>1, <2>2 DEF RunTold, NoneLogged, OpenLogged, AllLogged
  <2>4. \A k \in EntriesOf(r) :
          sessionLog[k].type = (IF IsFirst(k, EntriesOf(r)) THEN "input"
                                ELSE IF IsLast(k, EntriesOf(r)) /\ runState[r] = "returned" THEN "final"
                                ELSE "tool")
    <3>1. CASE runState[r] = "new"  BY <2>3, <3>1
    <3>2. CASE runState[r] = "returned"
      <4>1. TypesRight(sessionLog, EntriesOf(r), TRUE)  BY <2>1, <2>2, <3>2 DEF RunTold, AllLogged
      <4> QED  BY <3>2, <4>1 DEF TypesRight
    <3>3. CASE runState[r] \notin {"new", "returned"}
      <4>1. TypesRight(sessionLog, EntriesOf(r), FALSE)  BY <2>1, <2>2, <3>3 DEF RunTold, OpenLogged
      <4> QED  BY <3>3, <4>1 DEF TypesRight
    <3> QED  BY <3>1, <3>2, <3>3
  <2>5. runState[r] = "returned" => Cardinality(EntriesOf(r)) = Len(toolResults[r]) + 2
    BY <2>1, <2>2 DEF RunTold, AllLogged, Counted, Fits
  <2>6. Len(toolResults[r]) - Cardinality(InLog(r)) \in
          (IF runState[r] = "remembering" THEN {1} ELSE IF runState[r] = "threw" THEN {0, 1} ELSE {0})
    <3>1. PICK st, l, c : st = runState[r] /\ l = Len(toolResults[r]) /\ c = Cardinality(InLog(r))  OBVIOUS
    <3>2. l \in Nat /\ c = n  BY <2>1, <3>1, AsBefore
    <3>3. st \in RunStates  BY <1>1, <3>1 DEF LoopTypeOK, RunStates
    <3>4. /\ st \notin {"remembering", "threw"} => l = n
          /\ st = "remembering" => l = n + 1
          /\ st = "threw" => l \in {n, n + 1}
      BY <2>1, <3>1, <3>3 DEF Fits, RunStates
    <3>5. l - c \in (IF st = "remembering" THEN {1} ELSE IF st = "threw" THEN {0, 1} ELSE {0})
      BY <3>2, <3>4
    <3> QED  BY <3>1, <3>5
  <2> QED  BY <2>3, <2>4, <2>5, <2>6
<1>5. MemoryTells
  <2> SUFFICES ASSUME HasMemory, NEW r \in Runs
               PROVE {k \in 1..MaxRounds[r] : <<r, k>> \in memoryChunks}
                       = {k \in DOMAIN toolResults[r] : toolResults[r][k] /\ k <= Cardinality(InLog(r))}
    BY DEF MemoryTells
  <2>1. PICK n \in Nat : /\ Fits(runState[r], n, runRound[r], toolResults[r])
                         /\ Memorized(memoryChunks, toolResults[r], r, n)
                         /\ Cardinality(InLog(r)) = n
    BY <1>3
  <2>2. /\ toolResults[r] \in Seq(BOOLEAN) /\ Len(toolResults[r]) \in Nat
        /\ runRound[r] \in 0..MaxRounds[r] /\ MaxRounds[r] \in Nat /\ runRound[r] \in Nat
    BY AsBefore
  <2>3. DOMAIN toolResults[r] = 1..Len(toolResults[r])  BY <2>2, LenProperties
  <2>4. runState[r] \in RunStates  BY <1>1 DEF LoopTypeOK, RunStates
  <2>5. Len(toolResults[r]) <= runRound[r]  BY <2>1, <2>2, <2>4 DEF Fits, RunStates
  <2>6. Len(toolResults[r]) <= MaxRounds[r]  BY <2>2, <2>5
  <2>7. \A k \in Nat : <<r, k>> \in memoryChunks <=>
                         k \in 1..Len(toolResults[r]) /\ toolResults[r][k] /\ k <= n
    BY <2>1 DEF Memorized
  <2>8. \A k \in 1..Len(toolResults[r]) : k \in Nat /\ k \in 1..MaxRounds[r]  BY <2>2, <2>6
  <2>9. \A k \in 1..MaxRounds[r] : k \in Nat  BY <2>2
  <2> QED  BY <2>1, <2>3, <2>7, <2>8, <2>9
<1>6. RuntimeStays
  <2> SUFFICES ASSUME NEW r \in Runs, NEW i \in DOMAIN targeted[r], NEW j \in DOMAIN targeted[r],
                      i < j, targeted[r][i] # NoRuntime
               PROVE  targeted[r][j] = targeted[r][i]
    BY DEF RuntimeStays
  <2>1. Aimed(affinity[r], target[r], targeted[r])  BY DEF AllRuns, LoopInv
  <2>2. targeted[r] \in Seq(Aims)  BY AsBefore
  <2>3. DOMAIN targeted[r] = 1..Len(targeted[r])  BY <2>2, LenProperties
  <2> QED  BY <2>1, <2>3 DEF Aimed
<1> QED  BY <1>1, <1>4, <1>5, <1>6 DEF LoopSound

(***************************************************************************)
(* The teams.  n hops are done, and d of them were handed off.             *)
(***************************************************************************)
TeamOK(t, state, n, d, answer, first, second) ==
  /\ n \in Nat /\ d = n
  /\ state = "none" => n = 0 /\ answer = 0 /\ first = "new" /\ second = "new"
  /\ state = "running" =>
       /\ answer = 0
       /\ \/ n = 0 /\ first # "new" /\ second = "new"
          \/ n = 1 /\ Synthesizes(t) /\ first = "returned" /\ second # "new"
  /\ state = "completed" =>
       \/ n = 1 /\ answer = 1 /\ first = "returned" /\ second = "new"
       \/ n = 2 /\ answer = 2 /\ Synthesizes(t) /\ first = "returned" /\ second = "returned"
  /\ state = "failed" =>
       /\ answer = 0
       /\ \/ n = 0 /\ first = "threw" /\ second = "new"
          \/ n = 1 /\ Synthesizes(t) /\ first = "returned" /\ second = "threw"

TeamInv(t) ==
  TeamOK(t, teamStatus[t], Len(hops[t]), Len(handoffs[t]), finalAnswer[t], runState[<<t, 1>>], runState[<<t, 2>>])

OneHop(log) ==
  \A j, k \in 1..Len(log), t \in Teams : log[j].run = <<t, 1>> /\ log[k].run = <<t, 2>> => j < k

AgentsInv == AllRuns /\ TeamTypeOK /\ (\A t \in Teams : TeamInv(t)) /\ OneHop(sessionLog)

LEMMA TwoHops == \A t : <<t, 1>> # <<t, 2>>
<1> SUFFICES ASSUME NEW t, <<t, 1>> = <<t, 2>> PROVE FALSE  OBVIOUS
<1>1. <<t, 1>>[2] = 1 /\ <<t, 2>>[2] = 2  OBVIOUS
<1> QED  BY <1>1

(* m is log and entries of run r.                                          *)
Grown(log, m, r) ==
  /\ Len(log) \in Nat /\ Len(m) \in Nat /\ Len(log) <= Len(m)
  /\ \A k \in 1..Len(log) : m[k] = log[k]
  /\ \A k \in 1..Len(m) : k > Len(log) => m[k].run = r

LEMMA GrownByOne ==
  ASSUME NEW log, NEW m, NEW r, NEW type, OneEntryMore(log, m, r, type)
  PROVE  Grown(log, m, r)
<1>1. PICK n \in Nat : n = Len(log) /\ Len(m) = n + 1  BY DEF OneEntryMore
<1>2. m[n + 1].run = r /\ \A k \in 1..n : m[k] = log[k]  BY <1>1 DEF OneEntryMore, Entry
<1>3. \A k \in 1..n + 1 : k > n => k = n + 1  OBVIOUS
<1>4. n <= n + 1 /\ n + 1 \in Nat  OBVIOUS
<1> QED  BY <1>1, <1>2, <1>3, <1>4 DEF Grown

LEMMA LogGrows ==
  ASSUME NEW log \in Seq(Records), NEW m, NEW r, OnlyLogs(log, m, r)
  PROVE  Grown(log, m, r)
<1>1. CASE m = log
  <2>1. PICK n \in Nat : n = Len(log)  BY LenProperties
  <2>2. \A k \in 1..n : ~(k > n)  OBVIOUS
  <2>3. n <= n  OBVIOUS
  <2> QED  BY <1>1, <2>1, <2>2, <2>3 DEF Grown
<1>2. CASE \E type \in LogTypes : OneEntryMore(log, m, r, type)  BY <1>2, GrownByOne
<1>3. CASE \E mid, type, last : OneEntryMore(log, mid, r, type) /\ OneEntryMore(mid, m, r, last)
  <2>1. PICK mid, type, last : OneEntryMore(log, mid, r, type) /\ OneEntryMore(mid, m, r, last)  BY <1>3
  <2>2. Grown(log, mid, r) /\ Grown(mid, m, r)  BY <2>1, GrownByOne
  <2>3. PICK a, b, c \in Nat : a = Len(log) /\ b = Len(mid) /\ c = Len(m)  BY <2>2 DEF Grown
  <2>4. a <= b /\ b <= c  BY <2>2, <2>3 DEF Grown
  <2>5. \A k \in 1..a : k \in 1..b /\ m[k] = log[k]
    <3>1. \A k \in 1..a : k \in 1..b  BY <2>4
    <3> QED  BY <2>2, <2>3, <3>1 DEF Grown
  <2>6. ASSUME NEW k \in 1..c, k > a PROVE m[k].run = r
    <3>1. CASE k > b  BY <2>2, <2>3, <3>1 DEF Grown
    <3>2. CASE ~(k > b)
      <4>1. k \in 1..b  BY <3>2
      <4>2. m[k] = mid[k] /\ mid[k].run = r  BY <2>2, <2>3, <2>6, <4>1 DEF Grown
      <4> QED  BY <4>2
    <3> QED  BY <3>1, <3>2
  <2>7. a <= c  BY <2>4
  <2> QED  BY <2>3, <2>5, <2>6, <2>7 DEF Grown
<1> QED  BY <1>1, <1>2, <1>3 DEF OnlyLogs

LEMMA OneHopStays ==
  ASSUME NEW log, NEW m, NEW r, OneHop(log), Grown(log, m, r),
         \A t \in Teams : r = <<t, 1>> => NoneLogged(log, <<t, 2>>)
  PROVE  OneHop(m)
<1> SUFFICES ASSUME NEW j \in 1..Len(m), NEW k \in 1..Len(m), NEW t \in Teams,
                    m[j].run = <<t, 1>>, m[k].run = <<t, 2>>
             PROVE  j < k
  BY DEF OneHop
<1>1. PICK a, b \in Nat : a = Len(log) /\ b = Len(m) /\ a <= b  BY DEF Grown
<1>2. PICK one, two : one = <<t, 1>> /\ two = <<t, 2>> /\ one # two
  <2>1. <<t, 1>> # <<t, 2>>  BY TwoHops
  <2>2. PICK one, two : one = <<t, 1>> /\ two = <<t, 2>>  OBVIOUS
  <2>3. one # two  BY <2>1, <2>2
  <2> QED  BY <2>2, <2>3
<1>3. CASE k > a
  <2>1. r = two  BY <1>1, <1>2, <1>3 DEF Grown
  <2>2. ~(j > a)  BY <1>1, <1>2, <2>1 DEF Grown
  <2> QED  BY <1>1, <1>3, <2>2
<1>4. CASE ~(k > a)
  <2>1. k \in 1..a  BY <1>1, <1>4
  <2>2. log[k].run = two  BY <1>1, <1>2, <2>1 DEF Grown
  <2>3. CASE j > a
    <3>1. r = one  BY <1>1, <1>2, <2>3 DEF Grown
    <3>2. PlacesIn(log, two) = {}  BY <1>2, <3>1 DEF NoneLogged
    <3>3. k \in PlacesIn(log, two)  BY <1>1, <2>1, <2>2 DEF PlacesIn
    <3> QED  BY <3>2, <3>3
  <2>4. CASE ~(j > a)
    <3>1. j \in 1..a  BY <1>1, <2>4
    <3>2. log[j].run = one  BY <1>1, <1>2, <3>1 DEF Grown
    <3> QED  BY <1>1, <1>2, <2>1, <2>2, <3>1, <3>2 DEF OneHop
  <2> QED  BY <2>3, <2>4
<1> QED  BY <1>3, <1>4

(* The log when the run r takes a step, if its specialist is not to.       *)
LEMMA OneHopAfter ==
  ASSUME AgentsInv, NEW r \in Runs, Moves(r), \A t \in Teams : r = <<t, 1>> => runState[<<t, 2>>] = "new"
  PROVE  OneHop(sessionLog')
<1>1. PICK log, m : log = sessionLog /\ m = sessionLog'  OBVIOUS
<1>2. log \in Seq(Records)  BY <1>1 DEF AgentsInv, AllRuns, LoopInv, LoopTypeOK, Records, LogTypes
<1>3. OnlyLogs(log, m, r)  BY <1>1 DEF Moves
<1>4. Grown(log, m, r)  BY <1>2, <1>3, LogGrows
<1>5. ASSUME NEW t \in Teams, r = <<t, 1>> PROVE NoneLogged(log, <<t, 2>>)
  <2>1. PICK two : two = <<t, 2>>  OBVIOUS
  <2>2. two \in Runs /\ runState[two] = "new"  BY <1>5, <2>1, TeamAssumption
  <2>3. AllRuns  BY DEF AgentsInv
  <2>4. PICK n \in Nat : RunTold(sessionLog, runState[two], two, n)  BY <2>2, <2>3, RunAsIs
  <2> QED  BY <1>1, <2>1, <2>2, <2>4 DEF RunTold
<1>6. OneHop(log)  BY <1>1 DEF AgentsInv
<1>7. OneHop(m)  BY <1>4, <1>5, <1>6, OneHopStays
<1> QED  BY <1>1, <1>7

(* Where no team is, and where it is and its runs, after a step of run r.  *)
AfterStep(t, r, st) ==
  /\ runState'[<<t, 1>>] = IF r = <<t, 1>> THEN st ELSE runState[<<t, 1>>]
  /\ runState'[<<t, 2>>] = IF r = <<t, 2>> THEN st ELSE runState[<<t, 2>>]

LEMMA RunsOfTeam ==
  ASSUME AllRuns, NEW t \in Teams, NEW r \in Runs, NEW st, runState' = [runState EXCEPT ![r] = st]
  PROVE  AfterStep(t, r, st)
<1>1. runState \in [Runs -> RunStates]  BY DEF AllRuns, LoopInv, LoopTypeOK, RunStates
<1>2. <<t, 1>> \in Runs /\ <<t, 2>> \in Runs  BY TeamAssumption
<1>3. PICK one, two : one = <<t, 1>> /\ two = <<t, 2>> /\ one # two
  <2>1. <<t, 1>> # <<t, 2>>  BY TwoHops
  <2>2. PICK one, two : one = <<t, 1>> /\ two = <<t, 2>>  OBVIOUS
  <2>3. one # two  BY <2>1, <2>2
  <2> QED  BY <2>2, <2>3
<1>4. runState'[one] = IF r = one THEN st ELSE runState[one]  BY <1>1, <1>2, <1>3
<1>5. runState'[two] = IF r = two THEN st ELSE runState[two]  BY <1>1, <1>2, <1>3
<1> QED  BY <1>3, <1>4, <1>5 DEF AfterStep

LEMMA TeamGoesOn ==
  ASSUME NEW t, NEW state, NEW n, NEW d, NEW answer, NEW first, NEW second, NEW one, NEW two,
         TeamOK(t, state, n, d, answer, first, second),
         one = first \/ (first \notin {"new", "returned", "threw"} /\ one # "new"),
         two = second \/ (second \notin {"new", "returned", "threw"} /\ two # "new")
  PROVE  TeamOK(t, state, n, d, answer, one, two)
  BY DEF TeamOK

LEMMA TeamsAsRunGoesOn ==
  ASSUME AgentsInv, NEW r \in Runs, RunGoesOn(r), UNCHANGED teamVars
  PROVE  AgentsInv'
<1>1. AllRuns' /\ Moves(r) /\ runState[r] \notin {"new", "returned", "threw"}
  BY RunKeeps DEF AgentsInv
<1>2. PICK st \in RunStates \ {"new"} : runState' = [runState EXCEPT ![r] = st]  BY <1>1 DEF Moves
<1>3. /\ teamStatus' = teamStatus /\ hops' = hops /\ handoffs' = handoffs /\ finalAnswer' = finalAnswer
  BY DEF teamVars
<1>4. TeamTypeOK'  BY <1>3 DEF AgentsInv, TeamTypeOK
<1>5. ASSUME NEW t \in Teams PROVE TeamInv(t)' /\ (r = <<t, 1>> => runState[<<t, 2>>] = "new")
  <2>1. PICK s, n, d, a, first, second, one, two :
          /\ s = teamStatus[t] /\ n = Len(hops[t]) /\ d = Len(handoffs[t]) /\ a = finalAnswer[t]
          /\ first = runState[<<t, 1>>] /\ second = runState[<<t, 2>>]
          /\ one = runState'[<<t, 1>>] /\ two = runState'[<<t, 2>>]
    OBVIOUS
  <2>2. TeamOK(t, s, n, d, a, first, second)  BY <2>1 DEF AgentsInv, TeamInv
  <2>3. AllRuns  BY DEF AgentsInv
  <2>4. /\ one = IF r = <<t, 1>> THEN st ELSE first
        /\ two = IF r = <<t, 2>> THEN st ELSE second
    <3>1. /\ runState'[<<t, 1>>] = IF r = <<t, 1>> THEN st ELSE runState[<<t, 1>>]
          /\ runState'[<<t, 2>>] = IF r = <<t, 2>> THEN st ELSE runState[<<t, 2>>]
      BY <1>2, <2>3, RunsOfTeam DEF AfterStep
    <3> QED  BY <2>1, <3>1
  <2>5. one = first \/ (first \notin {"new", "returned", "threw"} /\ one # "new")  BY <1>1, <1>2, <2>1, <2>4
  <2>6. two = second \/ (second \notin {"new", "returned", "threw"} /\ two # "new")  BY <1>1, <1>2, <2>1, <2>4
  <2>7. TeamOK(t, s, n, d, a, one, two)  BY <2>2, <2>5, <2>6, TeamGoesOn
  <2>8. TeamInv(t)'  BY <1>3, <2>1, <2>7 DEF TeamInv
  <2>9. r = <<t, 1>> => second = "new"
    <3>1. s \in {"none", "running", "completed", "failed"}  BY <2>1 DEF AgentsInv, TeamTypeOK
    <3>2. r = <<t, 1>> => first \notin {"new", "returned", "threw"}  BY <1>1, <2>1
    <3> QED  BY <2>2, <3>1, <3>2 DEF TeamOK
  <2> QED  BY <2>1, <2>8, <2>9
<1>6. OneHop(sessionLog')  BY <1>1, <1>5, OneHopAfter
<1> QED  BY <1>1, <1>4, <1>5, <1>6 DEF AgentsInv

TeamStates == {"none", "running", "completed", "failed"}
Handed     == {"to specialist", "to supervisor"}

OtherTeamsRest(t) ==
  \A u \in Teams \ {t} : /\ runState'[<<u, 1>>] = runState[<<u, 1>>]
                         /\ runState'[<<u, 2>>] = runState[<<u, 2>>]

LEMMA OneTeamSteps ==
  ASSUME AgentsInv, NEW t \in Teams, AllRuns', OneHop(sessionLog'), OtherTeamsRest(t),
         NEW s \in TeamStates, teamStatus' = [teamStatus EXCEPT ![t] = s],
         NEW hs \in Seq(1..2), hops' = [hops EXCEPT ![t] = hs],
         NEW ds \in Seq(Handed), handoffs' = [handoffs EXCEPT ![t] = ds],
         NEW a \in 0..2, finalAnswer' = [finalAnswer EXCEPT ![t] = a],
         NEW one, one = runState'[<<t, 1>>], NEW two, two = runState'[<<t, 2>>],
         TeamOK(t, s, Len(hs), Len(ds), a, one, two)
  PROVE  AgentsInv'
<1>1. PICK H, D : H = Seq(1..2) /\ D = Seq(Handed)  OBVIOUS
<1>2. /\ teamStatus \in [Teams -> TeamStates] /\ hops \in [Teams -> H]
      /\ handoffs \in [Teams -> D] /\ finalAnswer \in [Teams -> 0..2]
  BY <1>1 DEF AgentsInv, TeamTypeOK, TeamStates, Handed
<1>3. /\ teamStatus' \in [Teams -> TeamStates] /\ hops' \in [Teams -> H]
      /\ handoffs' \in [Teams -> D] /\ finalAnswer' \in [Teams -> 0..2]
  BY <1>1, <1>2
<1>4. TeamTypeOK'  BY <1>1, <1>3 DEF TeamTypeOK, TeamStates, Handed
<1>5. ASSUME NEW u \in Teams PROVE TeamInv(u)'
  <2>1. CASE u = t
    <3>1. teamStatus'[t] = s /\ hops'[t] = hs /\ handoffs'[t] = ds /\ finalAnswer'[t] = a  BY <1>2
    <3> QED  BY <2>1, <3>1 DEF TeamInv
  <2>2. CASE u # t
    <3>1. /\ teamStatus'[u] = teamStatus[u] /\ hops'[u] = hops[u]
          /\ handoffs'[u] = handoffs[u] /\ finalAnswer'[u] = finalAnswer[u]
      BY <1>2, <2>2
    <3>2. runState'[<<u, 1>>] = runState[<<u, 1>>] /\ runState'[<<u, 2>>] = runState[<<u, 2>>]
      BY <2>2 DEF OtherTeamsRest
    <3>3. TeamInv(u)  BY DEF AgentsInv
    <3> QED  BY <3>1, <3>2, <3>3 DEF TeamInv
  <2> QED  BY <2>1, <2>2
<1> QED  BY <1>4, <1>5 DEF AgentsInv

LEMMA TeamsAsBefore ==
  ASSUME AgentsInv, NEW t \in Teams
  PROVE  /\ teamStatus = [teamStatus EXCEPT ![t] = teamStatus[t]] /\ teamStatus[t] \in TeamStates
         /\ hops = [hops EXCEPT ![t] = hops[t]] /\ hops[t] \in Seq(1..2)
         /\ handoffs = [handoffs EXCEPT ![t] = handoffs[t]] /\ handoffs[t] \in Seq(Handed)
         /\ finalAnswer = [finalAnswer EXCEPT ![t] = finalAnswer[t]] /\ finalAnswer[t] \in 0..2
         /\ <<t, 1>> \in Runs /\ <<t, 2>> \in Runs
<1>1. PICK H, D : H = Seq(1..2) /\ D = Seq(Handed)  OBVIOUS
<1>2. /\ teamStatus \in [Teams -> TeamStates] /\ hops \in [Teams -> H]
      /\ handoffs \in [Teams -> D] /\ finalAnswer \in [Teams -> 0..2]
  BY <1>1 DEF AgentsInv, TeamTypeOK, TeamStates, Handed
<1>3. <<t, 1>> \in Runs /\ <<t, 2>> \in Runs  BY TeamAssumption
<1>4. /\ teamStatus = [teamStatus EXCEPT ![t] = teamStatus[t]] /\ teamStatus[t] \in TeamStates
      /\ finalAnswer = [finalAnswer EXCEPT ![t] = finalAnswer[t]] /\ finalAnswer[t] \in 0..2
  BY <1>2
<1>5. /\ hops = [hops EXCEPT ![t] = hops[t]] /\ hops[t] \in H
      /\ handoffs = [handoffs EXCEPT ![t] = handoffs[t]] /\ handoffs[t] \in D
  BY <1>2
<1> QED  BY <1>1, <1>3, <1>4, <1>5

(* A hop of a team, and no other run of a team, takes a step.              *)
LEMMA HopMoves ==
  ASSUME AgentsInv, NEW t \in Teams, NEW h \in 1..2, Moves(<<t, h>>)
  PROVE  /\ OtherTeamsRest(t)
         /\ h = 1 => runState'[<<t, 1>>] # "new" /\ runState'[<<t, 2>>] = runState[<<t, 2>>]
         /\ h = 2 => runState'[<<t, 2>>] # "new" /\ runState'[<<t, 1>>] = runState[<<t, 1>>]
<1>1. PICK r : r = <<t, h>>  OBVIOUS
<1>2. r \in Runs
  <2>1. h = 1 \/ h = 2  OBVIOUS
  <2> QED  BY <1>1, <2>1, TeamsAsBefore
<1>3. PICK st \in RunStates \ {"new"} : runState' = [runState EXCEPT ![r] = st]  BY <1>1 DEF Moves
<1>4. AllRuns  BY DEF AgentsInv
<1>5. ASSUME NEW u \in Teams
      PROVE  /\ runState'[<<u, 1>>] = IF r = <<u, 1>> THEN st ELSE runState[<<u, 1>>]
             /\ runState'[<<u, 2>>] = IF r = <<u, 2>> THEN st ELSE runState[<<u, 2>>]
  <2>1. AfterStep(u, r, st)  BY <1>2, <1>3, <1>4, RunsOfTeam
  <2> QED  BY <2>1 DEF AfterStep
<1>6. ASSUME NEW u \in Teams \ {t} PROVE r # <<u, 1>> /\ r # <<u, 2>>
  <2>1. r[1] = t /\ <<u, 1>>[1] = u /\ <<u, 2>>[1] = u  BY <1>1
  <2> QED  BY <2>1
<1>7. OtherTeamsRest(t)  BY <1>5, <1>6 DEF OtherTeamsRest
<1>8. CASE h = 1
  <2>1. r = <<t, 1>> /\ r # <<t, 2>>
    <3>1. <<t, 1>> # <<t, 2>>  BY TwoHops
    <3> QED  BY <1>1, <1>8, <3>1
  <2> QED  BY <1>3, <1>5, <1>7, <1>8, <2>1
<1>9. CASE h = 2
  <2>1. r = <<t, 2>> /\ r # <<t, 1>>
    <3>1. <<t, 1>> # <<t, 2>>  BY TwoHops
    <3> QED  BY <1>1, <1>9, <3>1
  <2> QED  BY <1>3, <1>5, <1>7, <1>9, <2>1
<1> QED  BY <1>8, <1>9

LEMMA HopArrived ==
  ASSUME AgentsInv, NEW t \in Teams, NEW h \in 1..2, HopArrives(t, h), h = 1 => runState[<<t, 2>>] = "new"
  PROVE  AllRuns' /\ Moves(<<t, h>>) /\ OneHop(sessionLog')
<1>1. PICK r : r = <<t, h>>  OBVIOUS
<1>2. r \in Runs
  <2>1. h = 1 \/ h = 2  OBVIOUS
  <2> QED  BY <1>1, <2>1, TeamsAsBefore
<1>3. AllRuns /\ NoRuntime \in Aims  BY DEF AgentsInv, Aims
<1>4. RunArrives(r, NoRuntime, NoRuntime)  BY <1>1 DEF HopArrives
<1>5. AllRuns' /\ Moves(r)  BY <1>2, <1>3, <1>4, Arrived
<1>6. ASSUME NEW u \in Teams, r = <<u, 1>> PROVE runState[<<u, 2>>] = "new"
  <2>1. r[1] = t /\ r[2] = h /\ <<u, 1>>[1] = u /\ <<u, 1>>[2] = 1  BY <1>1
  <2> QED  BY <1>6, <2>1
<1>7. OneHop(sessionLog')  BY <1>2, <1>5, <1>6, OneHopAfter
<1> QED  BY <1>1, <1>5, <1>7

LEMMA StartKeeps ==
  ASSUME AgentsInv, NEW t \in Teams, TeamStarts(t)
  PROVE  AgentsInv'
<1>1. PICK hs, ds, a : hs = hops[t] /\ ds = handoffs[t] /\ a = finalAnswer[t]  OBVIOUS
<1>2. PICK one, two : one = runState'[<<t, 1>>] /\ two = runState'[<<t, 2>>]  OBVIOUS
<1>3. teamStatus[t] = "none" /\ HopArrives(t, 1)  BY DEF TeamStarts
<1>4. TeamInv(t)  BY DEF AgentsInv
<1>5. /\ Len(hs) = 0 /\ Len(ds) = 0 /\ a = 0 /\ runState[<<t, 2>>] = "new" /\ Len(hs) \in Nat
  BY <1>1, <1>3, <1>4 DEF TeamInv, TeamOK
<1>6. 1 \in 1..2  OBVIOUS
<1>7. AllRuns' /\ Moves(<<t, 1>>) /\ OneHop(sessionLog')  BY <1>3, <1>5, <1>6, HopArrived
<1>8. OtherTeamsRest(t) /\ one # "new" /\ two = "new"
  <2>1. /\ OtherTeamsRest(t)
        /\ 1 = 1 => runState'[<<t, 1>>] # "new" /\ runState'[<<t, 2>>] = runState[<<t, 2>>]
    BY <1>6, <1>7, HopMoves
  <2> QED  BY <1>2, <1>5, <2>1
<1>9. /\ hops = [hops EXCEPT ![t] = hs] /\ hs \in Seq(1..2)
      /\ handoffs = [handoffs EXCEPT ![t] = ds] /\ ds \in Seq(Handed)
      /\ finalAnswer = [finalAnswer EXCEPT ![t] = a] /\ a \in 0..2
  BY <1>1, TeamsAsBefore
<1>10. /\ teamStatus' = [teamStatus EXCEPT ![t] = "running"]
       /\ hops' = [hops EXCEPT ![t] = hs] /\ handoffs' = [handoffs EXCEPT ![t] = ds]
       /\ finalAnswer' = [finalAnswer EXCEPT ![t] = a]
  BY <1>9 DEF TeamStarts
<1>11. TeamOK(t, "running", Len(hs), Len(ds), a, one, two)  BY <1>5, <1>8 DEF TeamOK
<1>12. "running" \in TeamStates  BY DEF TeamStates
<1> QED  BY <1>2, <1>7, <1>8, <1>9, <1>10, <1>11, <1>12, OneTeamSteps

LEMMA HopAppended ==
  ASSUME NEW hs \in Seq(1..2), NEW h \in 1..2, NEW more, more = Append(hs, h)
  PROVE  more \in Seq(1..2) /\ Len(more) = Len(hs) + 1
<1>1. PICK S : S = 1..2  OBVIOUS
<1> QED  BY <1>1, AppendProperties

LEMMA HandoffAppended ==
  ASSUME NEW ds \in Seq(Handed), NEW d \in Handed, NEW more, more = Append(ds, d)
  PROVE  more \in Seq(Handed) /\ Len(more) = Len(ds) + 1
<1>1. PICK S : S = Handed  OBVIOUS
<1> QED  BY <1>1, AppendProperties

LEMMA RunsAndLogRest ==
  ASSUME AgentsInv, UNCHANGED intentVars, NEW t
  PROVE  /\ AllRuns' /\ OneHop(sessionLog') /\ OtherTeamsRest(t)
         /\ runState'[<<t, 1>>] = runState[<<t, 1>>] /\ runState'[<<t, 2>>] = runState[<<t, 2>>]
<1>1. AllRuns'  BY RunsUntouched DEF AgentsInv
<1>2. runState' = runState /\ sessionLog' = sessionLog  BY DEF intentVars
<1>3. OneHop(sessionLog')  BY <1>2 DEF AgentsInv
<1> QED  BY <1>1, <1>2, <1>3 DEF OtherTeamsRest

LEMMA SpecialistKeeps ==
  ASSUME AgentsInv, NEW t \in Teams, SpecialistDone(t)
  PROVE  AgentsInv'
<1>1. PICK hs, ds, a : hs = hops[t] /\ ds = handoffs[t] /\ a = finalAnswer[t]  OBVIOUS
<1>2. PICK one, two : one = runState'[<<t, 1>>] /\ two = runState'[<<t, 2>>]  OBVIOUS
<1>3. PICK hm, dm : hm = Append(hs, 1) /\ dm = Append(ds, "to specialist")  OBVIOUS
<1>4. teamStatus[t] = "running" /\ Len(hs) = 1 - 1 /\ runState[<<t, 1>>] = "returned"
  BY <1>1 DEF SpecialistDone, HopDone
<1>5. TeamInv(t)  BY DEF AgentsInv
<1>6. Len(hs) = 0 /\ Len(ds) = 0 /\ a = 0 /\ runState[<<t, 2>>] = "new"
  BY <1>1, <1>4, <1>5 DEF TeamInv, TeamOK
<1>7. /\ teamStatus = [teamStatus EXCEPT ![t] = "running"]
      /\ hs \in Seq(1..2) /\ ds \in Seq(Handed) /\ a \in 0..2
      /\ finalAnswer = [finalAnswer EXCEPT ![t] = a]
  BY <1>1, <1>4, TeamsAsBefore
<1>8. hm \in Seq(1..2) /\ Len(hm) = 1
  <2>1. 1 \in 1..2  OBVIOUS
  <2>2. hm \in Seq(1..2) /\ Len(hm) = Len(hs) + 1  BY <1>3, <1>7, <2>1, HopAppended
  <2> QED  BY <1>6, <2>2
<1>9. dm \in Seq(Handed) /\ Len(dm) = 1
  <2>1. "to specialist" \in Handed  BY DEF Handed
  <2>2. dm \in Seq(Handed) /\ Len(dm) = Len(ds) + 1  BY <1>3, <1>7, <2>1, HandoffAppended
  <2> QED  BY <1>6, <2>2
<1>10. hops' = [hops EXCEPT ![t] = hm] /\ handoffs' = [handoffs EXCEPT ![t] = dm]
  BY <1>1, <1>3 DEF SpecialistDone, HopDone
<1>11. 1 \in 1..2 /\ 2 \in 1..2 /\ 1 \in 0..2  OBVIOUS
<1>12. "running" \in TeamStates /\ "completed" \in TeamStates  BY DEF TeamStates
<1>13. CASE Synthesizes(t)
  <2>1. HopArrives(t, 2) /\ teamStatus' = teamStatus /\ finalAnswer' = finalAnswer
    BY <1>13 DEF SpecialistDone
  <2>2. 2 = 1 => runState[<<t, 2>>] = "new"  OBVIOUS
  <2>3. AllRuns' /\ Moves(<<t, 2>>) /\ OneHop(sessionLog')  BY <1>11, <2>1, <2>2, HopArrived
  <2>4. OtherTeamsRest(t) /\ two # "new" /\ one = "returned"
    <3>1. /\ OtherTeamsRest(t)
          /\ 2 = 2 => runState'[<<t, 2>>] # "new" /\ runState'[<<t, 1>>] = runState[<<t, 1>>]
      BY <1>11, <2>3, HopMoves
    <3> QED  BY <1>2, <1>4, <3>1
  <2>5. TeamOK(t, "running", Len(hm), Len(dm), a, one, two)  BY <1>6, <1>8, <1>9, <1>13, <2>4 DEF TeamOK
  <2>6. teamStatus' = [teamStatus EXCEPT ![t] = "running"] /\ finalAnswer' = [finalAnswer EXCEPT ![t] = a]
    BY <1>7, <2>1
  <2> QED  BY <1>2, <1>7, <1>8, <1>9, <1>10, <1>12, <2>3, <2>4, <2>5, <2>6, OneTeamSteps
<1>14. CASE ~Synthesizes(t)
  <2>1. Completes(t, 1)  BY <1>14 DEF SpecialistDone
  <2>2. /\ finalAnswer' = [finalAnswer EXCEPT ![t] = 1]
        /\ teamStatus' = [teamStatus EXCEPT ![t] = "completed"] /\ UNCHANGED intentVars
    BY <2>1 DEF Completes
  <2>3. /\ AllRuns' /\ OneHop(sessionLog') /\ OtherTeamsRest(t)
        /\ runState'[<<t, 1>>] = runState[<<t, 1>>] /\ runState'[<<t, 2>>] = runState[<<t, 2>>]
    BY <2>2, RunsAndLogRest
  <2>4. one = "returned" /\ two = "new"  BY <1>2, <1>4, <1>6, <2>3
  <2>5. TeamOK(t, "completed", Len(hm), Len(dm), 1, one, two)  BY <1>8, <1>9, <2>4 DEF TeamOK
  <2> QED  BY <1>2, <1>8, <1>9, <1>10, <1>11, <1>12, <2>2, <2>3, <2>5, OneTeamSteps
<1> QED  BY <1>13, <1>14

LEMMA SupervisorKeeps ==
  ASSUME AgentsInv, NEW t \in Teams, SupervisorDone(t)
  PROVE  AgentsInv'
<1>1. PICK hs, ds : hs = hops[t] /\ ds = handoffs[t]  OBVIOUS
<1>2. PICK one, two : one = runState'[<<t, 1>>] /\ two = runState'[<<t, 2>>]  OBVIOUS
<1>3. PICK hm, dm : hm = Append(hs, 2) /\ dm = Append(ds, "to supervisor")  OBVIOUS
<1>4. teamStatus[t] = "running" /\ Len(hs) = 2 - 1 /\ runState[<<t, 2>>] = "returned"
  BY <1>1 DEF SupervisorDone, HopDone
<1>5. TeamInv(t)  BY DEF AgentsInv
<1>6. Len(hs) = 1 /\ Len(ds) = 1 /\ Synthesizes(t) /\ runState[<<t, 1>>] = "returned"
  BY <1>1, <1>4, <1>5 DEF TeamInv, TeamOK
<1>7. hs \in Seq(1..2) /\ ds \in Seq(Handed)  BY <1>1, TeamsAsBefore
<1>8. hm \in Seq(1..2) /\ Len(hm) = 2
  <2>1. 2 \in 1..2  OBVIOUS
  <2>2. hm \in Seq(1..2) /\ Len(hm) = Len(hs) + 1  BY <1>3, <1>7, <2>1, HopAppended
  <2> QED  BY <1>6, <2>2
<1>9. dm \in Seq(Handed) /\ Len(dm) = 2
  <2>1. "to supervisor" \in Handed  BY DEF Handed
  <2>2. dm \in Seq(Handed) /\ Len(dm) = Len(ds) + 1  BY <1>3, <1>7, <2>1, HandoffAppended
  <2> QED  BY <1>6, <2>2
<1>10. /\ hops' = [hops EXCEPT ![t] = hm] /\ handoffs' = [handoffs EXCEPT ![t] = dm]
       /\ finalAnswer' = [finalAnswer EXCEPT ![t] = 2]
       /\ teamStatus' = [teamStatus EXCEPT ![t] = "completed"] /\ UNCHANGED intentVars
  BY <1>1, <1>3 DEF SupervisorDone, HopDone, Completes
<1>11. 2 \in 0..2 /\ "completed" \in TeamStates  BY DEF TeamStates
<1>12. /\ AllRuns' /\ OneHop(sessionLog') /\ OtherTeamsRest(t)
       /\ runState'[<<t, 1>>] = runState[<<t, 1>>] /\ runState'[<<t, 2>>] = runState[<<t, 2>>]
  BY <1>10, RunsAndLogRest
<1>13. one = "returned" /\ two = "returned"  BY <1>2, <1>4, <1>6, <1>12
<1>14. TeamOK(t, "completed", Len(hm), Len(dm), 2, one, two)  BY <1>6, <1>8, <1>9, <1>13 DEF TeamOK
<1> QED  BY <1>2, <1>8, <1>9, <1>10, <1>11, <1>12, <1>14, OneTeamSteps

LEMMA ThrowKeeps ==
  ASSUME AgentsInv, NEW t \in Teams, HopThrows(t)
  PROVE  AgentsInv'
<1>1. PICK hs, ds, a : hs = hops[t] /\ ds = handoffs[t] /\ a = finalAnswer[t]  OBVIOUS
<1>2. PICK one, two : one = runState'[<<t, 1>>] /\ two = runState'[<<t, 2>>]  OBVIOUS
<1>3. teamStatus[t] = "running" /\ runState[<<t, Len(hs) + 1>>] = "threw"
  BY <1>1 DEF HopThrows
<1>4. TeamOK(t, "running", Len(hs), Len(ds), a, runState[<<t, 1>>], runState[<<t, 2>>])
  BY <1>1, <1>3 DEF AgentsInv, TeamInv
<1>5. /\ hops = [hops EXCEPT ![t] = hs] /\ hs \in Seq(1..2)
      /\ handoffs = [handoffs EXCEPT ![t] = ds] /\ ds \in Seq(Handed)
      /\ finalAnswer = [finalAnswer EXCEPT ![t] = a] /\ a \in 0..2
  BY <1>1, TeamsAsBefore
<1>6. /\ teamStatus' = [teamStatus EXCEPT ![t] = "failed"] /\ UNCHANGED intentVars
      /\ hops' = [hops EXCEPT ![t] = hs] /\ handoffs' = [handoffs EXCEPT ![t] = ds]
      /\ finalAnswer' = [finalAnswer EXCEPT ![t] = a]
  BY <1>5 DEF HopThrows, Failed
<1>7. /\ AllRuns' /\ OneHop(sessionLog') /\ OtherTeamsRest(t)
      /\ runState'[<<t, 1>>] = runState[<<t, 1>>] /\ runState'[<<t, 2>>] = runState[<<t, 2>>]
  BY <1>6, RunsAndLogRest
<1>8. TeamOK(t, "failed", Len(hs), Len(ds), a, one, two)
  <2>1. PICK first, second : first = runState[<<t, 1>>] /\ second = runState[<<t, 2>>]  OBVIOUS
  <2>2. one = first /\ two = second  BY <1>2, <1>7, <2>1
  <2>3. CASE Len(hs) = 0
    <3>1. first = "threw"
      <4>1. Len(hs) + 1 = 1  BY <2>3
      <4> QED  BY <1>3, <2>1, <4>1
    <3> QED  BY <1>4, <2>1, <2>2, <2>3, <3>1 DEF TeamOK
  <2>4. CASE Len(hs) = 1
    <3>1. second = "threw"
      <4>1. Len(hs) + 1 = 2  BY <2>4
      <4> QED  BY <1>3, <2>1, <4>1
    <3> QED  BY <1>4, <2>1, <2>2, <2>4, <3>1 DEF TeamOK
  <2> QED  BY <1>4, <2>3, <2>4 DEF TeamOK
<1>9. "failed" \in TeamStates  BY DEF TeamStates
<1> QED  BY <1>2, <1>5, <1>6, <1>7, <1>8, <1>9, OneTeamSteps

LEMMA OthersArrive ==
  ASSUME AgentsInv, NEW r \in Runs \ OfTeams, NEW named \in Aims, NEW aimed \in Aims,
         RunArrives(r, named, aimed), UNCHANGED teamVars
  PROVE  AgentsInv'
<1>1. AllRuns  BY DEF AgentsInv
<1>2. AllRuns' /\ Moves(r)  BY <1>1, Arrived
<1>3. PICK st \in RunStates \ {"new"} : runState' = [runState EXCEPT ![r] = st]  BY <1>2 DEF Moves
<1>4. /\ teamStatus' = teamStatus /\ hops' = hops /\ handoffs' = handoffs /\ finalAnswer' = finalAnswer
  BY DEF teamVars
<1>5. TeamTypeOK'  BY <1>4 DEF AgentsInv, TeamTypeOK
<1>6. ASSUME NEW t \in Teams PROVE r # <<t, 1>> /\ r # <<t, 2>>  BY DEF OfTeams
<1>7. ASSUME NEW t \in Teams PROVE TeamInv(t)'
  <2>1. /\ runState'[<<t, 1>>] = IF r = <<t, 1>> THEN st ELSE runState[<<t, 1>>]
        /\ runState'[<<t, 2>>] = IF r = <<t, 2>> THEN st ELSE runState[<<t, 2>>]
    <3>1. r \in Runs  OBVIOUS
    <3>2. AfterStep(t, r, st)  BY <1>1, <1>3, <3>1, RunsOfTeam
    <3> QED  BY <3>2 DEF AfterStep
  <2>2. runState'[<<t, 1>>] = runState[<<t, 1>>] /\ runState'[<<t, 2>>] = runState[<<t, 2>>]  BY <1>6, <2>1
  <2>3. TeamInv(t)  BY DEF AgentsInv
  <2> QED  BY <1>4, <2>2, <2>3 DEF TeamInv
<1>8. \A t \in Teams : r = <<t, 1>> => runState[<<t, 2>>] = "new"  BY <1>6
<1>9. OneHop(sessionLog')  BY <1>2, <1>8, OneHopAfter
<1> QED  BY <1>2, <1>5, <1>7, <1>9 DEF AgentsInv

LEMMA AgentsKeep ==
  ASSUME AgentsInv, [AgentsNext]_agentVars
  PROVE  AgentsInv'
<1>1. ASSUME NEW r \in Runs, RunGoesOn(r), UNCHANGED teamVars PROVE AgentsInv'  BY <1>1, TeamsAsRunGoesOn
<1>2. ASSUME NEW t \in Teams, SpecialistDone(t) PROVE AgentsInv'  BY <1>2, SpecialistKeeps
<1>3. ASSUME NEW t \in Teams, SupervisorDone(t) PROVE AgentsInv'  BY <1>3, SupervisorKeeps
<1>4. ASSUME NEW t \in Teams, HopThrows(t) PROVE AgentsInv'  BY <1>4, ThrowKeeps
<1>5. ASSUME NEW t \in Teams, TeamStarts(t) PROVE AgentsInv'  BY <1>5, StartKeeps
<1>6. ASSUME NEW r \in Runs \ OfTeams, NEW t \in Runtimes \cup {NoRuntime}, NEW u \in Runtimes \cup {NoRuntime},
             RunArrives(r, t, u), UNCHANGED teamVars
      PROVE  AgentsInv'
  BY <1>6, OthersArrive DEF Aims
<1>7. CASE UNCHANGED agentVars
  <2>1. UNCHANGED intentVars /\ UNCHANGED teamVars  BY <1>7 DEF agentVars
  <2>2. AllRuns'  BY <2>1, RunsUntouched DEF AgentsInv
  <2>3. /\ teamStatus' = teamStatus /\ hops' = hops /\ handoffs' = handoffs /\ finalAnswer' = finalAnswer
        /\ runState' = runState /\ sessionLog' = sessionLog
    BY <2>1 DEF teamVars, intentVars
  <2>4. TeamTypeOK'  BY <2>3 DEF AgentsInv, TeamTypeOK
  <2>5. ASSUME NEW t \in Teams PROVE TeamInv(t)'
    <3>1. TeamInv(t)  BY DEF AgentsInv
    <3> QED  BY <2>3, <3>1 DEF TeamInv
  <2>6. OneHop(sessionLog')  BY <2>3 DEF AgentsInv
  <2> QED  BY <2>2, <2>4, <2>5, <2>6 DEF AgentsInv
<1> QED  BY <1>1, <1>2, <1>3, <1>4, <1>5, <1>6, <1>7 DEF AgentsNext, AgentsGoOn

LEMMA AgentsStart == AgentsInit => AgentsInv
<1> SUFFICES ASSUME AgentsInit PROVE AgentsInv  OBVIOUS
<1>1. AllRuns  BY RunsStart DEF AgentsInit
<1>2. /\ teamStatus = [t \in Teams |-> "none"] /\ hops = [t \in Teams |-> <<>>]
      /\ handoffs = [t \in Teams |-> <<>>] /\ finalAnswer = [t \in Teams |-> 0]
      /\ runState = [r \in Runs |-> "new"] /\ sessionLog = <<>>
  BY DEF AgentsInit, LoopInit
<1>3. PICK none : none = <<>>  OBVIOUS
<1>4. (\A S : none \in Seq(S)) /\ Len(none) = 0
  <2>1. \A S : <<>> \in Seq(S) /\ Len(<<>>) = 0  BY EmptySeq
  <2> QED  BY <1>3, <2>1
<1>5. TeamTypeOK
  <2>1. PICK H, D : H = Seq(1..2) /\ D = Seq(Handed)  OBVIOUS
  <2>2. none \in H /\ none \in D  BY <1>4, <2>1
  <2>3. hops \in [Teams -> H] /\ handoffs \in [Teams -> D]  BY <1>2, <1>3, <2>2
  <2>4. teamStatus \in [Teams -> TeamStates] /\ finalAnswer \in [Teams -> 0..2]  BY <1>2 DEF TeamStates
  <2> QED  BY <2>1, <2>3, <2>4 DEF TeamTypeOK, TeamStates, Handed
<1>6. ASSUME NEW t \in Teams PROVE TeamInv(t)
  <2>1. <<t, 1>> \in Runs /\ <<t, 2>> \in Runs  BY TeamAssumption
  <2>2. /\ teamStatus[t] = "none" /\ hops[t] = none /\ handoffs[t] = none /\ finalAnswer[t] = 0
        /\ runState[<<t, 1>>] = "new" /\ runState[<<t, 2>>] = "new"
    BY <1>2, <1>3, <2>1
  <2> QED  BY <1>4, <2>2 DEF TeamInv, TeamOK
<1>7. OneHop(sessionLog)
  <2>1. \A i \in 1..0 : FALSE  OBVIOUS
  <2>2. OneHop(none)  BY <1>4, <2>1 DEF OneHop
  <2> QED  BY <1>2, <1>3, <2>2
<1> QED  BY <1>1, <1>5, <1>6, <1>7 DEF AgentsInv

LEMMA AgentsAreSound ==
  ASSUME AgentsInv
  PROVE  AgentsSound
<1>1. LoopSound /\ TeamTypeOK  BY RunsSound DEF AgentsInv
<1>2. OneHopAtATime
  <2>1. sessionLog \in Seq(Records)
    BY DEF AgentsInv, AllRuns, LoopInv, LoopTypeOK, Records, LogTypes
  <2>2. DOMAIN sessionLog = 1..Len(sessionLog)  BY <2>1, LenProperties
  <2>3. OneHop(sessionLog)  BY DEF AgentsInv
  <2> QED  BY <2>2, <2>3 DEF OneHop, OneHopAtATime
<1>3. ASSUME NEW t \in Teams
      PROVE  /\ Len(hops[t]) <= (IF t \in Alone THEN 1 ELSE MaxHops[t])
             /\ Len(handoffs[t]) = Len(hops[t])
             /\ teamStatus[t] = "completed" <=> finalAnswer[t] # 0
             /\ finalAnswer[t] # 0 => finalAnswer[t] = Len(hops[t]) /\ Cardinality(BegunHops(t)) = finalAnswer[t]
             /\ teamStatus[t] \in {"completed", "failed"} =>
                  \A h \in BegunHops(t) : runState[<<t, h>>] \in {"returned", "threw"}
  <2>1. PICK s, n, d, a, first, second :
          /\ s = teamStatus[t] /\ n = Len(hops[t]) /\ d = Len(handoffs[t]) /\ a = finalAnswer[t]
          /\ first = runState[<<t, 1>>] /\ second = runState[<<t, 2>>]
    OBVIOUS
  <2>2. TeamOK(t, s, n, d, a, first, second)  BY <2>1 DEF AgentsInv, TeamInv
  <2>3. s \in TeamStates  BY <2>1 DEF AgentsInv, TeamTypeOK, TeamStates
  <2>4. MaxHops[t] \in 1..2  BY TeamAssumption
  <2>5. n <= (IF t \in Alone THEN 1 ELSE MaxHops[t])
    <3>1. n <= 1 \/ (n = 2 /\ Synthesizes(t))  BY <2>2, <2>3 DEF TeamOK, TeamStates
    <3> QED  BY <2>4, <3>1, <2>2 DEF Synthesizes, TeamOK
  <2>6. s = "completed" <=> a # 0  BY <2>2, <2>3 DEF TeamOK, TeamStates
  <2>7. \A h \in 1..2 : h = 1 \/ h = 2  OBVIOUS
  <2>8. ASSUME s = "completed" PROVE a = n /\ Cardinality(BegunHops(t)) = a
    <3>1. CASE n = 1 /\ a = 1 /\ first = "returned" /\ second = "new"
      <4>1. BegunHops(t) = {1}
        <5>1. runState[<<t, 1>>] # "new" /\ ~(runState[<<t, 2>>] # "new")  BY <2>1, <3>1
        <5>2. 1 \in 1..2  OBVIOUS
        <5> QED  BY <2>7, <5>1, <5>2, Zenon DEF BegunHops
      <4>2. Cardinality({1}) = 1  BY FS_Singleton
      <4> QED  BY <3>1, <4>1, <4>2
    <3>2. CASE n = 2 /\ a = 2 /\ first = "returned" /\ second = "returned"
      <4>1. BegunHops(t) = {1} \cup {2}
        <5>1. runState[<<t, 1>>] # "new" /\ runState[<<t, 2>>] # "new"  BY <2>1, <3>2
        <5>2. 1 \in 1..2 /\ 2 \in 1..2  OBVIOUS
        <5> QED  BY <2>7, <5>1, <5>2, Zenon DEF BegunHops
      <4>2. IsFiniteSet({1}) /\ Cardinality({1}) = 1   BY FS_Singleton
      <4>4. 2 \notin {1}  OBVIOUS
      <4>3. Cardinality({1} \cup {2}) = 2  BY <4>2, <4>4, FS_AddElement
      <4> QED  BY <3>2, <4>1, <4>3
    <3> QED  BY <2>2, <2>8, <3>1, <3>2 DEF TeamOK
  <2>9. ASSUME s \in {"completed", "failed"}, NEW h \in BegunHops(t)
        PROVE  runState[<<t, h>>] \in {"returned", "threw"}
    <3>1. (h = 1 \/ h = 2) /\ runState[<<t, h>>] # "new"  BY <2>7 DEF BegunHops
    <3>2. CASE h = 1
      <4>1. first # "new"  BY <2>1, <3>1, <3>2
      <4>2. first \in {"returned", "threw"}  BY <2>2, <2>9, <4>1 DEF TeamOK
      <4> QED  BY <2>1, <3>2, <4>2
    <3>3. CASE h = 2
      <4>1. second # "new"  BY <2>1, <3>1, <3>3
      <4>2. second \in {"returned", "threw"}  BY <2>2, <2>9, <4>1 DEF TeamOK
      <4> QED  BY <2>1, <3>3, <4>2
    <3> QED  BY <3>1, <3>2, <3>3
  <2>10. d = n  BY <2>2 DEF TeamOK
  <2> QED  BY <2>1, <2>5, <2>6, <2>8, <2>9, <2>10
<1>4. TeamsTell  BY <1>3 DEF TeamsTell
<1> QED  BY <1>1, <1>2, <1>4 DEF AgentsSound

(* However the runs and the teams of one session interleave, and whoever   *)
(* throws: what they leave in the session, the memory and the record of    *)
(* the team is what they did (AgentsSound), for any runs, teams, tools and *)
(* numbers of rounds.                                                      *)
THEOREM AgentsCorrect == AgentsSpec => []AgentsSound
<1>1. AgentsInit => AgentsInv  BY AgentsStart
<1>2. AgentsInv /\ [AgentsNext]_agentVars => AgentsInv'  BY AgentsKeep
<1>3. AgentsInv => AgentsSound  BY AgentsAreSound
<1> QED  BY <1>1, <1>2, <1>3, PTL DEF AgentsSpec

-----------------------------------------------------------------------------
(* The native core: whatever starts, stops, dies, answers or runs out of   *)
(* time in whatever order, the manager knows its one process, its queue    *)
(* and its starts.                                                         *)
USE CoreAssumption

(* Only a process that was spawned writes.                                 *)
PipesAreStarted == \A c \in pipes : core[c] # "none"

(* A buffer holds tokens that were read from the pipe.                     *)
BufferedWereMade == \A s \in Streaming : buffered[s] <= made[s]

(* A start that is open in spite of a ready core met another core's line.  *)
ReadyOverheard == isReady => \A c \in Cores : startCall[c] = "open" => c \in overheard

CoreInv == CoreSound /\ PipesAreStarted /\ BufferedWereMade /\ ReadyOverheard

-----------------------------------------------------------------------------
LEMMA CoreTypeStep ==
  CoreTypeOK /\ BufferedWereMade /\ [CoreNext]_coreVars => CoreTypeOK' /\ BufferedWereMade'
<1> SUFFICES ASSUME CoreTypeOK, BufferedWereMade, [CoreNext]_coreVars
             PROVE  CoreTypeOK' /\ BufferedWereMade'
  OBVIOUS
<1>0. \A promise \in Promise, end \in Promise : Settles(promise, end) \in Promise
  BY DEF Settles
<1> USE DEF CoreTypeOK, BufferedWereMade, processPart, streamPart, askPart
<1>1. ASSUME NEW c \in Cores, StartCore(c) PROVE CoreTypeOK' /\ BufferedWereMade'
  BY <1>1 DEF StartCore, Promise
<1>2. ASSUME NEW c \in Cores, ReadyLine(c) PROVE CoreTypeOK' /\ BufferedWereMade'
  <2>1. startCall' \in [Cores -> Promise] /\ switch' \in [Switching -> Promise]
    BY <1>0, <1>2 DEF ReadyLine, Promise
  <2>2. QED
    BY <1>2, <2>1 DEF ReadyLine
<1>3. ASSUME NEW c \in Cores, StartTimeout(c) PROVE CoreTypeOK' /\ BufferedWereMade'
  <2>1. startCall' \in [Cores -> Promise]
    BY <1>0, <1>3 DEF StartTimeout, Promise
  <2>2. QED
    BY <1>3, <2>1 DEF StartTimeout
<1>4. ASSUME NEW c \in Cores, Dies(c) PROVE CoreTypeOK' /\ BufferedWereMade'
  BY <1>4 DEF Dies
<1>5. ASSUME NEW c \in Cores, CoreExitHeard(c) PROVE CoreTypeOK' /\ BufferedWereMade'
  <2>1. stopCall' \in [Stopping -> Promise]
    BY <1>0, <1>5 DEF CoreExitHeard, Promise
  <2>2. QED
    BY <1>5, <2>1 DEF CoreExitHeard, ReadyAfterExit
<1>6. ASSUME NEW c \in Cores, PipesClose(c) PROVE CoreTypeOK' /\ BufferedWereMade'
  BY <1>6 DEF PipesClose
<1>7. ASSUME NEW r \in Inferring, Infer(r) PROVE CoreTypeOK' /\ BufferedWereMade'
  BY <1>7 DEF Infer, Asks, Users, Promise
<1>8. ASSUME NEW r \in Inferring, NEW end \in {"resolved", "rejected"}, InferenceAnswered(r, end)
      PROVE  CoreTypeOK' /\ BufferedWereMade'
  <2>1. request' \in [Inferring -> Promise]
    BY <1>0, <1>8 DEF InferenceAnswered, Promise
  <2>2. QED
    BY <1>8, <2>1 DEF InferenceAnswered, HandlerGone
<1>9. ASSUME NEW r \in Inferring, InferenceTimeout(r) PROVE CoreTypeOK' /\ BufferedWereMade'
  BY <1>9 DEF InferenceTimeout, Forgotten, Promise
<1>10. ASSUME NEW s \in Streaming, OpenStream(s) PROVE CoreTypeOK' /\ BufferedWereMade'
  BY <1>10 DEF OpenStream, Asks, Users
<1>11. ASSUME NEW s \in Streaming, TokenArrives(s) PROVE CoreTypeOK' /\ BufferedWereMade'
  BY <1>11 DEF TokenArrives
<1>12. ASSUME NEW s \in Streaming, PollPauseOver(s) PROVE CoreTypeOK' /\ BufferedWereMade'
  BY <1>12 DEF PollPauseOver
<1>13. ASSUME NEW s \in Streaming, ConsumerGoesOn(s) PROVE CoreTypeOK' /\ BufferedWereMade'
  BY <1>13 DEF ConsumerGoesOn
<1>14. ASSUME NEW w \in Switching, SwitchModel(w) PROVE CoreTypeOK' /\ BufferedWereMade'
  BY <1>14 DEF SwitchModel, Asks, Users, Promise
<1>15. ASSUME NEW w \in Switching, SwitchTimeout(w) PROVE CoreTypeOK' /\ BufferedWereMade'
  BY <1>15 DEF SwitchTimeout, Promise
<1>16. ASSUME NEW k \in Stopping, StopCore(k) PROVE CoreTypeOK' /\ BufferedWereMade'
  BY <1>16 DEF StopCore, Asks, Users, Promise
<1>17. ASSUME NEW k \in Stopping, StopTimeout(k) PROVE CoreTypeOK' /\ BufferedWereMade'
  BY <1>17 DEF StopTimeout, Promise
<1>18. CASE UNCHANGED coreVars
  BY <1>18 DEF coreVars
<1>19. QED
  BY <1>1, <1>2, <1>3, <1>4, <1>5, <1>6, <1>7, <1>8, <1>9, <1>10, <1>11, <1>12, <1>13, <1>14,
     <1>15, <1>16, <1>17, <1>18 DEF CoreNext, CoreTimer, StreamGoesOn

-----------------------------------------------------------------------------
(* What the manager knows of its process, moved by five steps.             *)
ProcessKnown ==
  OneCore /\ ReadyHasProcess /\ StartIsSettled /\ PipesAreStarted /\ ReadyOverheard

LEMMA ProcessStep == CoreTypeOK /\ ProcessKnown /\ [CoreNext]_coreVars => ProcessKnown'
<1> SUFFICES ASSUME CoreTypeOK, ProcessKnown, [CoreNext]_coreVars PROVE ProcessKnown'
  OBVIOUS
<1> USE DEF ProcessKnown, OneCore, ReadyHasProcess, StartIsSettled, PipesAreStarted, ReadyOverheard
<1>0. UNCHANGED processPart => ProcessKnown'
  BY DEF processPart
<1>1. ASSUME NEW c \in Cores, StartCore(c) PROVE ProcessKnown'
  BY <1>1 DEF CoreTypeOK, StartCore, MayStart
<1>2. ASSUME NEW c \in Cores, ReadyLine(c) PROVE ProcessKnown'
  <2>1. startCall'[c] # "open"
        /\ \A d \in Cores \ {c} : startCall'[d] = startCall[d]
    BY <1>2 DEF CoreTypeOK, ReadyLine, Settles, Promise
  <2>2. process = NoCore => core[c] = "gone"
    BY <1>2 DEF CoreTypeOK, ReadyLine
  <2>3. QED
    BY <1>2, <2>1, <2>2 DEF CoreTypeOK, ReadyLine
<1>3. ASSUME NEW c \in Cores, StartTimeout(c) PROVE ProcessKnown'
  <2>1. /\ ~isReady => startCall'[c] # "open"
        /\ isReady => startCall'[c] = startCall[c]
        /\ \A d \in Cores \ {c} : startCall'[d] = startCall[d]
    BY <1>3 DEF CoreTypeOK, StartTimeout, Settles, Promise
  <2>2. QED
    BY <1>3, <2>1 DEF CoreTypeOK, StartTimeout
<1>4. ASSUME NEW c \in Cores, Dies(c) PROVE ProcessKnown'
  BY <1>4 DEF CoreTypeOK, Dies
<1>5. ASSUME NEW c \in Cores, CoreExitHeard(c) PROVE ProcessKnown'
  BY <1>5 DEF CoreTypeOK, CoreExitHeard, ReadyAfterExit
<1>6. ASSUME NEW c \in Cores, PipesClose(c) PROVE ProcessKnown'
  BY <1>6 DEF CoreTypeOK, PipesClose
<1>7. ASSUME \/ \E r \in Inferring : Infer(r) \/ InferenceTimeout(r)
                \/ \E end \in {"resolved", "rejected"} : InferenceAnswered(r, end)
             \/ \E s \in Streaming : OpenStream(s) \/ StreamGoesOn(s)
             \/ \E w \in Switching : SwitchModel(w) \/ SwitchTimeout(w)
             \/ \E k \in Stopping : StopCore(k) \/ StopTimeout(k)
      PROVE  UNCHANGED processPart
  BY <1>7 DEF Infer, InferenceTimeout, InferenceAnswered, OpenStream, StreamGoesOn, TokenArrives,
     PollPauseOver, ConsumerGoesOn, SwitchModel, SwitchTimeout, StopCore, StopTimeout
<1>8. CASE UNCHANGED coreVars
  BY <1>8 DEF coreVars
<1>9. QED
  BY <1>0, <1>1, <1>2, <1>3, <1>4, <1>5, <1>6, <1>7, <1>8 DEF CoreNext, CoreTimer

(* The queue and the promises of inferences, moved by three steps.         *)
LEMMA QueueStep == CoreTypeOK /\ QueueIsOpen /\ [CoreNext]_coreVars => QueueIsOpen'
<1> SUFFICES ASSUME CoreTypeOK, QueueIsOpen, [CoreNext]_coreVars PROVE QueueIsOpen'
  OBVIOUS
<1> USE DEF QueueIsOpen
<1>0. UNCHANGED askPart => QueueIsOpen'
  BY DEF askPart
<1>1. ASSUME NEW r \in Inferring, Infer(r) PROVE QueueIsOpen'
  BY <1>1 DEF CoreTypeOK, Infer
<1>2. ASSUME NEW r \in Inferring, NEW end \in {"resolved", "rejected"}, InferenceAnswered(r, end)
      PROVE  QueueIsOpen'
  BY <1>2 DEF CoreTypeOK, InferenceAnswered, HandlerGone, Settles
<1>3. ASSUME NEW r \in Inferring, InferenceTimeout(r) PROVE QueueIsOpen'
  BY <1>3 DEF CoreTypeOK, InferenceTimeout, Forgotten
<1>4. ASSUME \/ \E c \in Cores : StartCore(c) \/ ReadyLine(c) \/ Dies(c) \/ CoreExitHeard(c)
                                 \/ PipesClose(c) \/ StartTimeout(c)
             \/ \E s \in Streaming : OpenStream(s) \/ StreamGoesOn(s)
             \/ \E w \in Switching : SwitchModel(w) \/ SwitchTimeout(w)
             \/ \E k \in Stopping : StopCore(k) \/ StopTimeout(k)
             \/ UNCHANGED coreVars
      PROVE  UNCHANGED askPart
  BY <1>4 DEF StartCore, ReadyLine, Dies, CoreExitHeard, PipesClose, StartTimeout, OpenStream,
     StreamGoesOn, TokenArrives, PollPauseOver, ConsumerGoesOn, SwitchModel, SwitchTimeout,
     StopCore, StopTimeout, coreVars, askPart
<1>5. QED
  BY <1>0, <1>1, <1>2, <1>3, <1>4 DEF CoreNext, CoreTimer

(* The manager of the core (RustInferenceManager) never has two processes, *)
(* is ready without one only on the word of one that is gone, keeps the    *)
(* handlers of the open inferences and no others, and settles every start  *)
(* by its timer unless another core's line came in between.                *)
THEOREM CoreCorrect == CoreSpec => []CoreSound
<1>1. ASSUME CoreInit PROVE CoreInv
  <2>1. 0 \in 0..StreamTokens
    OBVIOUS
  <2>2. CoreTypeOK
    BY <1>1, <2>1 DEF CoreInit, CoreTypeOK, Promise
  <2>3. QED
    BY <1>1, <2>2 DEF CoreInit, CoreInv, CoreSound, OneCore, ReadyHasProcess, QueueIsOpen,
       StartIsSettled, PipesAreStarted, BufferedWereMade, ReadyOverheard
<1>2. CoreInv /\ [CoreNext]_coreVars => CoreInv'
  BY CoreTypeStep, ProcessStep, QueueStep DEF CoreInv, CoreSound, ProcessKnown
<1>3. CoreInv => CoreSound
  BY DEF CoreInv
<1>4. QED
  BY <1>1, <1>2, <1>3, PTL DEF CoreSpec

(***************************************************************************)
(* The process of a worker.  TimerSound is inductive as it stands, and so  *)
(* is MappedIsWatched among well-typed states.  That automatic restarts    *)
(* add no second process and that a stop is final rest on two              *)
(* strengthenings: no process is left while a restart is pending, and a    *)
(* process that is left after a stop has that stop on record.              *)
(***************************************************************************)
USE AttemptsAssumption, ChildrenAssumption DEF None

LEMMA AsksFacts ==
  ASSUME NEW w, OperatorAsks(w)
  PROVE  wanted' = w /\ streak' = 0 /\ hasty' \in BOOLEAN
  BY DEF OperatorAsks

(* Every step of the gateway keeps the variables in their types.           *)
LEMMA TypeStep == TypeOK /\ [Next]_vars => TypeOK'
<1> SUFFICES ASSUME TypeOK, [Next]_vars PROVE TypeOK'
  OBVIOUS
<1>0. /\ 0 \in 0..MaxAttempts /\ 0 \in 0..MaxAttempts + 1
      /\ attempts < MaxAttempts => attempts + 1 \in 0..MaxAttempts
      /\ streak <= MaxAttempts => streak + 1 \in 0..MaxAttempts + 1
  BY DEF TypeOK
<1>1. ASSUME NEW c \in Children, OperatorStarts(c)
      PROVE  TypeOK'
  <2>1. wanted' = "up" /\ streak' = 0 /\ hasty' \in BOOLEAN
    BY <1>1, AsksFacts DEF OperatorStarts
  <2>2. QED
    BY <1>0, <1>1, <2>1 DEF TypeOK, OperatorStarts, Spawn, ClearRestartTimer
<1>2. CASE OperatorStartRefused
  <2>1. wanted' = "refused" /\ streak' = 0 /\ hasty' \in BOOLEAN
    BY <1>2, AsksFacts DEF OperatorStartRefused
  <2>2. QED
    BY <1>0, <1>2, <2>1 DEF TypeOK, OperatorStartRefused, ClearRestartTimer
<1>3. ASSUME NEW c \in Children, DelayEnds(c)
      PROVE  TypeOK'
  BY <1>0, <1>3 DEF TypeOK, DelayEnds, recordVars, historyVars
<1>4. ASSUME NEW c \in Children, StartAnswers(c)
      PROVE  TypeOK'
  BY <1>0, <1>4 DEF TypeOK, StartAnswers
<1>5. ASSUME NEW s \in {"stopped", "deleted"}, Stop(s)
      PROVE  TypeOK'
  <2>1. child' \in [Children -> {None, "up", "killed", "crashed", "stopped"}]
    BY <1>5 DEF TypeOK, Stop, Kill
  <2>2. QED
    BY <1>0, <1>5, <2>1 DEF TypeOK, Stop, ClearRestartTimer, Unmap
<1>6. ASSUME NEW c \in Children, WorkerDies(c)
      PROVE  TypeOK'
  BY <1>6 DEF TypeOK, WorkerDies, recordVars, restartVars, historyVars
<1>7. ASSUME NEW c \in Children, ExitHeard(c)
      PROVE  TypeOK'
  <2>1. /\ child' \in [Children -> {None, "up", "killed", "crashed", "stopped"}]
        /\ watched' \subseteq Children
        /\ processes' = None
        /\ UNCHANGED <<stage, auto, probe, wanted, hasty, streak>>
    BY <1>7 DEF TypeOK, ExitHeard, Unmap, historyVars
  <2>2. /\ status' \in {"stopped", "starting", "running", "error", "deleted"}
        /\ pid' \in Children \cup {None}
        /\ intentional' \in BOOLEAN /\ timer' \in BOOLEAN /\ attempts' \in 0..MaxAttempts
    BY <1>0, <1>7 DEF TypeOK, ExitHeard, ScheduleRestart, recordVars, restartVars
  <2>3. QED
    BY <2>1, <2>2 DEF TypeOK
<1>8. ASSUME NEW c \in Children, AutoStarts(c)
      PROVE  TypeOK'
  BY <1>0, <1>8 DEF TypeOK, AutoStarts, Spawn, ClearRestartTimer
<1>9. CASE AutoStartRefused
  BY <1>0, <1>9 DEF TypeOK, AutoStartRefused, ScheduleRestart, historyVars
<1>10. CASE HealthProbeBegins
  BY <1>10 DEF TypeOK, HealthProbeBegins, recordVars, restartVars, historyVars
<1>11. CASE HealthProbeAnswers
  BY <1>11 DEF TypeOK, HealthProbeAnswers, restartVars, historyVars
<1>12. CASE GatewayRestarts
  BY <1>0, <1>12 DEF TypeOK, GatewayRestarts, recordVars
<1>13. CASE UNCHANGED vars
  BY <1>13 DEF TypeOK, vars, recordVars, restartVars, historyVars
<1>14. CASE StopRuntime \/ DeleteRuntime
  BY <1>5, <1>14 DEF StopRuntime, DeleteRuntime
<1>15. QED
  BY <1>1, <1>2, <1>3, <1>4, <1>6, <1>7, <1>8, <1>9, <1>10, <1>11, <1>12, <1>13, <1>14
     DEF Next, SteadyNext, Operator, Gateway

(* Type correctness of the record, the maps and the calls under way.       *)
THEOREM TypeCorrect == Spec => []TypeOK
<1>1. Init => TypeOK
  <2>1. 0 \in 0..MaxAttempts /\ 0 \in 0..MaxAttempts + 1
    OBVIOUS
  <2>2. QED
    BY <2>1 DEF Init, TypeOK
<1>2. QED
  BY <1>1, TypeStep, PTL DEF Spec

-----------------------------------------------------------------------------
LEMMA TimerStep == TimerSound /\ [Next]_vars => TimerSound'
<1> SUFFICES ASSUME TimerSound, [Next]_vars PROVE TimerSound'
  OBVIOUS
<1>1. ASSUME NEW c \in Children, OperatorStarts(c) \/ AutoStarts(c)
      PROVE  TimerSound'
  BY <1>1 DEF TimerSound, OperatorStarts, AutoStarts, Spawn, ClearRestartTimer
<1>2. ASSUME NEW c \in Children, DelayEnds(c) \/ StartAnswers(c) \/ WorkerDies(c)
      PROVE  TimerSound'
  BY <1>2 DEF TimerSound, DelayEnds, StartAnswers, WorkerDies, recordVars, restartVars
<1>3. ASSUME NEW c \in Children, ExitHeard(c)
      PROVE  TimerSound'
  BY <1>3 DEF TimerSound, ExitHeard, Unmap, ScheduleRestart, recordVars, restartVars
<1>4. CASE OperatorStartRefused \/ StopRuntime \/ DeleteRuntime \/ GatewayRestarts
  BY <1>4 DEF TimerSound, OperatorStartRefused, StopRuntime, DeleteRuntime, Stop,
              GatewayRestarts, ClearRestartTimer
<1>5. CASE AutoStartRefused
  BY <1>5 DEF TimerSound, AutoStartRefused, ScheduleRestart
<1>6. CASE HealthProbeBegins \/ HealthProbeAnswers \/ UNCHANGED vars
  BY <1>6 DEF TimerSound, HealthProbeBegins, HealthProbeAnswers, recordVars, restartVars, vars
<1>7. QED
  BY <1>1, <1>2, <1>3, <1>4, <1>5, <1>6 DEF Next, SteadyNext, Operator, Gateway

(* However starts, stops, exits and probes interleave, a pending automatic  *)
(* restart never coexists with a mapped process, a stop on record or a      *)
(* start under way.                                                         *)
THEOREM TimerCorrect == Spec => []TimerSound
<1>1. Init => TimerSound
  BY DEF Init, TimerSound
<1>2. QED
  BY <1>1, TimerStep, PTL DEF Spec

-----------------------------------------------------------------------------
LEMMA MappedStep == TypeOK /\ MappedIsWatched /\ [Next]_vars => MappedIsWatched'
<1> SUFFICES ASSUME TypeOK, MappedIsWatched, [Next]_vars PROVE MappedIsWatched'
  OBVIOUS
<1>1. ASSUME NEW c \in Children, OperatorStarts(c) \/ AutoStarts(c)
      PROVE  MappedIsWatched'
  BY <1>1 DEF TypeOK, MappedIsWatched, OperatorStarts, AutoStarts, Spawn
<1>2. ASSUME NEW c \in Children, WorkerDies(c)
      PROVE  MappedIsWatched'
  <2>1. UNCHANGED <<processes, watched>>
    BY <1>2 DEF WorkerDies
  <2>2. CASE c = processes
    BY <1>2, <2>1, <2>2 DEF TypeOK, MappedIsWatched, WorkerDies, Alive
  <2>3. CASE c # processes
    BY <1>2, <2>1, <2>3 DEF TypeOK, MappedIsWatched, WorkerDies
  <2>4. QED
    BY <2>2, <2>3
<1>3. ASSUME NEW c \in Children, ExitHeard(c)
      PROVE  MappedIsWatched'
  BY <1>3 DEF MappedIsWatched, ExitHeard, Unmap
<1>4. CASE StopRuntime \/ DeleteRuntime \/ GatewayRestarts
  BY <1>4 DEF MappedIsWatched, StopRuntime, DeleteRuntime, Stop, Unmap, GatewayRestarts
<1>5. CASE \/ \E c \in Children : DelayEnds(c) \/ StartAnswers(c)
           \/ OperatorStartRefused \/ AutoStartRefused
           \/ HealthProbeBegins \/ HealthProbeAnswers \/ UNCHANGED vars
  <2>1. UNCHANGED <<processes, watched, child>>
    BY <1>5 DEF DelayEnds, StartAnswers, OperatorStartRefused, AutoStartRefused,
                HealthProbeBegins, HealthProbeAnswers, vars
  <2>2. QED
    BY <2>1 DEF MappedIsWatched
<1>6. QED
  BY <1>1, <1>2, <1>3, <1>4, <1>5 DEF Next, SteadyNext, Operator, Gateway

(* The map never names a process that was told to stop, was reaped or has   *)
(* no listener for its exit.                                                *)
THEOREM MappedCorrect == Spec => []MappedIsWatched
<1>1. Init => MappedIsWatched
  BY DEF Init, MappedIsWatched
<1>2. QED
  BY <1>1, MappedStep, TypeCorrect, PTL DEF Spec

-----------------------------------------------------------------------------
(* The strengthenings: with an operator who waits, a pending restart means  *)
(* that no process is left; and after a stop, a process that is left either *)
(* has the stop on record or belongs to a deleted runtime.                  *)
Exists(c) == child[c] # None

PatientInv ==
  ~hasty =>
    /\ \A c, d \in Children : Exists(c) /\ Exists(d) => c = d
    /\ timer => \A c \in Children : ~Exists(c)
    /\ wanted = "down" => /\ ~timer
                          /\ \A c \in watched : Exists(c) => intentional \/ status = "deleted"

LEMMA HastyStays == [Next]_vars => (~hasty' => ~hasty)
  BY DEF Next, SteadyNext, Operator, Gateway, OperatorStarts, OperatorStartRefused, OperatorAsks,
         StopRuntime, DeleteRuntime, Stop, DelayEnds, StartAnswers, ExitHeard, AutoStarts,
         AutoStartRefused, HealthProbeBegins, HealthProbeAnswers, WorkerDies, GatewayRestarts,
         vars, historyVars

LEMMA PatientStep == TypeOK /\ PatientInv /\ [Next]_vars => PatientInv'
<1> SUFFICES ASSUME TypeOK, PatientInv, ~hasty, ~hasty', [Next]_vars PROVE PatientInv'
  BY HastyStays DEF PatientInv
<1>1. ASSUME NEW c \in Children, OperatorStarts(c) \/ AutoStarts(c)
      PROVE  PatientInv'
  <2>1. \A d \in Children : child[d] = None
    BY <1>1 DEF PatientInv, Exists, OperatorStarts, AutoStarts, OperatorAsks
  <2>2. \A d \in Children : child'[d] # None => d = c
    BY <1>1, <2>1 DEF TypeOK, OperatorStarts, AutoStarts, Spawn
  <2>3. ~timer' /\ wanted' # "down"
    <3>1. CASE OperatorStarts(c)
      BY <3>1, AsksFacts DEF OperatorStarts, Spawn, ClearRestartTimer
    <3>2. CASE AutoStarts(c)
      BY <3>2 DEF PatientInv, AutoStarts, Spawn, ClearRestartTimer
    <3>3. QED
      BY <1>1, <3>1, <3>2
  <2>4. QED
    BY <2>2, <2>3 DEF PatientInv, Exists
<1>2. ASSUME NEW c \in Children, WorkerDies(c)
      PROVE  PatientInv'
  <2>1. \A d \in Children : child'[d] # None => child[d] # None
    BY <1>2 DEF TypeOK, WorkerDies, Alive
  <2>2. UNCHANGED <<timer, wanted, watched, intentional, status>>
    BY <1>2 DEF WorkerDies, recordVars, restartVars, historyVars
  <2>3. QED
    BY <2>1, <2>2 DEF PatientInv, Exists, TypeOK
<1>3. ASSUME NEW c \in Children, ExitHeard(c)
      PROVE  PatientInv'
  <2>1. c \in watched /\ child[c] # None
    BY <1>3 DEF ExitHeard
  <2>2. \A d \in Children : child'[d] = None
    BY <1>3, <2>1 DEF PatientInv, Exists, TypeOK, ExitHeard
  <2>3. wanted' = wanted /\ watched' \subseteq Children
    BY <1>3 DEF ExitHeard, historyVars, TypeOK
  <2>4. ASSUME wanted = "down" PROVE ~timer'
    <3>1. ~timer /\ (intentional \/ status = "deleted")
      BY <2>1, <2>4 DEF PatientInv, Exists
    <3>2. QED
      BY <1>3, <3>1 DEF ExitHeard, restartVars
  <2>5. QED
    BY <2>2, <2>3, <2>4 DEF PatientInv, Exists
<1>4. CASE StopRuntime \/ DeleteRuntime
  <2>1. intentional' /\ ~timer'
    BY <1>4 DEF StopRuntime, DeleteRuntime, Stop, ClearRestartTimer
  <2>2. \A d \in Children : child'[d] # None => child[d] # None
    BY <1>4 DEF TypeOK, StopRuntime, DeleteRuntime, Stop, Kill
  <2>3. QED
    BY <2>1, <2>2 DEF PatientInv, Exists
<1>5. CASE OperatorStartRefused
  <2>1. wanted' = "refused" /\ ~timer' /\ child' = child
    BY <1>5, AsksFacts DEF OperatorStartRefused, ClearRestartTimer
  <2>2. QED
    BY <2>1 DEF PatientInv, Exists
<1>6. CASE AutoStartRefused
  <2>1. timer /\ wanted # "down" /\ \A d \in Children : child[d] = None
    BY <1>6 DEF PatientInv, Exists, AutoStartRefused
  <2>2. UNCHANGED <<child, wanted>>
    BY <1>6 DEF AutoStartRefused, historyVars
  <2>3. QED
    BY <2>1, <2>2 DEF PatientInv, Exists
<1>7. CASE GatewayRestarts
  <2>1. ~timer' /\ watched' = {}
    BY <1>7 DEF GatewayRestarts
  <2>2. \A d \in Children : child'[d] # None => child[d] # None
    BY <1>7 DEF TypeOK, GatewayRestarts
  <2>3. QED
    BY <2>1, <2>2 DEF PatientInv, Exists
<1>8. CASE \/ \E c \in Children : DelayEnds(c) \/ StartAnswers(c)
           \/ HealthProbeBegins \/ HealthProbeAnswers \/ UNCHANGED vars
  <2>1. UNCHANGED <<child, timer, wanted, watched, intentional>>
    BY <1>8 DEF DelayEnds, StartAnswers, HealthProbeBegins, HealthProbeAnswers,
                vars, restartVars, historyVars
  <2>2. status = "deleted" => status' = "deleted"
    BY <1>8 DEF DelayEnds, StartAnswers, HealthProbeBegins, HealthProbeAnswers,
                vars, recordVars
  <2>3. QED
    BY <2>1, <2>2 DEF PatientInv, Exists
<1>9. QED
  BY <1>1, <1>2, <1>3, <1>4, <1>5, <1>6, <1>7, <1>8 DEF Next, SteadyNext, Operator, Gateway

(* With an operator who starts a runtime only when its process is gone,     *)
(* automatic restarts never put a second process beside one that is left.   *)
THEOREM OneWorkerCorrect == Spec => []OneWorker
<1>1. Init => PatientInv
  BY DEF Init, PatientInv, Exists
<1>2. PatientInv => OneWorker
  BY DEF PatientInv, OneWorker, Exists
<1>3. QED
  BY <1>1, <1>2, PatientStep, TypeCorrect, PTL DEF Spec

(* With that operator, no automatic restart is pending from a stop to the   *)
(* next start, not even after a stop that interrupted a start.              *)
THEOREM StopIsFinalCorrect == Spec => []StopIsFinal
<1>1. Init => PatientInv
  BY DEF Init, PatientInv, Exists
<1>2. PatientInv => StopIsFinal
  BY DEF PatientInv, StopIsFinal
<1>3. QED
  BY <1>1, <1>2, PatientStep, TypeCorrect, PTL DEF Spec
=============================================================================

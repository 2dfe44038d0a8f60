----------------------------- MODULE StoreProofs -----------------------------
(***************************************************************************)
(* What is stored, cached and queued: proofs about the catalogue of models *)
(* (ModelCatalog), the configuration (ConfigStore), the places of the      *)
(* loaded models (HotSwap), the blocks of the KV cache (PagedKvCache) and  *)
(* the native caches of prompts (NativeKvBudget), for every value of their *)
(* constants.  MCResources composes them with others.                      *)
(***************************************************************************)
EXTENDS ModelCatalog, ConfigStore, PagedKvCache, HotSwap, NativeKvBudget, SequenceFacts

(***************************************************************************)
(* The catalogue.                                                          *)
(***************************************************************************)
IsCatalog(f) == f = [i \in CatalogIds |-> f[i]] /\ \A i \in CatalogIds : f[i] \in RecordsFor(i) \cup {Absent}
IsStore(f)   == f = [i \in CatalogIds |-> f[i]] /\ \A i \in CatalogIds : f[i] \in RecordsFor(i) \cup {Absent, Torn}

PullStages == {"idle", "fetching", "writing", "done", "failed", "crashed"}

CatalogShapes ==
  /\ process \in {"down", "migrated", "up"}
  /\ IsCatalog(catalog) /\ IsStore(shards)
  /\ older = Absent \/ older \in OldCatalogs
  /\ file \in [Artifacts -> {"none", "partial", "whole"}]
  /\ dropped \cup lost \subseteq used /\ used \subseteq CatalogIds
  /\ cut \subseteq Artifacts /\ crashes \in 0..MaxCrashes

(* What is in memory, in the store and in the older catalogue, and when.   *)
WhereRecordsAre ==
  /\ IF process = "up" THEN older = Absent /\ \A i \in CatalogIds : shards[i] # Torn
     ELSE catalog = Empty
  /\ process = "migrated" /\ older # Absent => \A i \in Held(older) : shards[i] = older[i]
  /\ older # Absent => Held(older) = used
  /\ Held(catalog) \subseteq used /\ \A i \in CatalogIds : shards[i] # Absent => i \in used

(* Pulls have their artifacts, and files their last openers.               *)
PullsKnow ==
  /\ pull \in [Pulls -> [stage : PullStages, id : Artifacts \cup {Absent}]]
  /\ opener \in [Artifacts -> Pulls \cup {Absent}]
  /\ \A p \in Pulls : pull[p].stage \in {"fetching", "writing"} =>
       pull[p].id \in Artifacts \cap used /\ SourceOf[pull[p].id] = PulledSource[p]
  /\ \A i \in Artifacts : opener[i] # Absent =>
       pull[opener[i]].id = i /\ pull[opener[i]].stage \notin {"idle", "fetching"}
  /\ \A p \in Pulls : pull[p].stage = "writing" =>
       opener[pull[p].id] = p \/ pull[p].id \in cut \/ pull[p].id \notin Held(catalog)
  /\ process # "up" => \A p \in Pulls : pull[p].stage \notin {"fetching", "writing"}

TornOut == {i \in CatalogIds : shards[i] = Torn /\ (older # Absent => i \notin Held(older))}

CrashesCost == IsFiniteSet(lost \cup TornOut) /\ Cardinality(lost \cup TornOut) <= crashes

IsReady(f, i) == i \in Artifacts \cap Held(f) /\ SourceOf[i] \in Downloaded /\ f[i].status = "ready"

(* What is ready in the store is whole while nothing runs.                 *)
StoredIsWhole ==
  /\ process # "up" => \A i \in Artifacts : IsReady(shards, i) /\ i \notin cut => file[i] = "whole"
  /\ older # Absent => \A i \in Artifacts : IsReady(older, i) => file[i] = "whole"

CatalogInv ==
  /\ CatalogShapes /\ WhereRecordsAre /\ PullsKnow
  /\ StoreTells /\ NothingVanishes /\ CrashesCost /\ ReadyIsWhole /\ StoredIsWhole

LEMMA NoRecordIsAbsent ==
  \A i : /\ \A v \in RecordsFor(i) : v # Absent /\ v # Torn
         /\ Absent \notin RecordsFor(i) /\ Torn \notin RecordsFor(i)
  BY CatalogAssumption DEF RecordsFor

LEMMA HeldIs ==
  /\ \A f : IsCatalog(f) => \A i \in CatalogIds : i \in Held(f) <=> f[i] \in RecordsFor(i)
  /\ \A f : IsStore(f) => \A i \in CatalogIds : i \in Held(f) <=> f[i] \in RecordsFor(i)
  /\ \A f : IsCatalog(f) => IsStore(f) /\ \A i \in CatalogIds : i \notin Held(f) <=> f[i] = Absent
  BY NoRecordIsAbsent, CatalogAssumption DEF IsCatalog, IsStore, Held

LEMMA OlderIsCatalog == \A f \in OldCatalogs : IsCatalog(f)
<1> SUFFICES ASSUME NEW f \in OldCatalogs PROVE IsCatalog(f)
  OBVIOUS
<1>1. f = [i \in CatalogIds |-> f[i]] /\ \A i \in CatalogIds : f[i] \in RecordsFor(i) \cup {Absent}
  BY CatalogAssumption
<1> QED BY <1>1 DEF IsCatalog

LEMMA CatalogHolds == CatalogInv => CatalogSound
<1> SUFFICES ASSUME CatalogInv PROVE CatalogSound
  OBVIOUS
<1>1. CatalogTypeOK
  BY DEF CatalogInv, CatalogShapes, IsCatalog, IsStore, PullsKnow, PullStages, CatalogTypeOK
<1>2. OneRecordACrash
  BY DEF CatalogInv, CrashesCost, TornOut, OneRecordACrash
<1> QED BY <1>1, <1>2 DEF CatalogInv, CatalogSound

(* One record more that is torn is one crash more.                         *)
LEMMA OneMoreTorn ==
  ASSUME CrashesCost, crashes \in Nat, NEW x, NEW S, S \subseteq (lost \cup TornOut) \cup {x}
  PROVE  IsFiniteSet(S) /\ Cardinality(S) <= crashes + 1
<1>1. PICK T : T = lost \cup TornOut
  OBVIOUS
<1>2. IsFiniteSet(T) /\ Cardinality(T) <= crashes /\ Cardinality(T) \in Nat
  BY <1>1, FS_CardinalityType DEF CrashesCost
<1>3. IsFiniteSet(T \cup {x}) /\ Cardinality(T \cup {x}) \in Nat /\ Cardinality(T \cup {x}) <= Cardinality(T) + 1
  <2>1. x \in T => T \cup {x} = T
    OBVIOUS
  <2> QED BY <1>2, <2>1, FS_AddElement
<1>4. IsFiniteSet(S) /\ Cardinality(S) <= Cardinality(T \cup {x}) /\ Cardinality(S) \in Nat
  BY <1>1, <1>3, FS_Subset, FS_CardinalityType
<1> QED BY <1>2, <1>3, <1>4

(***************************************************************************)
(* What may be in a store that is written when a crash comes.              *)
(***************************************************************************)
Torns(f) == {i \in CatalogIds : f[i] = Torn}

Interrupted(left, old, records, asked) ==
  /\ IsStore(left)
  /\ \A i \in CatalogIds : left[i] \in {old[i], Torn, Absent} \cup (IF i \in Held(records) THEN {records[i]} ELSE {})
  /\ \A i \in CatalogIds : left[i] = Absent => old[i] = Absent \/ i \notin Held(records) \/ i \in asked
  /\ \E x : \A i \in CatalogIds : left[i] = Torn => old[i] = Torn \/ (i = x /\ i \in Held(records))

LEMMA WrittenIs ==
  ASSUME NEW old, NEW records, NEW asked, IsStore(old), IsCatalog(records)
  PROVE  /\ Interrupted(Written(old, records), old, records, asked)
         /\ \A left \in WrittenPartly(old, records) : Interrupted(left, old, records, asked)
         /\ \A left \in SavedPartly(old, records) : Interrupted(left, old, records, asked)
<1>1. \A i \in CatalogIds : Absent # Torn /\ old[i] \in RecordsFor(i) \cup {Absent, Torn}
        /\ (i \in Held(records) => records[i] \in RecordsFor(i) /\ records[i] # Absent /\ records[i] # Torn)
  BY HeldIs, NoRecordIsAbsent, CatalogAssumption DEF IsStore
<1>2. Interrupted(Written(old, records), old, records, asked)
  <2>1. PICK w : w = Written(old, records)
    OBVIOUS
  <2>2. w = [i \in CatalogIds |-> IF i \in Held(records) THEN records[i] ELSE old[i]]
    BY <2>1 DEF Written
  <2>3. IsStore(w)
    BY <1>1, <2>2 DEF IsStore
  <2> QED BY <1>1, <2>1, <2>2, <2>3 DEF Interrupted
<1>3. ASSUME NEW left \in WrittenPartly(old, records) PROVE Interrupted(left, old, records, asked)
  <2>1. PICK done \in SUBSET Held(records), torn \in Held(records) \cup {Absent} :
          left = [i \in CatalogIds |-> IF i = torn THEN Torn ELSE IF i \in done THEN records[i] ELSE old[i]]
    BY DEF WrittenPartly
  <2>2. torn \in CatalogIds => torn \in Held(records)
    BY CatalogAssumption
  <2>3. IsStore(left)
    BY <1>1, <2>1 DEF IsStore
  <2>4. \A i \in CatalogIds : left[i] \in {old[i], Torn, Absent} \cup (IF i \in Held(records) THEN {records[i]} ELSE {})
    BY <2>1
  <2>5. \A i \in CatalogIds : left[i] = Absent => old[i] = Absent \/ i \notin Held(records)
    BY <1>1, <2>1
  <2>6. \A i \in CatalogIds : left[i] = Torn => old[i] = Torn \/ (i = torn /\ i \in Held(records))
    BY <1>1, <2>1, <2>2
  <2> QED BY <2>3, <2>4, <2>5, <2>6 DEF Interrupted
<1>4. ASSUME NEW gone \in SUBSET (CatalogIds \ Held(records)), NEW left,
             left = [i \in CatalogIds |-> IF i \in gone THEN Absent ELSE Written(old, records)[i]]
      PROVE  Interrupted(left, old, records, asked)
  <2>1. PICK w : w = Written(old, records)
    OBVIOUS
  <2>2. w = [i \in CatalogIds |-> IF i \in Held(records) THEN records[i] ELSE old[i]]
    BY <2>1 DEF Written
  <2>3. left = [i \in CatalogIds |-> IF i \in gone THEN Absent ELSE w[i]]
    BY <1>4, <2>1
  <2>4. \A i \in CatalogIds : left[i] = IF i \in gone THEN Absent ELSE IF i \in Held(records) THEN records[i] ELSE old[i]
    BY <2>2, <2>3
  <2>5. IsStore(left)
    BY <1>1, <2>3, <2>4 DEF IsStore
  <2> QED BY <1>1, <2>4, <2>5 DEF Interrupted
<1> QED BY <1>2, <1>3, <1>4 DEF SavedPartly

Crashed(p) == IF pull[p].stage \in {"fetching", "writing"} THEN [pull[p] EXCEPT !.stage = "crashed"] ELSE pull[p]

(* Once the process has ended no pull is under way.                        *)
LEMMA EndedPulls ==
  ASSUME PullsKnow, Ends, opener' \in [Artifacts -> Pulls \cup {Absent}],
         \A i \in Artifacts : opener'[i] \in {opener[i], Absent}
  PROVE  PullsKnow'
<1>1. pull' = [p \in Pulls |-> Crashed(p)] /\ process' = "down"
  BY DEF Ends, Crashed
<1>2. \A p \in Pulls : /\ Crashed(p) \in [stage : PullStages, id : Artifacts \cup {Absent}] /\ Crashed(p).id = pull[p].id
                       /\ Crashed(p).stage \notin {"fetching", "writing"}
                       /\ Crashed(p).stage \in {pull[p].stage, "crashed"}
  <2> SUFFICES ASSUME NEW p \in Pulls
               PROVE  /\ Crashed(p) \in [stage : PullStages, id : Artifacts \cup {Absent}] /\ Crashed(p).id = pull[p].id
                      /\ Crashed(p).stage \notin {"fetching", "writing"}
                      /\ Crashed(p).stage \in {pull[p].stage, "crashed"}
    OBVIOUS
  <2>1. PICK q : q = pull[p]
    OBVIOUS
  <2>2. q \in [stage : PullStages, id : Artifacts \cup {Absent}]
    BY <2>1 DEF PullsKnow
  <2>3. Crashed(p) = IF q.stage \in {"fetching", "writing"} THEN [q EXCEPT !.stage = "crashed"] ELSE q
    BY <2>1 DEF Crashed
  <2>4. "crashed" \in PullStages
    BY DEF PullStages
  <2> QED BY <2>1, <2>2, <2>3, <2>4
<1>3. pull' \in [Pulls -> [stage : PullStages, id : Artifacts \cup {Absent}]]
  BY <1>1, <1>2
<1>4. \A p \in Pulls : pull'[p].id = pull[p].id /\ pull'[p].stage \notin {"fetching", "writing"}
                       /\ pull'[p].stage \in {pull[p].stage, "crashed"}
  BY <1>1, <1>2
<1>5. \A i \in Artifacts : opener'[i] # Absent =>
        opener'[i] = opener[i] /\ opener[i] \in Pulls /\ opener[i] # Absent
  BY DEF PullsKnow
<1>6. \A i \in Artifacts : opener'[i] # Absent =>
       pull'[opener'[i]].id = i /\ pull'[opener'[i]].stage \notin {"idle", "fetching"}
  BY <1>4, <1>5 DEF PullsKnow
<1> QED BY <1>1, <1>3, <1>4, <1>6 DEF PullsKnow

(***************************************************************************)
(* What a crash leaves when the records were being saved.                  *)
(***************************************************************************)
LEMMA CrashLeaves ==
  ASSUME CatalogInv, process = "up", Ends, NEW records, IsCatalog(records),
         NEW asked, asked \subseteq used', NEW files, files \subseteq Artifacts,
         Interrupted(shards', shards, records, asked), Held(records) \subseteq used',
         used \subseteq used', used' \subseteq CatalogIds,
         Held(catalog) \ Held(records) \subseteq asked, Cuts(files), Drops(asked),
         UNCHANGED <<older, lost>>, file' \in [Artifacts -> {"none", "partial", "whole"}],
         opener' \in [Artifacts -> Pulls \cup {Absent}], \A i \in Artifacts : opener'[i] \in {opener[i], Absent},
         \A i \in Artifacts \ files : file[i] = "whole" => file'[i] = "whole",
         \A i \in Artifacts \ files : IsReady(records, i) /\ i \notin cut => file'[i] = "whole" \/ Writing(i)
  PROVE  CatalogInv'
<1>1. /\ process' = "down" /\ catalog' = Empty /\ crashes < MaxCrashes /\ crashes' = crashes + 1 /\ older' = Absent /\ older = Absent
      /\ cut' = cut \cup files \cup {i \in Artifacts : Writing(i)}
      /\ dropped' = dropped \cup asked \cup {i \in used' : shards[i] = Absent /\ shards'[i] = Absent}
  BY DEF Ends, Cuts, Drops, CatalogInv, WhereRecordsAre
<1>2. IsCatalog(Empty) /\ Held(Empty) = {}
  BY DEF IsCatalog, Empty, Held
<1>3. CatalogShapes'
  <2>1. crashes' \in 0..MaxCrashes
    BY <1>1, CatalogAssumption DEF CatalogInv, CatalogShapes
  <2>2. cut' \subseteq Artifacts
    BY <1>1 DEF CatalogInv, CatalogShapes
  <2>3. dropped' \cup lost' \subseteq used'
    BY <1>1 DEF CatalogInv, CatalogShapes
  <2>4. IsStore(shards')
    BY DEF Interrupted
  <2> QED BY <1>1, <1>2, <2>1, <2>2, <2>3, <2>4 DEF CatalogShapes
<1>4. \A i \in CatalogIds : shards[i] # Torn /\ (shards[i] # Absent => shards[i] = catalog[i])
  BY DEF CatalogInv, WhereRecordsAre, StoreTells
<1>5. WhereRecordsAre'
  <2>1. ASSUME NEW i \in CatalogIds, shards'[i] # Absent PROVE i \in used'
    <3>1. CASE i \in Held(records)
      BY <3>1
    <3>2. CASE i \notin Held(records)
      <4>1. shards'[i] # Torn
        BY <1>4, <3>2 DEF Interrupted
      <4>2. shards[i] # Absent
        BY <2>1, <3>2, <4>1 DEF Interrupted
      <4> QED BY <4>2 DEF CatalogInv, WhereRecordsAre
    <3> QED BY <3>1, <3>2
  <2> QED BY <1>1, <1>2, <2>1 DEF WhereRecordsAre
<1>6. PullsKnow'
  BY EndedPulls DEF CatalogInv
<1>7. NothingVanishes'
  <2>1. ASSUME NEW i \in used', i \notin dropped', i \notin lost' PROVE shards'[i] # Absent
    <3>1. SUFFICES ASSUME shards'[i] = Absent PROVE FALSE
      OBVIOUS
    <3>2. i \notin asked /\ shards[i] # Absent /\ i \in CatalogIds
      BY <1>1, <2>1, <3>1
    <3>3. i \notin Held(records)
      BY <3>1, <3>2 DEF Interrupted
    <3>4. i \in Held(catalog)
      BY <1>4, <3>2 DEF Held
    <3> QED BY <3>2, <3>3, <3>4
  <2>2. \A i \in used' : i \in CatalogIds
    OBVIOUS
  <2>3. used' \ (dropped' \cup lost') \subseteq Held(shards') \cup {i \in CatalogIds : shards'[i] = Torn}
    BY <2>1, <2>2 DEF Held
  <2> QED BY <1>1, <2>3 DEF NothingVanishes
<1>8. CrashesCost'
  <2>1. PICK x : \A i \in CatalogIds : shards'[i] = Torn => shards[i] = Torn \/ i = x
    BY DEF Interrupted
  <2>2. (lost \cup TornOut)' \subseteq (lost \cup TornOut) \cup {x}
    BY <1>1, <1>4, <2>1 DEF TornOut
  <2>3. crashes \in Nat
    BY CatalogAssumption DEF CatalogInv, CatalogShapes
  <2>4. IsFiniteSet((lost \cup TornOut)') /\ Cardinality((lost \cup TornOut)') <= crashes + 1
    BY <2>2, <2>3, OneMoreTorn DEF CatalogInv
  <2> QED BY <1>1, <2>4 DEF CrashesCost
<1>9. StoredIsWhole'
  <2>1. ASSUME NEW i \in Artifacts, IsReady(shards', i), i \notin cut' PROVE file'[i] = "whole"
    <3>1. i \in Held(shards') /\ i \in CatalogIds /\ i \notin files /\ ~Writing(i) /\ i \notin cut
      BY <1>1, <2>1 DEF IsReady, CatalogIds
    <3>2. CASE i \in Held(records) /\ shards'[i] = records[i]
      <4>1. IsReady(records, i)
        BY <2>1, <3>1, <3>2 DEF IsReady
      <4> QED BY <3>1, <4>1
    <3>3. CASE ~(i \in Held(records) /\ shards'[i] = records[i])
      <4>1. shards'[i] # Torn /\ shards'[i] # Absent
        BY <3>1 DEF Held
      <4>2. shards'[i] = shards[i]
        BY <3>1, <3>3, <4>1 DEF Interrupted
      <4>3. catalog[i] = shards'[i]
        BY <1>4, <3>1, <4>1, <4>2
      <4>4. i \in Held(catalog) /\ SourceOf[i] \in Downloaded /\ catalog[i].status = "ready"
        BY <2>1, <3>1, <4>1, <4>3 DEF IsReady, Held
      <4>5. file[i] = "whole"
        BY <3>1, <4>4 DEF CatalogInv, ReadyIsWhole
      <4> QED BY <3>1, <4>5
    <3> QED BY <3>2, <3>3
  <2> QED BY <1>1, <2>1 DEF StoredIsWhole
<1>10. StoreTells' /\ ReadyIsWhole'
  BY <1>1 DEF StoreTells, ReadyIsWhole
<1> QED BY <1>3, <1>5, <1>6, <1>7, <1>8, <1>9, <1>10 DEF CatalogInv

(***************************************************************************)
(* What is there when the records are saved.                               *)
(***************************************************************************)
LEMMA SaveKeeps ==
  ASSUME CatalogInv, process = "up", process' = "up", UNCHANGED <<crashes, older, lost>>,
         NEW records, IsCatalog(records), catalog' = records, shards' = records,
         NEW asked, asked \subseteq used', NEW files, Cuts(files), Drops(asked), Held(records) \subseteq used',
         used \subseteq used', used' \subseteq CatalogIds, used' \ used \subseteq Held(records),
         Held(catalog) \ Held(records) \subseteq asked,
         file' \in [Artifacts -> {"none", "partial", "whole"}], PullsKnow',
         \A i \in Artifacts : IsReady(records, i) /\ i \notin cut => file'[i] = "whole" \/ Writing(i)'
  PROVE  CatalogInv'
<1>1. /\ older = Absent /\ older' = Absent /\ cut' = cut /\ dropped' = dropped \cup asked
  BY DEF Cuts, Drops, CatalogInv, WhereRecordsAre
<1>2. \A i \in CatalogIds : records[i] # Torn /\ (records[i] # Absent => i \in Held(records))
  BY HeldIs, NoRecordIsAbsent, CatalogAssumption DEF IsCatalog
<1>3. CatalogShapes'
  <2>1. IsStore(shards') /\ IsCatalog(catalog')
    BY HeldIs
  <2>2. dropped' \cup lost' \subseteq used'
    BY <1>1 DEF CatalogInv, CatalogShapes
  <2> QED BY <1>1, <2>1, <2>2 DEF CatalogInv, CatalogShapes
<1>4. WhereRecordsAre'
  BY <1>1, <1>2 DEF WhereRecordsAre
<1>5. NothingVanishes'
  <2>1. used \ (dropped \cup lost) \subseteq Held(catalog)
    BY DEF CatalogInv, NothingVanishes
  <2>2. used' \ (dropped' \cup lost') \subseteq Held(records)
    BY <1>1, <2>1
  <2> QED BY <2>2 DEF NothingVanishes
<1>6. CrashesCost'
  <2>1. (lost \cup TornOut)' \subseteq lost \cup TornOut
    BY <1>2 DEF TornOut
  <2>2. crashes \in Nat
    BY CatalogAssumption DEF CatalogInv, CatalogShapes
  <2>3. IsFiniteSet(lost \cup TornOut) /\ Cardinality(lost \cup TornOut) <= crashes
    BY DEF CatalogInv, CrashesCost
  <2>4. PICK S, T : S = (lost \cup TornOut)' /\ T = lost \cup TornOut
    OBVIOUS
  <2>5. IsFiniteSet(S) /\ Cardinality(S) <= Cardinality(T) /\ Cardinality(S) \in Nat /\ Cardinality(T) \in Nat
    BY <2>1, <2>3, <2>4, FS_Subset, FS_CardinalityType
  <2>6. Cardinality(S) <= crashes
    BY <2>2, <2>3, <2>4, <2>5
  <2> QED BY <2>4, <2>5, <2>6 DEF CrashesCost
<1>7. StoreTells' /\ StoredIsWhole'
  BY <1>1 DEF StoreTells, StoredIsWhole
<1>8. ReadyIsWhole'
  BY <1>1 DEF ReadyIsWhole, IsReady
<1> QED BY <1>3, <1>4, <1>5, <1>6, <1>7, <1>8 DEF CatalogInv

(* Steps that move no pull.                                                *)
LEMMA PullsStay ==
  ASSUME PullsKnow, process' = process, cut' = cut, UNCHANGED <<pull, opener>>, used \subseteq used',
         \A i \in used : i \in Held(catalog') => i \in Held(catalog)
  PROVE  PullsKnow' /\ \A j \in Artifacts : Writing(j) => Writing(j)'
  BY DEF PullsKnow, Writing

LEMMA PullMoves ==
  ASSUME PullsKnow, process' = "up", cut' = cut, UNCHANGED opener, used \subseteq used',
         NEW p \in Pulls, NEW next \in {"fetching", "done", "failed"}, NEW i \in Artifacts \cap used',
         pull' = PullNow(p, next, i), SourceOf[i] = PulledSource[p],
         next = "fetching" => pull[p].stage = "idle",
         pull[p].stage \notin {"idle"} => pull[p].stage \in {"fetching", "writing"} /\ pull[p].id = i,
         \A k \in used : k \in Held(catalog') => k \in Held(catalog)
  PROVE  /\ PullsKnow'
         /\ \A j \in Artifacts \ {i} : Writing(j) => Writing(j)'
         /\ opener[i] # p => (Writing(i) => Writing(i)')
<1>1. pull' = [pull EXCEPT ![p] = [stage |-> next, id |-> i]] /\ pull \in [Pulls -> [stage : PullStages, id : Artifacts \cup {Absent}]]
  BY DEF PullNow, PullsKnow
<1>2. pull'[p].stage = next /\ pull'[p].id = i /\ \A q \in Pulls \ {p} : pull'[q] = pull[q]
  BY <1>1
<1>3. pull' \in [Pulls -> [stage : PullStages, id : Artifacts \cup {Absent}]]
  BY <1>1 DEF PullStages
<1>4. \A q \in Pulls : pull'[q].stage \in {"fetching", "writing"} =>
       pull'[q].id \in Artifacts \cap used' /\ SourceOf[pull'[q].id] = PulledSource[q]
  BY <1>2 DEF PullsKnow
<1>5. \A j \in Artifacts : opener[j] # Absent =>
        opener[j] \in Pulls /\ pull'[opener[j]].id = j /\ pull'[opener[j]].stage \notin {"idle", "fetching"}
  BY <1>2 DEF PullsKnow
<1>6. \A q \in Pulls : pull'[q].stage = "writing" => q # p /\ pull[q].stage = "writing" /\ pull'[q].id = pull[q].id
                       /\ pull[q].id \in used
  BY <1>2 DEF PullsKnow
<1>7. \A q \in Pulls : pull'[q].stage = "writing" =>
       opener[pull'[q].id] = q \/ pull'[q].id \in cut \/ pull'[q].id \notin Held(catalog')
  BY <1>6 DEF PullsKnow
<1>8. PullsKnow'
  BY <1>3, <1>4, <1>5, <1>7 DEF PullsKnow
<1>9. \A j \in Artifacts : opener[j] # p => (Writing(j) => Writing(j)')
  BY <1>2 DEF Writing, PullsKnow
<1>10. \A j \in Artifacts \ {i} : opener[j] = p => ~Writing(j)
  BY CatalogAssumption DEF Writing, PullsKnow
<1> QED BY <1>8, <1>9, <1>10

(* The records are saved, or a crash comes meanwhile.                      *)
LEMMA SavingKeeps ==
  ASSUME CatalogInv, process = "up", NEW records, NEW pulls, Saves(records, pulls), IsCatalog(records),
         NEW asked, asked \subseteq used', Accounts(asked), Held(records) \subseteq used',
         used \subseteq used', used' \subseteq CatalogIds, used' \ used \subseteq Held(records),
         Held(catalog) \ Held(records) \subseteq asked, UNCHANGED <<older, lost, opener>>,
         file' \in [Artifacts -> {"none", "partial", "whole"}],
         \A i \in Artifacts : file[i] = "whole" => file'[i] = "whole",
         \A i \in Artifacts : IsReady(records, i) /\ i \notin cut => file'[i] = "whole" \/ Writing(i),
         process' = "up" /\ pull' = pulls /\ catalog' = records /\ cut' = cut =>
           PullsKnow' /\ \A i \in Artifacts : IsReady(records, i) /\ i \notin cut => file'[i] = "whole" \/ Writing(i)'
  PROVE  CatalogInv'
<1>1. PICK none : none = {}
  OBVIOUS
<1>2. Cuts(none) /\ Drops(asked) /\ none \subseteq Artifacts
  BY <1>1 DEF Accounts
<1>3. CASE catalog' = records /\ shards' = records /\ process' = "up" /\ pull' = pulls /\ UNCHANGED crashes
  <2>1. cut' = cut
    BY <1>2, <1>3 DEF Cuts
  <2> QED BY <1>2, <1>3, <2>1, SaveKeeps
<1>4. CASE Ends /\ shards' \in SavedPartly(shards, records)
  <2>1. IsStore(shards) /\ opener \in [Artifacts -> Pulls \cup {Absent}]
    BY DEF CatalogInv, CatalogShapes, PullsKnow
  <2>2. PICK left, old : left = shards' /\ old = shards
    OBVIOUS
  <2>3. Interrupted(left, old, records, asked)
    BY <1>4, <2>1, <2>2, WrittenIs
  <2>4. Interrupted(shards', shards, records, asked)
    BY <2>2, <2>3
  <2>5. \A i \in Artifacts : opener'[i] \in {opener[i], Absent}
    OBVIOUS
  <2> QED BY <1>1, <1>2, <1>4, <2>1, <2>4, <2>5, CrashLeaves
<1> QED BY <1>3, <1>4 DEF Saves

(* A catalogue with one record more or less, or another.                   *)
IsPatch(g, f, i, r) == g = [f EXCEPT ![i] = r]

LEMMA Patching ==
  ASSUME NEW f, IsCatalog(f)
  PROVE  \A i \in CatalogIds : \A r \in RecordsFor(i) \cup {Absent} : \A g : IsPatch(g, f, i, r) =>
           /\ IsCatalog(g) /\ g[i] = r /\ \A j \in CatalogIds \ {i} : g[j] = f[j]
           /\ Held(g) = IF r = Absent THEN Held(f) \ {i} ELSE Held(f) \cup {i}
<1> SUFFICES ASSUME NEW i \in CatalogIds, NEW r \in RecordsFor(i) \cup {Absent}, NEW g, IsPatch(g, f, i, r)
             PROVE  /\ IsCatalog(g) /\ g[i] = r /\ \A j \in CatalogIds \ {i} : g[j] = f[j]
                    /\ Held(g) = IF r = Absent THEN Held(f) \ {i} ELSE Held(f) \cup {i}
  OBVIOUS
<1>1. f = [j \in CatalogIds |-> f[j]] /\ \A j \in CatalogIds : f[j] \in RecordsFor(j) \cup {Absent}
  BY DEF IsCatalog
<1>2. g = [j \in CatalogIds |-> IF j = i THEN r ELSE f[j]]
  BY <1>1 DEF IsPatch
<1>3. g[i] = r /\ \A j \in CatalogIds \ {i} : g[j] = f[j]
  BY <1>2
<1>4. g = [j \in CatalogIds |-> g[j]]
  BY <1>2
<1>5. IsCatalog(g)
  BY <1>1, <1>3, <1>4 DEF IsCatalog
<1>6. r = Absent \/ (r # Absent /\ r # Torn)
  BY NoRecordIsAbsent
<1>7. Held(g) = IF r = Absent THEN Held(f) \ {i} ELSE Held(f) \cup {i}
  BY <1>3, <1>6 DEF Held
<1> QED BY <1>3, <1>5, <1>7

LEMMA RecordsKeep ==
  ASSUME CatalogInv
  PROVE  /\ \A i \in Held(catalog) : [catalog[i] EXCEPT !.tagged = TRUE] \in RecordsFor(i)
         /\ \A i \in Artifacts : \A a \in ArtifactRecords : \A st \in {"pulling", "ready", "error"} :
              [a EXCEPT !.status = st] \in RecordsFor(i) /\ [a EXCEPT !.status = st].status = st
         /\ \A i \in Held(catalog) \cap Artifacts : catalog[i] \in ArtifactRecords
         /\ \A i \in Artifacts : NewRuntime(i) \in RuntimeRecords
         /\ \A r \in Hosted : RecordsFor(r) = RuntimeRecords
         /\ \A i \in Artifacts : RecordsFor(i) = ArtifactRecords
<1>1. \A i \in Held(catalog) : i \in CatalogIds /\ catalog[i] \in RecordsFor(i)
  BY HeldIs DEF CatalogInv, CatalogShapes, Held
<1>2. \A r \in Hosted : RecordsFor(r) = RuntimeRecords
  BY CatalogAssumption DEF RecordsFor
<1>3. \A i \in Artifacts : RecordsFor(i) = ArtifactRecords
  BY DEF RecordsFor
<1>4. \A a \in ArtifactRecords : [a EXCEPT !.tagged = TRUE] \in ArtifactRecords
  BY DEF ArtifactRecords
<1>5. \A a \in RuntimeRecords : [a EXCEPT !.tagged = TRUE] \in RuntimeRecords
  BY DEF RuntimeRecords
<1>6. \A a \in ArtifactRecords : \A st \in {"pulling", "ready", "error"} :
        [a EXCEPT !.status = st] \in ArtifactRecords /\ [a EXCEPT !.status = st].status = st
  BY DEF ArtifactRecords
<1>7. \A i \in Artifacts : NewRuntime(i) \in RuntimeRecords
  BY DEF NewRuntime, RuntimeRecords
<1>8. \A i \in Held(catalog) : i \in Artifacts \/ i \in Hosted
  BY DEF Held, CatalogIds
<1> QED BY <1>1, <1>2, <1>3, <1>4, <1>5, <1>6, <1>7, <1>8

LEMMA InForce ==
  ASSUME CatalogInv, process = "up"
  PROVE  /\ IsCatalog(catalog) /\ Held(catalog) \subseteq used /\ used \subseteq CatalogIds
         /\ \A i \in Artifacts : IsReady(catalog, i) /\ i \notin cut => file[i] = "whole" \/ Writing(i)
         /\ file \in [Artifacts -> {"none", "partial", "whole"}]
         /\ PullsKnow
  BY DEF CatalogInv, CatalogShapes, WhereRecordsAre, ReadyIsWhole, IsReady

LEMMA TagsKeep == ASSUME CatalogInv, NEW i \in CatalogIds, Tags(i) PROVE CatalogInv'
<1>1. PICK r : r = [catalog[i] EXCEPT !.tagged = TRUE]
  OBVIOUS
<1>2. r \in RecordsFor(i) /\ i \in Held(catalog) /\ r # Absent
  BY <1>1, RecordsKeep, NoRecordIsAbsent DEF Tags
<1>3. PICK g : g = [catalog EXCEPT ![i] = r]
  OBVIOUS
<1>4. /\ process = "up" /\ Saves(g, pull) /\ Accounts({})
      /\ UNCHANGED <<older, file, opener, used, lost>>
  BY <1>1, <1>3 DEF Tags, Patched
<1>5. IsCatalog(g) /\ Held(g) = Held(catalog) /\ g[i] = r /\ \A j \in CatalogIds \ {i} : g[j] = catalog[j]
  <2>1. IsCatalog(catalog) /\ IsPatch(g, catalog, i, r)
    BY InForce, <1>2, <1>3, <1>4 DEF IsPatch
  <2> QED BY <2>1, <1>2, Patching
<1>6. \A j \in Artifacts : IsReady(g, j) => IsReady(catalog, j)
  <2>1. i \in Artifacts => r.status = catalog[i].status
    BY <1>1, <1>2, RecordsKeep DEF ArtifactRecords
  <2> QED BY <1>5, <2>1 DEF IsReady, CatalogIds
<1>7. ASSUME process' = "up", pull' = pull, catalog' = g, cut' = cut
      PROVE PullsKnow' /\ \A j \in Artifacts : Writing(j) => Writing(j)'
  BY <1>4, <1>5, <1>7, PullsStay, InForce
<1>8. PICK none, pulls : none = {} /\ pulls = pull
  OBVIOUS
<1>9. Saves(g, pulls) /\ Accounts(none) /\ none \subseteq used'
  BY <1>4, <1>8
<1>10. Held(g) \subseteq used' /\ used \subseteq used' /\ used' \subseteq CatalogIds /\ used' \ used \subseteq Held(g)
       /\ Held(catalog) \ Held(g) \subseteq none
  BY <1>4, <1>5, <1>8, InForce
<1>11. UNCHANGED <<older, lost, opener>> /\ file' \in [Artifacts -> {"none", "partial", "whole"}]
       /\ \A j \in Artifacts : file[j] = "whole" => file'[j] = "whole"
  BY <1>4, InForce
<1>12. \A j \in Artifacts : IsReady(g, j) /\ j \notin cut => file'[j] = "whole" \/ Writing(j)
  BY <1>4, <1>6, InForce
<1>13. process' = "up" /\ pull' = pulls /\ catalog' = g /\ cut' = cut =>
         PullsKnow' /\ \A j \in Artifacts : IsReady(g, j) /\ j \notin cut => file'[j] = "whole" \/ Writing(j)'
  BY <1>7, <1>8, <1>12
<1> QED BY <1>4, <1>5, <1>9, <1>10, <1>11, <1>12, <1>13, SavingKeeps

LEMMA CreateKeeps ==
  ASSUME CatalogInv, NEW r \in Hosted, NEW i \in Artifacts, CreateRuntime(r, i) PROVE CatalogInv'
<1>1. PICK g : g = [catalog EXCEPT ![r] = NewRuntime(i)]
  OBVIOUS
<1>2. NewRuntime(i) \in RecordsFor(r) /\ NewRuntime(i) # Absent /\ r \in CatalogIds /\ r \notin Artifacts
  BY RecordsKeep, NoRecordIsAbsent, CatalogAssumption DEF CatalogIds
<1>3. /\ process = "up" /\ Saves(g, pull) /\ Accounts({}) /\ r \notin used /\ used' = used \cup {r}
      /\ UNCHANGED <<older, file, opener, lost>>
  BY <1>1 DEF CreateRuntime, Patched
<1>4. IsCatalog(g) /\ Held(g) = Held(catalog) \cup {r} /\ \A j \in CatalogIds \ {r} : g[j] = catalog[j]
  <2>1. IsCatalog(catalog) /\ IsPatch(g, catalog, r, NewRuntime(i))
    BY InForce, <1>1, <1>2, <1>3 DEF IsPatch
  <2> QED BY <2>1, <1>2, Patching
<1>5. \A j \in Artifacts : IsReady(g, j) => IsReady(catalog, j)
  BY <1>2, <1>4 DEF IsReady, CatalogIds
<1>6. ASSUME process' = "up", pull' = pull, catalog' = g, cut' = cut
      PROVE PullsKnow' /\ \A j \in Artifacts : Writing(j) => Writing(j)'
  BY <1>3, <1>4, <1>6, PullsStay, InForce
<1>7. PICK none, pulls : none = {} /\ pulls = pull
  OBVIOUS
<1>8. Saves(g, pulls) /\ Accounts(none) /\ none \subseteq used'
  BY <1>3, <1>7
<1>9. Held(g) \subseteq used' /\ used \subseteq used' /\ used' \subseteq CatalogIds /\ used' \ used \subseteq Held(g)
      /\ Held(catalog) \ Held(g) \subseteq none
  BY <1>2, <1>3, <1>4, InForce
<1>10. UNCHANGED <<older, lost, opener>> /\ file' \in [Artifacts -> {"none", "partial", "whole"}]
       /\ \A j \in Artifacts : file[j] = "whole" => file'[j] = "whole"
  BY <1>3, InForce
<1>11. \A j \in Artifacts : IsReady(g, j) /\ j \notin cut => file'[j] = "whole" \/ Writing(j)
  BY <1>3, <1>5, InForce
<1>12. process' = "up" /\ pull' = pulls /\ catalog' = g /\ cut' = cut =>
         PullsKnow' /\ \A j \in Artifacts : IsReady(g, j) /\ j \notin cut => file'[j] = "whole" \/ Writing(j)'
  BY <1>6, <1>7, <1>11
<1> QED BY <1>3, <1>4, <1>8, <1>9, <1>10, <1>11, <1>12, SavingKeeps

LEMMA DeleteRuntimeKeeps ==
  ASSUME CatalogInv, NEW r \in Hosted, DeleteRuntime(r) PROVE CatalogInv'
<1>1. PICK g : g = [catalog EXCEPT ![r] = Absent]
  OBVIOUS
<1>2. r \in CatalogIds /\ r \notin Artifacts
  BY CatalogAssumption DEF CatalogIds
<1>3. /\ process = "up" /\ Saves(g, pull) /\ Accounts({r}) /\ r \in Held(catalog)
      /\ UNCHANGED <<older, file, opener, used, lost>>
  BY <1>1 DEF DeleteRuntime, WithoutRecord, Patched
<1>4. IsCatalog(g) /\ Held(g) = Held(catalog) \ {r} /\ \A j \in CatalogIds \ {r} : g[j] = catalog[j]
  <2>1. IsCatalog(catalog) /\ IsPatch(g, catalog, r, Absent)
    BY InForce, <1>1, <1>2, <1>3 DEF IsPatch
  <2> QED BY <2>1, <1>2, Patching
<1>5. \A j \in Artifacts : IsReady(g, j) => IsReady(catalog, j)
  BY <1>2, <1>4 DEF IsReady, CatalogIds
<1>6. ASSUME process' = "up", pull' = pull, catalog' = g, cut' = cut
      PROVE PullsKnow' /\ \A j \in Artifacts : Writing(j) => Writing(j)'
  BY <1>3, <1>4, <1>6, PullsStay, InForce
<1>7. PICK none, pulls : none = {r} /\ pulls = pull
  OBVIOUS
<1>8. Saves(g, pulls) /\ Accounts(none) /\ none \subseteq used'
  <2>1. r \in used /\ used' = used
    BY <1>3, InForce
  <2>2. none \subseteq used'
    BY <1>7, <2>1
  <2>3. Accounts(none)
    BY <1>3, <1>7, Zenon
  <2> QED BY <1>3, <1>7, <2>2, <2>3
<1>9. Held(g) \subseteq used' /\ used \subseteq used' /\ used' \subseteq CatalogIds /\ used' \ used \subseteq Held(g)
      /\ Held(catalog) \ Held(g) \subseteq none
  BY <1>3, <1>4, <1>7, InForce
<1>10. UNCHANGED <<older, lost, opener>> /\ file' \in [Artifacts -> {"none", "partial", "whole"}]
       /\ \A j \in Artifacts : file[j] = "whole" => file'[j] = "whole"
  BY <1>3, InForce
<1>11. \A j \in Artifacts : IsReady(g, j) /\ j \notin cut => file'[j] = "whole" \/ Writing(j)
  BY <1>3, <1>5, InForce
<1>12. process' = "up" /\ pull' = pulls /\ catalog' = g /\ cut' = cut =>
         PullsKnow' /\ \A j \in Artifacts : IsReady(g, j) /\ j \notin cut => file'[j] = "whole" \/ Writing(j)'
  BY <1>6, <1>7, <1>11
<1> QED BY <1>3, <1>4, <1>8, <1>9, <1>10, <1>11, <1>12, SavingKeeps

(* A pull p of the artifact i may go on or be over, and what is ready then *)
(* was ready before, or its file is whole.                                 *)
MayMove(p, i) ==
  /\ SourceOf[i] = PulledSource[p] /\ (i \in used => i \in Held(catalog))
  /\ pull[p].stage # "idle" => pull[p].stage \in {"fetching", "writing"} /\ pull[p].id = i

FilesStay ==
  /\ UNCHANGED <<older, lost, opener>> /\ file' \in [Artifacts -> {"none", "partial", "whole"}]
  /\ \A j \in Artifacts : file[j] = "whole" => file'[j] = "whole"

StillReady(p, i, records) ==
  /\ \A j \in Artifacts \ {i} : IsReady(records, j) => IsReady(catalog, j)
  /\ IsReady(records, i) => i \in cut \/ file'[i] = "whole" \/ (opener[i] # p /\ IsReady(catalog, i))

LEMMA PullSaves ==
  ASSUME CatalogInv, process = "up", NEW p \in Pulls, NEW next \in {"fetching", "done", "failed"}, NEW i \in Artifacts,
         NEW records, IsCatalog(records), NEW pulls, pulls = PullNow(p, next, i), Saves(records, pulls),
         Accounts({}), NEW extra, extra \subseteq CatalogIds, extra \cap used = {}, used' = used \cup {i} \cup extra,
         Held(records) = Held(catalog) \cup {i} \cup extra, MayMove(p, i), FilesStay, StillReady(p, i, records),
         next = "fetching" => pull[p].stage = "idle"
  PROVE  CatalogInv'
<1>1. i \in CatalogIds
  BY DEF CatalogIds
<1>2. ASSUME process' = "up", pull' = pulls, catalog' = records, cut' = cut
      PROVE PullsKnow' /\ (\A j \in Artifacts \ {i} : Writing(j) => Writing(j)') /\ (opener[i] # p => (Writing(i) => Writing(i)'))
  <2>1. i \in Artifacts \cap used' /\ used \subseteq used' /\ pull' = PullNow(p, next, i)
    BY <1>2
  <2>2. \A k \in used : k \in Held(catalog') => k \in Held(catalog)
    BY <1>2 DEF MayMove
  <2>3. PullsKnow /\ opener' = opener
    BY InForce DEF FilesStay
  <2>4. /\ SourceOf[i] = PulledSource[p]
        /\ pull[p].stage \notin {"idle"} => pull[p].stage \in {"fetching", "writing"} /\ pull[p].id = i
    BY DEF MayMove
  <2> QED BY <1>2, <2>1, <2>2, <2>3, <2>4, PullMoves
<1>3. PICK none : none = {}
  OBVIOUS
<1>4. Accounts(none) /\ none \subseteq used'
  BY <1>3
<1>5. Held(records) \subseteq used' /\ used \subseteq used' /\ used' \subseteq CatalogIds /\ used' \ used \subseteq Held(records)
      /\ Held(catalog) \ Held(records) \subseteq none
  BY <1>1, <1>3, InForce
<1>6. UNCHANGED <<older, lost, opener>> /\ file' \in [Artifacts -> {"none", "partial", "whole"}]
       /\ \A j \in Artifacts : file[j] = "whole" => file'[j] = "whole"
  BY DEF FilesStay
<1>7. \A j \in Artifacts : IsReady(records, j) /\ j \notin cut => file'[j] = "whole" \/ Writing(j)
  <2>1. ASSUME NEW j \in Artifacts, IsReady(records, j), j \notin cut PROVE file'[j] = "whole" \/ Writing(j)
    <3>1. file'[j] = "whole" \/ IsReady(catalog, j)
      BY <2>1 DEF StillReady
    <3>2. IsReady(catalog, j) => file[j] = "whole" \/ Writing(j)
      BY <2>1, InForce
    <3> QED BY <1>6, <2>1, <3>1, <3>2
  <2> QED BY <2>1
<1>8. ASSUME process' = "up", pull' = pulls, catalog' = records, cut' = cut, NEW j \in Artifacts, IsReady(records, j), j \notin cut
      PROVE file'[j] = "whole" \/ Writing(j)'
  <2>1. CASE j = i
    BY <1>2, <1>6, <1>8, <2>1, InForce DEF StillReady
  <2>2. CASE j # i
    <3>1. IsReady(catalog, j)
      BY <1>8, <2>2 DEF StillReady
    <3>2. file[j] = "whole" \/ Writing(j)
      BY <1>8, <3>1, InForce
    <3> QED BY <1>2, <1>6, <1>8, <2>2, <3>2
  <2> QED BY <2>1, <2>2
<1>9. process' = "up" /\ pull' = pulls /\ catalog' = records /\ cut' = cut =>
         PullsKnow' /\ \A j \in Artifacts : IsReady(records, j) /\ j \notin cut => file'[j] = "whole" \/ Writing(j)'
  BY <1>2, <1>8
<1> QED BY <1>4, <1>5, <1>6, <1>7, <1>9, SavingKeeps

LEMMA PullOverKeeps ==
  ASSUME CatalogInv, process = "up", NEW p \in Pulls, NEW i \in Artifacts, NEW records, IsCatalog(records),
         Held(records) = Held(catalog) \cup {i}, MayMove(p, i), FilesStay, StillReady(p, i, records), PullOver(p, i, records)
  PROVE  CatalogInv'
<1>1. PICK pulls, next : pulls = PullNow(p, "done", i) /\ next = "done"
  OBVIOUS
<1>2. CASE p \in Creating
  <2>1. PICK r \in Hosted \ used : /\ used' = used \cup {r, i} /\ Accounts({})
                                    /\ Saves([records EXCEPT ![r] = NewRuntime(i)], pulls)
    BY <1>1, <1>2 DEF PullOver
  <2>2. PICK g : g = [records EXCEPT ![r] = NewRuntime(i)]
    OBVIOUS
  <2>3. NewRuntime(i) \in RecordsFor(r) /\ NewRuntime(i) # Absent /\ r \in CatalogIds /\ r \notin Artifacts
    BY RecordsKeep, NoRecordIsAbsent, CatalogAssumption DEF CatalogIds
  <2>4. IsCatalog(g) /\ Held(g) = Held(records) \cup {r} /\ \A j \in CatalogIds \ {r} : g[j] = records[j]
    <3>1. IsPatch(g, records, r, NewRuntime(i))
      BY <2>2 DEF IsPatch
    <3> QED BY <2>3, <3>1, Patching
  <2>5. \A j \in Artifacts : IsReady(g, j) => IsReady(records, j)
    BY <2>3, <2>4 DEF IsReady, CatalogIds
  <2>6. StillReady(p, i, g)
    BY <2>5 DEF StillReady
  <2>7. PICK extra : extra = {r}
    OBVIOUS
  <2>8. extra \subseteq CatalogIds /\ extra \cap used = {} /\ used' = used \cup {i} \cup extra
        /\ Held(g) = Held(catalog) \cup {i} \cup extra
    BY <2>1, <2>3, <2>4, <2>7
  <2>9. pulls = PullNow(p, next, i) /\ next \in {"fetching", "done", "failed"} /\ next # "fetching"
    BY <1>1
  <2>10. Saves(g, pulls) /\ Accounts({})
    BY <2>1, <2>2
  <2> QED BY <2>4, <2>6, <2>8, <2>9, <2>10, PullSaves
<1>3. CASE p \notin Creating
  <2>1. used' = used \cup {i} /\ Saves(records, pulls) /\ Accounts({})
    BY <1>1, <1>3 DEF PullOver
  <2>2. PICK extra : extra = {}
    OBVIOUS
  <2>3. extra \subseteq CatalogIds /\ extra \cap used = {} /\ used' = used \cup {i} \cup extra
        /\ Held(records) = Held(catalog) \cup {i} \cup extra
    BY <2>1, <2>2
  <2>4. pulls = PullNow(p, next, i) /\ next \in {"fetching", "done", "failed"} /\ next # "fetching"
    BY <1>1
  <2> QED BY <2>1, <2>3, <2>4, PullSaves
<1> QED BY <1>2, <1>3

(* Steps that save nothing and destroy nothing.                            *)
LEMMA MemoryKeeps ==
  ASSUME CatalogInv, process = "up", UNCHANGED <<process, shards, dropped, lost, crashes, older>>,
         IsCatalog(catalog'), used \subseteq used', used' \subseteq CatalogIds,
         Held(catalog') = Held(catalog) \cup (used' \ used), cut' \subseteq Artifacts,
         file' \in [Artifacts -> {"none", "partial", "whole"}], PullsKnow', StoreTells', ReadyIsWhole'
  PROVE  CatalogInv'
<1>1. older = Absent /\ older' = Absent /\ process' = "up"
  BY DEF CatalogInv, WhereRecordsAre
<1>2. CatalogShapes'
  BY DEF CatalogInv, CatalogShapes
<1>3. WhereRecordsAre'
  <2>1. Held(catalog') \subseteq used'
    BY InForce
  <2>2. \A i \in CatalogIds : shards'[i] # Torn /\ (shards'[i] # Absent => i \in used')
    BY DEF CatalogInv, WhereRecordsAre
  <2> QED BY <1>1, <2>1, <2>2 DEF WhereRecordsAre
<1>4. NothingVanishes'
  <2>1. used \ (dropped \cup lost) \subseteq Held(catalog)
    BY DEF CatalogInv, NothingVanishes
  <2>2. used' \ (dropped' \cup lost') \subseteq Held(catalog')
    BY <2>1
  <2> QED BY <1>1, <2>2 DEF NothingVanishes
<1>5. CrashesCost'
  BY <1>1 DEF CatalogInv, CrashesCost, TornOut
<1>6. StoredIsWhole'
  BY <1>1 DEF StoredIsWhole
<1> QED BY <1>2, <1>3, <1>4, <1>5, <1>6 DEF CatalogInv

(* A pull that had nothing to do, or whose artifact is gone, ends.         *)
LEMMA PullEnds ==
  ASSUME CatalogInv, process = "up", NEW p \in Pulls, NEW next \in {"done", "failed"}, NEW i \in Artifacts \cap used,
         pull' = PullNow(p, next, i), UNCHANGED <<process, catalog, shards, used, dropped, cut, crashes>>, FilesStay,
         SourceOf[i] = PulledSource[p],
         pull[p].stage # "idle" => pull[p].stage \in {"fetching", "writing"} /\ pull[p].id = i,
         i \in Held(catalog) => pull[p].stage = "idle"
  PROVE  CatalogInv'
<1>1. PullsKnow /\ process' = "up" /\ UNCHANGED opener /\ next # "fetching" /\ next \in {"fetching", "done", "failed"}
  BY InForce DEF FilesStay
<1>2. PullsKnow' /\ (\A j \in Artifacts \ {i} : Writing(j) => Writing(j)') /\ (opener[i] # p => (Writing(i) => Writing(i)'))
  <2>1. pull[p].stage \notin {"idle"} => pull[p].stage \in {"fetching", "writing"} /\ pull[p].id = i
    OBVIOUS
  <2>2. \A k \in used : k \in Held(catalog') => k \in Held(catalog)
    OBVIOUS
  <2> QED BY <1>1, <2>1, <2>2, PullMoves
<1>3. i \in Held(catalog) => opener[i] # p
  BY CatalogAssumption, InForce DEF PullsKnow
<1>4. StoreTells'
  <2>1. SUFFICES ASSUME NEW j \in CatalogIds, shards[j] # catalog[j]
                 PROVE  /\ shards[j] = Absent /\ j \in Artifacts /\ catalog[j].status = "pulling"
                        /\ \E q \in Pulls : pull'[q].id = j /\ pull'[q].stage \in {"fetching", "writing"}
    BY DEF StoreTells
  <2>2. PICK q \in Pulls : /\ shards[j] = Absent /\ j \in Artifacts /\ catalog[j].status = "pulling"
                           /\ pull[q].id = j /\ pull[q].stage \in {"fetching", "writing"}
    BY <2>1 DEF CatalogInv, StoreTells
  <2>3. q # p
    <3>1. j \in Held(catalog)
      BY <2>1, <2>2, HeldIs, InForce
    <3> QED BY <2>2, <3>1
  <2>4. pull'[q] = pull[q]
    BY <2>3, <1>1 DEF PullNow, PullsKnow
  <2> QED BY <2>2, <2>4
<1>5. ReadyIsWhole'
  <2>1. ASSUME NEW j \in Artifacts, IsReady(catalog, j), j \notin cut PROVE file'[j] = "whole" \/ Writing(j)'
    <3>1. file[j] = "whole" \/ Writing(j)
      BY <2>1, InForce
    <3>2. j = i => opener[i] # p
      BY <1>3, <2>1 DEF IsReady
    <3> QED BY <1>2, <2>1, <3>1, <3>2 DEF FilesStay
  <2> QED BY <2>1 DEF ReadyIsWhole, IsReady
<1>6. IsCatalog(catalog') /\ used \subseteq used' /\ used' \subseteq CatalogIds /\ Held(catalog') = Held(catalog) \cup (used' \ used)
  BY InForce
<1>7. cut' \subseteq Artifacts
  BY DEF CatalogInv, CatalogShapes
<1>8. file' \in [Artifacts -> {"none", "partial", "whole"}] /\ UNCHANGED <<process, shards, dropped, lost, crashes, older>>
  BY DEF FilesStay
<1> QED BY <1>2, <1>4, <1>5, <1>6, <1>7, <1>8, MemoryKeeps

LEMMA PullRecordsKeep ==
  ASSUME CatalogInv, process = "up", NEW p \in Pulls, NEW i \in Artifacts, NEW a \in ArtifactRecords,
         MayMove(p, i), FilesStay, PulledSource[p] \in Recorded, PullRecords(p, i, a)
  PROVE  CatalogInv'
<1>1. SourceOf[i] \notin Downloaded /\ i \in CatalogIds
  BY CatalogAssumption DEF MayMove, CatalogIds
<1>2. PICK ready, error : ready = [a EXCEPT !.status = "ready"] /\ error = [a EXCEPT !.status = "error"]
  OBVIOUS
<1>3. \A r \in {ready, error} : r \in RecordsFor(i) /\ r # Absent
  <2>1. ready \in ArtifactRecords /\ error \in ArtifactRecords
    BY <1>2 DEF ArtifactRecords
  <2> QED BY <2>1, RecordsKeep, NoRecordIsAbsent
<1>4. \A r \in RecordsFor(i) \ {Absent} : \A g : IsPatch(g, catalog, i, r) =>
        IsCatalog(g) /\ Held(g) = Held(catalog) \cup {i} /\ StillReady(p, i, g)
  <2> SUFFICES ASSUME NEW r \in RecordsFor(i) \ {Absent}, NEW g, IsPatch(g, catalog, i, r)
               PROVE  IsCatalog(g) /\ Held(g) = Held(catalog) \cup {i} /\ StillReady(p, i, g)
    OBVIOUS
  <2>1. IsCatalog(catalog)
    BY InForce
  <2>2. IsCatalog(g) /\ Held(g) = Held(catalog) \cup {i} /\ \A j \in CatalogIds \ {i} : g[j] = catalog[j]
    <3>1. i \in CatalogIds /\ r \in RecordsFor(i) \cup {Absent} /\ r # Absent
      BY <1>1
    <3>2. /\ IsCatalog(g) /\ g[i] = r /\ \A j \in CatalogIds \ {i} : g[j] = catalog[j]
          /\ Held(g) = IF r = Absent THEN Held(catalog) \ {i} ELSE Held(catalog) \cup {i}
      BY <2>1, <3>1, Patching
    <3> QED BY <3>1, <3>2
  <2>3. StillReady(p, i, g)
    BY <1>1, <2>2 DEF StillReady, IsReady, CatalogIds
  <2> QED BY <2>2, <2>3
<1>5. CASE PullOver(p, i, Patched(i, [a EXCEPT !.status = "ready"]))
  <2>1. PICK g : g = [catalog EXCEPT ![i] = ready]
    OBVIOUS
  <2>2. PullOver(p, i, g)
    BY <1>2, <1>5, <2>1 DEF Patched
  <2>3. IsPatch(g, catalog, i, ready)
    BY <2>1 DEF IsPatch
  <2> QED BY <1>3, <1>4, <2>2, <2>3, PullOverKeeps
<1>6. CASE /\ used' = used \cup {i}
           /\ Saves(Patched(i, [a EXCEPT !.status = "error"]), PullNow(p, "failed", i))
           /\ Accounts({})
  <2>1. PICK g, pulls, next, extra : g = [catalog EXCEPT ![i] = error] /\ pulls = PullNow(p, next, i)
                                      /\ next = "failed" /\ extra = {}
    OBVIOUS
  <2>2. Saves(g, pulls)
    BY <1>2, <1>6, <2>1 DEF Patched
  <2>3. IsCatalog(g) /\ Held(g) = Held(catalog) \cup {i} /\ StillReady(p, i, g)
    <3>1. IsPatch(g, catalog, i, error)
      BY <2>1 DEF IsPatch
    <3> QED BY <1>3, <1>4, <3>1
  <2>4. extra \subseteq CatalogIds /\ extra \cap used = {} /\ used' = used \cup {i} \cup extra
        /\ Held(g) = Held(catalog) \cup {i} \cup extra
    BY <1>6, <2>1, <2>3
  <2>5. pulls = PullNow(p, next, i) /\ next \in {"fetching", "done", "failed"} /\ next # "fetching" /\ Accounts({})
    BY <1>6, <2>1
  <2> QED BY <2>2, <2>3, <2>4, <2>5, PullSaves
<1> QED BY <1>5, <1>6 DEF PullRecords

LEMMA PullBeginsKeeps == ASSUME CatalogInv, NEW p \in Pulls, PullBegins(p) PROVE CatalogInv'
<1>1. process = "up" /\ pull[p].stage = "idle" /\ UNCHANGED <<older, file, opener, lost>>
  BY DEF PullBegins
<1>2. FilesStay
  BY <1>1, InForce DEF FilesStay
<1>3. ASSUME NEW i \in Artifacts, i \in Held(catalog), SourceOf[i] = PulledSource[p], ExistingPull(p, i) PROVE CatalogInv'
  <2>1. MayMove(p, i) /\ i \in used
    BY <1>1, <1>3, InForce DEF MayMove
  <2>2. opener[i] # p
    BY <1>1, CatalogAssumption, InForce DEF PullsKnow
  <2>3. StillReady(p, i, catalog) /\ IsCatalog(catalog) /\ Held(catalog) = Held(catalog) \cup {i}
    BY <1>1, <1>3, <2>2, InForce DEF StillReady
  <2>4. CASE catalog[i].status = "ready" /\ p \in Creating
    <3>1. PullOver(p, i, catalog)
      BY <1>3, <2>4 DEF ExistingPull
    <3>2. PICK c : c = catalog
      OBVIOUS
    <3> QED BY <1>1, <1>2, <2>1, <2>3, <3>1, <3>2, PullOverKeeps
  <2>5. CASE catalog[i].status = "ready" /\ p \notin Creating
    <3>1. PICK next : next = "done"
      OBVIOUS
    <3>2. pull' = PullNow(p, next, i) /\ UNCHANGED <<process, catalog, shards, used, dropped, cut, crashes>>
      BY <1>3, <2>5, <3>1 DEF ExistingPull
    <3>3. next \in {"done", "failed"}
      BY <3>1
    <3> QED BY <1>1, <1>2, <1>3, <2>1, <3>2, <3>3, PullEnds
  <2>6. CASE catalog[i].status # "ready" /\ PulledSource[p] \in Recorded
    <3>1. PullRecords(p, i, catalog[i])
      BY <1>3, <2>6 DEF ExistingPull
    <3>2. catalog[i] \in ArtifactRecords
      BY <1>3, RecordsKeep
    <3> QED BY <1>1, <1>2, <2>1, <2>6, <3>1, <3>2, PullRecordsKeep
  <2>7. CASE catalog[i].status # "ready" /\ PulledSource[p] \notin Recorded
    <3>1. PICK pulls, next, extra, records : pulls = PullNow(p, next, i) /\ next = "fetching" /\ extra = {} /\ records = catalog
      OBVIOUS
    <3>2. Saves(catalog, PullNow(p, "fetching", i)) /\ used' = used /\ Accounts({})
      BY <1>3, <2>7 DEF ExistingPull
    <3>3. Saves(records, pulls)
      BY <3>1, <3>2
    <3>4. extra \subseteq CatalogIds /\ extra \cap used = {} /\ used' = used \cup {i} \cup extra
          /\ Held(records) = Held(catalog) \cup {i} \cup extra
      BY <2>1, <2>3, <3>1, <3>2
    <3>5. pulls = PullNow(p, next, i) /\ next \in {"fetching", "done", "failed"} /\ Accounts({})
      BY <3>1, <3>2
    <3>6. IsCatalog(records) /\ StillReady(p, i, records)
      BY <2>3, <3>1
    <3> QED BY <1>1, <1>2, <2>1, <3>3, <3>4, <3>5, <3>6, PullSaves
  <2> QED BY <2>4, <2>5, <2>6, <2>7
<1>4. ASSUME NEW i \in Artifacts, i \notin used, SourceOf[i] = PulledSource[p], NewPull(p, i) PROVE CatalogInv'
  <2>1. MayMove(p, i) /\ i \notin Held(catalog) /\ i \in CatalogIds
    BY <1>1, <1>4, InForce DEF MayMove, CatalogIds
  <2>2. PICK new : new = [status |-> "pulling", tagged |-> FALSE]
    OBVIOUS
  <2>3. new \in ArtifactRecords
    <3>1. PICK no \in BOOLEAN : no = FALSE
      OBVIOUS
    <3> QED BY <2>2, <3>1 DEF ArtifactRecords
  <2>4. CASE PulledSource[p] \in Recorded
    <3>1. PullRecords(p, i, new)
      BY <1>4, <2>2, <2>4 DEF NewPull
    <3> QED BY <1>1, <1>2, <2>1, <2>3, <2>4, <3>1, PullRecordsKeep
  <2>5. CASE PulledSource[p] \notin Recorded
    <3>1. /\ catalog' = Patched(i, new) /\ pull' = PullNow(p, "fetching", i) /\ used' = used \cup {i}
          /\ UNCHANGED <<process, shards, dropped, cut, crashes>>
      BY <1>4, <2>2, <2>5 DEF NewPull
    <3>2. PICK c : c = catalog'
      OBVIOUS
    <3>3. IsCatalog(c) /\ c[i] = new /\ (\A j \in CatalogIds \ {i} : c[j] = catalog[j]) /\ Held(c) = Held(catalog) \cup {i}
      <4>1. IsPatch(c, catalog, i, new) /\ IsCatalog(catalog)
        BY <1>1, <3>1, <3>2, InForce DEF IsPatch, Patched
      <4>2. new \in RecordsFor(i) /\ new # Absent
        BY <2>3, RecordsKeep, NoRecordIsAbsent
      <4> QED BY <2>1, <4>1, <4>2, Patching
    <3>4. PullsKnow' /\ \A j \in Artifacts : Writing(j) => Writing(j)'
      <4>1. PICK next : next = "fetching"
        OBVIOUS
      <4>2. next \in {"fetching", "done", "failed"} /\ pull' = PullNow(p, next, i) /\ process' = "up" /\ cut' = cut
            /\ opener' = opener /\ used \subseteq used' /\ i \in Artifacts \cap used'
        BY <1>1, <3>1, <4>1
      <4>3. \A k \in used : k \in Held(catalog') => k \in Held(catalog)
        BY <1>4, <3>2, <3>3
      <4>4. PullsKnow'
            /\ (\A j \in Artifacts \ {i} : Writing(j) => Writing(j)')
            /\ (opener[i] # p => (Writing(i) => Writing(i)'))
        BY <1>1, <1>4, <4>2, <4>3, PullMoves, InForce
      <4>5. opener[i] # p
        BY <1>1, CatalogAssumption, InForce DEF PullsKnow
      <4> QED BY <4>4, <4>5
    <3>5. StoreTells'
      <4>1. pull'[p].id = i /\ pull'[p].stage \in {"fetching", "writing"} /\ \A q \in Pulls \ {p} : pull'[q] = pull[q]
        BY <1>1, <3>1, InForce DEF PullNow, PullsKnow
      <4>2. shards[i] = Absent /\ new.status = "pulling"
        BY <1>4, <2>1, <2>2 DEF CatalogInv, WhereRecordsAre
      <4>3. ASSUME NEW j \in CatalogIds \ {i}, shards[j] # catalog[j]
            PROVE  /\ shards[j] = Absent /\ j \in Artifacts /\ catalog[j].status = "pulling"
                   /\ \E q \in Pulls : pull'[q].id = j /\ pull'[q].stage \in {"fetching", "writing"}
        BY <1>1, <4>1, <4>3 DEF CatalogInv, StoreTells
      <4>4. \A j \in CatalogIds \ {i} : c[j] = catalog[j]
        BY <3>3
      <4>5. \A j \in CatalogIds : shards[j] = c[j] \/ (/\ shards[j] = Absent /\ j \in Artifacts /\ c[j].status = "pulling"
                   /\ \E q \in Pulls : pull'[q].id = j /\ pull'[q].stage \in {"fetching", "writing"})
        BY <3>3, <4>1, <4>2, <4>3, <4>4
      <4> QED BY <3>1, <3>2, <4>5 DEF StoreTells
    <3>6. ReadyIsWhole'
      <4>1. new.status # "ready"
        BY <2>2
      <4>2. \A j \in Artifacts : IsReady(c, j) => IsReady(catalog, j)
        BY <3>3, <4>1 DEF IsReady, CatalogIds
      <4>3. \A j \in Artifacts : IsReady(catalog, j) /\ j \notin cut => file[j] = "whole" \/ Writing(j)
        BY <1>1, InForce
      <4>4. \A j \in Artifacts : IsReady(catalog', j) /\ j \notin cut' => file'[j] = "whole" \/ Writing(j)'
        BY <1>1, <3>1, <3>2, <3>4, <4>2, <4>3
      <4> QED BY <4>4 DEF ReadyIsWhole, IsReady
    <3>7. cut' \subseteq Artifacts
      BY <3>1 DEF CatalogInv, CatalogShapes
    <3>8. /\ used \subseteq used' /\ used' \subseteq CatalogIds /\ Held(catalog') = Held(catalog) \cup (used' \ used)
          /\ IsCatalog(catalog') /\ file' \in [Artifacts -> {"none", "partial", "whole"}]
      BY <1>1, <1>4, <2>1, <3>1, <3>2, <3>3, InForce
    <3>9. UNCHANGED <<process, shards, dropped, lost, crashes, older>>
      BY <1>1, <3>1
    <3> QED BY <1>1, <3>4, <3>5, <3>6, <3>7, <3>8, <3>9, MemoryKeeps
  <2> QED BY <2>4, <2>5
<1> QED BY <1>3, <1>4 DEF PullBegins

LEMMA PullFailsKeeps ==
  ASSUME CatalogInv, process = "up", NEW p \in Pulls, pull[p].stage \in {"fetching", "writing"}, FilesStay, PullFails(p)
  PROVE  CatalogInv'
<1>1. PICK i : i = pull[p].id
  OBVIOUS
<1>2. i \in Artifacts /\ i \in used /\ i \in CatalogIds /\ SourceOf[i] = PulledSource[p] /\ pull[p].stage # "idle"
  BY <1>1, InForce DEF PullsKnow
<1>3. PICK next : next = "failed"
  OBVIOUS
<1>4. CASE i \in Held(catalog)
  <2>1. PICK r, g, pulls, extra : /\ r = [catalog[i] EXCEPT !.status = "error"]
                                 /\ g = [catalog EXCEPT ![i] = r] /\ pulls = PullNow(p, next, i) /\ extra = {}
    OBVIOUS
  <2>2. Saves(g, pulls) /\ used' = used /\ Accounts({})
    BY <1>1, <1>3, <1>4, <2>1 DEF PullFails, Failed, WithStatus, Patched
  <2>3. r \in ArtifactRecords /\ r.status # "ready"
    <3>1. catalog[i] \in ArtifactRecords
      BY <1>2, <1>4, RecordsKeep
    <3> QED BY <2>1, <3>1 DEF ArtifactRecords
  <2>4. IsCatalog(g) /\ g[i] = r /\ Held(g) = Held(catalog) /\ \A j \in CatalogIds \ {i} : g[j] = catalog[j]
    <3>1. IsPatch(g, catalog, i, r) /\ IsCatalog(catalog)
      BY <2>1, InForce DEF IsPatch
    <3>2. r \in RecordsFor(i) /\ r # Absent
      BY <1>2, <2>3, RecordsKeep, NoRecordIsAbsent
    <3> QED BY SMTT(30), <1>2, <1>4, <3>1, <3>2, Patching
  <2>5. StillReady(p, i, g)
    BY <2>3, <2>4 DEF StillReady, IsReady, CatalogIds
  <2>6. MayMove(p, i)
    BY <1>1, <1>2, <1>4 DEF MayMove
  <2>7. extra \subseteq CatalogIds /\ extra \cap used = {} /\ used' = used \cup {i} \cup extra
        /\ Held(g) = Held(catalog) \cup {i} \cup extra
    BY <1>2, <1>4, <2>1, <2>2, <2>4
  <2>8. next \in {"fetching", "done", "failed"} /\ next # "fetching" /\ pulls = PullNow(p, next, i)
    BY <1>3, <2>1
  <2> QED BY <1>2, <2>2, <2>4, <2>5, <2>6, <2>7, <2>8, PullSaves
<1>5. CASE i \notin Held(catalog)
  <2>1. pull' = PullNow(p, next, i) /\ UNCHANGED <<process, catalog, shards, used, dropped, cut, crashes>>
    BY <1>1, <1>3, <1>5 DEF PullFails
  <2>2. next \in {"done", "failed"} /\ i \in Artifacts \cap used
    BY <1>2, <1>3
  <2> QED BY <1>1, <1>2, <1>5, <2>1, <2>2, PullEnds
<1> QED BY <1>4, <1>5

LEMMA PullSucceedsKeeps ==
  ASSUME CatalogInv, process = "up", NEW p \in Pulls, pull[p].stage \in {"fetching", "writing"}, FilesStay,
         PullSucceeds(p), PulledSource[p] \in Downloaded => pull[p].id \in cut \/ file'[pull[p].id] = "whole" \/ pull[p].id \notin Held(catalog)
  PROVE  CatalogInv'
<1>1. PICK i : i = pull[p].id
  OBVIOUS
<1>2. i \in Artifacts /\ i \in used /\ i \in CatalogIds /\ SourceOf[i] = PulledSource[p] /\ pull[p].stage # "idle"
  BY <1>1, InForce DEF PullsKnow
<1>3. CASE i \in Held(catalog)
  <2>1. PICK r, g : r = [catalog[i] EXCEPT !.status = "ready"] /\ g = [catalog EXCEPT ![i] = r]
    OBVIOUS
  <2>2. PullOver(p, i, g)
    BY <1>1, <1>3, <2>1 DEF PullSucceeds, WithStatus, Patched
  <2>3. r \in ArtifactRecords
    <3>1. catalog[i] \in ArtifactRecords
      BY <1>2, <1>3, RecordsKeep
    <3> QED BY <2>1, <3>1 DEF ArtifactRecords
  <2>4. IsCatalog(g) /\ g[i] = r /\ Held(g) = Held(catalog) \cup {i} /\ \A j \in CatalogIds \ {i} : g[j] = catalog[j]
    <3>1. IsPatch(g, catalog, i, r) /\ IsCatalog(catalog)
      BY <2>1, InForce DEF IsPatch
    <3>2. r \in RecordsFor(i) /\ r # Absent
      BY <1>2, <2>3, RecordsKeep, NoRecordIsAbsent
    <3> QED BY <1>2, <1>3, <3>1, <3>2, Patching
  <2>5. StillReady(p, i, g)
    BY <1>1, <1>2, <1>3, <2>4 DEF StillReady, IsReady, CatalogIds
  <2>6. MayMove(p, i)
    BY <1>1, <1>2, <1>3 DEF MayMove
  <2> QED BY <1>2, <2>2, <2>4, <2>5, <2>6, PullOverKeeps
<1>4. CASE i \notin Held(catalog)
  BY <1>1, <1>4, PullFailsKeeps DEF PullSucceeds
<1> QED BY <1>3, <1>4

LEMMA FetchAnswersKeeps == ASSUME CatalogInv, NEW p \in Pulls, FetchAnswers(p) PROVE CatalogInv'
<1>1. process = "up" /\ pull[p].stage = "fetching" /\ UNCHANGED <<older, lost>>
  BY DEF FetchAnswers
<1>2. CASE PulledSource[p] \notin Downloaded
  <2>1. PullSucceeds(p) /\ UNCHANGED <<file, opener>>
    BY <1>2 DEF FetchAnswers
  <2>2. FilesStay
    BY <1>1, <2>1, InForce DEF FilesStay
  <2> QED BY <1>1, <1>2, <2>1, <2>2, PullSucceedsKeeps
<1>3. CASE PulledSource[p] \in Downloaded
  <2>1. PICK i : i = pull[p].id
    OBVIOUS
  <2>2. /\ pull' = PullNow(p, "writing", i)
        /\ file' = [file EXCEPT ![i] = "partial"]
        /\ opener' = [opener EXCEPT ![i] = p]
        /\ cut' = IF \E q \in Pulls : pull[q] = [stage |-> "writing", id |-> i] THEN cut \cup {i} ELSE cut
        /\ UNCHANGED <<process, catalog, shards, used, dropped, crashes>>
    BY <1>3, <2>1 DEF FetchAnswers
  <2>3. i \in Artifacts /\ i \in used /\ SourceOf[i] = PulledSource[p]
    BY <1>1, <2>1, InForce DEF PullsKnow
  <2>4. PullsKnow /\ p # Absent
    BY <1>1, CatalogAssumption, InForce
  <2>5. pull'[p].stage = "writing" /\ pull'[p].id = i /\ \A q \in Pulls \ {p} : pull'[q] = pull[q]
    BY <2>2, <2>4 DEF PullNow, PullsKnow
  <2>6. opener'[i] = p /\ \A j \in Artifacts \ {i} : opener'[j] = opener[j]
    BY <2>2, <2>3, <2>4 DEF PullsKnow
  <2>7. pull' \in [Pulls -> [stage : PullStages, id : Artifacts \cup {Absent}]]
    BY <2>2, <2>3, <2>4 DEF PullNow, PullsKnow, PullStages
  <2>8. opener' \in [Artifacts -> Pulls \cup {Absent}]
    BY <2>2, <2>3, <2>4 DEF PullsKnow
  <2>9. cut \subseteq cut' /\ cut' \subseteq Artifacts
    BY <2>2, <2>3 DEF CatalogInv, CatalogShapes
  <2>10. \A j \in Artifacts \ {i} : opener[j] # Absent => opener[j] # p /\ opener[j] \in Pulls
    BY <1>1, <2>4 DEF PullsKnow
  <2>11. \A j \in Artifacts : opener'[j] # Absent =>
       pull'[opener'[j]].id = j /\ pull'[opener'[j]].stage \notin {"idle", "fetching"}
    BY <2>4, <2>5, <2>6, <2>10 DEF PullsKnow
  <2>12. ASSUME NEW q \in Pulls, pull'[q].stage = "writing"
         PROVE  opener'[pull'[q].id] = q \/ pull'[q].id \in cut' \/ pull'[q].id \notin Held(catalog')
    <3>1. CASE q = p
      BY <2>5, <2>6, <3>1
    <3>2. CASE q # p /\ pull[q].id = i
      <4>1. pull[q].stage = "writing" /\ pull'[q] = pull[q]
        BY <2>5, <2>12, <3>2
      <4>2. PICK w : w = pull[q]
        OBVIOUS
      <4>3. w \in [stage : PullStages, id : Artifacts \cup {Absent}] /\ w.stage = "writing" /\ w.id = i
        BY <2>4, <3>2, <4>1, <4>2 DEF PullsKnow
      <4>4. w = [stage |-> "writing", id |-> i]
        BY <4>3
      <4>5. i \in cut'
        BY <2>2, <4>2, <4>4
      <4> QED BY <3>2, <4>1, <4>5
    <3>3. CASE q # p /\ pull[q].id # i
      <4>1. pull[q].stage = "writing" /\ pull'[q] = pull[q] /\ pull[q].id \in Artifacts
        BY <2>4, <2>5, <2>12, <3>3 DEF PullsKnow
      <4>2. opener[pull[q].id] = q \/ pull[q].id \in cut \/ pull[q].id \notin Held(catalog)
        BY <2>4, <4>1 DEF PullsKnow
      <4>3. opener'[pull[q].id] = opener[pull[q].id]
        BY <2>6, <3>3, <4>1
      <4> QED BY <2>2, <2>9, <4>1, <4>2, <4>3
    <3> QED BY <3>1, <3>2, <3>3
  <2>13. \A q \in Pulls : pull'[q].stage \in {"fetching", "writing"} =>
       pull'[q].id \in Artifacts \cap used' /\ SourceOf[pull'[q].id] = PulledSource[q]
    BY <2>2, <2>3, <2>4, <2>5 DEF PullsKnow
  <2>14. PullsKnow'
    BY <1>1, <2>2, <2>7, <2>8, <2>11, <2>12, <2>13 DEF PullsKnow
  <2>15. StoreTells'
    <3>1. \A q \in Pulls : pull[q].stage \in {"fetching", "writing"} =>
            pull'[q].id = pull[q].id /\ pull'[q].stage \in {"fetching", "writing"}
      BY <2>1, <2>5
    <3> QED BY <1>1, <2>2, <3>1 DEF CatalogInv, StoreTells
  <2>16. ReadyIsWhole'
    <3>1. Writing(i)'
      BY <2>4, <2>5, <2>6 DEF Writing
    <3>2. \A j \in Artifacts \ {i} : Writing(j) => Writing(j)'
      BY <2>5, <2>6, <2>10 DEF Writing
    <3>3. \A j \in Artifacts \ {i} : file'[j] = file[j]
      BY <2>2, <2>3, <1>1, InForce
    <3>4. \A j \in Artifacts : IsReady(catalog, j) /\ j \notin cut => file[j] = "whole" \/ Writing(j)
      BY <1>1, InForce
    <3>5. \A j \in Artifacts : IsReady(catalog, j) /\ j \notin cut' => file'[j] = "whole" \/ Writing(j)'
      BY <2>9, <3>1, <3>2, <3>3, <3>4
    <3> QED BY <2>2, <3>5 DEF ReadyIsWhole, IsReady
  <2>17. file' \in [Artifacts -> {"none", "partial", "whole"}]
    BY <1>1, <2>2, <2>3, InForce
  <2>18. UNCHANGED <<process, shards, dropped, lost, crashes, older>>
    BY <1>1, <2>2
  <2>19. IsCatalog(catalog') /\ used \subseteq used' /\ used' \subseteq CatalogIds /\ Held(catalog') = Held(catalog) \cup (used' \ used)
    BY <1>1, <2>2, InForce
  <2> QED BY <1>1, <2>9, <2>14, <2>15, <2>16, <2>17, <2>18, <2>19, MemoryKeeps
<1> QED BY <1>2, <1>3

LEMMA DownloadEndsKeeps == ASSUME CatalogInv, NEW p \in Pulls, DownloadEnds(p) PROVE CatalogInv'
<1>1. PICK i : i = pull[p].id
  OBVIOUS
<1>2. /\ process = "up" /\ pull[p].stage = "writing" /\ UNCHANGED <<older, opener, lost>> /\ PullSucceeds(p)
      /\ file' = IF opener[i] = p THEN [file EXCEPT ![i] = "whole"] ELSE file
  BY <1>1 DEF DownloadEnds
<1>3. i \in Artifacts /\ (opener[i] = p \/ i \in cut \/ i \notin Held(catalog))
  BY <1>1, <1>2, InForce DEF PullsKnow
<1>4. FilesStay /\ (opener[i] = p => file'[i] = "whole")
  BY <1>2, <1>3, InForce DEF FilesStay
<1> QED BY <1>1, <1>2, <1>3, <1>4, PullSucceedsKeeps

LEMMA FetchFailsKeeps == ASSUME CatalogInv, NEW p \in Pulls, FetchFails(p) PROVE CatalogInv'
<1>1. process = "up" /\ pull[p].stage \in {"fetching", "writing"} /\ UNCHANGED <<older, file, opener, lost>> /\ PullFails(p)
  BY DEF FetchFails
<1>2. FilesStay
  BY <1>1, InForce DEF FilesStay
<1> QED BY <1>1, <1>2, PullFailsKeeps

LEMMA DeleteArtifactKeeps == ASSUME CatalogInv, NEW i \in Artifacts, DeleteArtifact(i) PROVE CatalogInv'
<1>1. process = "up" /\ i \in Held(catalog) /\ UNCHANGED <<older, used, lost>>
  BY DEF DeleteArtifact
<1>2. PICK first \in (IF RuntimesOf(i) = {} THEN {Absent} ELSE RuntimesOf(i)) :
        LET before == IF first = Absent THEN catalog ELSE WithoutRecord(first)
            after  == [before EXCEPT ![i] = Absent]
            FilesGo == /\ file' = [file EXCEPT ![i] = "none"]
                       /\ opener' = [opener EXCEPT ![i] = Absent]
        IN /\ \/ /\ catalog' = after /\ shards' = after /\ UNCHANGED <<process, pull, crashes>>
                 /\ FilesGo
              \/ /\ Ends
                 /\ \/ shards' \in SavedPartly(shards, before) /\ UNCHANGED <<file, opener>>
                    \/ shards' \in {before} \cup SavedPartly(before, after) /\ FilesGo
           /\ Cuts({i}) /\ Drops({i, first} \ {Absent})
  BY DEF DeleteArtifact
<1>3. PICK before : before = IF first = Absent THEN catalog ELSE WithoutRecord(first)
  OBVIOUS
<1>4. PICK after : after = [before EXCEPT ![i] = Absent]
  OBVIOUS
<1>5. PICK asked, files : asked = {i, first} \ {Absent} /\ files = {i}
  OBVIOUS
<1>6. /\ \/ /\ catalog' = after /\ shards' = after /\ UNCHANGED <<process, pull, crashes>>
            /\ file' = [file EXCEPT ![i] = "none"] /\ opener' = [opener EXCEPT ![i] = Absent]
         \/ /\ Ends
            /\ \/ shards' \in SavedPartly(shards, before) /\ UNCHANGED <<file, opener>>
               \/ /\ shards' \in {before} \cup SavedPartly(before, after)
                  /\ file' = [file EXCEPT ![i] = "none"] /\ opener' = [opener EXCEPT ![i] = Absent]
      /\ Cuts(files) /\ Drops(asked)
  BY <1>2, <1>3, <1>4, <1>5
<1>7. i \in CatalogIds /\ i # Absent /\ i \in used /\ i \in asked /\ files \subseteq Artifacts
  BY <1>1, <1>5, CatalogAssumption, InForce DEF CatalogIds
<1>8. first = Absent \/ (first \in Held(catalog) /\ first \in CatalogIds /\ first \in Hosted /\ first # Absent /\ first # i)
  BY <1>2, CatalogAssumption DEF RuntimesOf, CatalogIds
<1>9. /\ IsCatalog(before) /\ Held(before) = Held(catalog) \ {first}
      /\ \A j \in CatalogIds \ {first} : before[j] = catalog[j]
  <2>1. CASE first = Absent
    <3>1. before = catalog
      BY <1>3, <2>1
    <3>2. Absent \notin Held(catalog)
      BY CatalogAssumption DEF Held
    <3> QED BY <1>1, <2>1, <3>1, <3>2, InForce
  <2>2. CASE first # Absent
    <3>1. IsPatch(before, catalog, first, Absent) /\ IsCatalog(catalog)
      BY <1>1, <1>3, <2>2, InForce DEF WithoutRecord, Patched, IsPatch
    <3> QED BY <1>8, <2>2, <3>1, Patching
  <2> QED BY <2>1, <2>2
<1>10. IsCatalog(after) /\ Held(after) = Held(before) \ {i} /\ after[i] = Absent /\ \A j \in CatalogIds \ {i} : after[j] = before[j]
  <2>1. IsPatch(after, before, i, Absent)
    BY <1>4 DEF IsPatch
  <2> QED BY <1>7, <1>9, <2>1, Patching
<1>11. \A j \in Artifacts : IsReady(before, j) => IsReady(catalog, j)
  BY <1>8, <1>9, CatalogAssumption DEF IsReady, CatalogIds
<1>12. \A j \in Artifacts : IsReady(after, j) => j # i /\ IsReady(before, j)
  BY <1>10 DEF IsReady, CatalogIds
<1>13. asked \subseteq used' /\ Held(before) \subseteq used' /\ Held(after) \subseteq used' /\ used \subseteq used' /\ used' \subseteq CatalogIds
       /\ used' = used
  BY <1>1, <1>5, <1>7, <1>8, <1>9, <1>10, InForce
<1>14. Held(catalog) \ Held(before) \subseteq asked /\ Held(catalog) \ Held(after) \subseteq asked
  <2>1. first \in Held(catalog) => first \in asked
    BY <1>5, <1>8, CatalogAssumption DEF Held
  <2>2. \A j \in Held(catalog) : j \in Held(before) \/ j \in asked
    BY <1>9, <2>1
  <2>3. \A j \in Held(catalog) : j \in Held(after) \/ j \in asked
    BY <1>7, <1>10, <2>2
  <2> QED BY <2>2, <2>3
<1>15. \A j \in Artifacts : IsReady(catalog, j) /\ j \notin cut => file[j] = "whole" \/ Writing(j)
  BY <1>1, InForce
<1>16. file \in [Artifacts -> {"none", "partial", "whole"}] /\ opener \in [Artifacts -> Pulls \cup {Absent}] /\ PullsKnow
  BY <1>1, InForce DEF PullsKnow
<1>17. ASSUME file' = [file EXCEPT ![i] = "none"], opener' = [opener EXCEPT ![i] = Absent]
       PROVE  /\ file' \in [Artifacts -> {"none", "partial", "whole"}] /\ opener' \in [Artifacts -> Pulls \cup {Absent}]
              /\ \A j \in Artifacts \ {i} : file'[j] = file[j] /\ opener'[j] = opener[j]
              /\ opener'[i] = Absent
  BY <1>16, <1>17
<1>18. CASE /\ catalog' = after /\ shards' = after /\ UNCHANGED <<process, pull, crashes>>
            /\ file' = [file EXCEPT ![i] = "none"] /\ opener' = [opener EXCEPT ![i] = Absent]
  <2>1. /\ file' \in [Artifacts -> {"none", "partial", "whole"}] /\ opener' \in [Artifacts -> Pulls \cup {Absent}]
        /\ \A j \in Artifacts \ {i} : file'[j] = file[j] /\ opener'[j] = opener[j]
        /\ opener'[i] = Absent
    BY <1>17, <1>18
  <2>2. cut' = cut /\ process' = "up"
    BY <1>1, <1>6, <1>18 DEF Cuts
  <2>3. PullsKnow'
    <3>1. \A j \in Artifacts : opener'[j] # Absent => j # i /\ opener'[j] = opener[j]
      BY <2>1
    <3>2. \A q \in Pulls : pull[q].stage = "writing" =>
             opener'[pull[q].id] = q \/ pull[q].id \in cut \/ pull[q].id \notin Held(after)
      <4>1. \A q \in Pulls : pull[q].stage = "writing" => pull[q].id \in Artifacts
        BY <1>16 DEF PullsKnow
      <4> QED BY <1>9, <1>10, <1>16, <2>1, <4>1 DEF PullsKnow
    <3> QED BY <1>13, <1>16, <1>18, <2>1, <2>2, <3>1, <3>2 DEF PullsKnow
  <2>4. ASSUME NEW j \in Artifacts, IsReady(after, j), j \notin cut PROVE file'[j] = "whole" \/ Writing(j)'
    <3>1. j # i /\ IsReady(catalog, j)
      BY <1>11, <1>12, <2>4
    <3>2. file[j] = "whole" \/ Writing(j)
      BY <1>15, <2>4, <3>1
    <3> QED BY <1>18, <2>1, <3>1, <3>2 DEF Writing
  <2>5. used' \ used \subseteq Held(after) /\ UNCHANGED <<crashes, older, lost>>
    BY <1>1, <1>18
  <2> QED BY <1>1, <1>6, <1>10, <1>13, <1>14, <1>18, <2>1, <2>2, <2>3, <2>4, <2>5, SaveKeeps
<1>19. CASE Ends /\ shards' \in SavedPartly(shards, before) /\ UNCHANGED <<file, opener>>
  <2>1. PICK left, old : left = shards' /\ old = shards
    OBVIOUS
  <2>2. IsStore(old)
    BY <2>1 DEF CatalogInv, CatalogShapes
  <2>3. Interrupted(left, old, before, asked)
    BY <1>9, <1>19, <2>1, <2>2, WrittenIs
  <2>4. Interrupted(shards', shards, before, asked)
    BY <2>1, <2>3
  <2>5. /\ file' \in [Artifacts -> {"none", "partial", "whole"}] /\ opener' \in [Artifacts -> Pulls \cup {Absent}]
        /\ \A j \in Artifacts : opener'[j] \in {opener[j], Absent}
        /\ \A j \in Artifacts \ files : file[j] = "whole" => file'[j] = "whole"
    BY <1>16, <1>19
  <2>6. \A j \in Artifacts \ files : IsReady(before, j) /\ j \notin cut => file'[j] = "whole" \/ Writing(j)
    BY <1>11, <1>15, <1>19
  <2> QED BY <1>1, <1>6, <1>7, <1>9, <1>13, <1>14, <1>19, <2>4, <2>5, <2>6, CrashLeaves
<1>20. CASE /\ Ends /\ shards' \in {before} \cup SavedPartly(before, after)
            /\ file' = [file EXCEPT ![i] = "none"] /\ opener' = [opener EXCEPT ![i] = Absent]
  <2>1. PICK left : left = shards'
    OBVIOUS
  <2>2. \A j \in CatalogIds : before[j] # Torn /\ (before[j] = Absent <=> j \notin Held(before)) /\ before[j] \in RecordsFor(j) \cup {Absent}
    BY <1>9, HeldIs, NoRecordIsAbsent, CatalogAssumption DEF IsCatalog
  <2>3. Interrupted(left, shards, before, asked)
    <3>1. CASE left = before
      <4>1. IsStore(left)
        BY <1>9, <3>1, HeldIs
      <4> QED BY <2>2, <3>1, <4>1 DEF Interrupted
    <3>2. CASE left \in SavedPartly(before, after)
      <4>1. IsStore(before)
        BY <1>9, HeldIs
      <4>2. Interrupted(left, before, after, asked)
        BY <1>10, <3>2, <4>1, WrittenIs
      <4>3. \A j \in Held(after) : j \in CatalogIds /\ j # i /\ after[j] = before[j] /\ j \in Held(before)
        BY <1>10 DEF Held
      <4>4. \A j \in CatalogIds : left[j] \in {before[j], Torn, Absent}
        BY <4>2, <4>3 DEF Interrupted
      <4>5. \A j \in CatalogIds : left[j] \in {shards[j], Torn, Absent} \cup (IF j \in Held(before) THEN {before[j]} ELSE {})
        BY <2>2, <4>4
      <4>6. \A j \in CatalogIds : left[j] = Absent => j \notin Held(before) \/ j \in asked
        BY <1>7, <1>10, <2>2, <4>2 DEF Interrupted
      <4>7. PICK x : \A j \in CatalogIds : left[j] = Torn => before[j] = Torn \/ (j = x /\ j \in Held(after))
        BY <4>2 DEF Interrupted
      <4>8. \A j \in CatalogIds : left[j] = Torn => j = x /\ j \in Held(before)
        BY <2>2, <4>3, <4>7
      <4> QED BY <4>2, <4>5, <4>6, <4>8 DEF Interrupted
    <3> QED BY <1>20, <2>1, <3>1, <3>2
  <2>4. Interrupted(shards', shards, before, asked)
    BY <2>1, <2>3
  <2>5. /\ file' \in [Artifacts -> {"none", "partial", "whole"}] /\ opener' \in [Artifacts -> Pulls \cup {Absent}]
        /\ \A j \in Artifacts \ {i} : file'[j] = file[j] /\ opener'[j] = opener[j]
        /\ opener'[i] = Absent
    BY <1>17, <1>20
  <2>6. \A j \in Artifacts : opener'[j] \in {opener[j], Absent}
    BY <2>5
  <2>7. \A j \in Artifacts \ files : file'[j] = file[j]
    BY <1>5, <2>5
  <2>8. \A j \in Artifacts \ files : IsReady(before, j) /\ j \notin cut => file'[j] = "whole" \/ Writing(j)
    BY <1>11, <1>15, <2>7
  <2> QED BY <1>1, <1>6, <1>7, <1>9, <1>13, <1>14, <1>20, <2>4, <2>5, <2>6, <2>7, <2>8, CrashLeaves
<1> QED BY <1>6, <1>18, <1>19, <1>20

LEMMA CrashKeeps == ASSUME CatalogInv, Crash PROVE CatalogInv'
<1>1. process = "up" /\ Ends /\ UNCHANGED <<shards, older, file, opener, used, lost>> /\ Cuts({}) /\ Drops({})
  BY DEF Crash, Accounts
<1>2. PICK none, records : none = {} /\ records = catalog
  OBVIOUS
<1>3. Cuts(none) /\ Drops(none)
  BY <1>1, <1>2
<1>4. IsCatalog(records) /\ Held(records) \subseteq used' /\ used' \subseteq CatalogIds /\ used \subseteq used'
      /\ Held(catalog) \ Held(records) \subseteq none /\ none \subseteq used' /\ none \subseteq Artifacts
  BY <1>1, <1>2, InForce
<1>5. Interrupted(shards', shards, records, none)
  BY <1>1 DEF Interrupted, CatalogInv, CatalogShapes
<1>6. /\ file' \in [Artifacts -> {"none", "partial", "whole"}] /\ opener' \in [Artifacts -> Pulls \cup {Absent}]
      /\ \A j \in Artifacts : opener'[j] \in {opener[j], Absent}
      /\ \A j \in Artifacts \ none : file[j] = "whole" => file'[j] = "whole"
  BY <1>1, InForce DEF PullsKnow
<1>7. \A j \in Artifacts \ none : IsReady(records, j) /\ j \notin cut => file'[j] = "whole" \/ Writing(j)
  BY <1>1, <1>2, InForce
<1> QED BY <1>1, <1>3, <1>4, <1>5, <1>6, <1>7, CrashLeaves

(***************************************************************************)
(* The process starts.                                                     *)
(***************************************************************************)
LEMMA NothingTorn ==
  ASSUME CatalogInv, older # Absent,
         \A i \in CatalogIds : shards'[i] # Absent => i \in used, lost' = lost, older' \in {older, Absent},
         older' = Absent => \A i \in CatalogIds : shards'[i] # Torn, crashes' \in {crashes, crashes + 1}
  PROVE  CrashesCost'
<1>1. (lost \cup TornOut)' \subseteq lost \cup TornOut
  BY DEF TornOut, CatalogInv, WhereRecordsAre
<1>2. crashes \in Nat
  BY CatalogAssumption DEF CatalogInv, CatalogShapes
<1>3. PICK S, T : S = (lost \cup TornOut)' /\ T = lost \cup TornOut
  OBVIOUS
<1>4. IsFiniteSet(T) /\ Cardinality(T) <= crashes
  BY <1>3 DEF CatalogInv, CrashesCost
<1>5. IsFiniteSet(S) /\ Cardinality(S) <= Cardinality(T) /\ Cardinality(S) \in Nat /\ Cardinality(T) \in Nat
  BY <1>1, <1>3, <1>4, FS_Subset, FS_CardinalityType
<1>6. PICK c, d : c = crashes /\ d = crashes'
  OBVIOUS
<1>7. Cardinality(S) <= d
  BY <1>2, <1>4, <1>5, <1>6
<1> QED BY <1>3, <1>5, <1>6, <1>7 DEF CrashesCost

(* What is held by the older catalogue is where it was, or is written.     *)
LEMMA MigratesKeeps == ASSUME CatalogInv, Migrates PROVE CatalogInv'
<1>1. process = "down" /\ older # Absent /\ UNCHANGED <<older, file, opener, used, dropped, lost, cut>>
  BY DEF Migrates
<1>2. IsCatalog(older) /\ Held(older) = used /\ IsStore(shards)
  BY <1>1, OlderIsCatalog DEF CatalogInv, CatalogShapes, WhereRecordsAre
<1>3. PICK left, old, records, asked : left = shards' /\ old = shards /\ records = older /\ asked = {}
  OBVIOUS
<1>4. Interrupted(left, old, records, asked)
  <2>1. left = Written(old, records) \/ left \in WrittenPartly(old, records)
    BY <1>3 DEF Migrates
  <2>2. IsStore(old) /\ IsCatalog(records)
    BY <1>2, <1>3
  <2> QED BY <2>1, <2>2, WrittenIs
<1>5. /\ IsStore(shards')
      /\ \A i \in CatalogIds : shards'[i] # Absent => i \in used
  <2>1. \A i \in CatalogIds : shards[i] # Absent => i \in used
    BY DEF CatalogInv, WhereRecordsAre
  <2>2. \A i \in CatalogIds : left[i] = Torn => i \in used
    BY <1>2, <1>3, <1>4, <2>1, CatalogAssumption DEF Interrupted
  <2> QED BY <1>2, <1>3, <1>4, <2>1, <2>2 DEF Interrupted
<1>6. process' # "up" /\ process' \in {"down", "migrated", "up"} /\ catalog' = Empty /\ crashes' \in {crashes, crashes + 1} /\ crashes' \in 0..MaxCrashes
  <2>1. crashes \in 0..MaxCrashes /\ catalog = Empty
    BY <1>1 DEF CatalogInv, CatalogShapes, WhereRecordsAre
  <2> QED BY <1>1, <2>1, CatalogAssumption DEF Migrates, Ends
<1>7. IsCatalog(Empty) /\ Held(Empty) = {}
  BY DEF IsCatalog, Empty, Held
<1>8. CatalogShapes'
  BY <1>1, <1>5, <1>6, <1>7 DEF CatalogInv, CatalogShapes
<1>9. WhereRecordsAre'
  <2>1. process' = "migrated" => \A i \in Held(older) : shards'[i] = older[i]
    <3>1. process' = "migrated" => shards' = Written(shards, older)
      BY DEF Migrates, Ends
    <3> QED BY <3>1 DEF Written, Held
  <2> QED BY <1>1, <1>2, <1>5, <1>6, <1>7, <2>1 DEF WhereRecordsAre
<1>10. PullsKnow'
  <2>1. CASE Ends
    <3>1. opener' \in [Artifacts -> Pulls \cup {Absent}] /\ \A i \in Artifacts : opener'[i] \in {opener[i], Absent}
      BY <1>1 DEF CatalogInv, PullsKnow
    <3> QED BY <2>1, <3>1, EndedPulls DEF CatalogInv
  <2>2. CASE UNCHANGED <<catalog, pull, crashes>>
    BY <1>1, <2>2 DEF CatalogInv, PullsKnow
  <2> QED BY <2>1, <2>2 DEF Migrates
<1>11. NothingVanishes'
  BY <1>1, <1>2, <1>6 DEF NothingVanishes
<1>12. CrashesCost'
  BY <1>1, <1>5, <1>6, NothingTorn
<1>13. StoredIsWhole'
  <2>1. ASSUME NEW i \in Artifacts, IsReady(left, i), i \notin cut PROVE file[i] = "whole"
    <3>1. i \in Held(left) /\ i \in CatalogIds /\ left[i] # Torn /\ left[i] # Absent
      BY <2>1 DEF IsReady, Held
    <3>2. CASE i \in Held(records) /\ left[i] = records[i]
      BY <1>1, <1>3, <2>1, <3>2 DEF IsReady, CatalogInv, StoredIsWhole
    <3>3. CASE ~(i \in Held(records) /\ left[i] = records[i])
      <4>1. left[i] = shards[i]
        BY <1>3, <1>4, <3>1, <3>3 DEF Interrupted
      <4>2. IsReady(shards, i)
        BY <2>1, <3>1, <4>1 DEF IsReady, Held
      <4> QED BY <1>1, <2>1, <4>2 DEF CatalogInv, StoredIsWhole
    <3> QED BY <3>2, <3>3
  <2>2. \A i \in Artifacts : IsReady(older, i) => file[i] = "whole"
    BY <1>1 DEF CatalogInv, StoredIsWhole
  <2> QED BY <1>1, <1>3, <2>1, <2>2 DEF StoredIsWhole
<1>14. StoreTells' /\ ReadyIsWhole'
  BY <1>6 DEF StoreTells, ReadyIsWhole
<1> QED BY <1>8, <1>9, <1>10, <1>11, <1>12, <1>13, <1>14 DEF CatalogInv

LEMMA RemovesKeeps == ASSUME CatalogInv, RemovesOlder PROVE CatalogInv'
<1>1. /\ process = "migrated" /\ older # Absent /\ process' \in {"migrated", "down"} /\ older' \in {older, Absent}
      /\ (process' = "migrated" => older' = Absent)
      /\ UNCHANGED <<catalog, shards, pull, file, opener, used, dropped, lost, cut>>
  BY DEF RemovesOlder, Removable
<1>2. \A i \in Held(older) : shards[i] = older[i]
  BY <1>1 DEF CatalogInv, WhereRecordsAre
<1>3. Held(older) = used /\ \A i \in CatalogIds : shards[i] # Absent => i \in used
  BY <1>1 DEF CatalogInv, WhereRecordsAre
<1>4. \A i \in CatalogIds : shards[i] # Torn
  BY <1>2, <1>3, CatalogAssumption DEF Held
<1>5. crashes' \in {crashes, crashes + 1} /\ crashes' \in 0..MaxCrashes
  <2>1. crashes \in 0..MaxCrashes
    BY DEF CatalogInv, CatalogShapes
  <2> QED BY <2>1, CatalogAssumption DEF RemovesOlder
<1>6. CatalogShapes'
  BY <1>1, <1>5 DEF CatalogInv, CatalogShapes
<1>7. WhereRecordsAre'
  BY <1>1, <1>3 DEF CatalogInv, WhereRecordsAre
<1>8. PullsKnow'
  BY <1>1 DEF CatalogInv, PullsKnow
<1>9. NothingVanishes'
  <2>1. Held(older) \subseteq Held(shards)
    BY <1>2 DEF Held
  <2> QED BY <1>1, <1>3, <2>1 DEF NothingVanishes
<1>10. CrashesCost'
  BY <1>1, <1>3, <1>4, <1>5, NothingTorn
<1>11. StoredIsWhole'
  BY <1>1 DEF CatalogInv, StoredIsWhole
<1>12. StoreTells' /\ ReadyIsWhole'
  BY <1>1 DEF StoreTells, ReadyIsWhole
<1> QED BY <1>6, <1>7, <1>8, <1>9, <1>10, <1>11, <1>12 DEF CatalogInv

LEMMA LoadsKeeps == ASSUME CatalogInv, Loads PROVE CatalogInv'
<1>1. process \in {"down", "migrated"} /\ older = Absent /\ UNCHANGED <<older, file, opener, used, dropped, cut>>
  BY DEF Loads
<1>2. PICK records : records = [i \in CatalogIds |-> IF shards[i] = Torn THEN Absent ELSE shards[i]]
  OBVIOUS
<1>3. Saves(records, pull) /\ lost' = lost \cup Torns(shards)
  BY <1>2 DEF Loads, Torns
<1>4. IsStore(shards) /\ catalog = Empty /\ (\A i \in CatalogIds : shards[i] # Absent => i \in used) /\ process # "up"
      /\ used \subseteq CatalogIds
  BY <1>1 DEF CatalogInv, CatalogShapes, WhereRecordsAre
<1>5. IsCatalog(records)
  <2>1. \A i \in CatalogIds : records[i] \in RecordsFor(i) \cup {Absent}
    BY <1>2, <1>4 DEF IsStore
  <2>2. records = [i \in CatalogIds |-> records[i]]
    BY <1>2
  <2> QED BY <2>1, <2>2 DEF IsCatalog
<1>6. \A i \in CatalogIds : /\ records[i] # Torn /\ (shards[i] # Torn => records[i] = shards[i])
                            /\ (shards[i] = Torn => records[i] = Absent)
  BY <1>2, CatalogAssumption
<1>7. Held(records) = Held(shards)
  BY <1>6 DEF Held
<1>8. \A i \in Artifacts : IsReady(records, i) <=> IsReady(shards, i)
  <2>1. \A i \in Held(shards) : records[i] = shards[i]
    BY <1>6 DEF Held
  <2> QED BY <1>7, <2>1 DEF IsReady
<1>9. \A i \in Artifacts : IsReady(shards, i) /\ i \notin cut => file[i] = "whole"
  BY <1>1 DEF CatalogInv, StoredIsWhole
<1>10. used \ (dropped \cup lost') \subseteq Held(shards)
  <2>1. used \ (dropped \cup lost) \subseteq Held(shards) \cup {i \in CatalogIds : shards[i] = Torn}
    BY <1>1, <1>4 DEF CatalogInv, NothingVanishes
  <2> QED BY <1>3, <2>1 DEF Torns
<1>11. lost' \subseteq used
  BY <1>3, <1>4, CatalogAssumption DEF Torns, CatalogInv, CatalogShapes
<1>12. TornOut = Torns(shards)
  BY <1>1 DEF TornOut, Torns
<1>13. IsFiniteSet(lost') /\ Cardinality(lost') <= crashes
  BY <1>3, <1>12 DEF CatalogInv, CrashesCost
<1>14. CASE catalog' = records /\ shards' = records /\ process' = "up" /\ pull' = pull /\ UNCHANGED crashes
  <2>1. CatalogShapes'
    BY <1>1, <1>5, <1>11, <1>14, HeldIs DEF CatalogInv, CatalogShapes
  <2>2. \A i \in CatalogIds : records[i] # Absent => i \in used
    BY <1>4, <1>6
  <2>3. Held(records) \subseteq used
    BY <2>2 DEF Held
  <2>4. WhereRecordsAre'
    BY <1>1, <1>6, <1>14, <2>2, <2>3 DEF WhereRecordsAre
  <2>5. PullsKnow'
    BY <1>1, <1>4, <1>14 DEF CatalogInv, PullsKnow
  <2>6. StoreTells' /\ StoredIsWhole'
    BY <1>1, <1>14 DEF StoreTells, StoredIsWhole
  <2>7. NothingVanishes'
    BY <1>1, <1>7, <1>10, <1>14 DEF NothingVanishes
  <2>8. CrashesCost'
    <3>1. (lost \cup TornOut)' = lost'
      BY <1>6, <1>14 DEF TornOut
    <3> QED BY <1>13, <1>14, <3>1 DEF CrashesCost
  <2>9. ReadyIsWhole'
    <3>1. \A i \in Artifacts : IsReady(records, i) /\ i \notin cut => file[i] = "whole"
      BY <1>8, <1>9
    <3> QED BY <1>1, <1>14, <3>1 DEF ReadyIsWhole, IsReady
  <2> QED BY <2>1, <2>4, <2>5, <2>6, <2>7, <2>8, <2>9 DEF CatalogInv
<1>15. CASE Ends /\ shards' \in SavedPartly(shards, records)
  <2>1. PICK left, old, asked : left = shards' /\ old = shards /\ asked = {}
    OBVIOUS
  <2>2. Interrupted(left, old, records, asked)
    BY <1>4, <1>5, <1>15, <2>1, WrittenIs
  <2>3. process' = "down" /\ catalog' = Empty /\ crashes' = crashes + 1 /\ crashes < MaxCrashes
    BY <1>15 DEF Ends
  <2>4. IsCatalog(Empty) /\ Held(Empty) = {}
    BY DEF IsCatalog, Empty, Held
  <2>5. crashes \in Nat /\ crashes' \in 0..MaxCrashes
    <3>1. crashes \in 0..MaxCrashes
      BY DEF CatalogInv, CatalogShapes
    <3> QED BY <2>3, <3>1, CatalogAssumption
  <2>6. CatalogShapes'
    <3>1. IsStore(shards')
      BY <2>1, <2>2 DEF Interrupted
    <3> QED BY <1>1, <1>11, <2>3, <2>4, <2>5, <3>1 DEF CatalogInv, CatalogShapes
  <2>7. \A i \in CatalogIds : left[i] # Absent => i \in used
    <3>1. \A i \in Held(records) : shards[i] # Absent
      BY <1>7 DEF Held
    <3>2. \A i \in CatalogIds : left[i] = Torn => i \in used
      BY <1>4, <2>1, <2>2, <3>1, CatalogAssumption DEF Interrupted
    <3> QED BY <1>4, <2>1, <2>2, <3>1, <3>2 DEF Interrupted
  <2>8. WhereRecordsAre'
    BY <1>1, <2>1, <2>3, <2>4, <2>7 DEF WhereRecordsAre
  <2>9. PullsKnow'
    <3>1. opener' \in [Artifacts -> Pulls \cup {Absent}] /\ \A i \in Artifacts : opener'[i] \in {opener[i], Absent}
      BY <1>1 DEF CatalogInv, PullsKnow
    <3> QED BY <1>15, <3>1, EndedPulls DEF CatalogInv
  <2>10. StoreTells' /\ ReadyIsWhole'
    BY <2>3 DEF StoreTells, ReadyIsWhole
  <2>11. NothingVanishes'
    <3>1. \A i \in Held(shards) : left[i] # Absent
      BY <1>7, <2>1, <2>2 DEF Interrupted, Held
    <3>2. Held(shards) \subseteq Held(left) \cup {i \in CatalogIds : left[i] = Torn}
      BY <3>1 DEF Held
    <3>3. used \ (dropped \cup lost') \subseteq Held(left) \cup {i \in CatalogIds : left[i] = Torn}
      BY <1>10, <3>2
    <3> QED BY <1>1, <2>1, <2>3, <3>3 DEF NothingVanishes
  <2>12. CrashesCost'
    <3>1. PICK x : \A i \in CatalogIds : left[i] = Torn => old[i] = Torn \/ (i = x /\ i \in Held(records))
      BY <2>2 DEF Interrupted
    <3>2. (lost \cup TornOut)' \subseteq (lost \cup TornOut) \cup {x}
      BY <1>1, <1>3, <1>12, <2>1, <3>1 DEF TornOut, Torns
    <3>3. IsFiniteSet((lost \cup TornOut)') /\ Cardinality((lost \cup TornOut)') <= crashes + 1
      BY <2>5, <3>2, OneMoreTorn DEF CatalogInv
    <3> QED BY <2>3, <3>3 DEF CrashesCost
  <2>13. StoredIsWhole'
    <3>1. ASSUME NEW i \in Artifacts, IsReady(left, i) PROVE IsReady(shards, i)
      <4>1. i \in Held(left) /\ i \in CatalogIds /\ left[i] # Torn /\ left[i] # Absent
        BY <3>1 DEF IsReady, Held
      <4>2. i \in Held(records) => records[i] = shards[i]
        BY <1>6, <1>7 DEF Held
      <4>3. left[i] = shards[i]
        BY <2>1, <2>2, <4>1, <4>2 DEF Interrupted
      <4> QED BY <3>1, <4>1, <4>3 DEF IsReady, Held
    <3> QED BY <1>1, <1>9, <2>1, <3>1 DEF StoredIsWhole
  <2> QED BY <2>6, <2>8, <2>9, <2>10, <2>11, <2>12, <2>13 DEF CatalogInv
<1> QED BY <1>3, <1>14, <1>15 DEF Saves

LEMMA CatalogStart == CatalogInit => CatalogInv
<1> SUFFICES ASSUME CatalogInit PROVE CatalogInv
  OBVIOUS
<1>1. /\ process = "down" /\ catalog = Empty /\ shards = Empty /\ older \in OldCatalogs \cup {Absent}
      /\ used = IF older = Absent THEN {} ELSE Held(older)
      /\ pull = [p \in Pulls |-> [stage |-> "idle", id |-> Absent]]
      /\ file = [i \in Artifacts |-> IF i \in used /\ SourceOf[i] \in Downloaded THEN "whole" ELSE "none"]
      /\ opener = [i \in Artifacts |-> Absent]
      /\ dropped = {} /\ lost = {} /\ cut = {} /\ crashes = 0
  BY DEF CatalogInit
<1>2. IsCatalog(Empty) /\ Held(Empty) = {} /\ \A i \in CatalogIds : Empty[i] = Absent /\ Empty[i] # Torn
  BY CatalogAssumption DEF IsCatalog, Empty, Held
<1>3. used \subseteq CatalogIds
  BY <1>1 DEF Held
<1>4. CatalogShapes
  <2>1. IsStore(shards)
    BY <1>1, <1>2, HeldIs
  <2>2. file \in [Artifacts -> {"none", "partial", "whole"}]
    BY <1>1
  <2>3. crashes \in 0..MaxCrashes
    BY <1>1, CatalogAssumption
  <2> QED BY <1>1, <1>2, <1>3, <2>1, <2>2, <2>3 DEF CatalogShapes
<1>5. WhereRecordsAre
  BY <1>1, <1>2 DEF WhereRecordsAre
<1>6. PullsKnow
  <2>1. pull \in [Pulls -> [stage : PullStages, id : Artifacts \cup {Absent}]] /\ \A p \in Pulls : pull[p].stage = "idle"
    BY <1>1 DEF PullStages
  <2>2. opener \in [Artifacts -> Pulls \cup {Absent}] /\ \A i \in Artifacts : opener[i] = Absent
    BY <1>1
  <2> QED BY <2>1, <2>2 DEF PullsKnow
<1>7. NothingVanishes
  BY <1>1 DEF NothingVanishes
<1>8. CrashesCost
  <2>1. PICK S : S = lost \cup TornOut
    OBVIOUS
  <2>2. S = {}
    BY <1>1, <1>2, <2>1 DEF TornOut
  <2>3. IsFiniteSet(S) /\ Cardinality(S) = 0
    BY <2>2, FS_EmptySet
  <2> QED BY <1>1, <2>1, <2>3 DEF CrashesCost
<1>9. StoredIsWhole
  <2>1. \A i \in Artifacts : ~IsReady(shards, i)
    BY <1>1, <1>2 DEF IsReady
  <2>2. older # Absent => \A i \in Artifacts : IsReady(older, i) => file[i] = "whole"
    BY <1>1 DEF IsReady
  <2> QED BY <2>1, <2>2 DEF StoredIsWhole
<1>10. StoreTells /\ ReadyIsWhole
  BY <1>1 DEF StoreTells, ReadyIsWhole
<1> QED BY <1>4, <1>5, <1>6, <1>7, <1>8, <1>9, <1>10 DEF CatalogInv

LEMMA CatalogStep == CatalogInv /\ [CatalogNext]_catalogVars => CatalogInv'
<1> SUFFICES ASSUME CatalogInv, [CatalogNext]_catalogVars PROVE CatalogInv'
  OBVIOUS
<1>1. CASE UNCHANGED catalogVars
  BY <1>1 DEF catalogVars, CatalogInv, CatalogShapes, WhereRecordsAre, PullsKnow, StoreTells, NothingVanishes, CrashesCost, TornOut,
       ReadyIsWhole, Writing, StoredIsWhole
<1>2. CASE CatalogNext
  BY <1>2, CrashKeeps, MigratesKeeps, RemovesKeeps, LoadsKeeps, TagsKeep, DeleteRuntimeKeeps, CreateKeeps,
     DeleteArtifactKeeps, PullBeginsKeeps, FetchAnswersKeeps, DownloadEndsKeeps, FetchFailsKeeps DEF CatalogNext
<1> QED BY <1>1, <1>2

(***************************************************************************)
(* The configuration: whatever pages send back, reloads and restarts read  *)
(* and cut writes leave behind, the placeholder never becomes a secret;    *)
(* and while writes are whole, memory, file, history and skills agree.     *)
(***************************************************************************)
USE ConfigAssumption

Shown    == Secrets \cup {Redacted, Bare, Missing}
Routing  == [version : Nat, content : Nat]
Section  == [Connectors -> Shown]

IsConfig(cfg) ==
  /\ cfg = [setting |-> cfg.setting, routing |-> cfg.routing,
            skills |-> cfg.skills, secret |-> cfg.secret]
  /\ cfg.routing \in Routing /\ cfg.secret \in Section
IsSection(v) == v = [skills |-> v.skills, secret |-> v.secret] /\ v.secret \in Section

Unredacted(cfg) == \A c \in Connectors : cfg.secret[c] # Redacted

ConfigTypeOK ==
  /\ IsConfig(config)
  /\ Readable => IsConfig(configFile)
  /\ routings \in Seq(Routing) \cup {Spoilt}
  /\ \A p \in ConfigPages : views[p] # Missing => IsSection(views[p])
  /\ typed \in Section
  /\ second \in Nat /\ saves \in Nat

(* A whole write leaves a file that holds what the gateway holds, and a    *)
(* history that begins with the routing in effect.                         *)
Agreed ==
  ~mishap =>
    /\ IsConfig(configFile)
    /\ configFile.routing = config.routing /\ configFile.skills = config.skills
    /\ configFile.secret = config.secret
    /\ registry = config.skills
    /\ routings # Spoilt
    /\ routings # <<>> => routings[1] = config.routing

ConfigInv ==
  ConfigTypeOK /\ PlaceholderIsNoSecret /\ Agreed /\ SecretsKept /\ SettingKept

(* mergePlaygroundConfig puts a connector's own secret in the place of the *)
(* placeholder, or none (configStore.ts:1022).                             *)
LEMMA RestoredIsClean ==
  ASSUME NEW base, NEW patch, base.secret \in Section, patch.secret \in Section,
         Unredacted(base)
  PROVE  Restored(base, patch) \in Section
         /\ \A c \in Connectors : Restored(base, patch)[c] # Redacted
BY DEF Restored, Section, Shown, Unredacted

LEMMA RestoredClean ==
  ASSUME NEW base, NEW patch, patch.secret \in Section, Unredacted(patch)
  PROVE  Restored(base, patch) = patch.secret
BY DEF Restored, Section, Unredacted

LEMMA DefaultIsConfig == IsConfig(DefaultConfig) /\ Unredacted(DefaultConfig)
BY DEF IsConfig, Unredacted, DefaultConfig, Routing, Section, Shown

LEMMA MergedIsConfig ==
  ASSUME NEW base, NEW text, IsConfig(base), Unredacted(base), IsSection(text)
  PROVE  /\ IsConfig(Merged(base, text)) /\ Unredacted(Merged(base, text))
         /\ Merged(base, text).setting = base.setting
         /\ Merged(base, text).routing = base.routing
         /\ Merged(base, text).skills = text.skills
         /\ Merged(base, text).secret = Restored(base, text)
<1>1. Merged(base, text) = [setting |-> base.setting, routing |-> base.routing,
                            skills |-> text.skills, secret |-> Restored(base, text)]
  BY DEF Merged
<1>2. Restored(base, text) \in Section /\ \A c \in Connectors : Restored(base, text)[c] # Redacted
  BY RestoredIsClean DEF IsConfig, IsSection
<1>3. QED
  BY <1>1, <1>2 DEF IsConfig, Unredacted

(* Loading a file without placeholders changes nothing in it.              *)
LEMMA LoadedIsConfig ==
  ASSUME NEW f, f # Blank => IsConfig(f) /\ Unredacted(f)
  PROVE  /\ IsConfig(Loaded(f)) /\ Unredacted(Loaded(f))
         /\ f # Blank => Loaded(f) = f
<1>1. CASE f = Blank
  BY <1>1, DefaultIsConfig DEF Loaded
<1>2. CASE f # Blank
  <2>1. Restored(DefaultConfig, f) = f.secret
    BY <1>2, RestoredClean DEF IsConfig
  <2>2. Loaded(f) = [setting |-> f.setting, routing |-> f.routing,
                     skills |-> f.skills, secret |-> f.secret]
    BY <1>2, <2>1 DEF Loaded, IsConfig
  <2>3. QED
    BY <1>2, <2>2 DEF IsConfig
<1>3. QED
  BY <1>1, <1>2

(* Pages are shown a placeholder for every secret and nothing else for     *)
(* what is none.                                                           *)
LEMMA PublicIsSection ==
  ASSUME NEW cfg, IsConfig(cfg)
  PROVE  /\ IsSection(Public(SectionOf(cfg)))
         /\ \A c \in Connectors :
              Public(SectionOf(cfg)).secret[c] =
                IF cfg.secret[c] \in Secrets THEN Redacted ELSE cfg.secret[c]
<1>1. SectionOf(cfg) = [skills |-> cfg.skills, secret |-> cfg.secret]
  BY DEF SectionOf
<1>2. Public(SectionOf(cfg)) =
        [skills |-> cfg.skills,
         secret |-> [c \in Connectors |->
                      IF cfg.secret[c] \in Secrets THEN Redacted ELSE cfg.secret[c]]]
  BY <1>1 DEF Public
<1>3. QED
  BY <1>2 DEF IsSection, IsConfig, Section, Shown

(* Operators type secrets, not placeholders.                               *)
LEMMA EditsAreSections ==
  ASSUME NEW view, IsSection(view), NEW text \in Edits(view)
  PROVE  /\ IsSection(text)
         /\ \A c \in Connectors : text.secret[c] # view.secret[c] => text.secret[c] # Redacted
<1>1. CASE text = [view EXCEPT !.skills = 1 - @]
  <2>1. text = [skills |-> 1 - view.skills, secret |-> view.secret]
    BY <1>1 DEF IsSection
  <2>2. QED
    BY <2>1 DEF IsSection
<1>2. ASSUME NEW c \in Connectors, NEW s \in Secrets \cup {Missing},
             text = [view EXCEPT !.secret[c] = s]
      PROVE  /\ IsSection(text)
             /\ \A d \in Connectors : text.secret[d] # view.secret[d] => text.secret[d] # Redacted
  <2>1. text = [skills |-> view.skills, secret |-> [view.secret EXCEPT ![c] = s]]
    BY <1>2 DEF IsSection
  <2>2. [view.secret EXCEPT ![c] = s] \in Section
    BY DEF IsSection, Section, Shown
  <2>3. QED
    BY <2>1, <2>2 DEF IsSection, Section, Shown
<1>3. QED
  BY <1>1, <1>2 DEF Edits

(* A history finds the newest entry of a version.                          *)
LEMMA FoundIsRouting ==
  ASSUME routings \in Seq(Routing) \cup {Spoilt}, NEW version, Has(version)
  PROVE  Found(version) \in Routing
<1>1. Entries \in Seq(Routing)
  BY DEF Entries
<1> DEFINE Matching == {n \in DOMAIN Entries : Entries[n].version = version}
<1>2. Matching # {} /\ Matching \subseteq Nat
  BY <1>1 DEF Has
<1>3. PICK n \in Matching : \A m \in Matching : n <= m
  BY <1>2, LeastNumber
<1>4. \A m \in 1..n - 1 : Entries[m].version # version
  BY <1>1, <1>3
<1>5. \E k \in DOMAIN Entries :
        Entries[k].version = version /\ \A m \in 1..k - 1 : Entries[m].version # version
  BY <1>3, <1>4
<1>6. QED
  BY <1>1, <1>5 DEF Found

LEMMA FirstIsFound ==
  ASSUME routings \in Seq(Routing), routings # Spoilt, routings # <<>>
  PROVE  Has(routings[1].version) /\ Found(routings[1].version) = routings[1]
<1>1. Entries = routings /\ 1 \in DOMAIN routings
  BY DEF Entries
<1>2. Has(routings[1].version)
  BY <1>1 DEF Has
<1>3. \A n \in DOMAIN routings :
        (\A m \in 1..n - 1 : routings[m].version # routings[1].version) => n = 1
  <2> TAKE n \in DOMAIN routings
  <2>1. n # 1 => 1 \in 1..n - 1
    BY <1>1
  <2>2. QED
    BY <2>1
<1>4. \A m \in 1..1 - 1 : routings[m].version # routings[1].version
  OBVIOUS
<1>5. (CHOOSE n \in DOMAIN routings :
          /\ routings[n].version = routings[1].version
          /\ \A m \in 1..n - 1 : routings[m].version # routings[1].version) = 1
  BY <1>1, <1>3, <1>4
<1>6. QED
  BY <1>1, <1>2, <1>5 DEF Found

LEMMA NewestIsFirst ==
  ASSUME routings \in Seq(Routing) \cup {Spoilt}, NEW entry \in Routing
  PROVE  /\ WithEntry(entry) \in Seq(Routing)
         /\ WithEntry(entry) # <<>> /\ WithEntry(entry)[1] = entry
<1>1. Entries \in Seq(Routing)
  BY DEF Entries
<1> DEFINE all == <<entry>> \o Entries
           n   == IF Len(Entries) < HistoryMax THEN Len(Entries) + 1 ELSE HistoryMax
<1>2. all \in Seq(Routing) /\ Len(all) = Len(Entries) + 1 /\ all[1] = entry
  BY <1>1
<1>3. n \in 1..Len(all)
  BY <1>1, <1>2
<1> HIDE DEF all, n
<1>4. /\ SubSeq(all, 1, n) \in Seq(Routing)
      /\ Len(SubSeq(all, 1, n)) = n
      /\ SubSeq(all, 1, n)[1] = all[1]
  BY <1>2, <1>3
<1>5. QED
  BY <1>2, <1>3, <1>4 DEF WithEntry, all, n

(* A handler whose write fails or is cut goes no further.                  *)
LEMMA StopsShortStep ==
  ASSUME ConfigInv, NEW next, IsConfig(next), Unredacted(next),
         config.setting # "default" => next.setting # "default",
         Updates, StopsShort(next), typed' \in Section
  PROVE  ConfigInv'
<1>1. /\ mishap' = TRUE /\ saves' \in Nat /\ second' \in Nat
      /\ UNCHANGED <<routings, registry, views>>
  <2>1. mishap' = TRUE /\ UNCHANGED <<routings, registry, views>>
    BY DEF StopsShort, Unwritten, Killed
  <2>2. saves' \in Nat /\ second' \in Nat
    BY DEF ConfigInv, ConfigTypeOK, Updates
  <2>3. QED
    BY <2>1, <2>2
<1>2. CASE Unwritten(next)
  <2>1. /\ config' = next /\ (Readable' => configFile' = configFile /\ Readable)
    BY <1>2 DEF Unwritten, Readable
  <2>2. ConfigTypeOK'
    BY <1>1, <2>1 DEF ConfigInv, ConfigTypeOK
  <2>3. PlaceholderIsNoSecret' /\ SettingKept'
    BY <2>1 DEF ConfigInv, PlaceholderIsNoSecret, SettingKept, Unredacted, Updates
  <2>4. QED
    BY <1>1, <2>2, <2>3 DEF ConfigInv, Agreed, SecretsKept
<1>3. CASE Killed
  <2>1. config' = config /\ ~Readable' /\ ~serving'
    BY <1>3 DEF Killed, Readable
  <2>2. ConfigTypeOK'
    BY <1>1, <2>1 DEF ConfigInv, ConfigTypeOK
  <2>3. PlaceholderIsNoSecret' /\ SettingKept'
    BY <2>1 DEF ConfigInv, PlaceholderIsNoSecret, SettingKept
  <2>4. QED
    BY <1>1, <2>2, <2>3 DEF ConfigInv, Agreed, SecretsKept
<1>4. QED
  BY <1>2, <1>3 DEF StopsShort

(* What is saved over what the page showed: secrets that were not touched  *)
(* come back as they were.                                                 *)
LEMMA SavedAsTyped ==
  ASSUME ConfigTypeOK, Unredacted(config), config.secret = typed,
         NEW text \in Edits(Public(SectionOf(config)))
  PROVE  Restored(config, text) =
           [c \in Connectors |->
              IF text.secret[c] # Public(SectionOf(config)).secret[c]
              THEN text.secret[c] ELSE typed[c]]
<1> DEFINE view == Public(SectionOf(config))
<1>1. IsSection(view) /\ \A c \in Connectors :
        view.secret[c] = IF config.secret[c] \in Secrets THEN Redacted ELSE config.secret[c]
  BY PublicIsSection DEF ConfigTypeOK
<1>2. text \in Edits(view)
  OBVIOUS
<1> HIDE DEF view
<1>3. \A c \in Connectors : text.secret[c] # view.secret[c] => text.secret[c] # Redacted
  BY <1>1, <1>2, EditsAreSections
<1>4. ASSUME NEW c \in Connectors
      PROVE  (IF text.secret[c] # Redacted THEN text.secret[c]
              ELSE IF config.secret[c] \in {Missing, Bare} THEN Bare ELSE config.secret[c])
             = IF text.secret[c] # view.secret[c] THEN text.secret[c] ELSE typed[c]
  BY <1>1, <1>3, <1>4 DEF Unredacted
<1>5. QED
  BY <1>4 DEF Restored, view

LEMMA PageSavesStep == ASSUME ConfigInv, NEW p \in ConfigPages, PageSaves(p) PROVE ConfigInv'
<1>1. PICK text \in Edits(views[p]) :
        LET next == Merged(config, text)
        IN  /\ Updates
            /\ outdated' = (outdated \/ views[p] # Public(SectionOf(config)))
            /\ typed' = [c \in Connectors |->
                  IF text.secret[c] # views[p].secret[c] THEN text.secret[c] ELSE typed[c]]
            /\ \/ /\ Persisted(next)
                  /\ registry' = next.skills
                  /\ views' = [views EXCEPT ![p] = Public(SectionOf(next))]
                  /\ UNCHANGED routings
               \/ StopsShort(next)
  BY DEF PageSaves
<1> DEFINE next == Merged(config, text)
<1>2. IsConfig(config) /\ Unredacted(config) /\ IsSection(views[p])
  BY DEF ConfigInv, ConfigTypeOK, PlaceholderIsNoSecret, Unredacted, PageSaves
<1>3. IsSection(text)
  BY <1>2, EditsAreSections
<1>4. /\ IsConfig(next) /\ Unredacted(next)
      /\ next.setting = config.setting /\ next.routing = config.routing
      /\ next.secret = Restored(config, text)
  BY <1>2, <1>3, MergedIsConfig
<1>5. typed' \in Section
  BY <1>1, <1>3 DEF IsSection, Section, ConfigInv, ConfigTypeOK
<1> HIDE DEF next
<1>6. CASE StopsShort(next)
  BY <1>1, <1>4, <1>5, <1>6, StopsShortStep
<1>7. CASE /\ Persisted(next)
           /\ registry' = next.skills
           /\ views' = [views EXCEPT ![p] = Public(SectionOf(next))]
           /\ UNCHANGED routings
  <2>1. config' = next /\ configFile' = next /\ UNCHANGED <<serving, mishap>>
    BY <1>7 DEF Persisted
  <2>2. \A q \in ConfigPages : views'[q] # Missing => IsSection(views'[q])
    <3>1. \A q \in ConfigPages : q # p => views'[q] = views[q]
      BY <1>7 DEF ConfigInv, ConfigTypeOK
    <3>2. p \in DOMAIN views => views'[p] = Public(SectionOf(next))
      BY <1>7
    <3>3. p \notin DOMAIN views => views'[p] = views[p]
      BY <1>7
    <3>4. QED
      BY <1>2, <1>4, <3>1, <3>2, <3>3, PublicIsSection DEF ConfigInv, ConfigTypeOK
  <2>3. saves' \in Nat /\ second' \in Nat
    BY <1>1 DEF Updates, ConfigInv, ConfigTypeOK
  <2>4. ConfigTypeOK'
    BY <1>4, <1>5, <1>7, <2>1, <2>2, <2>3 DEF ConfigInv, ConfigTypeOK
  <2>5. PlaceholderIsNoSecret' /\ SettingKept'
    BY <1>1, <1>4, <2>1 DEF ConfigInv, PlaceholderIsNoSecret, SettingKept, Unredacted, Readable, Updates
  <2>6. Agreed'
    BY <1>4, <1>7, <2>1 DEF ConfigInv, Agreed
  <2>7. SecretsKept'
    <3> SUFFICES ASSUME ~mishap', ~outdated' PROVE config'.secret = typed'
      BY DEF SecretsKept
    <3>1. views[p] = Public(SectionOf(config)) /\ config.secret = typed
      BY <1>1, <2>1 DEF ConfigInv, SecretsKept
    <3>2. Restored(config, text) =
            [c \in Connectors |->
               IF text.secret[c] # views[p].secret[c] THEN text.secret[c] ELSE typed[c]]
      BY <1>2, <3>1, SavedAsTyped DEF ConfigInv
    <3>3. QED
      BY <1>1, <1>4, <2>1, <3>2
  <2>8. QED
    BY <2>4, <2>5, <2>6, <2>7 DEF ConfigInv
<1>8. QED
  BY <1>1, <1>6, <1>7 DEF next

(* A key typed into the config panel, and routings.                        *)
LEMMA KeySavedStep == ASSUME ConfigInv, KeySaved PROVE ConfigInv'
<1> DEFINE next == [config EXCEPT !.setting = "typed"]
<1>1. next = [setting |-> "typed", routing |-> config.routing,
              skills |-> config.skills, secret |-> config.secret]
  BY DEF ConfigInv, ConfigTypeOK, IsConfig
<1>2. IsConfig(next) /\ Unredacted(next)
  BY <1>1 DEF ConfigInv, ConfigTypeOK, IsConfig, PlaceholderIsNoSecret, Unredacted
<1>3. /\ Updates /\ UNCHANGED <<outdated, typed>>
      /\ \/ Persisted(next) /\ registry' = config.skills /\ UNCHANGED <<routings, views>>
         \/ StopsShort(next)
  BY DEF KeySaved
<1> HIDE DEF next
<1>4. CASE StopsShort(next)
  <2>1. typed' \in Section
    BY <1>3 DEF ConfigInv, ConfigTypeOK
  <2>2. QED
    BY <1>1, <1>2, <1>3, <1>4, <2>1, StopsShortStep
<1>5. CASE Persisted(next) /\ registry' = config.skills /\ UNCHANGED <<routings, views>>
  <2>1. config' = next /\ configFile' = next /\ UNCHANGED <<serving, mishap>>
    BY <1>5 DEF Persisted
  <2>2. saves' \in Nat /\ second' \in Nat
    BY <1>3 DEF Updates, ConfigInv, ConfigTypeOK
  <2>3. ConfigTypeOK'
    BY <1>2, <1>3, <1>5, <2>1, <2>2 DEF ConfigInv, ConfigTypeOK
  <2>4. PlaceholderIsNoSecret' /\ SettingKept'
    BY <1>1, <1>2, <2>1 DEF PlaceholderIsNoSecret, SettingKept, Unredacted
  <2>5. Agreed' /\ SecretsKept'
    BY <1>1, <1>2, <1>3, <1>5, <2>1 DEF ConfigInv, Agreed, SecretsKept
  <2>6. QED
    BY <2>3, <2>4, <2>5 DEF ConfigInv
<1>6. QED
  BY <1>3, <1>4, <1>5

LEMMA RoutingBecomesStep ==
  ASSUME ConfigInv, NEW routing \in Routing, RoutingBecomes(routing) PROVE ConfigInv'
<1> DEFINE next == [config EXCEPT !.routing = routing]
<1>1. next = [setting |-> config.setting, routing |-> routing,
              skills |-> config.skills, secret |-> config.secret]
  BY DEF ConfigInv, ConfigTypeOK, IsConfig
<1>2. IsConfig(next) /\ Unredacted(next)
  BY <1>1 DEF ConfigInv, ConfigTypeOK, IsConfig, PlaceholderIsNoSecret, Unredacted
<1>3. /\ Updates /\ UNCHANGED <<outdated, typed>>
      /\ \/ /\ config' = next /\ configFile' = next
            /\ RecordedAs(routing)
            /\ UNCHANGED <<registry, views>>
         \/ StopsShort(next)
  BY DEF RoutingBecomes
<1> HIDE DEF next
<1>4. CASE StopsShort(next)
  <2>1. typed' \in Section
    BY <1>3 DEF ConfigInv, ConfigTypeOK
  <2>2. QED
    BY <1>1, <1>2, <1>3, <1>4, <2>1, StopsShortStep
<1>5. CASE /\ config' = next /\ configFile' = next
           /\ RecordedAs(routing)
           /\ UNCHANGED <<registry, views>>
  <2>1. /\ WithEntry(routing) \in Seq(Routing)
        /\ WithEntry(routing) # <<>> /\ WithEntry(routing)[1] = routing
    BY NewestIsFirst DEF ConfigInv, ConfigTypeOK
  <2>2. saves' \in Nat /\ second' \in Nat
    BY <1>3 DEF Updates, ConfigInv, ConfigTypeOK
  <2>3. routings' \in Seq(Routing) \cup {Spoilt}
    BY <1>5, <2>1 DEF RecordedAs, ConfigInv, ConfigTypeOK
  <2>4. \/ mishap' = TRUE
        \/ mishap' = mishap /\ serving' = serving /\ routings' = WithEntry(routing)
    BY <1>5 DEF RecordedAs
  <2>5. ConfigTypeOK'
    BY <1>2, <1>3, <1>5, <2>2, <2>3 DEF ConfigInv, ConfigTypeOK
  <2>6. PlaceholderIsNoSecret' /\ SettingKept'
    BY <1>1, <1>2, <1>5 DEF PlaceholderIsNoSecret, SettingKept, Unredacted
  <2>7. Agreed' /\ SecretsKept'
    <3>1. Spoilt \notin Seq(Routing)
      BY DEF Routing
    <3>2. QED
      BY <1>1, <1>2, <1>3, <1>5, <2>1, <2>4, <3>1 DEF ConfigInv, Agreed, SecretsKept
  <2>8. QED
    BY <2>5, <2>6, <2>7 DEF ConfigInv
<1>6. QED
  BY <1>3, <1>4, <1>5

(* A reload, whether or not the skills follow it: a file that was written  *)
(* whole has the same skills.                                              *)
LEMMA ReloadStep == ASSUME ConfigInv, Reload \/ ProvidersSaved PROVE ConfigInv'
<1>1. /\ serving /\ Readable
      /\ config' = Loaded(configFile)
      /\ registry' \in {registry, config'.skills}
      /\ UNCHANGED <<serving, configFile, routings, views, second, saves, mishap, outdated, typed>>
  BY DEF Reload, ProvidersSaved, noted
<1>2. IsConfig(configFile) /\ Unredacted(configFile) /\ configFile # Blank
  BY <1>1 DEF ConfigInv, ConfigTypeOK, PlaceholderIsNoSecret, Unredacted, Readable
<1>3. config' = configFile
  BY <1>1, <1>2, LoadedIsConfig
<1>4. ConfigTypeOK'
  BY <1>1, <1>2, <1>3 DEF ConfigInv, ConfigTypeOK, Readable
<1>5. PlaceholderIsNoSecret' /\ SettingKept'
  BY <1>1, <1>2, <1>3 DEF PlaceholderIsNoSecret, SettingKept, Unredacted
<1>6. Agreed' /\ SecretsKept'
  BY <1>1, <1>3 DEF ConfigInv, Agreed, SecretsKept
<1>7. QED
  BY <1>4, <1>5, <1>6 DEF ConfigInv

LEMMA StartStep == ASSUME ConfigInv, GatewayStarts PROVE ConfigInv'
<1>1. /\ configFile # Spoilt
      /\ config' = UnderEnvironment(Loaded(configFile))
      /\ registry' = config'.skills
      /\ UNCHANGED <<configFile, routings, views, second, saves, mishap, outdated, typed>>
  BY DEF GatewayStarts, noted
<1>2. configFile # Blank => IsConfig(configFile) /\ Unredacted(configFile)
  BY <1>1 DEF ConfigInv, ConfigTypeOK, PlaceholderIsNoSecret, Unredacted, Readable
<1> DEFINE fromFile == Loaded(configFile)
<1>3. IsConfig(fromFile) /\ Unredacted(fromFile) /\ (configFile # Blank => fromFile = configFile)
  BY <1>2, LoadedIsConfig
<1> HIDE DEF fromFile
<1>4. config' = [setting |-> "env", routing |-> fromFile.routing,
                 skills |-> fromFile.skills, secret |-> fromFile.secret]
  BY <1>1, <1>3 DEF UnderEnvironment, IsConfig, fromFile
<1>5. ConfigTypeOK'
  <2>1. IsConfig(config')
    BY <1>3, <1>4 DEF IsConfig
  <2>2. QED
    BY <1>1, <2>1 DEF ConfigInv, ConfigTypeOK, Readable
<1>6. PlaceholderIsNoSecret' /\ SettingKept'
  BY <1>1, <1>3, <1>4 DEF ConfigInv, PlaceholderIsNoSecret, SettingKept, Unredacted, Readable
<1>7. ~IsConfig(Blank)
  BY DEF IsConfig, Blank
<1>8. Agreed' /\ SecretsKept'
  BY <1>1, <1>3, <1>4, <1>7 DEF ConfigInv, Agreed, SecretsKept
<1>9. QED
  BY <1>5, <1>6, <1>8 DEF ConfigInv

(* What changes nothing of the configuration.                              *)
LEMMA QuietStep ==
  ASSUME ConfigInv,
         \/ \E p \in ConfigPages : PageLoads(p)
         \/ GatewayStops \/ SecondPasses \/ UNCHANGED configVars
  PROVE  ConfigInv'
<1>1. /\ UNCHANGED <<config, configFile, routings, registry, saves, mishap, outdated, typed>>
      /\ serving' => serving
  BY DEF PageLoads, GatewayStops, SecondPasses, configVars, noted
<1>2. second' \in Nat
  BY DEF PageLoads, GatewayStops, SecondPasses, configVars, noted, ConfigInv, ConfigTypeOK
<1>3. \A p \in ConfigPages : views'[p] # Missing => IsSection(views'[p])
  <2>1. CASE UNCHANGED views
    BY <2>1 DEF ConfigInv, ConfigTypeOK
  <2>2. ASSUME NEW p \in ConfigPages, views' = [views EXCEPT ![p] = Public(SectionOf(config))]
        PROVE  \A q \in ConfigPages : views'[q] # Missing => IsSection(views'[q])
    <3>1. \A q \in ConfigPages : views'[q] \in {views[q], Public(SectionOf(config))}
      BY <2>2
    <3>2. IsSection(Public(SectionOf(config)))
      BY PublicIsSection DEF ConfigInv, ConfigTypeOK
    <3>3. QED
      BY <3>1, <3>2 DEF ConfigInv, ConfigTypeOK
  <2>3. QED
    BY <2>1, <2>2 DEF PageLoads, GatewayStops, SecondPasses, configVars
<1>4. ConfigTypeOK'
  BY <1>1, <1>2, <1>3 DEF ConfigInv, ConfigTypeOK, Readable
<1>5. PlaceholderIsNoSecret' /\ SettingKept' /\ Agreed' /\ SecretsKept'
  BY <1>1 DEF ConfigInv, PlaceholderIsNoSecret, SettingKept, Agreed, SecretsKept, Readable
<1>6. QED
  BY <1>4, <1>5 DEF ConfigInv

LEMMA RoutingStep == ASSUME ConfigInv, PostRouting \/ Rollback PROVE ConfigInv'
<1>1. CASE PostRouting
  <2>1. PICK version \in {second, config.routing.version} :
          RoutingBecomes([version |-> version, content |-> saves + 1])
    BY <1>1 DEF PostRouting
  <2>2. [version |-> version, content |-> saves + 1] \in Routing
    BY DEF ConfigInv, ConfigTypeOK, IsConfig, Routing
  <2>3. QED
    BY <2>1, <2>2, RoutingBecomesStep
<1>2. CASE Rollback
  <2>1. PICK version \in 0..LastSecond : Has(version) /\ RoutingBecomes(Found(version))
    BY <1>2 DEF Rollback
  <2>2. Found(version) \in Routing
    BY <2>1, FoundIsRouting DEF ConfigInv, ConfigTypeOK
  <2>3. QED
    BY <2>1, <2>2, RoutingBecomesStep
<1>3. QED
  BY <1>1, <1>2

(* What agrees part by part is one configuration but for the setting, and  *)
(* the history finds what is in effect.                                    *)
LEMMA InvSuffices == ConfigInv => ConfigSound
<1> SUFFICES ASSUME ConfigInv PROVE ConfigSound
  OBVIOUS
<1>1. PlaceholderIsNoSecret /\ SecretsKept /\ SettingKept
  BY DEF ConfigInv
<1>2. FileIsCurrent
  <2> SUFFICES ASSUME ~mishap
               PROVE  [config EXCEPT !.setting = "any"] = [configFile EXCEPT !.setting = "any"]
    BY DEF FileIsCurrent
  <2>1. IsConfig(config) /\ IsConfig(configFile)
    BY DEF ConfigInv, ConfigTypeOK, Agreed
  <2>2. [config EXCEPT !.setting = "any"] =
          [setting |-> "any", routing |-> config.routing,
           skills |-> config.skills, secret |-> config.secret]
    BY <2>1 DEF IsConfig
  <2>3. [configFile EXCEPT !.setting = "any"] =
          [setting |-> "any", routing |-> configFile.routing,
           skills |-> configFile.skills, secret |-> configFile.secret]
    BY <2>1 DEF IsConfig
  <2>4. QED
    BY <2>2, <2>3 DEF ConfigInv, Agreed
<1>3. RegistryFollows
  BY DEF ConfigInv, Agreed, RegistryFollows
<1>4. EffectIsOnRecord
  BY FirstIsFound DEF ConfigInv, ConfigTypeOK, Agreed, EffectIsOnRecord
<1>5. QED
  BY <1>1, <1>2, <1>3, <1>4 DEF ConfigSound

LEMMA ConfigStart == ConfigInit => ConfigInv
<1> SUFFICES ASSUME ConfigInit PROVE ConfigInv
  OBVIOUS
<1>1. config = [setting |-> "env", routing |-> DefaultConfig.routing,
                skills |-> DefaultConfig.skills, secret |-> DefaultConfig.secret]
  BY DefaultIsConfig DEF ConfigInit, UnderEnvironment, DefaultConfig
<1>2. IsConfig(config) /\ Unredacted(config)
  BY <1>1, DefaultIsConfig DEF IsConfig, Unredacted
<1>3. configFile \in {config, DefaultConfig}
  BY DEF ConfigInit
<1>4. ConfigTypeOK
  BY <1>2, <1>3, DefaultIsConfig DEF ConfigInit, ConfigTypeOK, IsConfig
<1>5. PlaceholderIsNoSecret /\ SettingKept
  BY <1>1, <1>2, <1>3, DefaultIsConfig DEF PlaceholderIsNoSecret, SettingKept, Unredacted
<1>6. Agreed /\ SecretsKept
  <2>1. routings = <<>> /\ registry = config.skills /\ typed = config.secret
    BY DEF ConfigInit
  <2>2. Spoilt \notin Seq(Routing)
    BY DEF Routing
  <2>3. <<>> \in Seq(Routing)
    OBVIOUS
  <2>4. routings # Spoilt
    BY <2>1, <2>2, <2>3
  <2>5. IsConfig(configFile)
    BY <1>2, <1>3, DefaultIsConfig
  <2>6. /\ configFile.routing = config.routing /\ configFile.skills = config.skills
        /\ configFile.secret = config.secret
    BY <1>1, <1>3
  <2>7. QED
    BY <2>1, <2>4, <2>5, <2>6 DEF Agreed, SecretsKept
<1>7. QED
  BY <1>4, <1>5, <1>6 DEF ConfigInv

LEMMA ConfigStep == ConfigInv /\ [ConfigNext]_configVars => ConfigInv'
BY PageSavesStep, KeySavedStep, RoutingStep, ReloadStep, StartStep, QuietStep DEF ConfigNext

(* The configuration (ConfigStore and its handlers) is what was saved:     *)
(* redacted secrets that come back become no secrets, untouched ones stay, *)
(* and while every write is whole, file, history and skills follow.        *)
THEOREM ConfigCorrect == ConfigSpec => []ConfigSound
BY ConfigStart, ConfigStep, InvSuffices, PTL DEF ConfigSpec

(***************************************************************************)
(* The model manager.  The queue has each loaded model once, and no model  *)
(* but the active one is flagged.  While one call goes at a time, what it  *)
(* evicts or unloads is not the active model, and what it loads is not     *)
(* loaded.                                                                 *)
(***************************************************************************)
Queued(queue, models) == Distinct(queue) /\ \A m : In(m, queue) <=> m \in models

Flagged(models, flags, active) == \A m \in Models : flags[m] => m \in models /\ active = m

OneAtATime(calls) == \A c, d \in SwapCalls : calls[c].pc # "idle" /\ calls[d].pc # "idle" => c = d

TakesApart(calls, active, models) ==
  \A c \in SwapCalls :
    /\ calls[c].pc \in {"evicting", "unloading"} => calls[c].victim # active
    /\ calls[c].pc \in {"evicting", "loading"} => calls[c].model \notin models

ActiveOK(models, flags, active) == active = NoModel \/ (active \in models /\ flags[active])

(* Who is where, by what a step changes.                                   *)
CallsOK(calls, crossing, models, flags, active) ==
  ~crossing => OneAtATime(calls) /\ TakesApart(calls, active, models) /\ ActiveOK(models, flags, active)

(* What the calls hold on to while they wait.                              *)
HoldsOK(calls) ==
  \A c \in SwapCalls :
    /\ calls[c].pc \in {"evicting", "unloading"} => calls[c].victim \in Models
    /\ calls[c].pc \in {"evicting", "loading", "loaded"} => calls[c].model \in Models

SwapInv ==
  /\ SwapTypeOK
  /\ HoldsOK(call)
  /\ Queued(modelQueue, loaded)
  /\ Flagged(loaded, isActive, activeModel)
  /\ CallsOK(call, crossed, loaded, isActive, activeModel)

CallRecords ==
  [pc : {"idle", "evicting", "loading", "loaded", "unloading", "sweeping"},
   kind : {"load", "activate", "swap", "unload"},
   model : Models \cup {NoModel}, victim : Models \cup {NoModel},
   from : Models \cup {NoModel}, expired : SUBSET Models]

(* The LRU queue after a model is used, and without one.                   *)
LEMMA RefreshedIs ==
  ASSUME modelQueue \in Seq(Models), Queued(modelQueue, loaded), NEW m \in Models,
         NEW queue, queue = Refreshed(m)
  PROVE  queue \in Seq(Models) /\ Queued(queue, loaded \cup {m})
<1>1. PICK q : q = RemoveFirst(modelQueue, m)  OBVIOUS
<1>2. Distinct(modelQueue)  BY DEF Queued
<1>3. q \in Seq(Models) /\ Distinct(q) /\ \A x : In(x, q) <=> x # m /\ In(x, modelQueue)
  BY <1>1, <1>2, RemovedFirstHas
<1>4. ~In(m, q) /\ queue = Append(q, m)  BY <1>1, <1>3 DEF Refreshed
<1>5. queue \in Seq(Models) /\ Distinct(queue) /\ \A x : In(x, queue) <=> x = m \/ In(x, q)
  BY <1>3, <1>4, AppendHas
<1>6. \A x : In(x, queue) <=> x \in loaded \cup {m}  BY <1>3, <1>5 DEF Queued
<1> QED  BY <1>5, <1>6 DEF Queued

LEMMA PlaceGoneIs ==
  ASSUME modelQueue \in Seq(Models), Queued(modelQueue, loaded), NEW m, NEW queue, queue = PlaceGone(m)
  PROVE  queue \in Seq(Models) /\ Queued(queue, loaded \ {m})
<1>1. Distinct(modelQueue)  BY DEF Queued
<1>2. queue \in Seq(Models) /\ Distinct(queue) /\ \A x : In(x, queue) <=> x # m /\ In(x, modelQueue)
  BY <1>1, RemovedFirstHas DEF PlaceGone
<1>3. \A x : In(x, queue) <=> x \in loaded \ {m}  BY <1>2 DEF Queued
<1> QED  BY <1>2, <1>3 DEF Queued

(* A call goes on.                                                         *)
LEMMA CallGoes ==
  ASSUME SwapInv, NEW c \in SwapCalls, NEW to \in CallRecords, Goes(c, to),
         to.pc \in {"evicting", "unloading"} => to.victim \in Models,
         to.pc \in {"evicting", "loading", "loaded"} => to.model \in Models,
         NEW calls, calls = call', NEW crossing, crossing = crossed'
  PROVE  /\ calls \in [SwapCalls -> CallRecords] /\ crossing \in BOOLEAN
         /\ HoldsOK(calls)
         /\ \A k \in SwapCalls : calls[k] = IF k = c THEN to ELSE call[k]
         /\ ~crossing => ~crossed /\ \A k \in SwapCalls \ {c} : calls[k].pc = "idle"
<1>1. call \in [SwapCalls -> CallRecords] /\ crossed \in BOOLEAN /\ HoldsOK(call)
  BY DEF SwapInv, SwapTypeOK, CallRecords
<1>2. calls = [call EXCEPT ![c] = to]  BY DEF Goes
<1>3. calls \in [SwapCalls -> CallRecords] /\ \A k \in SwapCalls : calls[k] = IF k = c THEN to ELSE call[k]
  BY <1>1, <1>2
<1>4. crossing = (crossed \/ \E k \in SwapCalls \ {c} : call[k].pc # "idle")  BY DEF Goes
<1>5. HoldsOK(calls)  BY <1>1, <1>3 DEF HoldsOK
<1>6. ~crossing => ~crossed /\ \A k \in SwapCalls \ {c} : calls[k].pc = "idle"  BY <1>3, <1>4
<1>7. crossing \in BOOLEAN  BY <1>1, <1>4
<1> QED  BY <1>3, <1>5, <1>6, <1>7

(* While one call goes at a time, only its own state counts.               *)
LEMMA OneGoes ==
  ASSUME NEW calls, NEW crossing, NEW c \in SwapCalls, NEW models, NEW flags, NEW active,
         ~crossing => /\ \A k \in SwapCalls \ {c} : calls[k].pc = "idle"
                      /\ calls[c].pc \in {"evicting", "unloading"} => calls[c].victim # active
                      /\ calls[c].pc \in {"evicting", "loading"} => calls[c].model \notin models
                      /\ ActiveOK(models, flags, active)
  PROVE  CallsOK(calls, crossing, models, flags, active)
<1> SUFFICES ASSUME ~crossing PROVE CallsOK(calls, crossing, models, flags, active)  BY DEF CallsOK
<1>1. OneAtATime(calls)  BY DEF OneAtATime
<1>2. ASSUME NEW k \in SwapCalls
      PROVE  /\ calls[k].pc \in {"evicting", "unloading"} => calls[k].victim # active
             /\ calls[k].pc \in {"evicting", "loading"} => calls[k].model \notin models
  <2>1. CASE k = c  BY <2>1
  <2>2. CASE k # c
    <3>1. calls[k].pc = "idle"  BY <2>2
    <3> QED  BY <3>1
  <2> QED  BY <2>1, <2>2
<1>3. TakesApart(calls, active, models)  BY <1>2 DEF TakesApart
<1> QED  BY <1>1, <1>3 DEF CallsOK

(* activateModel for a model that is loaded.                               *)
LEMMA Activated ==
  ASSUME isActive \in [Models -> BOOLEAN], Flagged(loaded, isActive, activeModel),
         NEW m \in Models, NEW models, m \in models, loaded \subseteq models,
         NEW flags, flags = FlagsFor(m)
  PROVE  flags \in [Models -> BOOLEAN] /\ Flagged(models, flags, m) /\ ActiveOK(models, flags, m)
<1>1. /\ flags \in [Models -> BOOLEAN]
      /\ \A k \in Models : flags[k] = (k = m \/ (isActive[k] /\ k # activeModel))
  BY DEF FlagsFor
<1>2. flags[m]  BY <1>1
<1>3. \A k \in Models : flags[k] => k = m  BY <1>1 DEF Flagged
<1> QED  BY <1>1, <1>2, <1>3 DEF Flagged, ActiveOK

LEMMA SwapFacts ==
  ASSUME SwapInv
  PROVE  /\ loaded \subseteq Models /\ isActive \in [Models -> BOOLEAN]
         /\ activeModel \in Models \cup {NoModel} /\ modelQueue \in Seq(Models)
         /\ call \in [SwapCalls -> CallRecords]
         /\ Queued(modelQueue, loaded) /\ Flagged(loaded, isActive, activeModel)
BY DEF SwapInv, SwapTypeOK, CallRecords

(* The invariant, of the values the next state has.                        *)
LEMMA SwapInvOf ==
  ASSUME loaded' \subseteq Models, isActive' \in [Models -> BOOLEAN],
         activeModel' \in Models \cup {NoModel}, modelQueue' \in Seq(Models),
         call' \in [SwapCalls -> CallRecords], crossed' \in BOOLEAN,
         HoldsOK(call'), Queued(modelQueue', loaded'), Flagged(loaded', isActive', activeModel'),
         CallsOK(call', crossed', loaded', isActive', activeModel')
  PROVE  SwapInv'
<1>1. SwapTypeOK'  BY DEF SwapTypeOK, CallRecords
<1>2. HoldsOK(call)' /\ Queued(modelQueue, loaded)' /\ Flagged(loaded, isActive, activeModel)'
      /\ CallsOK(call, crossed, loaded, isActive, activeModel)'
  BY DEF HoldsOK, Queued, Flagged, CallsOK, OneAtATime, TakesApart, ActiveOK
<1> QED  BY <1>1, <1>2 DEF SwapInv

LEMMA IdleIsCall == Idle \in CallRecords /\ Idle.pc = "idle"
BY DEF Idle, CallRecords

(* A call that starts or goes on, and ends idle or with what it holds.     *)
LEMMA QueueHeads ==
  ASSUME SwapInv, Cardinality(loaded) >= MaxLoadedModels
  PROVE  Len(modelQueue) > 0 /\ Head(modelQueue) \in loaded
<1>1. IsFiniteSet(loaded) /\ Cardinality(loaded) \in Nat
  BY SwapFacts, SwapAssumption, FS_Subset, FS_CardinalityType
<1>2. MaxLoadedModels \in Nat /\ MaxLoadedModels > 0  BY SwapAssumption
<1>3. Cardinality(loaded) # 0  BY <1>1, <1>2
<1>4. loaded # {}  BY <1>3, FS_EmptySet
<1>5. PICK n \in Nat : n = Len(modelQueue)  BY SwapFacts, LenProperties
<1>6. PICK m : m \in loaded  BY <1>4
<1>7. In(m, modelQueue)  BY <1>6, SwapFacts DEF Queued
<1>8. n > 0 /\ 1 \in 1..n  BY <1>5, <1>7 DEF In
<1>9. PICK q \in Seq(Models) : q = modelQueue  BY SwapFacts
<1>10. q # <<>>  BY <1>5, <1>8, <1>9
<1>11. Head(q) = q[1]  BY <1>9, <1>10
<1>12. In(q[1], q)  BY <1>5, <1>8, <1>9 DEF In
<1> QED  BY <1>5, <1>8, <1>9, <1>11, <1>12, SwapFacts DEF Queued

(* loadModel of a model that is not there: one may have to make room.      *)
LEMMA MakesRoomIs ==
  ASSUME SwapInv, NEW c \in SwapCalls, NEW m \in Models \ loaded,
         NEW me \in CallRecords, me.model = m, NEW flags, MakesRoom(c, me, flags),
         loaded' = loaded, modelQueue' = modelQueue, flags = isActive',
         flags \in [Models -> BOOLEAN], activeModel' \in Models \cup {NoModel},
         Flagged(loaded, flags, activeModel'),
         ~crossed /\ ActiveOK(loaded, isActive, activeModel) => ActiveOK(loaded, flags, activeModel')
  PROVE  SwapInv'
<1>1. PICK lru, active : lru = Head(modelQueue) /\ active = activeModel'  OBVIOUS
<1>2. PICK to : Goes(c, to) /\ \/ /\ lru \in loaded /\ ~flags[lru]
                                  /\ to = [me EXCEPT !.pc = "evicting", !.victim = lru]
                               \/ to = [me EXCEPT !.pc = "loading"]
  BY <1>1 DEF MakesRoom
<1>3. /\ to \in CallRecords /\ to.pc \in {"evicting", "loading"} /\ to.model = m
      /\ to.pc = "evicting" => to.victim \in loaded /\ ~flags[to.victim]
  BY <1>2, SwapFacts DEF CallRecords
<1>4. PICK calls, crossing : calls = call' /\ crossing = crossed'  OBVIOUS
<1>5. to.pc \in {"evicting", "unloading"} => to.victim \in Models  BY <1>3, SwapFacts
<1>6. /\ calls \in [SwapCalls -> CallRecords] /\ crossing \in BOOLEAN /\ HoldsOK(calls)
      /\ \A k \in SwapCalls : calls[k] = IF k = c THEN to ELSE call[k]
      /\ ~crossing => ~crossed /\ \A k \in SwapCalls \ {c} : calls[k].pc = "idle"
  BY <1>2, <1>3, <1>4, <1>5, CallGoes
<1>7. ~crossing => ActiveOK(loaded, flags, active)  BY <1>1, <1>6 DEF SwapInv, CallsOK
<1>8. ~crossing => (calls[c].pc \in {"evicting", "unloading"} => calls[c].victim # active)
  <2>1. SUFFICES ASSUME ~crossing, calls[c].pc \in {"evicting", "unloading"}
                 PROVE  calls[c].victim # active
    OBVIOUS
  <2>2. to.pc = "evicting" /\ calls[c] = to  BY <1>3, <1>6, <2>1
  <2>3. to.victim \in loaded /\ ~flags[to.victim]  BY <1>3, <2>2
  <2>4. to.victim # NoModel  BY <2>3, SwapFacts, SwapAssumption
  <2> QED  BY <1>7, <2>1, <2>2, <2>3, <2>4 DEF ActiveOK
<1>9. calls[c].model \notin loaded  BY <1>3, <1>6
<1>10. CallsOK(calls, crossing, loaded, flags, active)  BY <1>6, <1>7, <1>8, <1>9, OneGoes
<1> QED  BY <1>1, <1>4, <1>6, <1>10, SwapFacts, SwapInvOf

(* loadModel starts: the model is there, or it is loaded.                  *)
LEMMA LoadBegins ==
  ASSUME SwapInv, NEW c \in SwapCalls, NEW m \in Models, NEW as \in {"load", "activate", "swap"},
         CallLoad(c, m, as)
  PROVE  SwapInv'
<1>1. PICK from \in Models \cup {NoModel} : from = IF activeModel \in loaded THEN activeModel ELSE NoModel
  BY SwapFacts
<1>2. PICK me : me = [Idle EXCEPT !.kind = as, !.model = m, !.from = from]  OBVIOUS
<1>3. me \in CallRecords /\ me.pc = "idle" /\ me.model = m  BY <1>2 DEF Idle, CallRecords
<1>4. BeginLoad(c, m, as)  BY DEF CallLoad
<1>5. CASE m \in loaded
  <2>1. PICK to : to = IF as = "swap" THEN [me EXCEPT !.pc = "loaded"] ELSE Idle  OBVIOUS
  <2>2. /\ modelQueue' = Refreshed(m) /\ Goes(c, to) /\ loaded' = loaded
        /\ IF as = "activate" THEN Activate(m) ELSE UNCHANGED <<isActive, activeModel>>
    BY <1>1, <1>2, <1>4, <1>5, <2>1 DEF BeginLoad
  <2>3. to \in CallRecords /\ to.pc \in {"loaded", "idle"} /\ (to.pc = "loaded" => to.model = m)
    BY <1>3, <2>1, IdleIsCall DEF CallRecords
  <2>4. PICK calls, crossing : calls = call' /\ crossing = crossed'  OBVIOUS
  <2>5. /\ calls \in [SwapCalls -> CallRecords] /\ crossing \in BOOLEAN /\ HoldsOK(calls)
        /\ \A k \in SwapCalls : calls[k] = IF k = c THEN to ELSE call[k]
        /\ ~crossing => ~crossed /\ \A k \in SwapCalls \ {c} : calls[k].pc = "idle"
    BY <2>2, <2>3, <2>4, CallGoes
  <2>6. PICK queue : queue = Refreshed(m)  OBVIOUS
  <2>7. queue \in Seq(Models) /\ Queued(queue, loaded \cup {m})  BY <2>6, SwapFacts, RefreshedIs
  <2>8. loaded \cup {m} = loaded  BY <1>5
  <2>9. PICK flags, active : flags = isActive' /\ active = activeModel'  OBVIOUS
  <2>10. /\ flags \in [Models -> BOOLEAN] /\ active \in Models \cup {NoModel}
         /\ Flagged(loaded, flags, active) /\ (~crossed => ActiveOK(loaded, flags, active))
    <3>1. CASE as = "activate"
      <4>1. flags = FlagsFor(m) /\ active = m  BY <2>2, <2>9, <3>1 DEF Activate
      <4> QED  BY <1>5, <4>1, SwapFacts, Activated
    <3>2. CASE as # "activate"
      <4>1. flags = isActive /\ active = activeModel  BY <2>2, <2>9, <3>2
      <4> QED  BY <4>1, SwapFacts DEF SwapInv, CallsOK
    <3> QED  BY <3>1, <3>2
  <2>11. CallsOK(calls, crossing, loaded, flags, active)
    <3>1. calls[c].pc \in {"loaded", "idle"}  BY <2>3, <2>5
    <3> QED  BY <2>5, <2>10, <3>1, OneGoes
  <2> QED  BY <2>2, <2>4, <2>5, <2>6, <2>7, <2>8, <2>9, <2>10, <2>11, SwapFacts, SwapInvOf
<1>6. CASE m \notin loaded
  <2>1. MakesRoom(c, me, isActive) /\ UNCHANGED <<loaded, isActive, activeModel, modelQueue>>
    BY <1>1, <1>2, <1>4, <1>6 DEF BeginLoad
  <2> QED  BY <1>3, <1>6, <2>1, SwapFacts, MakesRoomIs
<1> QED  BY <1>5, <1>6

(* What unloadModel leaves when its performUnload is over.                 *)
LEMMA UnloadedIs ==
  ASSUME SwapInv, NEW m \in Models, Unloaded(m)
  PROVE  /\ loaded' = loaded \ {m} /\ loaded' \subseteq Models /\ modelQueue' \in Seq(Models)
         /\ Queued(modelQueue', loaded') /\ activeModel' = activeModel
         /\ isActive' \in [Models -> BOOLEAN] /\ Flagged(loaded', isActive', activeModel')
         /\ m # activeModel /\ ActiveOK(loaded, isActive, activeModel) => ActiveOK(loaded', isActive', activeModel')
<1>1. /\ loaded' = loaded \ {m} /\ isActive' = [isActive EXCEPT ![m] = FALSE]
      /\ modelQueue' = PlaceGone(m) /\ activeModel' = activeModel
  BY DEF Unloaded
<1>2. PICK queue : queue = PlaceGone(m)  OBVIOUS
<1>3. queue \in Seq(Models) /\ Queued(queue, loaded \ {m})  BY <1>2, SwapFacts, PlaceGoneIs
<1>4. PICK flags : flags = [isActive EXCEPT ![m] = FALSE]  OBVIOUS
<1>5. flags \in [Models -> BOOLEAN] /\ \A k \in Models : flags[k] = (IF k = m THEN FALSE ELSE isActive[k])
  BY <1>4, SwapFacts
<1>6. Flagged(loaded \ {m}, flags, activeModel)  BY <1>5, SwapFacts DEF Flagged
<1>7. m # activeModel /\ ActiveOK(loaded, isActive, activeModel) => ActiveOK(loaded \ {m}, flags, activeModel)
  BY <1>5, SwapFacts DEF ActiveOK
<1> QED  BY <1>1, <1>2, <1>3, <1>4, <1>5, <1>6, <1>7, SwapFacts

LEMMA VictimUnloaded ==
  ASSUME SwapInv, NEW c \in SwapCalls, call[c].pc \in {"evicting", "unloading"},
         Unloaded(call[c].victim), NEW to \in CallRecords, Goes(c, to),
         to.pc \in {"idle", "loading", "sweeping"},
         to.pc = "loading" => to.model = call[c].model /\ call[c].pc = "evicting"
  PROVE  SwapInv'
<1>1. PICK m : m = call[c].victim  OBVIOUS
<1>2. m \in Models  BY <1>1 DEF SwapInv, HoldsOK
<1>3. Unloaded(m)  BY <1>1
<1>4. PICK models, flags, active, queue :
        models = loaded' /\ flags = isActive' /\ active = activeModel' /\ queue = modelQueue'
  OBVIOUS
<1>5. /\ models = loaded \ {m} /\ models \subseteq Models /\ queue \in Seq(Models)
      /\ Queued(queue, models) /\ active = activeModel
      /\ flags \in [Models -> BOOLEAN] /\ Flagged(models, flags, active)
      /\ m # activeModel /\ ActiveOK(loaded, isActive, activeModel) => ActiveOK(models, flags, active)
  BY <1>2, <1>3, <1>4, UnloadedIs
<1>6. PICK calls, crossing : calls = call' /\ crossing = crossed'  OBVIOUS
<1>7. to.pc \in {"evicting", "loading", "loaded"} => to.model \in Models  BY DEF SwapInv, HoldsOK
<1>8. /\ calls \in [SwapCalls -> CallRecords] /\ crossing \in BOOLEAN /\ HoldsOK(calls)
      /\ \A k \in SwapCalls : calls[k] = IF k = c THEN to ELSE call[k]
      /\ ~crossing => ~crossed /\ \A k \in SwapCalls \ {c} : calls[k].pc = "idle"
  BY <1>6, <1>7, CallGoes
<1>9. ~crossing => /\ m # activeModel /\ ActiveOK(loaded, isActive, activeModel)
                   /\ call[c].pc = "evicting" => call[c].model \notin loaded
  BY <1>1, <1>8 DEF SwapInv, CallsOK, TakesApart
<1>10. calls[c] = to  BY <1>8
<1>11. ~crossing => ActiveOK(models, flags, active)  BY <1>5, <1>9
<1>12. ~crossing => (calls[c].pc \in {"evicting", "loading"} => calls[c].model \notin models)
  BY <1>5, <1>9, <1>10
<1>13. CallsOK(calls, crossing, models, flags, active)  BY <1>8, <1>10, <1>11, <1>12, OneGoes
<1> QED  BY <1>4, <1>5, <1>6, <1>8, <1>13, SwapFacts, SwapInvOf

LEMMA Evicts ==
  ASSUME SwapInv, NEW c \in SwapCalls, EvictionDone(c)
  PROVE  SwapInv'
<1>1. PICK to : to = [call[c] EXCEPT !.pc = "loading", !.victim = NoModel]  OBVIOUS
<1>2. call[c] \in CallRecords  BY SwapFacts
<1>3. to \in CallRecords /\ to.pc = "loading" /\ to.model = call[c].model  BY <1>1, <1>2 DEF CallRecords
<1>4. call[c].pc = "evicting" /\ Unloaded(call[c].victim) /\ Goes(c, to)  BY <1>1 DEF EvictionDone
<1> QED  BY <1>3, <1>4, VictimUnloaded

LEMMA Unloads ==
  ASSUME SwapInv, NEW c \in SwapCalls, UnloadDone(c)
  PROVE  SwapInv'
<1>1. PICK to : to = IF call[c].expired = {} THEN Idle ELSE [call[c] EXCEPT !.pc = "sweeping", !.victim = NoModel]
  OBVIOUS
<1>2. call[c] \in CallRecords  BY SwapFacts
<1>3. to \in CallRecords /\ to.pc \in {"idle", "sweeping"}  BY <1>1, <1>2, IdleIsCall DEF CallRecords
<1>4. call[c].pc = "unloading" /\ Unloaded(call[c].victim) /\ Goes(c, to)  BY <1>1 DEF UnloadDone
<1> QED  BY <1>3, <1>4, VictimUnloaded

(* A call that ends a step with no model in its hands.                     *)
LEMMA EmptyHanded ==
  ASSUME SwapInv, NEW c \in SwapCalls, NEW to \in CallRecords, Goes(c, to),
         to.pc \in {"idle", "loaded"}, to.pc # "idle" => to.model \in Models,
         loaded' \subseteq Models, modelQueue' \in Seq(Models), Queued(modelQueue', loaded'),
         isActive' \in [Models -> BOOLEAN], activeModel' \in Models \cup {NoModel},
         Flagged(loaded', isActive', activeModel'),
         ~crossed /\ ActiveOK(loaded, isActive, activeModel) => ActiveOK(loaded', isActive', activeModel')
  PROVE  SwapInv'
<1>1. PICK calls, crossing, models, flags, active :
        calls = call' /\ crossing = crossed' /\ models = loaded' /\ flags = isActive' /\ active = activeModel'
  OBVIOUS
<1>2. /\ calls \in [SwapCalls -> CallRecords] /\ crossing \in BOOLEAN /\ HoldsOK(calls)
      /\ \A k \in SwapCalls : calls[k] = IF k = c THEN to ELSE call[k]
      /\ ~crossing => ~crossed /\ \A k \in SwapCalls \ {c} : calls[k].pc = "idle"
  BY <1>1, CallGoes
<1>3. calls[c] = to  BY <1>2
<1>4. ~crossing => ActiveOK(models, flags, active)  BY <1>1, <1>2 DEF SwapInv, CallsOK
<1>5. calls[c].pc \notin {"evicting", "loading", "unloading"}  BY <1>3
<1>6. CallsOK(calls, crossing, models, flags, active)  BY <1>2, <1>4, <1>5, OneGoes
<1> QED  BY <1>1, <1>2, <1>6, SwapInvOf

LEMMA LoadGoesOn ==
  ASSUME SwapInv, NEW c \in SwapCalls, LoadDone(c)
  PROVE  SwapInv'
<1>1. PICK m, kind : m = call[c].model /\ kind = call[c].kind  OBVIOUS
<1>2. PICK to : to = IF kind = "swap" THEN [call[c] EXCEPT !.pc = "loaded"] ELSE Idle  OBVIOUS
<1>3. call[c] \in CallRecords  BY SwapFacts
<1>4. /\ call[c].pc = "loading" /\ loaded' = loaded \cup {m} /\ modelQueue' = Refreshed(m)
      /\ IF kind = "activate" THEN Activate(m)
         ELSE isActive' = [isActive EXCEPT ![m] = FALSE] /\ UNCHANGED activeModel
      /\ Goes(c, to)
  BY <1>1, <1>2 DEF LoadDone
<1>5. m \in Models  BY <1>1, <1>4 DEF SwapInv, HoldsOK
<1>6. to \in CallRecords /\ to.pc \in {"idle", "loaded"} /\ (to.pc # "idle" => to.model = m)
  BY <1>1, <1>2, <1>3, IdleIsCall DEF CallRecords
<1>7. PICK queue : queue = Refreshed(m)  OBVIOUS
<1>8. queue \in Seq(Models) /\ Queued(queue, loaded \cup {m})  BY <1>5, <1>7, SwapFacts, RefreshedIs
<1>9. PICK models, flags, active : models = loaded \cup {m} /\ flags = isActive' /\ active = activeModel'
  OBVIOUS
<1>10. /\ flags \in [Models -> BOOLEAN] /\ active \in Models \cup {NoModel} /\ Flagged(models, flags, active)
       /\ ~crossed /\ ActiveOK(loaded, isActive, activeModel) => ActiveOK(models, flags, active)
  <2>1. CASE kind = "activate"
    <3>1. flags = FlagsFor(m) /\ active = m  BY <1>4, <1>9, <2>1 DEF Activate
    <3>2. m \in models /\ loaded \subseteq models  BY <1>9
    <3> QED  BY <1>5, <3>1, <3>2, SwapFacts, Activated
  <2>2. CASE kind # "activate"
    <3>1. flags = [isActive EXCEPT ![m] = FALSE] /\ active = activeModel  BY <1>4, <1>9, <2>2
    <3>2. flags \in [Models -> BOOLEAN] /\ \A k \in Models : flags[k] = (IF k = m THEN FALSE ELSE isActive[k])
      BY <3>1, SwapFacts
    <3>3. Flagged(models, flags, active)  BY <1>9, <3>1, <3>2, SwapFacts DEF Flagged
    <3>4. ~crossed => m \notin loaded  BY <1>1, <1>4 DEF SwapInv, CallsOK, TakesApart
    <3>5. ~crossed /\ ActiveOK(loaded, isActive, activeModel) => ActiveOK(models, flags, active)
      BY <1>9, <3>1, <3>2, <3>4, SwapFacts DEF ActiveOK
    <3> QED  BY <3>1, <3>2, <3>3, <3>5, SwapFacts
  <2> QED  BY <2>1, <2>2
<1>11. models \subseteq Models  BY <1>5, <1>9, SwapFacts
<1> QED  BY <1>4, <1>5, <1>6, <1>7, <1>8, <1>9, <1>10, <1>11, EmptyHanded

LEMMA Swaps ==
  ASSUME SwapInv, NEW c \in SwapCalls, SwapActivates(c)
  PROVE  SwapInv'
<1>1. PICK m, from : m = call[c].model /\ from = call[c].from  OBVIOUS
<1>2. call[c] \in CallRecords /\ call[c].pc = "loaded"  BY SwapFacts DEF SwapActivates
<1>3. m \in Models /\ from \in Models \cup {NoModel}  BY <1>1, <1>2 DEF SwapInv, HoldsOK, CallRecords
<1>4. loaded' = loaded /\ modelQueue' = modelQueue  BY DEF SwapActivates
<1>5. PICK again : again = [call[c] EXCEPT !.kind = "load", !.from = NoModel]  OBVIOUS
<1>6. again \in CallRecords /\ again.model = m  BY <1>1, <1>2, <1>5 DEF CallRecords
<1>7. /\ Goes(c, Idle) \/ (m \notin loaded /\ MakesRoom(c, again, isActive'))
      /\ \/ \E k \in Models : k \in loaded /\ Activate(k)
         \/ isActive' = isActive /\ activeModel' = activeModel
  BY <1>1, <1>3, <1>5 DEF SwapActivates
<1>8. PICK flags, active : flags = isActive' /\ active = activeModel'  OBVIOUS
<1>9. /\ flags \in [Models -> BOOLEAN] /\ active \in Models \cup {NoModel} /\ Flagged(loaded, flags, active)
      /\ ActiveOK(loaded, isActive, activeModel) => ActiveOK(loaded, flags, active)
  <2>1. CASE \E k \in Models : k \in loaded /\ Activate(k)
    <3>1. PICK k \in Models : k \in loaded /\ Activate(k)  BY <2>1
    <3>2. flags = FlagsFor(k) /\ active = k  BY <1>8, <3>1 DEF Activate
    <3> QED  BY <3>1, <3>2, SwapFacts, Activated
  <2>2. CASE flags = isActive /\ active = activeModel  BY <2>2, SwapFacts
  <2> QED  BY <1>7, <1>8, <2>1, <2>2
<1>10. CASE Goes(c, Idle)  BY <1>4, <1>8, <1>9, <1>10, IdleIsCall, SwapFacts, EmptyHanded
<1>11. CASE m \notin loaded /\ MakesRoom(c, again, isActive')
  <2>1. MakesRoom(c, again, flags) /\ m \in Models \ loaded  BY <1>3, <1>8, <1>11
  <2> QED  BY <1>4, <1>6, <1>8, <1>9, <2>1, MakesRoomIs
<1> QED  BY <1>7, <1>10, <1>11

(* unloadModel starts, called or in a sweep.                               *)
LEMMA UnloadBegins ==
  ASSUME SwapInv, NEW c \in SwapCalls, NEW m, NEW rest \in SUBSET Models, BeginUnload(c, m, rest)
  PROVE  SwapInv'
<1>1. PICK to : to = [Idle EXCEPT !.pc = "unloading", !.kind = "unload", !.victim = m, !.expired = rest]
  OBVIOUS
<1>2. m \in loaded /\ m \in Models  BY SwapFacts DEF BeginUnload
<1>3. to \in CallRecords /\ to.pc = "unloading" /\ to.victim = m  BY <1>1, <1>2 DEF Idle, CallRecords
<1>4. /\ isActive' = [isActive EXCEPT ![m] = FALSE] /\ activeModel' = ActiveWithout(m)
      /\ Goes(c, to) /\ loaded' = loaded /\ modelQueue' = modelQueue
  BY <1>1 DEF BeginUnload
<1>5. PICK flags, active : flags = isActive' /\ active = activeModel'  OBVIOUS
<1>6. flags \in [Models -> BOOLEAN] /\ \A k \in Models : flags[k] = (IF k = m THEN FALSE ELSE isActive[k])
  BY <1>4, <1>5, SwapFacts
<1>7. active = IF isActive[m] /\ activeModel = m THEN NoModel ELSE activeModel
  BY <1>4, <1>5 DEF ActiveWithout
<1>8. active \in Models \cup {NoModel} /\ Flagged(loaded, flags, active)
  BY <1>6, <1>7, SwapFacts DEF Flagged
<1>9. PICK calls, crossing : calls = call' /\ crossing = crossed'  OBVIOUS
<1>10. /\ calls \in [SwapCalls -> CallRecords] /\ crossing \in BOOLEAN /\ HoldsOK(calls)
       /\ \A k \in SwapCalls : calls[k] = IF k = c THEN to ELSE call[k]
       /\ ~crossing => ~crossed /\ \A k \in SwapCalls \ {c} : calls[k].pc = "idle"
  BY <1>2, <1>3, <1>4, <1>9, CallGoes
<1>11. calls[c] = to  BY <1>10
<1>12. ~crossing => ActiveOK(loaded, isActive, activeModel)  BY <1>10 DEF SwapInv, CallsOK
<1>13. m # NoModel  BY <1>2, SwapAssumption
<1>14. ~crossing => m # active /\ ActiveOK(loaded, flags, active)
  <2>1. SUFFICES ASSUME ~crossing PROVE m # active /\ ActiveOK(loaded, flags, active)  OBVIOUS
  <2>2. ActiveOK(loaded, isActive, activeModel)  BY <1>12, <2>1
  <2>3. CASE active = NoModel  BY <1>13, <2>3 DEF ActiveOK
  <2>4. CASE active # NoModel
    <3>1. active = activeModel /\ ~(isActive[m] /\ activeModel = m)  BY <1>7, <2>4
    <3>2. active \in loaded /\ isActive[active]  BY <2>2, <2>4, <3>1 DEF ActiveOK
    <3>3. m # active  BY <3>1, <3>2
    <3>4. flags[active]  BY <1>6, <3>2, <3>3, SwapFacts
    <3> QED  BY <3>2, <3>3, <3>4 DEF ActiveOK
  <2> QED  BY <2>3, <2>4
<1>15. CallsOK(calls, crossing, loaded, flags, active)  BY <1>3, <1>10, <1>11, <1>14, OneGoes
<1> QED  BY <1>4, <1>5, <1>6, <1>8, <1>9, <1>10, <1>15, SwapFacts, SwapInvOf

LEMMA SweepOn ==
  ASSUME SwapInv, NEW c \in SwapCalls, SweepGoesOn(c)
  PROVE  SwapInv'
<1>1. call[c] \in CallRecords  BY SwapFacts
<1>2. call[c].expired \subseteq Models  BY <1>1 DEF CallRecords
<1>3. CASE \E m \in call[c].expired : BeginUnload(c, m, call[c].expired \ {m})
  <2>1. PICK m, rest : rest \subseteq Models /\ BeginUnload(c, m, rest)  BY <1>2, <1>3
  <2> QED  BY <2>1, UnloadBegins
<1>4. CASE Goes(c, Idle) /\ UNCHANGED <<loaded, isActive, activeModel, modelQueue>>
  BY <1>4, IdleIsCall, SwapFacts, EmptyHanded
<1> QED  BY <1>3, <1>4 DEF SweepGoesOn

LEMMA SwapStarts == SwapInit => SwapInv
<1> SUFFICES ASSUME SwapInit PROVE SwapInv  OBVIOUS
<1> USE DEF SwapInit
<1>1. Idle \in CallRecords /\ Idle.pc = "idle"  BY IdleIsCall
<1>2. \A c \in SwapCalls : call[c] = Idle  OBVIOUS
<1>3. call \in [SwapCalls -> CallRecords]  BY <1>1
<1>4. <<>> \in Seq(Models) /\ Len(<<>>) = 0  OBVIOUS
<1>5. Queued(<<>>, {})  BY <1>4 DEF Queued, Distinct, In
<1>6. SwapTypeOK  BY <1>3, <1>4 DEF SwapTypeOK, CallRecords
<1>7. HoldsOK(call)  BY <1>1, <1>2 DEF HoldsOK
<1>8. Flagged(loaded, isActive, activeModel)  BY DEF Flagged
<1>9. CallsOK(call, crossed, loaded, isActive, activeModel)
  BY <1>1, <1>2 DEF CallsOK, OneAtATime, TakesApart, ActiveOK
<1> QED  BY <1>5, <1>6, <1>7, <1>8, <1>9 DEF SwapInv

LEMMA SwapSteps ==
  ASSUME SwapInv, [SwapNext]_swapVars
  PROVE  SwapInv'
<1>1. CASE SwapNext
  <2>1. PICK c \in SwapCalls :
          \/ \E m \in Models : \/ \E as \in {"load", "activate", "swap"} : CallLoad(c, m, as)
                               \/ CallUnload(c, m)
          \/ \E R \in SUBSET loaded : AutoUnload(c, R)
          \/ CallStep(c)
    BY <1>1 DEF SwapNext
  <2>2. CASE \E m \in Models : \E as \in {"load", "activate", "swap"} : CallLoad(c, m, as)  BY <2>2, LoadBegins
  <2>3. CASE \E m \in Models : CallUnload(c, m)
    <3>1. PICK m \in Models : BeginUnload(c, m, {})  BY <2>3 DEF CallUnload
    <3>2. {} \in SUBSET Models  OBVIOUS
    <3> QED  BY <3>1, <3>2, UnloadBegins
  <2>4. CASE \E R \in SUBSET loaded : AutoUnload(c, R)
    <3>1. PICK R \in SUBSET loaded : AutoUnload(c, R)  BY <2>4
    <3>2. PICK m \in R : BeginUnload(c, m, R \ {m})  BY <3>1 DEF AutoUnload
    <3>3. PICK rest : rest = R \ {m}  OBVIOUS
    <3>4. rest \in SUBSET Models  BY <3>3, SwapFacts
    <3> QED  BY <3>2, <3>3, <3>4, UnloadBegins
  <2>5. CASE CallStep(c)  BY <2>5, Evicts, LoadGoesOn, Swaps, Unloads, SweepOn DEF CallStep
  <2> QED  BY <2>1, <2>2, <2>3, <2>4, <2>5
<1>2. CASE UNCHANGED swapVars
  <2>1. UNCHANGED <<loaded, isActive, activeModel, modelQueue, call, crossed>>  BY <1>2 DEF swapVars
  <2>2. SwapTypeOK'  BY <2>1 DEF SwapInv, SwapTypeOK
  <2>3. HoldsOK(call') /\ Queued(modelQueue', loaded') /\ Flagged(loaded', isActive', activeModel')
        /\ CallsOK(call', crossed', loaded', isActive', activeModel')
    BY <2>1 DEF SwapInv
  <2> QED  BY <2>1, <2>3, SwapFacts, SwapInvOf DEF SwapInv, SwapTypeOK
<1> QED  BY <1>1, <1>2

LEMMA SwapIsSound == SwapInv => SwapSound
<1> SUFFICES ASSUME SwapInv PROVE SwapSound  OBVIOUS
<1>1. Distinct(modelQueue) /\ \A m : In(m, modelQueue) <=> m \in loaded  BY SwapFacts DEF Queued
<1>2. \A m : m \in ToSet(modelQueue) <=> m \in loaded  BY <1>1, SwapFacts, InIsToSet
<1>3. ToSet(modelQueue) = loaded  BY <1>2
<1>4. QueueIsLoaded  BY <1>1, <1>3, SwapFacts, DistinctCount DEF QueueIsLoaded
<1>5. OneFlag  BY SwapFacts DEF OneFlag, Flagged
<1>6. ActiveIsLoaded  BY DEF SwapInv, CallsOK, ActiveOK, ActiveIsLoaded
<1> QED  BY <1>4, <1>5, <1>6 DEF SwapSound, SwapInv

(***************************************************************************)
(* The paged KV cache.  Every reference is counted, in the tables and with *)
(* the callers, and a block that several refer to is marked.               *)
(***************************************************************************)
BlockRecords == [refs : Nat \ {0}, shared : BOOLEAN, value : KvRequests \cup {Nobody}]
Readers(t, b)   == {p \in KvRequests \X Index : t[p[1]][p[2]] = b}
Counts(t, h, b) == Cardinality(Readers(t, b)) + h[b]

BlocksOK(blocks, d) == DOMAIN blocks \subseteq 1..d /\ blocks \in [DOMAIN blocks -> BlockRecords]

RecordsAgree(blocks, counted, queue) ==
  /\ counted = Cardinality(DOMAIN blocks) /\ counted \in 0..MaxBlocks
  /\ queue \in Seq(Ids) /\ Distinct(queue) /\ \A b : In(b, queue) <=> b \in DOMAIN blocks

OwnersOK(t, h, d) ==
  /\ d \in 0..MaxDrawn
  /\ t \in [KvRequests -> [Index -> 0..d]]
  /\ h \in [Ids -> Nat] /\ \A b \in Ids : b > d => h[b] = 0

Covered(blocks, t, h) ==
  \A b \in DOMAIN blocks : blocks[b].refs >= Counts(t, h, b) /\ (Counts(t, h, b) > 1 => blocks[b].shared)

KvInv ==
  /\ BlocksOK(block, drawn) /\ RecordsAgree(block, usedBlocks, lruQueue)
  /\ OwnersOK(table, held, drawn) /\ Covered(block, table, held)

(* No block goes while it is referred to, but to make room for another.    *)
Dangling(t, h, d, blocks) ==
  \A b \in Physical \ DOMAIN blocks : Counts(t, h, b) > 0 => d # drawn /\ Counts(table, held, b) = 1

LEMMA KvInvOf ==
  ASSUME BlocksOK(block', drawn'), RecordsAgree(block', usedBlocks', lruQueue'),
         OwnersOK(table', held', drawn'), Covered(block', table', held')
  PROVE  KvInv'
BY DEF KvInv, BlocksOK, RecordsAgree, OwnersOK, Covered, Counts, Readers, Distinct, In

LEMMA ReadersFinite ==
  ASSUME NEW t, NEW b
  PROVE  IsFiniteSet(Readers(t, b)) /\ Cardinality(Readers(t, b)) \in Nat
<1>1. PICK S : S = KvRequests \X Index  OBVIOUS
<1>2. IsFiniteSet(KvRequests)  BY KvAssumption
<1>3. Pages \in Nat  BY KvAssumption
<1>4. IsFiniteSet(Index)  BY <1>3, FS_Interval DEF Index
<1>5. IsFiniteSet(S)  BY <1>1, <1>2, <1>4, FS_Product
<1>6. Readers(t, b) \in SUBSET S  BY <1>1 DEF Readers
<1> QED  BY <1>5, <1>6, FS_Subset, FS_CardinalityType

LEMMA CountsIs ==
  ASSUME NEW t, NEW h \in [Ids -> Nat], NEW b \in Ids
  PROVE  Counts(t, h, b) \in Nat
BY ReadersFinite DEF Counts

(* u is the tables t with one page set, which gets one block a reader.     *)
PageIsSet(t, r, i, n, u) ==
  /\ u \in [KvRequests -> [Index -> Nat]]
  /\ \A q \in KvRequests, j \in Index : u[q][j] = IF q = r /\ j = i THEN n ELSE t[q][j]
  /\ \A b : b # n => Cardinality(Readers(u, b)) <= Cardinality(Readers(t, b))
  /\ Cardinality(Readers(u, n)) <= Cardinality(Readers(t, n)) + 1

LEMMA PageSet ==
  ASSUME NEW t \in [KvRequests -> [Index -> Nat]], NEW r \in KvRequests, NEW i \in Index, NEW n \in Nat,
         NEW u, u = [t EXCEPT ![r][i] = n]
  PROVE  PageIsSet(t, r, i, n, u)
<1>1. PICK N : N = [Index -> Nat]  OBVIOUS
<1>2. PICK row : row = [t[r] EXCEPT ![i] = n]  OBVIOUS
<1>3. t[r] \in [Index -> Nat]  OBVIOUS
<1>4. row \in [Index -> Nat] /\ \A j \in Index : row[j] = IF j = i THEN n ELSE t[r][j]  BY <1>2, <1>3
<1>5. u = [t EXCEPT ![r] = row]  BY <1>2
<1>6. t \in [KvRequests -> N] /\ row \in N  BY <1>1, <1>4
<1>7. u \in [KvRequests -> N] /\ \A q \in KvRequests : u[q] = IF q = r THEN row ELSE t[q]  BY <1>5, <1>6
<1>8. \A q \in KvRequests, j \in Index : u[q][j] = IF q = r /\ j = i THEN n ELSE t[q][j]  BY <1>4, <1>7
<1>9. ASSUME NEW b, b # n PROVE Cardinality(Readers(u, b)) <= Cardinality(Readers(t, b))
  <2>1. Readers(u, b) \in SUBSET Readers(t, b)
    <3>1. ASSUME NEW p \in Readers(u, b) PROVE p \in Readers(t, b)
      <4>1. p \in KvRequests \X Index /\ u[p[1]][p[2]] = b  BY DEF Readers
      <4>2. p[1] \in KvRequests /\ p[2] \in Index  BY <4>1
      <4>3. ~(p[1] = r /\ p[2] = i)  BY <1>8, <1>9, <4>1, <4>2
      <4>4. t[p[1]][p[2]] = b  BY <1>8, <4>1, <4>2, <4>3
      <4> QED  BY <4>1, <4>4 DEF Readers
    <3> QED  BY <3>1
  <2> QED  BY <2>1, ReadersFinite, FS_Subset
<1>10. Cardinality(Readers(u, n)) <= Cardinality(Readers(t, n)) + 1
  <2>1. PICK A, x : A = Readers(t, n) /\ x = <<r, i>>  OBVIOUS
  <2>2. Readers(u, n) \in SUBSET (A \cup {x})
    <3>1. ASSUME NEW p \in Readers(u, n), p # <<r, i>> PROVE p \in Readers(t, n)
      <4>1. p \in KvRequests \X Index /\ u[p[1]][p[2]] = n  BY DEF Readers
      <4>2. p[1] \in KvRequests /\ p[2] \in Index /\ p = <<p[1], p[2]>>  BY <4>1
      <4>3. ~(p[1] = r /\ p[2] = i)  BY <3>1, <4>2
      <4>4. t[p[1]][p[2]] = n  BY <1>8, <4>1, <4>2, <4>3
      <4> QED  BY <4>1, <4>4 DEF Readers
    <3> QED  BY <2>1, <3>1
  <2>3. IsFiniteSet(A) /\ Cardinality(A) \in Nat  BY <2>1, ReadersFinite
  <2>4. IsFiniteSet(A \cup {x}) /\ Cardinality(A \cup {x}) = IF x \in A THEN Cardinality(A) ELSE Cardinality(A) + 1
    BY <2>3, FS_AddElement
  <2>5. Cardinality(Readers(u, n)) <= Cardinality(A \cup {x})  BY <2>2, <2>4, FS_Subset
  <2>6. PICK k : k = Cardinality(A \cup {x})  OBVIOUS
  <2>7. k \in Nat /\ k <= Cardinality(A) + 1  BY <2>3, <2>4, <2>6
  <2>8. Cardinality(Readers(u, n)) \in Nat  BY ReadersFinite
  <2> QED  BY <2>1, <2>3, <2>5, <2>6, <2>7, <2>8
<1> QED  BY <1>1, <1>7, <1>8, <1>9, <1>10 DEF PageIsSet

(* The eviction queue without some blocks.                                 *)
LEMMA QueueWithoutIs ==
  ASSUME NEW q \in Seq(Ids), Distinct(q), q = lruQueue, NEW gone, NEW s, s = QueueWithout(gone)
  PROVE  s \in Seq(Ids) /\ Distinct(s) /\ \A b : In(b, s) <=> In(b, q) /\ b \notin gone
<1>1. PICK n \in Nat : n = Len(q) /\ DOMAIN q = 1..n  BY LenProperties
<1>2. PICK P : P = {k \in 1..n : q[k] \notin gone}  OBVIOUS
<1>3. s = AtPlaces(q, P)  BY <1>1, <1>2 DEF QueueWithout
<1>4. ArePlaces(P, q)  BY <1>1, <1>2 DEF ArePlaces
<1>5. s \in Seq(Ids) /\ SiftedTo(q, P, s)  BY <1>3, <1>4, AtPlacesIs
<1>6. Distinct(s) /\ \A b : In(b, s) <=> \E k \in P : q[k] = b  BY <1>5 DEF SiftedTo
<1>7. \A b : (\E k \in P : q[k] = b) <=> In(b, q) /\ b \notin gone  BY <1>1, <1>2 DEF In
<1> QED  BY <1>5, <1>6, <1>7

LEMMA KvFacts ==
  ASSUME KvInv
  PROVE  /\ Physical \subseteq Ids /\ IsFiniteSet(Physical) /\ drawn \in 0..MaxDrawn /\ MaxDrawn \in Nat
         /\ \A b \in Physical : block[b] \in BlockRecords /\ b \in 1..drawn
         /\ lruQueue \in Seq(Ids) /\ usedBlocks \in 0..MaxBlocks /\ MaxBlocks \in Nat
         /\ held \in [Ids -> Nat] /\ table \in [KvRequests -> [Index -> 0..drawn]]
<1>1. MaxDrawn \in Nat /\ MaxBlocks \in Nat  BY KvAssumption
<1>2. drawn \in 0..MaxDrawn  BY DEF KvInv, OwnersOK
<1>3. Physical \subseteq 1..drawn /\ block \in [Physical -> BlockRecords]  BY DEF KvInv, BlocksOK, Physical
<1>4. 1..drawn \subseteq Ids  BY <1>1, <1>2 DEF Ids
<1>5. IsFiniteSet(1..drawn)  BY <1>1, <1>2, FS_Interval
<1>6. Physical \in SUBSET (1..drawn)  BY <1>3
<1>7. IsFiniteSet(Physical)  BY <1>5, <1>6, FS_Subset
<1> QED  BY <1>1, <1>2, <1>3, <1>4, <1>7 DEF KvInv, RecordsAgree, OwnersOK

(* What makes room is at most one block, which nobody shares.              *)
LEMMA VictimsAre ==
  ASSUME KvInv
  PROVE  /\ Victims \subseteq Physical /\ IsFiniteSet(Victims)
         /\ Cardinality(Victims) \in {0, 1} /\ (Cardinality(Victims) = 0 <=> Victims = {})
         /\ Victims # {} => usedBlocks >= MaxBlocks
         /\ \A b \in Victims : block[b].refs <= 1 /\ ~block[b].shared
<1>1. PICK n \in Nat : n = Len(lruQueue)  BY KvFacts, LenProperties
<1>2. PICK I : I = {i \in 1..n : Evictable(lruQueue[i])}  OBVIOUS
<1>3. PICK at : at = IF I # {} THEN Min(I) ELSE 0  OBVIOUS
<1>4. Victims = IF usedBlocks < MaxBlocks \/ at = 0 THEN {} ELSE {lruQueue[at]}
  BY <1>1, <1>2, <1>3 DEF Victims, SelectInSeq
<1>5. at # 0 => at \in I
  <2>1. SUFFICES ASSUME at # 0 PROVE at \in I  OBVIOUS
  <2>2. I # {} /\ I \subseteq 1..n  BY <1>2, <1>3, <2>1
  <2>3. Min(I) \in I  BY <2>2, ExtremesAre
  <2> QED  BY <1>3, <2>2, <2>3
<1>6. CASE usedBlocks < MaxBlocks \/ at = 0
  <2>1. Victims = {}  BY <1>4, <1>6
  <2> QED  BY <2>1, FS_EmptySet
<1>7. CASE ~(usedBlocks < MaxBlocks \/ at = 0)
  <2>1. PICK b : b = lruQueue[at]  OBVIOUS
  <2>2. Victims = {b}  BY <1>4, <1>7, <2>1
  <2>3. Evictable(b)  BY <1>2, <1>5, <1>7, <2>1
  <2>4. IsFiniteSet({b}) /\ Cardinality({b}) = 1  BY FS_Singleton
  <2>5. usedBlocks >= MaxBlocks  BY <1>7, KvFacts
  <2> QED  BY <2>2, <2>3, <2>4, <2>5 DEF Evictable
<1> QED  BY <1>6, <1>7

LEMMA AllocateIs ==
  ASSUME KvInv, NEW value \in KvRequests \cup {Nobody}, NEW others \in [Physical -> BlockRecords],
         \A b \in Physical : others[b].refs = block[b].refs /\ others[b].shared = block[b].shared,
         Allocate(value, others), NEW blocks, blocks = block', NEW d, d = drawn'
  PROVE  /\ d = drawn + 1 /\ d \in Ids /\ d \notin Physical
         /\ BlocksOK(blocks, d) /\ RecordsAgree(blocks, usedBlocks', lruQueue')
         /\ DOMAIN blocks \subseteq Physical \cup {d}
         /\ d \in DOMAIN blocks /\ blocks[d].refs = 1
         /\ \A b \in DOMAIN blocks : b # d => blocks[b].refs = block[b].refs /\ blocks[b].shared = block[b].shared
         /\ \A b \in Physical \ DOMAIN blocks : block[b].refs <= 1 /\ ~block[b].shared
<1>1. PICK gone, stay : gone = Victims /\ stay = Physical \ gone  OBVIOUS
<1>2. PICK new : new = [refs |-> 1, shared |-> FALSE, value |-> value]  OBVIOUS
<1>3. new \in BlockRecords /\ new.refs = 1  BY <1>2 DEF BlockRecords
<1>4. drawn \in Nat /\ drawn < MaxDrawn /\ MaxDrawn \in Nat /\ drawn + 1 \in Ids  BY KvFacts DEF Allocate, Ids
<1>5. d = drawn + 1  BY DEF Allocate
<1>6. d \notin Physical  BY <1>4, <1>5, KvFacts
<1>7. blocks = [b \in stay \cup {d} |-> IF b = d THEN new ELSE others[b]]
  BY <1>1, <1>2, <1>5 DEF Allocate
<1>8. stay \subseteq Physical  BY <1>1
<1>9. /\ DOMAIN blocks = stay \cup {d} /\ blocks[d] = new
      /\ \A b \in stay : blocks[b] = others[b]
  BY <1>6, <1>7, <1>8
<1>10. BlocksOK(blocks, d)
  <2>1. DOMAIN blocks \subseteq 1..d  BY <1>4, <1>5, <1>8, <1>9, KvFacts
  <2>2. blocks \in [stay \cup {d} -> BlockRecords]  BY <1>3, <1>7, <1>8, <1>6
  <2> QED  BY <1>9, <2>1, <2>2 DEF BlocksOK
<1>11. RecordsAgree(blocks, usedBlocks', lruQueue')
  <2>1. PICK v : v = Cardinality(gone)  OBVIOUS
  <2>2. v \in {0, 1} /\ (v = 0 <=> gone = {}) /\ gone \subseteq Physical /\ (gone # {} => usedBlocks >= MaxBlocks)
    BY <1>1, <2>1, VictimsAre
  <2>3. PICK p \in Nat : p = Cardinality(Physical)  BY KvFacts, FS_CardinalityType
  <2>4. usedBlocks = p /\ p \in 0..MaxBlocks /\ MaxBlocks \in Nat  BY <2>3, KvFacts DEF KvInv, RecordsAgree, Physical
  <2>5. Physical \cap gone = gone  BY <2>2
  <2>6. IsFiniteSet(stay) /\ Cardinality(stay) = p - v
    <3>1. PICK P : P = Physical  OBVIOUS
    <3>2. IsFiniteSet(P) /\ P \cap gone = gone  BY <2>5, <3>1, KvFacts
    <3>3. IsFiniteSet(P \ gone) /\ Cardinality(P \ gone) = Cardinality(P) - Cardinality(P \cap gone)
      BY <3>2, FS_Difference
    <3> QED  BY <1>1, <2>1, <2>3, <3>1, <3>2, <3>3
  <2>7. d \notin stay  BY <1>6, <1>8
  <2>8. Cardinality(stay \cup {d}) = p - v + 1  BY <2>6, <2>7, FS_AddElement
  <2>9. usedBlocks' = usedBlocks - Cardinality(Victims) + 1  BY DEF Allocate
  <2>10. usedBlocks' = p - v + 1  BY <1>1, <2>1, <2>4, <2>9
  <2>11. p < MaxBlocks \/ gone # {}  BY <1>1, <2>4 DEF Allocate
  <2>12. p - v + 1 \in 0..MaxBlocks  BY <2>2, <2>4, <2>11
  <2>13. PICK q : q = QueueWithout(gone)  OBVIOUS
  <2>14. Distinct(lruQueue) /\ (\A b : In(b, lruQueue) <=> b \in Physical)  BY DEF KvInv, RecordsAgree, Physical
  <2>15. q \in Seq(Ids) /\ Distinct(q) /\ \A b : In(b, q) <=> b \in stay
    BY <1>1, <2>13, <2>14, KvFacts, QueueWithoutIs
  <2>16. lruQueue' = Append(q, d)  BY <1>1, <1>5, <2>13 DEF Allocate
  <2>17. d \in Ids /\ ~In(d, q)  BY <1>4, <1>5, <2>7, <2>15
  <2>18. PICK s : s = Append(q, d)  OBVIOUS
  <2>19. s \in Seq(Ids) /\ Distinct(s) /\ \A b : In(b, s) <=> b = d \/ In(b, q)
    <3>1. q \in Seq(Ids) /\ Distinct(q)  BY <2>15
    <3> HIDE <2>15
    <3> QED  BY <3>1, <2>17, <2>18, AppendHas
  <2>20. \A b : In(b, s) <=> b \in DOMAIN blocks  BY <1>9, <2>15, <2>19
  <2> QED  BY <1>9, <2>8, <2>10, <2>12, <2>16, <2>18, <2>19, <2>20 DEF RecordsAgree
<1>12. \A b \in Physical \ DOMAIN blocks : b \in gone  BY <1>1, <1>9
<1>13. \A b \in Physical \ DOMAIN blocks : block[b].refs <= 1 /\ ~block[b].shared  BY <1>1, <1>12, VictimsAre
<1>14. \A b \in DOMAIN blocks : b # d => blocks[b].refs = block[b].refs /\ blocks[b].shared = block[b].shared
  BY <1>8, <1>9
<1> QED  BY <1>3, <1>4, <1>5, <1>6, <1>8, <1>9, <1>10, <1>11, <1>13, <1>14

(* A new block has the reader it was made for, and the others none more.   *)
LEMMA Allocated ==
  ASSUME KvInv, NEW value \in KvRequests \cup {Nobody}, NEW others \in [Physical -> BlockRecords],
         \A b \in Physical : others[b].refs = block[b].refs /\ others[b].shared = block[b].shared,
         Allocate(value, others),
         NEW t, t = table', NEW h, h = held', NEW d, d = drawn + 1,
         OwnersOK(t, h, d),
         \A b \in Ids : b # d => Counts(t, h, b) <= Counts(table, held, b),
         d \in Ids => Counts(t, h, d) <= 1
  PROVE  KvInv' /\ Dangling(t, h, drawn', block')
<1>1. PICK blocks : blocks = block'  OBVIOUS
<1>2. d = drawn'  BY DEF Allocate
<1>3. /\ d \in Ids /\ d \notin Physical /\ d # drawn
      /\ BlocksOK(blocks, d) /\ RecordsAgree(blocks, usedBlocks', lruQueue')
      /\ DOMAIN blocks \subseteq Physical \cup {d}
      /\ d \in DOMAIN blocks /\ blocks[d].refs = 1
      /\ \A b \in DOMAIN blocks : b # d => blocks[b].refs = block[b].refs /\ blocks[b].shared = block[b].shared
      /\ \A b \in Physical \ DOMAIN blocks : block[b].refs <= 1 /\ ~block[b].shared
  <2>1. drawn \in Nat /\ d = drawn + 1  BY KvFacts
  <2>2. d # drawn  BY <2>1
  <2> HIDE <2>1
  <2> QED  BY <1>1, <1>2, <2>2, AllocateIs
<1>4. h \in [Ids -> Nat] /\ held \in [Ids -> Nat] /\ Physical \subseteq Ids  BY KvFacts DEF OwnersOK
<1>5. \A b \in Ids : Counts(t, h, b) \in Nat /\ Counts(table, held, b) \in Nat  BY <1>4, CountsIs
<1>6. \A b \in Physical : /\ block[b].refs \in Nat /\ block[b].refs >= Counts(table, held, b)
                          /\ Counts(table, held, b) > 1 => block[b].shared
  BY KvFacts DEF KvInv, Covered, BlockRecords, Physical
<1>7. Covered(blocks, t, h)
  <2>1. ASSUME NEW b \in DOMAIN blocks, b # d
        PROVE  blocks[b].refs >= Counts(t, h, b) /\ (Counts(t, h, b) > 1 => blocks[b].shared)
    <3>1. b \in Physical /\ b \in Ids  BY <1>3, <1>4, <2>1
    <3>2. Counts(t, h, b) <= Counts(table, held, b)  BY <2>1, <3>1
    <3>3. blocks[b].refs = block[b].refs /\ blocks[b].shared = block[b].shared  BY <1>3, <2>1
    <3>4. Counts(t, h, b) \in Nat /\ Counts(table, held, b) \in Nat  BY <1>5, <3>1
    <3>5. block[b].refs \in Nat /\ block[b].refs >= Counts(table, held, b)  BY <1>6, <3>1
    <3>6. block[b].refs >= Counts(t, h, b)  BY <3>2, <3>4, <3>5
    <3>7. Counts(t, h, b) > 1 => Counts(table, held, b) > 1  BY <3>2, <3>4
    <3> QED  BY <1>6, <3>1, <3>3, <3>6, <3>7
  <2>2. blocks[d].refs >= Counts(t, h, d) /\ ~(Counts(t, h, d) > 1)  BY <1>3, <1>5
  <2> QED  BY <2>1, <2>2 DEF Covered
<1>8. Dangling(t, h, d, blocks)
  <2>1. ASSUME NEW b \in Physical \ DOMAIN blocks, Counts(t, h, b) > 0
        PROVE  d # drawn /\ Counts(table, held, b) = 1
    <3>1. b \in Ids /\ b # d  BY <1>3, <1>4
    <3>2. Counts(t, h, b) <= Counts(table, held, b)  BY <3>1
    <3>3. Counts(t, h, b) \in Nat /\ Counts(table, held, b) \in Nat  BY <1>5, <3>1
    <3>4. block[b].refs <= 1 /\ block[b].refs \in Nat /\ block[b].refs >= Counts(table, held, b)
      BY <1>3, <1>6
    <3> QED  BY <1>3, <2>1, <3>2, <3>3, <3>4
  <2> QED  BY <2>1 DEF Dangling
<1> QED  BY <1>1, <1>2, <1>3, <1>7, <1>8, KvInvOf

(* The references go that are given back.                                  *)
LEMMA Freed ==
  ASSUME KvInv, NEW given \in [Ids -> Nat], FreeBlocks(given),
         NEW t, t = table', NEW h, h = held', OwnersOK(t, h, drawn),
         \A b \in Ids : Counts(t, h, b) + given[b] <= Counts(table, held, b)
  PROVE  KvInv' /\ Dangling(t, h, drawn', block')
<1>1. PICK gone, stay, blocks : gone = Emptied(given) /\ stay = Physical \ gone /\ blocks = block'  OBVIOUS
<1>2. gone \subseteq Physical /\ stay \subseteq Physical  BY <1>1 DEF Emptied
<1>3. blocks = [b \in stay |-> [block[b] EXCEPT !.refs = @ - given[b]]]  BY <1>1 DEF FreeBlocks
<1>4. h \in [Ids -> Nat] /\ held \in [Ids -> Nat] /\ Physical \subseteq Ids  BY KvFacts DEF OwnersOK
<1>5. \A b \in Ids : Counts(t, h, b) \in Nat /\ Counts(table, held, b) \in Nat  BY <1>4, CountsIs
<1>6. \A b \in Physical : /\ block[b] \in BlockRecords /\ block[b].refs \in Nat
                          /\ block[b].refs >= Counts(table, held, b)
                          /\ Counts(table, held, b) > 1 => block[b].shared
  BY KvFacts DEF KvInv, Covered, BlockRecords, Physical
<1>7. \A b \in Physical : b \in gone <=> block[b].refs <= given[b]  BY <1>1 DEF Emptied
<1>8. ASSUME NEW b \in stay
      PROVE  /\ blocks[b] \in BlockRecords /\ blocks[b].shared = block[b].shared
             /\ blocks[b].refs = block[b].refs - given[b]
  <2>1. PICK one : one = block[b]  OBVIOUS
  <2>2. b \in Physical /\ b \in Ids /\ ~(one.refs <= given[b])  BY <1>1, <1>2, <1>4, <1>7, <2>1
  <2>3. one \in BlockRecords /\ one.refs \in Nat /\ given[b] \in Nat  BY <1>6, <2>1, <2>2
  <2>4. blocks[b] = [one EXCEPT !.refs = @ - given[b]]  BY <1>3, <2>1
  <2>5. one.refs - given[b] \in Nat \ {0}  BY <2>2, <2>3
  <2> QED  BY <2>1, <2>3, <2>4, <2>5 DEF BlockRecords
<1>9. DOMAIN blocks = stay  BY <1>3
<1>10. BlocksOK(blocks, drawn)
  <2>1. DOMAIN blocks \subseteq 1..drawn  BY <1>2, <1>9, KvFacts
  <2>2. blocks \in [stay -> BlockRecords]  BY <1>3, <1>8
  <2> QED  BY <1>9, <2>1, <2>2 DEF BlocksOK
<1>11. RecordsAgree(blocks, usedBlocks', lruQueue')
  <2>1. PICK p \in Nat : p = Cardinality(Physical)  BY KvFacts, FS_CardinalityType
  <2>2. usedBlocks = p /\ p \in 0..MaxBlocks /\ MaxBlocks \in Nat  BY <2>1, KvFacts DEF KvInv, RecordsAgree, Physical
  <2>3. gone \in SUBSET Physical /\ Physical \cap gone = gone  BY <1>2
  <2>4. IsFiniteSet(gone) /\ Cardinality(gone) <= p  BY <2>1, <2>3, KvFacts, FS_Subset
  <2>5. PICK v \in Nat : v = Cardinality(gone)  BY <2>4, FS_CardinalityType
  <2>6. Cardinality(stay) = p - v
    <3>1. PICK P : P = Physical  OBVIOUS
    <3>2. IsFiniteSet(P) /\ P \cap gone = gone  BY <2>3, <3>1, KvFacts
    <3>3. IsFiniteSet(P \ gone) /\ Cardinality(P \ gone) = Cardinality(P) - Cardinality(P \cap gone)
      BY <3>2, FS_Difference
    <3> QED  BY <1>1, <2>1, <2>5, <3>1, <3>2, <3>3
  <2>7. usedBlocks' = p - v  BY <1>1, <2>2, <2>5 DEF FreeBlocks
  <2>8. p - v \in 0..MaxBlocks  BY <2>2, <2>4, <2>5
  <2>9. lruQueue' = QueueWithout(gone)  BY <1>1 DEF FreeBlocks
  <2>10. PICK q : q = QueueWithout(gone)  OBVIOUS
  <2>11. Distinct(lruQueue) /\ (\A b : In(b, lruQueue) <=> b \in Physical)  BY DEF KvInv, RecordsAgree, Physical
  <2>12. q \in Seq(Ids) /\ Distinct(q) /\ \A b : In(b, q) <=> b \in stay
    BY <1>1, <2>10, <2>11, KvFacts, QueueWithoutIs
  <2> QED  BY <1>9, <2>6, <2>7, <2>8, <2>9, <2>10, <2>12 DEF RecordsAgree
<1>12. drawn' = drawn  BY DEF FreeBlocks
<1>13. Covered(blocks, t, h)
  <2>1. ASSUME NEW b \in DOMAIN blocks
        PROVE  blocks[b].refs >= Counts(t, h, b) /\ (Counts(t, h, b) > 1 => blocks[b].shared)
    <3>1. b \in stay /\ b \in Physical /\ b \in Ids  BY <1>2, <1>4, <1>9
    <3>2. Counts(t, h, b) + given[b] <= Counts(table, held, b)  BY <3>1
    <3>3. Counts(t, h, b) \in Nat /\ Counts(table, held, b) \in Nat /\ given[b] \in Nat  BY <1>5, <3>1
    <3>4. block[b].refs \in Nat /\ block[b].refs >= Counts(table, held, b)  BY <1>6, <3>1
    <3>5. blocks[b].refs = block[b].refs - given[b] /\ blocks[b].shared = block[b].shared  BY <1>8, <3>1
    <3>6. block[b].refs - given[b] >= Counts(t, h, b)  BY <3>2, <3>3, <3>4
    <3>7. Counts(t, h, b) > 1 => Counts(table, held, b) > 1  BY <3>2, <3>3
    <3> QED  BY <1>6, <3>1, <3>5, <3>6, <3>7
  <2> QED  BY <2>1 DEF Covered
<1>14. Dangling(t, h, drawn, blocks)
  <2>1. ASSUME NEW b \in Physical \ DOMAIN blocks PROVE ~(Counts(t, h, b) > 0)
    <3>1. b \in gone /\ b \in Ids  BY <1>1, <1>4, <1>9
    <3>2. Counts(t, h, b) + given[b] <= Counts(table, held, b)  BY <3>1
    <3>3. Counts(t, h, b) \in Nat /\ Counts(table, held, b) \in Nat /\ given[b] \in Nat  BY <1>5, <3>1
    <3>4. block[b].refs \in Nat /\ block[b].refs >= Counts(table, held, b) /\ block[b].refs <= given[b]
      BY <1>2, <1>6, <1>7, <3>1
    <3> QED  BY <3>2, <3>3, <3>4
  <2> QED  BY <2>1 DEF Dangling
<1> QED  BY <1>1, <1>10, <1>11, <1>12, <1>13, <1>14, KvInvOf

LEMMA NoReaderYet ==
  ASSUME KvInv, NEW n, n = drawn + 1
  PROVE  Cardinality(Readers(table, n)) = 0
<1>1. drawn \in Nat /\ table \in [KvRequests -> [Index -> 0..drawn]]  BY KvFacts
<1>2. \A r \in KvRequests, i \in Index : table[r][i] # n  BY <1>1
<1>3. Readers(table, n) = {}  BY <1>2 DEF Readers
<1> QED  BY <1>3, FS_EmptySet

(* What a new block n needs of tables and callers.                         *)
MadeFor(t, h, n) ==
  /\ OwnersOK(t, h, n)
  /\ \A b \in Ids : b # n => Counts(t, h, b) <= Counts(table, held, b)
  /\ n \in Ids => Counts(t, h, n) <= 1

(* The new block is put into a table, or given to a caller.                *)
LEMMA FreshPage ==
  ASSUME KvInv, drawn < MaxDrawn, NEW r \in KvRequests, NEW i \in Index, NEW n, n = drawn + 1,
         NEW t, t = [table EXCEPT ![r][i] = n]
  PROVE  MadeFor(t, held, n)
<1>1. drawn \in Nat /\ MaxDrawn \in Nat /\ n \in Nat /\ n \in 0..MaxDrawn  BY KvFacts
<1>2. table \in [KvRequests -> [Index -> 0..drawn]] /\ held \in [Ids -> Nat]  BY KvFacts
<1>3. [Index -> 0..drawn] \subseteq [Index -> Nat]  OBVIOUS
<1>4. table \in [KvRequests -> [Index -> Nat]]  BY <1>2, <1>3
<1>5. /\ t \in [KvRequests -> [Index -> Nat]]
      /\ \A q \in KvRequests, j \in Index : t[q][j] = IF q = r /\ j = i THEN n ELSE table[q][j]
      /\ \A b : b # n => Cardinality(Readers(t, b)) <= Cardinality(Readers(table, b))
      /\ Cardinality(Readers(t, n)) <= Cardinality(Readers(table, n)) + 1
  <2>1. PageIsSet(table, r, i, n, t)  BY <1>1, <1>4, PageSet
  <2> QED  BY <2>1 DEF PageIsSet
<1>6. \A q \in KvRequests, j \in Index : t[q][j] \in 0..n
  <2>1. ASSUME NEW q \in KvRequests, NEW j \in Index PROVE t[q][j] \in 0..n
    <3>1. table[q][j] \in 0..drawn  BY <1>2
    <3>2. table[q][j] \in 0..n /\ n \in 0..n  BY <1>1, <3>1
    <3> QED  BY <1>5, <3>2
  <2> QED  BY <2>1
<1>7. t \in [KvRequests -> [Index -> 0..n]]
  <2>1. \A q \in KvRequests : t[q] \in [Index -> 0..n]  BY <1>5, <1>6
  <2>2. PICK N : N = [Index -> 0..n]  OBVIOUS
  <2>3. t \in [KvRequests -> N]  BY <1>5, <2>1, <2>2
  <2> QED  BY <2>2, <2>3
<1>8. \A b \in Ids : b > n => held[b] = 0  BY <1>1 DEF KvInv, OwnersOK, Ids
<1>9. OwnersOK(t, held, n)  BY <1>1, <1>2, <1>7, <1>8 DEF OwnersOK
<1>10. ASSUME NEW b \in Ids, b # n PROVE Counts(t, held, b) <= Counts(table, held, b)
  <2>1. Cardinality(Readers(t, b)) <= Cardinality(Readers(table, b))  BY <1>5, <1>10
  <2>2. held[b] \in Nat  BY <1>2
  <2> QED  BY <2>1, <2>2, ReadersFinite DEF Counts
<1>11. n \in Ids => Counts(t, held, n) <= 1
  <2>1. Cardinality(Readers(t, n)) <= 1  BY <1>5, NoReaderYet
  <2>2. n \in Ids => held[n] = 0  BY <1>1 DEF KvInv, OwnersOK
  <2> QED  BY <2>1, <2>2, ReadersFinite DEF Counts
<1> QED  BY <1>9, <1>10, <1>11 DEF MadeFor

LEMMA FreshHold ==
  ASSUME KvInv, drawn < MaxDrawn, NEW n, n = drawn + 1, NEW h, h = [held EXCEPT ![n] = 1]
  PROVE  MadeFor(table, h, n)
<1>1. drawn \in Nat /\ MaxDrawn \in Nat /\ n \in Nat /\ n \in 0..MaxDrawn /\ n > drawn  BY KvFacts
<1>2. table \in [KvRequests -> [Index -> 0..drawn]] /\ held \in [Ids -> Nat]  BY KvFacts
<1>3. 0..drawn \subseteq 0..n  BY <1>1
<1>4. table \in [KvRequests -> [Index -> 0..n]]  BY <1>2, <1>3
<1>5. h \in [Ids -> Nat] /\ \A b \in Ids : h[b] = IF b = n THEN 1 ELSE held[b]  BY <1>2
<1>6. \A b \in Ids : b > n => held[b] = 0  BY <1>1 DEF KvInv, OwnersOK, Ids
<1>7. \A b \in Ids : b > n => h[b] = 0  BY <1>1, <1>5, <1>6
<1>8. OwnersOK(table, h, n)  BY <1>1, <1>4, <1>5, <1>7 DEF OwnersOK
<1>9. \A b \in Ids : b # n => Counts(table, h, b) = Counts(table, held, b)  BY <1>5 DEF Counts
<1>10. \A b \in Ids : Counts(table, h, b) \in Nat  BY <1>5, CountsIs
<1>11. n \in Ids => Counts(table, h, n) = 1  BY <1>5, NoReaderYet DEF Counts
<1>12. ASSUME NEW b \in Ids, b # n PROVE Counts(table, h, b) <= Counts(table, held, b)
  <2>1. PICK k \in Nat : k = Counts(table, held, b)  BY <1>2, CountsIs
  <2>2. Counts(table, h, b) = Counts(table, held, b)  BY <1>9, <1>12
  <2>3. Counts(table, h, b) = k  BY <2>1, <2>2
  <2> QED  BY <2>1, <2>3
<1>13. n \in Ids => Counts(table, h, n) <= 1  BY <1>11
<1> QED  BY <1>8, <1>12, <1>13 DEF MadeFor

LEMMA MadeForReader ==
  ASSUME KvInv, NEW value \in KvRequests \cup {Nobody}, NEW others \in [Physical -> BlockRecords],
         \A b \in Physical : others[b].refs = block[b].refs /\ others[b].shared = block[b].shared,
         Allocate(value, others),
         NEW t, t = table', NEW h, h = held', NEW d, d = drawn + 1, MadeFor(t, h, d)
  PROVE  KvInv' /\ Dangling(t, h, drawn', block')
<1>1. OwnersOK(t, h, d)  BY DEF MadeFor
<1>2. \A b \in Ids : b # d => Counts(t, h, b) <= Counts(table, held, b)  BY DEF MadeFor
<1>3. d \in Ids => Counts(t, h, d) <= 1  BY DEF MadeFor
<1> QED  BY <1>1, <1>2, <1>3, Allocated

LEMMA SameRecords ==
  ASSUME KvInv
  PROVE  block \in [Physical -> BlockRecords]
BY DEF KvInv, BlocksOK, Physical

LEMMA Writes ==
  ASSUME KvInv, NEW r \in KvRequests, WriteNew(r)
  PROVE  KvInv' /\ Dangling(table', held', drawn', block')
<1>1. PICK I : I = {i \in Index : table[r][i] # 0}  OBVIOUS
<1>2. Pages \in Nat  BY KvAssumption
<1>3. IsFiniteSet(Index)  BY <1>2, FS_Interval DEF Index
<1>4. I \in SUBSET Index  BY <1>1
<1>5. IsFiniteSet(I)  BY <1>3, <1>4, FS_Subset
<1>6. PICK i \in Nat : i = Length(r)  BY <1>1, <1>5, FS_CardinalityType DEF Length
<1>7. i + 1 \in Index  BY <1>2, <1>6 DEF WriteNew, Index
<1>8. PICK n, t : n = drawn + 1 /\ t = [table EXCEPT ![r][i + 1] = n]  OBVIOUS
<1>9. t = table' /\ held' = held /\ Allocate(r, block)  BY <1>6, <1>8 DEF WriteNew
<1>10. drawn < MaxDrawn  BY <1>9 DEF Allocate
<1>11. MadeFor(t, held, n)
  BY <1>7, <1>8, <1>10, FreshPage
<1>12. r \in KvRequests \cup {Nobody}  OBVIOUS
<1>13. PICK h : h = held'  OBVIOUS
<1>14. h = held  BY <1>9, <1>13
<1> QED  BY <1>8, <1>9, <1>11, <1>12, <1>13, <1>14, SameRecords, MadeForReader

(* The blocks with one of them changed.                                    *)
Changed(b, one, blocks) ==
  /\ BlocksOK(blocks, drawn) /\ blocks \in [Physical -> BlockRecords]
  /\ RecordsAgree(blocks, usedBlocks, lruQueue) /\ DOMAIN blocks = Physical
  /\ \A k \in Physical : blocks[k] = IF k = b THEN one ELSE block[k]

LEMMA BlockChanged ==
  ASSUME KvInv, NEW b \in Physical, NEW one \in BlockRecords, NEW blocks, blocks = [block EXCEPT ![b] = one]
  PROVE  Changed(b, one, blocks)
<1>1. block \in [Physical -> BlockRecords]  BY SameRecords
<1>2. blocks \in [Physical -> BlockRecords] /\ \A k \in Physical : blocks[k] = IF k = b THEN one ELSE block[k]
  BY <1>1
<1>3. DOMAIN blocks = Physical  BY <1>2
<1>4. RecordsAgree(block, usedBlocks, lruQueue) /\ Physical \subseteq 1..drawn
  BY DEF KvInv, BlocksOK, Physical
<1>5. RecordsAgree(blocks, usedBlocks, lruQueue)  BY <1>3, <1>4 DEF RecordsAgree, Physical
<1>6. BlocksOK(blocks, drawn)  BY <1>2, <1>3, <1>4 DEF BlocksOK
<1> QED  BY <1>2, <1>3, <1>5, <1>6 DEF Changed

LEMMA Rewrites ==
  ASSUME KvInv, NEW r \in KvRequests, NEW i \in Index, Rewrite(r, i)
  PROVE  KvInv' /\ Dangling(table', held', drawn', block')
<1>1. PICK b, one : b = table[r][i] /\ one = [block[b] EXCEPT !.value = r]  OBVIOUS
<1>2. b \in Physical  BY <1>1 DEF Rewrite
<1>3. block[b] \in BlockRecords  BY <1>2, KvFacts
<1>4. one \in BlockRecords /\ one.refs = block[b].refs /\ one.shared = block[b].shared
  BY <1>1, <1>3 DEF BlockRecords
<1>5. PICK written : written = [block EXCEPT ![b] = one]  OBVIOUS
<1>6. written = [block EXCEPT ![b].value = r]  BY <1>1, <1>5
<1>7. /\ BlocksOK(written, drawn) /\ written \in [Physical -> BlockRecords]
      /\ RecordsAgree(written, usedBlocks, lruQueue) /\ DOMAIN written = Physical
      /\ \A k \in Physical : written[k] = IF k = b THEN one ELSE block[k]
  <2>1. Changed(b, one, written)  BY <1>2, <1>4, <1>5, BlockChanged
  <2> QED  BY <2>1 DEF Changed
<1>8. \A k \in Physical : written[k].refs = block[k].refs /\ written[k].shared = block[k].shared
  BY <1>4, <1>7
<1>9. held' = held  BY DEF Rewrite
<1>10. CASE ~block[b].shared
  <2>1. block' = written /\ drawn' = drawn /\ usedBlocks' = usedBlocks /\ lruQueue' = lruQueue /\ table' = table
    BY <1>1, <1>6, <1>10 DEF Rewrite
  <2>2. Covered(written, table, held)  BY <1>7, <1>8 DEF KvInv, Covered, Physical
  <2>3. OwnersOK(table, held, drawn)  BY DEF KvInv
  <2>4. KvInv'  BY <1>7, <1>9, <2>1, <2>2, <2>3, KvInvOf
  <2>5. Dangling(table', held', drawn', written)  BY <1>7 DEF Dangling
  <2> QED  BY <2>1, <2>4, <2>5
<1>11. CASE block[b].shared
  <2>1. PICK n, t : n = drawn + 1 /\ t = [table EXCEPT ![r][i] = n]  OBVIOUS
  <2>2. t = table' /\ Allocate(block[b].value, written)  BY <1>1, <1>6, <1>11, <2>1 DEF Rewrite
  <2>3. drawn < MaxDrawn  BY <2>2 DEF Allocate
  <2>4. MadeFor(t, held, n)
    BY <2>1, <2>3, FreshPage
  <2>5. block[b].value \in KvRequests \cup {Nobody}  BY <1>3 DEF BlockRecords
  <2>6. PICK h : h = held'  OBVIOUS
  <2>7. h = held  BY <1>9, <2>6
  <2> QED  BY <1>7, <1>8, <2>1, <2>2, <2>4, <2>5, <2>6, <2>7, MadeForReader
<1> QED  BY <1>10, <1>11

(* A block gets another reader, who is counted and marks it.               *)
LEMMA ReaderComes ==
  ASSUME KvInv, NEW b \in Physical, block' = OneMoreReader(b),
         drawn' = drawn, usedBlocks' = usedBlocks, lruQueue' = lruQueue,
         NEW t, t = table', NEW h, h = held', OwnersOK(t, h, drawn),
         \A k \in Ids : k # b => Counts(t, h, k) <= Counts(table, held, k),
         Counts(t, h, b) <= Counts(table, held, b) + 1
  PROVE  KvInv' /\ Dangling(t, h, drawn', block')
<1>1. PICK one : one = [block[b] EXCEPT !.refs = @ + 1, !.shared = TRUE]  OBVIOUS
<1>2. block[b] \in BlockRecords  BY KvFacts
<1>3. one \in BlockRecords /\ one.refs = block[b].refs + 1 /\ one.shared = TRUE
  <2>1. PICK old \in BlockRecords : old = block[b]  BY <1>2
  <2>2. old.refs \in Nat \ {0} /\ old.refs + 1 \in Nat \ {0}  BY DEF BlockRecords
  <2>3. one = [old EXCEPT !.refs = @ + 1, !.shared = TRUE]  BY <1>1, <2>1
  <2> QED  BY <2>1, <2>2, <2>3 DEF BlockRecords
<1>4. PICK blocks : blocks = [block EXCEPT ![b] = one]  OBVIOUS
<1>5. block' = blocks
  <2>1. block \in [Physical -> BlockRecords]  BY SameRecords
  <2>2. block' = [block EXCEPT ![b].refs = @ + 1, ![b].shared = TRUE]  BY DEF OneMoreReader
  <2> QED  BY <1>1, <1>4, <2>1, <2>2
<1>6. /\ BlocksOK(blocks, drawn) /\ RecordsAgree(blocks, usedBlocks, lruQueue) /\ DOMAIN blocks = Physical
      /\ \A k \in Physical : blocks[k] = IF k = b THEN one ELSE block[k]
  <2>1. Changed(b, one, blocks)  BY <1>3, <1>4, BlockChanged
  <2> QED  BY <2>1 DEF Changed
<1>7. h \in [Ids -> Nat] /\ held \in [Ids -> Nat] /\ Physical \subseteq Ids  BY KvFacts DEF OwnersOK
<1>8. \A k \in Ids : Counts(t, h, k) \in Nat /\ Counts(table, held, k) \in Nat  BY <1>7, CountsIs
<1>9. \A k \in Physical : /\ block[k].refs \in Nat /\ block[k].refs >= Counts(table, held, k)
                          /\ Counts(table, held, k) > 1 => block[k].shared
  BY KvFacts DEF KvInv, Covered, BlockRecords, Physical
<1>10. Covered(blocks, t, h)
  <2>1. ASSUME NEW k \in Physical, k # b
        PROVE  blocks[k].refs >= Counts(t, h, k) /\ (Counts(t, h, k) > 1 => blocks[k].shared)
    <3>1. k \in Ids /\ blocks[k] = block[k]  BY <1>6, <1>7, <2>1
    <3>2. Counts(t, h, k) <= Counts(table, held, k)  BY <2>1, <3>1
    <3>3. Counts(t, h, k) \in Nat /\ Counts(table, held, k) \in Nat  BY <1>8, <3>1
    <3>4. block[k].refs \in Nat /\ block[k].refs >= Counts(table, held, k)  BY <1>9
    <3>5. block[k].refs >= Counts(t, h, k)  BY <3>2, <3>3, <3>4
    <3>6. Counts(t, h, k) > 1 => Counts(table, held, k) > 1  BY <3>2, <3>3
    <3> QED  BY <1>9, <3>1, <3>5, <3>6
  <2>2. blocks[b].refs >= Counts(t, h, b) /\ blocks[b].shared
    <3>1. b \in Ids /\ blocks[b] = one  BY <1>6, <1>7
    <3>2. Counts(t, h, b) \in Nat /\ Counts(table, held, b) \in Nat  BY <1>8, <3>1
    <3>3. block[b].refs \in Nat /\ block[b].refs >= Counts(table, held, b)  BY <1>9
    <3>4. block[b].refs + 1 >= Counts(t, h, b)  BY <3>2, <3>3
    <3> QED  BY <1>3, <3>1, <3>4
  <2> QED  BY <1>6, <2>1, <2>2 DEF Covered
<1>11. Dangling(t, h, drawn, blocks)  BY <1>6 DEF Dangling
<1>12. KvInv'  BY <1>5, <1>6, <1>10, KvInvOf
<1> QED  BY <1>5, <1>11, <1>12

LEMMA Shares ==
  ASSUME KvInv, NEW r \in KvRequests, NEW i \in Index, NEW q \in KvRequests, Share(r, i, q)
  PROVE  KvInv' /\ Dangling(table', held', drawn', block')
<1>1. PICK b, t : b = table[r][i] /\ t = [table EXCEPT ![q][i] = b]  OBVIOUS
<1>2. drawn \in Nat /\ table \in [KvRequests -> [Index -> 0..drawn]] /\ held \in [Ids -> Nat]  BY KvFacts
<1>3. b \in 0..drawn /\ b \in Nat  BY <1>1, <1>2
<1>4. [Index -> 0..drawn] \subseteq [Index -> Nat]  BY <1>2
<1>5. table \in [KvRequests -> [Index -> Nat]]  BY <1>2, <1>4
<1>6. PageIsSet(table, q, i, b, t)  BY <1>1, <1>3, <1>5, PageSet
<1>7. t \in [KvRequests -> [Index -> 0..drawn]]
  <2>1. \A k \in KvRequests, j \in Index : t[k][j] \in 0..drawn  BY <1>2, <1>3, <1>6 DEF PageIsSet
  <2>2. t \in [KvRequests -> [Index -> Nat]]  BY <1>6 DEF PageIsSet
  <2>3. \A k \in KvRequests : t[k] \in [Index -> 0..drawn]  BY <2>1, <2>2
  <2>4. PICK N : N = [Index -> 0..drawn]  OBVIOUS
  <2>5. t \in [KvRequests -> N]  BY <2>2, <2>3, <2>4
  <2> QED  BY <2>4, <2>5
<1>8. OwnersOK(t, held, drawn)  BY <1>7 DEF KvInv, OwnersOK
<1>9. ASSUME NEW k \in Ids, k # b PROVE Counts(t, held, k) <= Counts(table, held, k)
  <2>1. Cardinality(Readers(t, k)) <= Cardinality(Readers(table, k))  BY <1>6, <1>9 DEF PageIsSet
  <2>2. held[k] \in Nat  BY <1>2
  <2> QED  BY <2>1, <2>2, ReadersFinite DEF Counts
<1>10. /\ t = table' /\ held' = held /\ drawn' = drawn /\ usedBlocks' = usedBlocks /\ lruQueue' = lruQueue
       /\ \/ b \in Physical /\ block' = OneMoreReader(b)
          \/ b \notin Physical /\ block' = block
  BY <1>1 DEF Share
<1>11. PICK h : h = held'  OBVIOUS
<1>12. h = held  BY <1>10, <1>11
<1>13. CASE b \in Physical /\ block' = OneMoreReader(b)
  <2>1. held[b] \in Nat /\ b \in Ids  BY <1>2, <1>13, KvFacts
  <2>2. Cardinality(Readers(t, b)) <= Cardinality(Readers(table, b)) + 1  BY <1>6 DEF PageIsSet
  <2>3. Counts(t, held, b) <= Counts(table, held, b) + 1  BY <2>1, <2>2, ReadersFinite DEF Counts
  <2> QED  BY <1>8, <1>9, <1>10, <1>11, <1>12, <1>13, <2>3, ReaderComes
<1>14. CASE b \notin Physical /\ block' = block
  <2>1. Covered(block, t, held)
    <3>1. ASSUME NEW k \in Physical
          PROVE  block[k].refs >= Counts(t, held, k) /\ (Counts(t, held, k) > 1 => block[k].shared)
      <4>1. k \in Ids /\ k # b  BY <1>14, KvFacts
      <4>2. Counts(t, held, k) <= Counts(table, held, k)  BY <1>9, <4>1
      <4>3. Counts(t, held, k) \in Nat /\ Counts(table, held, k) \in Nat  BY <1>2, <4>1, CountsIs
      <4>4. /\ block[k].refs \in Nat /\ block[k].refs >= Counts(table, held, k)
            /\ Counts(table, held, k) > 1 => block[k].shared
        BY KvFacts DEF KvInv, Covered, BlockRecords, Physical
      <4> QED  BY <4>2, <4>3, <4>4
    <3> QED  BY <3>1 DEF Covered, Physical
  <2>2. BlocksOK(block, drawn) /\ RecordsAgree(block, usedBlocks, lruQueue)  BY DEF KvInv
  <2>3. KvInv'  BY <1>8, <1>10, <1>14, <2>1, <2>2, KvInvOf
  <2>4. Dangling(t, held, drawn, block)  BY DEF Dangling, Physical
  <2> QED  BY <1>10, <1>14, <2>3, <2>4
<1> QED  BY <1>10, <1>13, <1>14

(* The references of a table that goes.                                    *)
LEMMA Cleans ==
  ASSUME KvInv, NEW r \in KvRequests, Cleanup(r)
  PROVE  KvInv' /\ Dangling(table', held', drawn', block')
<1>1. PICK row, t : row = [i \in Index |-> 0] /\ t = [table EXCEPT ![r] = row]  OBVIOUS
<1>2. PICK given : given = [b \in Ids |-> Cardinality({i \in Index : table[r][i] = b})]  OBVIOUS
<1>3. t = table' /\ held' = held /\ FreeBlocks(given)  BY <1>1, <1>2 DEF Cleanup
<1>4. drawn \in Nat /\ table \in [KvRequests -> [Index -> 0..drawn]] /\ held \in [Ids -> Nat]  BY KvFacts
<1>5. row \in [Index -> 0..drawn]  BY <1>1, <1>4
<1>6. t \in [KvRequests -> [Index -> 0..drawn]] /\ \A q \in KvRequests : t[q] = IF q = r THEN row ELSE table[q]
  <2>1. PICK N : N = [Index -> 0..drawn]  OBVIOUS
  <2> QED  BY <1>1, <1>4, <1>5, <2>1
<1>7. OwnersOK(t, held, drawn)  BY <1>6 DEF KvInv, OwnersOK
<1>8. Pages \in Nat  BY KvAssumption
<1>9. IsFiniteSet(Index)  BY <1>8, FS_Interval DEF Index
<1>10. ASSUME NEW b \in Ids PROVE given[b] \in Nat /\ Counts(t, held, b) + given[b] <= Counts(table, held, b)
  <2>1. PICK I, A, B : I = {i \in Index : table[r][i] = b} /\ A = Readers(table, b) /\ B = Readers(t, b)  OBVIOUS
  <2>2. I \in SUBSET Index  BY <2>1
  <2>3. IsFiniteSet(I) /\ Cardinality(I) \in Nat  BY <1>9, <2>2, FS_Subset, FS_CardinalityType
  <2>4. given[b] = Cardinality(I)  BY <1>2, <2>1
  <2>5. IsFiniteSet(A) /\ Cardinality(A) \in Nat /\ IsFiniteSet(B) /\ Cardinality(B) \in Nat
    BY <2>1, ReadersFinite
  <2>6. b # 0  BY DEF Ids
  <2>7. PICK f, P : f = [i \in I |-> <<r, i>>] /\ P = A \ B  OBVIOUS
  <2>8. ASSUME NEW p \in B PROVE p \in A
    <3>1. p \in KvRequests \X Index /\ t[p[1]][p[2]] = b  BY <2>1 DEF Readers
    <3>2. p[1] \in KvRequests /\ p[2] \in Index  BY <3>1
    <3>3. p[1] # r  BY <1>1, <1>6, <2>6, <3>1, <3>2
    <3>4. table[p[1]][p[2]] = b  BY <1>6, <3>1, <3>2, <3>3
    <3> QED  BY <2>1, <3>1, <3>4 DEF Readers
  <2>9. ASSUME NEW i \in I PROVE f[i] \in P
    <3>1. i \in Index /\ table[r][i] = b /\ f[i] = <<r, i>>  BY <2>1, <2>7
    <3>2. <<r, i>> \in A  BY <2>1, <3>1 DEF Readers
    <3>3. t[r][i] = 0  BY <1>1, <1>6, <3>1
    <3>4. <<r, i>> \notin B  BY <2>1, <2>6, <3>3 DEF Readers
    <3> QED  BY <2>7, <3>1, <3>2, <3>4
  <2>10. f \in [I -> P]  BY <2>7, <2>9
  <2>11. \A i, j \in I : f[i] = f[j] => i = j  BY <2>7
  <2>12. f \in Injection(I, P)  BY <2>10, <2>11 DEF Injection, IsInjective
  <2>13. A \cap B = B  BY <2>8
  <2>14. IsFiniteSet(P) /\ Cardinality(P) = Cardinality(A) - Cardinality(B)
    <3>1. IsFiniteSet(A \ B) /\ Cardinality(A \ B) = Cardinality(A) - Cardinality(A \cap B)
      BY <2>5, FS_Difference
    <3> QED  BY <2>7, <2>13, <3>1
  <2>15. Cardinality(I) <= Cardinality(P)  BY <2>12, <2>14, FS_Injection
  <2>16. Cardinality(B) + Cardinality(I) <= Cardinality(A)  BY <2>3, <2>5, <2>14, <2>15
  <2>17. held[b] \in Nat  BY <1>4
  <2>18. Counts(t, held, b) = Cardinality(B) + held[b] /\ Counts(table, held, b) = Cardinality(A) + held[b]
    BY <2>1 DEF Counts
  <2> QED  BY <2>3, <2>4, <2>5, <2>16, <2>17, <2>18
<1>11. given \in [Ids -> Nat]  BY <1>2, <1>10
<1>12. PICK h : h = held'  OBVIOUS
<1>13. h = held  BY <1>3, <1>12
<1>14. \A b \in Ids : Counts(t, h, b) + given[b] <= Counts(table, held, b)  BY <1>10, <1>13
<1>15. OwnersOK(t, h, drawn)  BY <1>7, <1>13
<1> QED  BY <1>3, <1>11, <1>12, <1>14, <1>15, Freed

LEMMA CallerAllocates ==
  ASSUME KvInv, NEW value \in KvRequests \cup {Nobody}, Allocate(value, block),
         held' = [held EXCEPT ![drawn + 1] = 1], table' = table
  PROVE  KvInv' /\ Dangling(table', held', drawn', block')
<1>1. PICK n, h, t : n = drawn + 1 /\ h = [held EXCEPT ![n] = 1] /\ t = table'  OBVIOUS
<1>2. drawn < MaxDrawn  BY DEF Allocate
<1>3. MadeFor(table, h, n)  BY <1>1, <1>2, FreshHold
<1>4. t = table /\ h = held'  BY <1>1
<1>5. MadeFor(t, h, n)  BY <1>3, <1>4
<1> QED  BY <1>1, <1>4, <1>5, SameRecords, MadeForReader

LEMMA CallerCopies ==
  ASSUME KvInv, NEW b \in Ids, CopyForCaller(b)
  PROVE  KvInv' /\ Dangling(table', held', drawn', block')
<1>1. b \in Physical /\ table' = table  BY DEF CopyForCaller
<1>2. CASE ~block[b].shared
  <2>1. /\ block' = OneMoreReader(b) /\ held' = [held EXCEPT ![b] = @ + 1]
        /\ drawn' = drawn /\ usedBlocks' = usedBlocks /\ lruQueue' = lruQueue
    BY <1>2 DEF CopyForCaller
  <2>2. PICK h, t : h = held' /\ t = table'  OBVIOUS
  <2>3. t = table /\ held \in [Ids -> Nat] /\ drawn \in Nat  BY <1>1, <2>2, KvFacts
  <2>4. h \in [Ids -> Nat] /\ \A k \in Ids : h[k] = IF k = b THEN held[k] + 1 ELSE held[k]  BY <2>1, <2>2, <2>3
  <2>5. ~(b > drawn)  BY <1>1, KvFacts
  <2>6. OwnersOK(t, h, drawn)  BY <2>3, <2>4, <2>5 DEF KvInv, OwnersOK
  <2>7. ASSUME NEW k \in Ids
        PROVE  Counts(t, h, k) <= Counts(table, held, k) + IF k = b THEN 1 ELSE 0
    <3>1. PICK c \in Nat : c = Cardinality(Readers(table, k))  BY ReadersFinite
    <3>2. Counts(t, h, k) = c + h[k] /\ Counts(table, held, k) = c + held[k] /\ held[k] \in Nat
      BY <2>3, <3>1 DEF Counts
    <3>3. CASE k = b  BY <2>4, <3>1, <3>2, <3>3
    <3>4. CASE k # b  BY <2>4, <3>1, <3>2, <3>4
    <3> QED  BY <3>3, <3>4
  <2>8. Counts(t, h, b) <= Counts(table, held, b) + 1  BY <2>7
  <2>9. ASSUME NEW k \in Ids, k # b PROVE Counts(t, h, k) <= Counts(table, held, k)
    <3>1. Counts(table, held, k) \in Nat  BY <2>3, CountsIs
    <3>2. Counts(t, h, k) <= Counts(table, held, k) + 0  BY <2>7, <2>9
    <3> QED  BY <3>1, <3>2
  <2> QED  BY <1>1, <2>1, <2>2, <2>6, <2>8, <2>9, ReaderComes
<1>3. CASE block[b].shared
  <2>1. block[b].value \in KvRequests \cup {Nobody}  BY <1>1, KvFacts DEF BlockRecords
  <2>2. Allocate(block[b].value, block) /\ held' = [held EXCEPT ![drawn + 1] = 1]  BY <1>3 DEF CopyForCaller
  <2> QED  BY <1>1, <2>1, <2>2, CallerAllocates
<1> QED  BY <1>2, <1>3

LEMMA CallerFrees ==
  ASSUME KvInv, NEW b \in Ids, FreeForCaller(b)
  PROVE  KvInv' /\ Dangling(table', held', drawn', block')
<1>1. PICK given, h, t : given = [k \in Ids |-> IF k = b THEN 1 ELSE 0] /\ h = held' /\ t = table'  OBVIOUS
<1>2. t = table /\ h = [held EXCEPT ![b] = @ - 1] /\ held[b] > 0 /\ FreeBlocks(given)
  BY <1>1 DEF FreeForCaller
<1>3. held \in [Ids -> Nat]  BY KvFacts
<1>4. held[b] \in Nat /\ held[b] - 1 \in Nat  BY <1>2, <1>3
<1>5. h \in [Ids -> Nat] /\ \A k \in Ids : h[k] = IF k = b THEN held[k] - 1 ELSE held[k]  BY <1>2, <1>3, <1>4
<1>6. given \in [Ids -> Nat] /\ \A k \in Ids : given[k] = IF k = b THEN 1 ELSE 0  BY <1>1
<1>7. \A k \in Ids : k > drawn => h[k] = 0
  <2>1. ASSUME NEW k \in Ids, k > drawn PROVE h[k] = 0
    <3>1. held[k] = 0  BY <2>1 DEF KvInv, OwnersOK
    <3>2. k # b  BY <1>2, <1>4, <3>1
    <3> QED  BY <1>5, <3>1, <3>2
  <2> QED  BY <2>1
<1>8. OwnersOK(t, h, drawn)  BY <1>2, <1>5, <1>7 DEF KvInv, OwnersOK
<1>9. ASSUME NEW k \in Ids PROVE Counts(t, h, k) + given[k] <= Counts(table, held, k)
  <2>1. PICK c \in Nat : c = Cardinality(Readers(table, k))  BY ReadersFinite
  <2>2. Counts(t, h, k) = c + h[k] /\ Counts(table, held, k) = c + held[k] /\ held[k] \in Nat
    BY <1>2, <1>3, <2>1 DEF Counts
  <2>3. CASE k = b  BY <1>5, <1>6, <2>1, <2>2, <2>3
  <2>4. CASE k # b  BY <1>5, <1>6, <2>1, <2>2, <2>4
  <2> QED  BY <2>3, <2>4
<1> QED  BY <1>1, <1>2, <1>6, <1>8, <1>9, Freed

LEMMA KvStarts == KvInit => KvInv
<1> SUFFICES ASSUME KvInit PROVE KvInv  OBVIOUS
<1> USE DEF KvInit
<1>1. MaxBlocks \in Nat /\ MaxDrawn \in Nat  BY KvAssumption
<1>2. DOMAIN block = {} /\ Cardinality({}) = 0  BY FS_EmptySet
<1>3. BlocksOK(block, drawn)  BY <1>2 DEF BlocksOK
<1>4. <<>> \in Seq(Ids) /\ Len(<<>>) = 0  OBVIOUS
<1>5. RecordsAgree(block, usedBlocks, lruQueue)  BY <1>1, <1>2, <1>4 DEF RecordsAgree, Distinct, In
<1>6. OwnersOK(table, held, drawn)  BY <1>1 DEF OwnersOK
<1>7. Covered(block, table, held)  BY <1>2 DEF Covered
<1> QED  BY <1>3, <1>5, <1>6, <1>7 DEF KvInv

LEMMA KvSteps ==
  ASSUME KvInv, KvNext
  PROVE  KvInv' /\ Dangling(table', held', drawn', block')
<1>1. ASSUME NEW r \in KvRequests, WriteNew(r) \/ Cleanup(r) PROVE KvInv' /\ Dangling(table', held', drawn', block')
  BY <1>1, Writes, Cleans
<1>2. ASSUME NEW r \in KvRequests, NEW i \in Index, Rewrite(r, i) PROVE KvInv' /\ Dangling(table', held', drawn', block')
  BY <1>2, Rewrites
<1>3. ASSUME NEW r \in KvRequests, NEW i \in Index, NEW t \in KvRequests, Share(r, i, t)
      PROVE  KvInv' /\ Dangling(table', held', drawn', block')
  BY <1>3, Shares
<1>4. CASE AllocateForCaller
  <2>1. Nobody \in KvRequests \cup {Nobody}  OBVIOUS
  <2> QED  BY <1>4, <2>1, CallerAllocates DEF AllocateForCaller
<1>5. ASSUME NEW b \in Ids, CopyForCaller(b) \/ FreeForCaller(b)
      PROVE  KvInv' /\ Dangling(table', held', drawn', block')
  BY <1>5, CallerCopies, CallerFrees
<1> QED  BY <1>1, <1>2, <1>3, <1>4, <1>5 DEF KvNext

LEMMA KvStutters == KvInv /\ UNCHANGED kvVars => KvInv'
<1> SUFFICES ASSUME KvInv, UNCHANGED kvVars PROVE KvInv'  OBVIOUS
<1>1. /\ block' = block /\ drawn' = drawn /\ usedBlocks' = usedBlocks
      /\ lruQueue' = lruQueue /\ table' = table /\ held' = held
  BY DEF kvVars
<1> QED  BY <1>1, KvInvOf DEF KvInv

LEMMA KvIsSound == KvInv => KvSound
<1> SUFFICES ASSUME KvInv PROVE KvSound  OBVIOUS
<1>1. Distinct(lruQueue) /\ (\A b : In(b, lruQueue) <=> b \in Physical) /\ usedBlocks = Cardinality(Physical)
  BY DEF KvInv, RecordsAgree, Physical
<1>2. \A b : b \in ToSet(lruQueue) <=> b \in Physical  BY <1>1, KvFacts, InIsToSet
<1>3. ToSet(lruQueue) = Physical  BY <1>2
<1>4. BlockAccounting  BY <1>1, <1>3, KvFacts, DistinctCount DEF BlockAccounting
<1>5. \A b : References(b) = Counts(table, held, b)  BY DEF References, Counts, Readers
<1>6. CountCoversReferences /\ SharedIsMarked
  BY <1>5 DEF KvInv, Covered, CountCoversReferences, SharedIsMarked, Physical
<1>7. KvTypeOK
  BY DEF KvTypeOK, KvInv, BlocksOK, RecordsAgree, OwnersOK, BlockRecords, Physical
<1> QED  BY <1>4, <1>6, <1>7 DEF KvSound

(* A block that goes under a reader made room for another.                 *)
LEMMA OnlyEvicted ==
  ASSUME KvInv, KvNext \/ UNCHANGED kvVars
  PROVE  \A b \in Physical \ Physical' : References(b)' > 0 => drawn' # drawn /\ References(b) = 1
<1>1. CASE KvNext
  <2>1. Dangling(table', held', drawn', block')  BY <1>1, KvSteps
  <2>2. \A b : References(b) = Counts(table, held, b)  BY DEF References, Counts, Readers
  <2>3. \A b : References(b)' = Counts(table', held', b)  BY DEF References, Counts, Readers
  <2> QED  BY <2>1, <2>2, <2>3 DEF Dangling, Physical
<1>2. CASE UNCHANGED kvVars
  <2>1. Physical' = Physical  BY <1>2 DEF kvVars, Physical
  <2> QED  BY <2>1
<1> QED  BY <1>1, <1>2

(***************************************************************************)
(* The prompt and session caches.                                          *)
(***************************************************************************)
PagePairs(A) == UNION {{e} \X (1..PagesOf[e.prompt]) : e \in A}

LEMMA PagesOfEntry ==
  ASSUME NEW e \in Entry
  PROVE  PagesOf[e.prompt] \in Nat /\ e.prompt \in Prompts
BY KvBudgetAssumption DEF Entry

LEMMA PairsAre ==
  ASSUME NEW A
  PROVE  \A e, k : <<e, k>> \in PagePairs(A) <=> e \in A /\ k \in 1..PagesOf[e.prompt]
<1>1. ASSUME NEW e, NEW k, <<e, k>> \in PagePairs(A) PROVE e \in A /\ k \in 1..PagesOf[e.prompt]
  <2>1. PICK d \in A : <<e, k>> \in {d} \X (1..PagesOf[d.prompt])  BY <1>1 DEF PagePairs
  <2> QED  BY <2>1
<1>2. ASSUME NEW e \in A, NEW k \in 1..PagesOf[e.prompt] PROVE <<e, k>> \in PagePairs(A)
  <2>1. <<e, k>> \in {e} \X (1..PagesOf[e.prompt])  OBVIOUS
  <2> QED  BY <2>1 DEF PagePairs
<1> QED  BY <1>1, <1>2

(* No snapshot is larger than the largest.                                 *)
LEMMA PagesBounded == \E n \in Nat : \A p \in Prompts : PagesOf[p] <= n
<1>1. IsFiniteSet(Prompts) /\ PagesOf \in [Prompts -> Nat]  BY KvBudgetAssumption
<1>2. PICK S : S = {PagesOf[p] : p \in Prompts}  OBVIOUS
<1>3. PICK f : f = [p \in Prompts |-> PagesOf[p]]  OBVIOUS
<1>4. f \in [Prompts -> S]  BY <1>2, <1>3
<1>5. \A y \in S : \E p \in Prompts : f[p] = y  BY <1>2, <1>3
<1>6. f \in Surjection(Prompts, S)  BY <1>4, <1>5 DEF Surjection
<1>7. IsFiniteSet(S)  BY <1>1, <1>6, FS_Surjection
<1>8. \A i \in S : i \in Nat  BY <1>1, <1>2
<1>9. CASE S = {}
  <2>1. \A p \in Prompts : PagesOf[p] <= 0  BY <1>2, <1>9
  <2> QED  BY <2>1
<1>10. CASE S # {}
  <2>1. PICK n \in S : \A i \in S : n >= i  BY <1>7, <1>8, <1>10, FiniteExtremes
  <2>2. n \in Nat  BY <1>8, <2>1
  <2>3. \A p \in Prompts : PagesOf[p] \in S  BY <1>2
  <2>4. \A p \in Prompts : PagesOf[p] <= n  BY <1>1, <2>1, <2>2, <2>3
  <2> QED  BY <2>2, <2>4
<1> QED  BY <1>9, <1>10

LEMMA PagesFinite ==
  ASSUME NEW A, A \subseteq Entry, IsFiniteSet(A)
  PROVE  IsFiniteSet(PagePairs(A)) /\ Pages0(A) = Cardinality(PagePairs(A)) /\ Pages0(A) \in Nat
<1>1. PICK n \in Nat : \A p \in Prompts : PagesOf[p] <= n  BY PagesBounded
<1>2. PICK I, P : I = 1..n /\ P = A \X I  OBVIOUS
<1>3. IsFiniteSet(I)  BY <1>2, FS_Interval
<1>4. IsFiniteSet(P)  BY <1>2, <1>3, FS_Product
<1>5. ASSUME NEW x \in PagePairs(A) PROVE x \in P
  <2>1. PICK e \in A : x \in {e} \X (1..PagesOf[e.prompt])  BY DEF PagePairs
  <2>2. e \in Entry  OBVIOUS
  <2>3. PagesOf[e.prompt] \in Nat /\ PagesOf[e.prompt] <= n  BY <1>1, <2>2, PagesOfEntry
  <2>4. 1..PagesOf[e.prompt] \subseteq I  BY <1>2, <2>3
  <2> QED  BY <1>2, <2>1, <2>4
<1>6. PagePairs(A) \in SUBSET P  BY <1>5
<1>7. Pages0(A) = Cardinality(PagePairs(A))  BY DEF Pages0, PagePairs
<1> QED  BY <1>4, <1>6, <1>7, FS_Subset, FS_CardinalityType

LEMMA PagesOfOne ==
  ASSUME NEW e \in Entry
  PROVE  Pages0({e}) = PagesOf[e.prompt]
<1>1. PICK n \in Nat : n = PagesOf[e.prompt]  BY PagesOfEntry
<1>2. PagePairs({e}) = {e} \X (1..n)  BY <1>1 DEF PagePairs
<1>3. PICK I : I = 1..n  OBVIOUS
<1>4. IsFiniteSet(I) /\ Cardinality(I) = n  BY <1>3, FS_Interval
<1>5. IsFiniteSet({e}) /\ Cardinality({e}) = 1  BY FS_Singleton
<1>6. Cardinality({e} \X I) = 1 * n  BY <1>4, <1>5, FS_Product
<1>7. Pages0({e}) = Cardinality({e} \X I)  BY <1>2, <1>3 DEF Pages0, PagePairs
<1> QED  BY <1>1, <1>6, <1>7

LEMMA PagesWithout ==
  ASSUME NEW A, A \subseteq Entry, IsFiniteSet(A), NEW B, B \subseteq A
  PROVE  Pages0(A \ B) = Pages0(A) - Pages0(B) /\ Pages0(B) <= Pages0(A)
<1>1. IsFiniteSet(B) /\ B \subseteq Entry  BY FS_Subset
<1>2. PICK P, Q, R : P = PagePairs(A) /\ Q = PagePairs(B) /\ R = PagePairs(A \ B)  OBVIOUS
<1>3. IsFiniteSet(P) /\ Pages0(A) = Cardinality(P) /\ Pages0(A) \in Nat  BY <1>2, PagesFinite
<1>4. IsFiniteSet(Q) /\ Pages0(B) = Cardinality(Q) /\ Pages0(B) \in Nat  BY <1>1, <1>2, PagesFinite
<1>5. Q \subseteq P  BY <1>2 DEF PagePairs
<1>6. R = P \ Q
  <2>1. ASSUME NEW x \in R PROVE x \in P /\ x \notin Q
    <3>1. PICK e \in A \ B : x \in {e} \X (1..PagesOf[e.prompt])  BY <1>2 DEF PagePairs
    <3>2. x \in P  BY <1>2, <3>1 DEF PagePairs
    <3>3. ASSUME x \in Q PROVE FALSE
      <4>1. PICK d \in B : x \in {d} \X (1..PagesOf[d.prompt])  BY <1>2, <3>3 DEF PagePairs
      <4>2. x[1] = d /\ x[1] = e  BY <3>1, <4>1
      <4> QED  BY <4>2
    <3> QED  BY <3>2, <3>3
  <2>2. ASSUME NEW x \in P, x \notin Q PROVE x \in R
    <3>1. PICK e \in A : x \in {e} \X (1..PagesOf[e.prompt])  BY <1>2 DEF PagePairs
    <3>2. e \notin B  BY <1>2, <2>2, <3>1 DEF PagePairs
    <3> QED  BY <1>2, <3>1, <3>2 DEF PagePairs
  <2> QED  BY <2>1, <2>2
<1>7. P \cap Q = Q  BY <1>5
<1>8. Cardinality(P \ Q) = Cardinality(P) - Cardinality(P \cap Q)  BY <1>3, FS_Difference
<1>9. Pages0(A \ B) = Cardinality(R)  BY <1>2 DEF Pages0, PagePairs
<1>10. Cardinality(Q) <= Cardinality(P)  BY <1>3, <1>5, FS_Subset
<1> QED  BY <1>3, <1>4, <1>6, <1>7, <1>8, <1>9, <1>10

LEMMA PagesMore ==
  ASSUME NEW A, A \subseteq Entry, IsFiniteSet(A), NEW e \in Entry, e \notin A
  PROVE  Pages0(A \cup {e}) = Pages0(A) + PagesOf[e.prompt]
<1>1. PICK C, D : C = A \cup {e} /\ D = {e}  OBVIOUS
<1>2. C \subseteq Entry /\ IsFiniteSet(C) /\ D \subseteq C /\ C \ D = A  BY <1>1, FS_AddElement
<1>3. Pages0(C \ D) = Pages0(C) - Pages0(D) /\ Pages0(D) <= Pages0(C)  BY <1>2, PagesWithout
<1>4. Pages0(D) = PagesOf[e.prompt] /\ PagesOf[e.prompt] \in Nat  BY <1>1, PagesOfOne, PagesOfEntry
<1>5. Pages0(C) \in Nat  BY <1>2, PagesFinite
<1>6. Pages0(A) = Pages0(C) - PagesOf[e.prompt]  BY <1>2, <1>3, <1>4
<1> QED  BY <1>1, <1>4, <1>5, <1>6

LEMMA NoPages == Pages0({}) = 0
<1>1. PagePairs({}) = {}  BY DEF PagePairs
<1> QED  BY <1>1, FS_EmptySet DEF Pages0, PagePairs

(* A list has each entry once, and a cache counts what it lists.           *)
Listed(list) == list \in Seq(Entry) /\ Distinct(list)
Counted(c)   == Listed(c.list) /\ c.pages = Pages0(ToSet(c.list))
EndsWith(list, e) == Len(list) > 0 /\ list[Len(list)] = e

IsPrompt(e) == Kind(e) = "prompt"

(* Of the prompts but x, what is left of the list was there, and nothing   *)
(* that came after it is gone.                                             *)
GoesInOrder(from, to, x) ==
  \A a : IsPrompt(a) /\ a # x /\ In(a, to) =>
    In(a, from) /\ \A b : IsPrompt(b) /\ Before(from, a, b) => Before(to, a, b)

LEMMA OrderGoesOn ==
  ASSUME NEW l1, NEW l2, NEW l3, NEW x, GoesInOrder(l1, l2, x), GoesInOrder(l2, l3, x)
  PROVE  GoesInOrder(l1, l3, x)
<1>1. ASSUME NEW a, IsPrompt(a), a # x, In(a, l3)
      PROVE  In(a, l1) /\ \A b : IsPrompt(b) /\ Before(l1, a, b) => Before(l3, a, b)
  <2>1. In(a, l2) /\ \A b : IsPrompt(b) /\ Before(l2, a, b) => Before(l3, a, b)  BY <1>1 DEF GoesInOrder
  <2>2. In(a, l1) /\ \A b : IsPrompt(b) /\ Before(l1, a, b) => Before(l2, a, b)  BY <1>1, <2>1 DEF GoesInOrder
  <2> QED  BY <2>1, <2>2
<1> QED  BY <1>1 DEF GoesInOrder

LEMMA ListedHas ==
  ASSUME NEW list, Listed(list)
  PROVE  /\ ToSet(list) \subseteq Entry /\ IsFiniteSet(ToSet(list)) /\ Len(list) \in Nat
         /\ Cardinality(ToSet(list)) = Len(list)
         /\ \A x : x \in ToSet(list) <=> In(x, list)
<1>1. list \in Seq(Entry) /\ Distinct(list)  BY DEF Listed
<1>2. PICK n \in Nat : n = Len(list) /\ \A k \in 1..n : list[k] \in Entry  BY <1>1, LenProperties
<1>3. \A x : x \in ToSet(list) <=> In(x, list)  BY <1>1, InIsToSet
<1>4. ToSet(list) \subseteq Entry  BY <1>2, <1>3 DEF In
<1>5. IsFiniteSet(ToSet(list)) /\ Cardinality(ToSet(list)) = Len(list)  BY <1>1, DistinctCount
<1> QED  BY <1>2, <1>3, <1>4, <1>5

(* A cache without some entries.                                           *)
LEMMA WithoutIs ==
  ASSUME NEW c, Counted(c), NEW gone, gone \subseteq ToSet(c.list), NEW d, d = Without(c, gone)
  PROVE  Counted(d) /\ ToSet(d.list) = ToSet(c.list) \ gone
<1>1. PICK s : s = c.list  OBVIOUS
<1>2. Listed(s) /\ s \in Seq(Entry) /\ Distinct(s)  BY <1>1 DEF Counted, Listed
<1>3. PICK n \in Nat : n = Len(s) /\ DOMAIN s = 1..n  BY <1>2, LenProperties
<1>4. PICK P : P = {k \in 1..n : s[k] \notin gone}  OBVIOUS
<1>5. PICK t : t = AtPlaces(s, P)  OBVIOUS
<1>6. d.list = t /\ d.pages = c.pages - Pages0(gone)  BY <1>1, <1>3, <1>4, <1>5 DEF Without, Cache
<1>7. ArePlaces(P, s)  BY <1>3, <1>4 DEF ArePlaces
<1>8. t \in Seq(Entry) /\ SiftedTo(s, P, t)  BY <1>2, <1>5, <1>7, AtPlacesIs
<1>9. Distinct(t) /\ \A x : In(x, t) <=> \E k \in P : s[k] = x  BY <1>2, <1>8 DEF SiftedTo
<1>10. \A x : (\E k \in P : s[k] = x) <=> In(x, s) /\ x \notin gone  BY <1>3, <1>4 DEF In
<1>11. Listed(t)  BY <1>8, <1>9 DEF Listed
<1>12. \A x : x \in ToSet(t) <=> x \in ToSet(s) /\ x \notin gone
  <2>1. \A x : x \in ToSet(s) <=> In(x, s)  BY <1>2, ListedHas
  <2>2. \A x : x \in ToSet(t) <=> In(x, t)  BY <1>11, ListedHas
  <2> QED  BY <1>9, <1>10, <2>1, <2>2
<1>13. ToSet(t) = ToSet(s) \ gone  BY <1>12
<1>14. PICK A : A = ToSet(s)  OBVIOUS
<1>15. A \subseteq Entry /\ IsFiniteSet(A) /\ gone \subseteq A  BY <1>1, <1>2, <1>14, ListedHas
<1>16. Pages0(A \ gone) = Pages0(A) - Pages0(gone)  BY <1>15, PagesWithout
<1>17. c.pages = Pages0(A)  BY <1>1, <1>14 DEF Counted
<1> QED  BY <1>1, <1>6, <1>11, <1>13, <1>14, <1>16, <1>17 DEF Counted

(* ... has them in their order.                                            *)
LEMMA WithoutKeepsOrder ==
  ASSUME NEW c, Counted(c), NEW gone, NEW d, d = Without(c, gone),
         NEW a, NEW b, Before(c.list, a, b), a \notin gone, b \notin gone
  PROVE  Before(d.list, a, b)
<1>1. PICK s : s = c.list  OBVIOUS
<1>2. s \in Seq(Entry) /\ Distinct(s)  BY <1>1 DEF Counted, Listed
<1>3. PICK n \in Nat : n = Len(s) /\ DOMAIN s = 1..n  BY <1>2, LenProperties
<1>4. PICK P : P = {k \in 1..n : s[k] \notin gone}  OBVIOUS
<1>5. PICK t : t = AtPlaces(s, P)  OBVIOUS
<1>6. d.list = t  BY <1>1, <1>3, <1>4, <1>5 DEF Without, Cache
<1>7. ArePlaces(P, s)  BY <1>3, <1>4 DEF ArePlaces
<1>8. PICK j, k \in 1..n : j < k /\ s[j] = a /\ s[k] = b  BY <1>1, <1>3 DEF Before
<1>9. j \in P /\ k \in P  BY <1>4, <1>8
<1>10. Before(t, s[j], s[k])  BY <1>2, <1>5, <1>7, <1>8, <1>9, SiftedInOrder
<1> QED  BY <1>6, <1>8, <1>10

LEMMA WithoutGoes ==
  ASSUME NEW c, Counted(c), NEW gone, gone \subseteq ToSet(c.list), NEW d, d = Without(c, gone), NEW x,
         \A a, b : IsPrompt(a) /\ IsPrompt(b) /\ Before(c.list, a, b) /\ b \in gone => a \in gone
  PROVE  GoesInOrder(c.list, d.list, x)
<1>1. Counted(d) /\ ToSet(d.list) = ToSet(c.list) \ gone  BY WithoutIs
<1>2. ASSUME NEW a, IsPrompt(a), In(a, d.list)
      PROVE  In(a, c.list) /\ \A b : IsPrompt(b) /\ Before(c.list, a, b) => Before(d.list, a, b)
  <2>1. a \in ToSet(d.list)  BY <1>1, <1>2, ListedHas DEF Counted
  <2>2. a \in ToSet(c.list) /\ a \notin gone  BY <1>1, <2>1
  <2>3. In(a, c.list)  BY <2>2, ListedHas DEF Counted
  <2>4. ASSUME NEW b, IsPrompt(b), Before(c.list, a, b) PROVE Before(d.list, a, b)
    <3>1. b \notin gone  BY <1>2, <2>2, <2>4
    <3> QED  BY <2>2, <2>4, <3>1, WithoutKeepsOrder
  <2> QED  BY <2>3, <2>4
<1> QED  BY <1>2 DEF GoesInOrder

LEMMA WithoutEnds ==
  ASSUME NEW c, Counted(c), NEW gone, gone \subseteq ToSet(c.list), NEW d, d = Without(c, gone),
         NEW e, EndsWith(c.list, e), e \notin gone
  PROVE  EndsWith(d.list, e)
<1>1. PICK s, t : s = c.list /\ t = d.list  OBVIOUS
<1>2. Counted(d) /\ ToSet(t) = ToSet(s) \ gone  BY <1>1, WithoutIs
<1>3. Listed(s) /\ Listed(t) /\ Distinct(s) /\ Distinct(t)  BY <1>1, <1>2 DEF Counted, Listed
<1>4. PICK m, n \in Nat : m = Len(s) /\ n = Len(t)  BY <1>3, ListedHas
<1>5. m > 0 /\ m \in 1..m /\ s[m] = e  BY <1>1, <1>4 DEF EndsWith
<1>6. \A x : (x \in ToSet(s) <=> In(x, s)) /\ (x \in ToSet(t) <=> In(x, t))  BY <1>3, ListedHas
<1>7. In(e, s)  BY <1>4, <1>5 DEF In
<1>8. In(e, t)  BY <1>2, <1>6, <1>7
<1>9. n > 0 /\ n \in 1..n  BY <1>4, <1>8 DEF In
<1>10. PICK y : y = t[n]  OBVIOUS
<1>11. ASSUME y # e PROVE FALSE
  <2>1. In(y, t)  BY <1>4, <1>9, <1>10 DEF In
  <2>2. In(y, s) /\ y \notin gone  BY <1>2, <1>6, <2>1
  <2>3. PICK j \in 1..m : s[j] = y  BY <1>4, <2>2 DEF In
  <2>4. j # m  BY <1>5, <1>11, <2>3
  <2>5. j < m  BY <1>4, <2>3, <2>4
  <2>6. Before(s, y, e)  BY <1>4, <1>5, <2>3, <2>5 DEF Before
  <2>7. Before(t, y, e)  BY <1>1, <2>2, <2>6, WithoutKeepsOrder
  <2>8. PICK a, b \in 1..n : a < b /\ t[a] = y  BY <1>4, <2>7 DEF Before
  <2>9. a = n  BY <1>3, <1>4, <1>9, <1>10, <2>8 DEF Distinct
  <2> QED  BY <1>4, <2>8, <2>9
<1> QED  BY <1>1, <1>4, <1>9, <1>10, <1>11 DEF EndsWith

(* An entry is put to the end, whether it was there or not.                *)
LEMMA AppendedIs ==
  ASSUME NEW list, Listed(list), NEW e \in Entry, ~In(e, list), NEW t, t = Append(list, e), NEW x,
         e = x \/ ~IsPrompt(e)
  PROVE  /\ Listed(t) /\ ToSet(t) = ToSet(list) \cup {e} /\ EndsWith(t, e)
         /\ GoesInOrder(list, t, x)
<1>1. list \in Seq(Entry) /\ Distinct(list)  BY DEF Listed
<1>2. PICK n \in Nat : n = Len(list)  BY ListedHas
<1>3. t \in Seq(Entry) /\ Distinct(t) /\ \A y : In(y, t) <=> y = e \/ In(y, list)  BY <1>1, AppendHas
<1>4. Listed(t)  BY <1>3 DEF Listed
<1>5. \A y : y \in ToSet(t) <=> y = e \/ y \in ToSet(list)
  <2>1. \A y : y \in ToSet(list) <=> In(y, list)  BY ListedHas
  <2>2. \A y : y \in ToSet(t) <=> In(y, t)  BY <1>4, ListedHas
  <2> QED  BY <1>3, <2>1, <2>2
<1>6. Len(t) = n + 1 /\ t[n + 1] = e /\ \A i \in 1..n : t[i] = list[i]  BY <1>1, <1>2, AppendIs
<1>7. EndsWith(t, e)  BY <1>2, <1>6 DEF EndsWith
<1>8. \A a, b : Before(list, a, b) => Before(t, a, b)
  <2>1. ASSUME NEW a, NEW b, Before(list, a, b) PROVE Before(t, a, b)
    <3>1. PICK j, k \in 1..n : j < k /\ list[j] = a /\ list[k] = b  BY <1>2, <2>1 DEF Before
    <3>2. j \in 1..n + 1 /\ k \in 1..n + 1 /\ t[j] = a /\ t[k] = b  BY <1>6, <3>1
    <3> QED  BY <1>6, <3>1, <3>2 DEF Before
  <2> QED  BY <2>1
<1>9. GoesInOrder(list, t, x)  BY <1>3, <1>8 DEF GoesInOrder
<1>10. ToSet(t) = ToSet(list) \cup {e}  BY <1>5
<1> QED  BY <1>4, <1>7, <1>9, <1>10

LEMMA RemovedKeepsOrder ==
  ASSUME NEW T, NEW s \in Seq(T), Distinct(s), NEW e, NEW t, t = RemoveFirst(s, e),
         NEW a, NEW b, Before(s, a, b), a # e, b # e
  PROVE  Before(t, a, b)
<1>1. PICK n \in Nat : n = Len(s)  BY LenProperties
<1>2. CASE In(e, s)
  <2>1. PICK p : p = PlaceOf(e, s)  OBVIOUS
  <2>2. p \in 1..n /\ s[p] = e  BY <1>1, <1>2, <2>1, FirstPlace
  <2>3. t = RemoveAt(s, p)  BY <1>2, <2>1 DEF RemoveFirst, In, PlaceOf
  <2>4. Len(t) = n - 1 /\ \A k \in 1..n - 1 : t[k] = IF k < p THEN s[k] ELSE s[k + 1]
    <3>1. p \in 1..Len(s)  BY <1>1, <2>2
    <3> HIDE <2>1, <1>2
    <3>2. Len(t) = Len(s) - 1 /\ \A k \in 1..Len(s) - 1 : t[k] = IF k < p THEN s[k] ELSE s[k + 1]
      BY <2>3, <3>1, RemovedIs
    <3> QED  BY <1>1, <3>2
  <2>5. PICK j, k \in 1..n : j < k /\ s[j] = a /\ s[k] = b  BY <1>1 DEF Before
  <2>6. j # p /\ k # p  BY <2>2, <2>5
  <2>7. PICK g : g = [i \in 1..n |-> IF i < p THEN i ELSE i - 1]  OBVIOUS
  <2>8. ASSUME NEW i \in 1..n, i # p PROVE g[i] \in 1..n - 1 /\ t[g[i]] = s[i]
    <3>1. CASE i < p
      <4>1. g[i] = i /\ i \in 1..n - 1  BY <2>2, <2>7, <3>1
      <4> QED  BY <2>4, <3>1, <4>1
    <3>2. CASE ~(i < p)
      <4>1. i > p /\ g[i] = i - 1 /\ i - 1 \in 1..n - 1 /\ ~(i - 1 < p) /\ (i - 1) + 1 = i  BY <2>2, <2>7, <2>8, <3>2
      <4>2. t[i - 1] = s[(i - 1) + 1]  BY <2>4, <4>1
      <4> QED  BY <4>1, <4>2
    <3> QED  BY <3>1, <3>2
  <2>9. g[j] < g[k]  BY <2>2, <2>5, <2>6, <2>7
  <2>10. PICK u, v : u = g[j] /\ v = g[k]  OBVIOUS
  <2>11. u \in 1..n - 1 /\ v \in 1..n - 1 /\ t[u] = a /\ t[v] = b /\ u < v  BY <2>5, <2>6, <2>8, <2>9, <2>10
  <2>12. Len(t) = n - 1  BY <2>4
  <2> QED  BY <2>11, <2>12 DEF Before
<1>3. CASE ~In(e, s)
  <2>1. t = s  BY <1>3 DEF RemoveFirst, In
  <2> QED  BY <2>1
<1> QED  BY <1>2, <1>3

LEMMA TouchedIs ==
  ASSUME NEW list, Listed(list), NEW e \in Entry, In(e, list), NEW t, t = Touched(list, e), NEW x,
         e = x \/ ~IsPrompt(e)
  PROVE  /\ Listed(t) /\ ToSet(t) = ToSet(list) /\ EndsWith(t, e)
         /\ GoesInOrder(list, t, x)
<1>1. list \in Seq(Entry) /\ Distinct(list)  BY DEF Listed
<1>2. PICK q : q = RemoveFirst(list, e)  OBVIOUS
<1>3. q \in Seq(Entry) /\ Distinct(q) /\ \A y : In(y, q) <=> y # e /\ In(y, list)  BY <1>1, <1>2, RemovedFirstHas
<1>4. Listed(q) /\ ~In(e, q) /\ t = Append(q, e)  BY <1>2, <1>3 DEF Listed, Touched
<1>5. Listed(t) /\ ToSet(t) = ToSet(q) \cup {e} /\ EndsWith(t, e) /\ GoesInOrder(q, t, x)  BY <1>4, AppendedIs
<1>6. \A y : y \in ToSet(q) <=> y # e /\ y \in ToSet(list)
  <2>1. \A y : y \in ToSet(list) <=> In(y, list)  BY ListedHas
  <2>2. \A y : y \in ToSet(q) <=> In(y, q)  BY <1>4, ListedHas
  <2> QED  BY <1>3, <2>1, <2>2
<1>7. e \in ToSet(list)  BY ListedHas
<1>8. ToSet(t) = ToSet(list)  BY <1>5, <1>6, <1>7
<1>9. PICK n \in Nat : n = Len(q)  BY <1>4, ListedHas
<1>10. Len(t) = n + 1 /\ t[n + 1] = e /\ \A i \in 1..n : t[i] = q[i]  BY <1>3, <1>4, <1>9, AppendIs
<1>11. ASSUME NEW a, NEW b, Before(list, a, b), a # e PROVE Before(t, a, b)
  <2>1. In(a, list) /\ In(b, list)  BY <1>11 DEF Before, In
  <2>2. In(a, q)  BY <1>3, <1>11, <2>1
  <2>3. CASE b = e
    <3>1. PICK j \in 1..n : q[j] = a  BY <1>9, <2>2 DEF In
    <3>2. j < n + 1 /\ j \in 1..n + 1 /\ n + 1 \in 1..n + 1 /\ t[j] = a  BY <1>10, <3>1
    <3> QED  BY <1>10, <2>3, <3>2 DEF Before
  <2>4. CASE b # e
    <3>1. Before(q, a, b)  BY <1>1, <1>2, <1>11, <2>4, RemovedKeepsOrder
    <3>2. PICK j, k \in 1..n : j < k /\ q[j] = a /\ q[k] = b  BY <1>9, <3>1 DEF Before
    <3>3. j \in 1..n + 1 /\ k \in 1..n + 1 /\ t[j] = a /\ t[k] = b  BY <1>10, <3>2
    <3> QED  BY <1>10, <3>2, <3>3 DEF Before
  <2> QED  BY <2>3, <2>4
<1>12. GoesInOrder(list, t, x)
  <2>1. ASSUME NEW a, IsPrompt(a), a # x, In(a, t)
        PROVE  In(a, list) /\ \A b : IsPrompt(b) /\ Before(list, a, b) => Before(t, a, b)
    <3>1. a # e  BY <2>1
    <3>2. a \in ToSet(t)  BY <1>5, <2>1, ListedHas
    <3>3. In(a, list)  BY <1>8, <3>2, ListedHas
    <3> QED  BY <1>11, <3>1, <3>3
  <2> QED  BY <2>1 DEF GoesInOrder
<1> QED  BY <1>5, <1>8, <1>12

LEMMA Limits ==
  /\ PromptCacheLimit \in Nat /\ PromptCacheLimit > 0
  /\ SessionCacheLimit \in Nat /\ SessionCacheLimit > 0
  /\ KvPageBudget \in Nat
BY KvBudgetAssumption

LEMMA KindsFinite ==
  ASSUME NEW list, Listed(list), NEW kind
  PROVE  IsFiniteSet(OfKind(list, kind)) /\ Cardinality(OfKind(list, kind)) \in Nat
<1>1. PICK A, B : A = ToSet(list) /\ B = OfKind(list, kind)  OBVIOUS
<1>2. IsFiniteSet(A) /\ B \subseteq A  BY <1>1, ListedHas DEF OfKind
<1>3. IsFiniteSet(B)  BY <1>2, FS_Subset
<1>4. Cardinality(B) \in Nat  BY <1>3, FS_CardinalityType
<1> QED  BY <1>1, <1>3, <1>4

LEMMA FewerOfKind ==
  ASSUME NEW list, Listed(list), NEW t, Listed(t), ToSet(t) \subseteq ToSet(list), NEW kind
  PROVE  Cardinality(OfKind(t, kind)) <= Cardinality(OfKind(list, kind))
<1>1. PICK A, B : A = OfKind(list, kind) /\ B = OfKind(t, kind)  OBVIOUS
<1>2. IsFiniteSet(A)  BY <1>1, KindsFinite
<1>3. B \subseteq A  BY <1>1 DEF OfKind
<1>4. Cardinality(B) <= Cardinality(A)  BY <1>2, <1>3, FS_Subset
<1> QED  BY <1>1, <1>4

(* The oldest of a kind has none of its kind before it.                    *)
LEMMA OldestIs ==
  ASSUME NEW list, Listed(list), NEW kind, OfKind(list, kind) # {}, NEW o, o = OldestOf(list, kind)
  PROVE  /\ o \in OfKind(list, kind)
         /\ \A a : Kind(a) = kind => ~Before(list, a, o)
         /\ EndsWith(list, o) => OfKind(list, kind) = {o}
<1>1. list \in Seq(Entry) /\ Distinct(list)  BY DEF Listed
<1>2. PICK n \in Nat : n = Len(list) /\ DOMAIN list = 1..n  BY <1>1, LenProperties
<1>3. PICK I : I = {k \in 1..n : Kind(list[k]) = kind}  OBVIOUS
<1>4. \A x : x \in ToSet(list) <=> \E k \in 1..n : list[k] = x  BY <1>2, ListedHas DEF In
<1>5. \A x : x \in OfKind(list, kind) <=> \E k \in I : list[k] = x  BY <1>3, <1>4 DEF OfKind
<1>6. I # {} /\ I \subseteq 1..n  BY <1>3, <1>5
<1>7. PICK i : i = Min(I)  OBVIOUS
<1>8. i \in I /\ \A k \in I : i <= k
  <2>1. 1 \in Nat  OBVIOUS
  <2> QED  BY <1>2, <1>6, <1>7, <2>1, ExtremesAre
<1>9. o = list[i]  BY <1>2, <1>3, <1>7 DEF OldestOf
<1>10. o \in OfKind(list, kind)  BY <1>5, <1>8, <1>9
<1>11. ASSUME NEW a, Kind(a) = kind, Before(list, a, o) PROVE FALSE
  <2>1. PICK j, k \in 1..n : j < k /\ list[j] = a /\ list[k] = o  BY <1>2, <1>11 DEF Before
  <2>2. k = i  BY <1>1, <1>2, <1>6, <1>8, <1>9, <2>1 DEF Distinct
  <2>3. j \in I  BY <1>3, <1>11, <2>1
  <2> QED  BY <1>2, <1>8, <2>1, <2>2, <2>3
<1>12. ASSUME EndsWith(list, o) PROVE OfKind(list, kind) = {o}
  <2>1. n \in 1..n /\ list[n] = o  BY <1>2, <1>12 DEF EndsWith
  <2>2. i = n  BY <1>1, <1>2, <1>6, <1>8, <1>9, <2>1 DEF Distinct
  <2>3. \A k \in I : k = n  BY <1>2, <1>6, <1>8, <2>2
  <2>4. \A x : x \in OfKind(list, kind) => x = o  BY <1>5, <2>1, <2>3
  <2> QED  BY <1>10, <2>4
<1> QED  BY <1>10, <1>11, <1>12

(* What a cache keeps when entries go from it: all the others, the last,   *)
(* and the order of the prompts.                                           *)
Shrunk(c, d, x) ==
  Counted(d) /\ ToSet(d.list) \subseteq ToSet(c.list) /\ GoesInOrder(c.list, d.list, x)

LEMMA ShrunkMore ==
  ASSUME NEW c, NEW d, NEW f, NEW x, Shrunk(c, d, x), Shrunk(d, f, x)
  PROVE  Shrunk(c, f, x)
BY OrderGoesOn DEF Shrunk

LEMMA Itself == ASSUME NEW c, Counted(c), NEW x PROVE Shrunk(c, c, x)
BY DEF Shrunk, GoesInOrder

LEMMA LimitKept ==
  ASSUME NEW c, Counted(c), NEW e, EndsWith(c.list, e), NEW limit \in Nat, limit > 0, NEW kind, kind = Kind(e),
         Cardinality(OfKind(c.list, kind)) <= limit + 1, NEW d, d = WithinLimit(c, kind, limit), NEW x
  PROVE  /\ Shrunk(c, d, x) /\ EndsWith(d.list, e)
         /\ Cardinality(OfKind(d.list, kind)) <= limit
<1>1. Listed(c.list)  BY DEF Counted
<1>2. PICK A : A = OfKind(c.list, kind)  OBVIOUS
<1>3. PICK m \in Nat : m = Cardinality(A)  BY <1>1, <1>2, KindsFinite
<1>4. IsFiniteSet(A)  BY <1>1, <1>2, KindsFinite
<1>5. CASE m > limit
  <2>1. PICK o : o = OldestOf(c.list, kind)  OBVIOUS
  <2>2. PICK gone : gone = {o}  OBVIOUS
  <2>3. d = Without(c, gone)  BY <1>2, <1>3, <1>5, <2>1, <2>2 DEF WithinLimit
  <2>4. A # {}
    <3>1. m # 0  BY <1>5
    <3> QED  BY <1>3, <3>1, FS_EmptySet
  <2>5. /\ o \in A /\ (\A a : Kind(a) = kind => ~Before(c.list, a, o))
        /\ (EndsWith(c.list, o) => A = {o})
    BY <1>1, <1>2, <2>1, <2>4, OldestIs
  <2>6. o # e
    <3>1. ASSUME o = e PROVE FALSE
      <4>1. A = {o}  BY <2>5, <3>1
      <4>2. m = 1  BY <1>3, <4>1, FS_Singleton
      <4> QED  BY <1>5, <4>2
    <3> QED  BY <3>1
  <2>7. gone \subseteq ToSet(c.list) /\ Kind(o) = kind  BY <1>2, <2>2, <2>5 DEF OfKind
  <2>8. Counted(d) /\ ToSet(d.list) = ToSet(c.list) \ gone  BY <2>3, <2>7, WithoutIs
  <2>9. EndsWith(d.list, e)  BY <2>2, <2>3, <2>6, <2>7, WithoutEnds
  <2>10. \A a, b : IsPrompt(a) /\ IsPrompt(b) /\ Before(c.list, a, b) /\ b \in gone => a \in gone
    BY <2>2, <2>5, <2>7 DEF IsPrompt
  <2>11. GoesInOrder(c.list, d.list, x)  BY <2>3, <2>7, <2>10, WithoutGoes
  <2>12. OfKind(d.list, kind) = A \ {o}  BY <1>2, <2>2, <2>8 DEF OfKind
  <2>13. Cardinality(A \ {o}) = m - 1  BY <1>3, <1>4, <2>5, FS_RemoveElement
  <2>14. m <= limit + 1  BY <1>2, <1>3
  <2>15. Cardinality(OfKind(d.list, kind)) <= limit  BY <2>12, <2>13, <2>14
  <2>16. Shrunk(c, d, x)  BY <2>8, <2>11 DEF Shrunk
  <2> QED  BY <2>9, <2>15, <2>16
<1>6. CASE ~(m > limit)
  <2>1. d = c  BY <1>2, <1>3, <1>6 DEF WithinLimit
  <2> QED  BY <1>2, <1>3, <1>6, <2>1, Itself
<1> QED  BY <1>5, <1>6

LEMMA OldestAre ==
  ASSUME NEW list, Listed(list), NEW n \in 0..Len(list)
  PROVE  /\ OldestEntries(list, n) \subseteq ToSet(list)
         /\ \A a, b : Before(list, a, b) /\ b \in OldestEntries(list, n) => a \in OldestEntries(list, n)
         /\ \A e : EndsWith(list, e) /\ n # Len(list) => e \notin OldestEntries(list, n)
         /\ n = Len(list) => OldestEntries(list, n) = ToSet(list)
         /\ \A e : EndsWith(list, e) /\ n = Len(list) - 1 => ToSet(list) = OldestEntries(list, n) \cup {e}
<1>1. list \in Seq(Entry) /\ Distinct(list)  BY DEF Listed
<1>2. PICK m \in Nat : m = Len(list)  BY <1>1, LenProperties
<1>3. n \in Nat /\ n <= m /\ \A k \in 1..n : k \in 1..m  BY <1>2
<1>4. \A x : x \in ToSet(list) <=> \E k \in 1..m : list[k] = x  BY <1>2, ListedHas DEF In
<1>5. PICK G : G = OldestEntries(list, n)  OBVIOUS
<1>6. \A x : x \in G <=> \E k \in 1..n : list[k] = x  BY <1>5 DEF OldestEntries
<1>7. G \subseteq ToSet(list)  BY <1>3, <1>4, <1>6
<1>8. ASSUME NEW a, NEW b, Before(list, a, b), b \in G PROVE a \in G
  <2>1. PICK j, k \in 1..m : j < k /\ list[j] = a /\ list[k] = b  BY <1>2, <1>8 DEF Before
  <2>2. PICK i \in 1..n : list[i] = b  BY <1>6, <1>8
  <2>3. k = i  BY <1>1, <1>2, <1>3, <2>1, <2>2 DEF Distinct
  <2>4. j \in 1..n  BY <1>3, <2>1, <2>3
  <2> QED  BY <1>6, <2>1, <2>4
<1>9. ASSUME NEW e, EndsWith(list, e) PROVE m \in 1..m /\ m > 0 /\ list[m] = e
  BY <1>2, <1>9 DEF EndsWith
<1>10. ASSUME NEW e, EndsWith(list, e), n # m, e \in G PROVE FALSE
  <2>1. PICK i \in 1..n : list[i] = e  BY <1>6, <1>10
  <2>2. i = m  BY <1>1, <1>2, <1>3, <1>9, <1>10, <2>1 DEF Distinct
  <2> QED  BY <1>3, <1>10, <2>1, <2>2
<1>11. n = m => G = ToSet(list)
  <2>1. ASSUME n = m PROVE \A x : x \in G <=> x \in ToSet(list)  BY <1>4, <1>6, <2>1
  <2> QED  BY <2>1
<1>12. ASSUME NEW e, EndsWith(list, e), n = m - 1 PROVE ToSet(list) = G \cup {e}
  <2>1. m \in 1..m /\ list[m] = e  BY <1>9, <1>12
  <2>2. \A k \in 1..m : k = m \/ k \in 1..n  BY <1>2, <1>12
  <2>3. \A x : x \in ToSet(list) <=> x \in G \/ x = e  BY <1>3, <1>4, <1>6, <2>1, <2>2
  <2> QED  BY <2>3
<1> QED  BY <1>2, <1>5, <1>7, <1>8, <1>10, <1>11, <1>12

LEMMA NothingListed ==
  ASSUME NEW list, Listed(list), ToSet(list) = {}
  PROVE  Len(list) = 0
BY ListedHas, FS_EmptySet

(* The oldest go until the budget is kept; the last stays if it fits.      *)
LEMMA BudgetKept ==
  ASSUME NEW c, Counted(c), NEW e \in Entry, EndsWith(c.list, e), NEW d, d = WithinBudget(c), NEW x
  PROVE  /\ Shrunk(c, d, x) /\ d.pages <= KvPageBudget
         /\ Len(d.list) = 0 \/ EndsWith(d.list, e)
         /\ PagesOf[e.prompt] <= KvPageBudget => EndsWith(d.list, e)
<1>1. PICK s : s = c.list  OBVIOUS
<1>2. Listed(s) /\ c.pages = Pages0(ToSet(s))  BY <1>1 DEF Counted
<1>3. PICK m \in Nat : m = Len(s)  BY <1>2, ListedHas
<1>4. PICK N : N = {k \in 0..m : k = m \/ c.pages - Pages0(OldestEntries(s, k)) <= KvPageBudget}  OBVIOUS
<1>5. m \in N /\ N \subseteq 0..m /\ N # {}  BY <1>3, <1>4
<1>6. PICK n : n = Min(N)  OBVIOUS
<1>7. n \in N /\ \A k \in N : n <= k
  <2>1. 0 \in Nat  OBVIOUS
  <2> QED  BY <1>3, <1>5, <1>6, <2>1, ExtremesAre
<1>8. n \in 0..Len(s) /\ n \in Nat /\ n <= m  BY <1>3, <1>5, <1>7
<1>9. PICK gone : gone = OldestEntries(s, n)  OBVIOUS
<1>10. d = Without(c, gone)  BY <1>1, <1>3, <1>4, <1>6, <1>9 DEF WithinBudget
<1>11. gone \subseteq ToSet(s) /\ \A a, b : Before(s, a, b) /\ b \in gone => a \in gone
  BY <1>2, <1>8, <1>9, OldestAre
<1>12. Counted(d) /\ ToSet(d.list) = ToSet(s) \ gone  BY <1>1, <1>10, <1>11, WithoutIs
<1>13. GoesInOrder(s, d.list, x)  BY <1>1, <1>10, <1>11, WithoutGoes
<1>14. Shrunk(c, d, x)  BY <1>1, <1>12, <1>13 DEF Shrunk
<1>15. CASE n = m
  <2>1. gone = ToSet(s)  BY <1>2, <1>3, <1>8, <1>9, <1>15, OldestAre
  <2>2. ToSet(d.list) = {}  BY <1>12, <2>1
  <2>3. d.pages = 0  BY <1>12, <2>2, NoPages DEF Counted
  <2>4. Len(d.list) = 0  BY <1>12, <2>2, NothingListed DEF Counted
  <2>5. ~(PagesOf[e.prompt] <= KvPageBudget)
    <3>1. ASSUME PagesOf[e.prompt] <= KvPageBudget PROVE FALSE
      <4>1. m > 0  BY <1>1, <1>3 DEF EndsWith
      <4>2. PICK k \in Nat : k = m - 1 /\ k \in 0..m /\ k # m  BY <1>3, <4>1
      <4>3. PICK B : B = OldestEntries(s, k)  OBVIOUS
      <4>4. ToSet(s) = B \cup {e} /\ e \notin B /\ B \subseteq ToSet(s)
        BY <1>1, <1>2, <1>3, <4>2, <4>3, OldestAre
      <4>5. ToSet(s) \subseteq Entry /\ IsFiniteSet(ToSet(s))  BY <1>2, ListedHas
      <4>6. IsFiniteSet(B) /\ B \subseteq Entry  BY <4>4, <4>5, FS_Subset
      <4>7. Pages0(B \cup {e}) = Pages0(B) + PagesOf[e.prompt]  BY <4>4, <4>6, PagesMore
      <4>8. Pages0(B) \in Nat  BY <4>6, PagesFinite
      <4>9. PagesOf[e.prompt] \in Nat  BY PagesOfEntry
      <4>10. c.pages - Pages0(B) = PagesOf[e.prompt]  BY <1>2, <4>4, <4>7, <4>8, <4>9
      <4>11. k \in N  BY <1>4, <3>1, <4>2, <4>3, <4>10
      <4> QED  BY <1>3, <1>7, <1>15, <4>2, <4>11
    <3> QED  BY <3>1
  <2> QED  BY <1>14, <2>3, <2>4, <2>5, Limits
<1>16. CASE n # m
  <2>1. c.pages - Pages0(gone) <= KvPageBudget  BY <1>4, <1>7, <1>9, <1>16
  <2>2. d.pages = c.pages - Pages0(gone)  BY <1>10 DEF Without, Cache
  <2>3. e \notin gone  BY <1>1, <1>2, <1>3, <1>8, <1>9, <1>16, OldestAre
  <2>4. EndsWith(d.list, e)  BY <1>1, <1>10, <1>11, <2>3, WithoutEnds
  <2> QED  BY <1>14, <2>1, <2>2, <2>4
<1> QED  BY <1>15, <1>16

(* A cache between two calls: counted, within the budget and both limits.  *)
HoldsLimits(list) ==
  /\ Cardinality(OfKind(list, "prompt")) <= PromptCacheLimit
  /\ Cardinality(OfKind(list, "session")) <= SessionCacheLimit
CacheKept(c) == Counted(c) /\ c.pages <= KvPageBudget /\ HoldsLimits(c.list)

LEMMA KindsAre ==
  ASSUME NEW e
  PROVE  Kind(e) \in {"prompt", "session"} /\ (Kind(e) = "prompt" <=> e.session = NoSession)
BY DEF Kind

LEMMA FewerHoldLimits ==
  ASSUME NEW list, Listed(list), NEW t, Listed(t), ToSet(t) \subseteq ToSet(list), HoldsLimits(list)
  PROVE  HoldsLimits(t)
<1>1. ASSUME NEW kind, NEW limit \in Nat, Cardinality(OfKind(list, kind)) <= limit
      PROVE  Cardinality(OfKind(t, kind)) <= limit
  <2>1. PICK m \in Nat : m = Cardinality(OfKind(list, kind))  BY KindsFinite
  <2>2. PICK n \in Nat : n = Cardinality(OfKind(t, kind))  BY KindsFinite
  <2>3. n <= m  BY <2>1, <2>2, FewerOfKind
  <2> QED  BY <1>1, <2>1, <2>2, <2>3
<1> QED  BY <1>1, Limits DEF HoldsLimits

LEMMA ShrunkHoldsLimits ==
  ASSUME NEW c, Counted(c), NEW d, NEW x, Shrunk(c, d, x), HoldsLimits(c.list)
  PROVE  HoldsLimits(d.list)
<1>1. Listed(c.list) /\ Listed(d.list) /\ ToSet(d.list) \subseteq ToSet(c.list)  BY DEF Shrunk, Counted
<1> QED  BY <1>1, FewerHoldLimits

LEMMA AtKind ==
  ASSUME NEW list, Listed(list), HoldsLimits(list), NEW kind \in {"prompt", "session"}, NEW limit,
         limit = (IF kind = "prompt" THEN PromptCacheLimit ELSE SessionCacheLimit)
  PROVE  Cardinality(OfKind(list, kind)) <= limit
BY DEF HoldsLimits

LEMMA EndsHas ==
  ASSUME NEW list, Listed(list), NEW e, EndsWith(list, e)
  PROVE  e \in ToSet(list)
<1>1. PICK n \in Nat : n = Len(list)  BY ListedHas
<1>2. n \in 1..n /\ list[n] = e  BY <1>1 DEF EndsWith
<1> QED  BY <1>1, <1>2, ListedHas DEF In

(* An entry that was not there is put to the end: it stays when it fits,   *)
(* and so long as anything does.                                           *)
PutWell(c, d, e, x) ==
  /\ CacheKept(d) /\ ToSet(d.list) \subseteq ToSet(c.list) \cup {e}
  /\ GoesInOrder(c.list, d.list, x)
  /\ Len(d.list) = 0 \/ EndsWith(d.list, e)
  /\ PagesOf[e.prompt] <= KvPageBudget => EndsWith(d.list, e)

LEMMA PutIs ==
  ASSUME NEW c, Counted(c), HoldsLimits(c.list), NEW e \in Entry, ~In(e, c.list), NEW kind, kind = Kind(e),
         NEW limit, limit = (IF kind = "prompt" THEN PromptCacheLimit ELSE SessionCacheLimit),
         NEW d, d = Put(c, e, limit), NEW x, e = x \/ ~IsPrompt(e)
  PROVE  PutWell(c, d, e, x)
<1>1. PICK s, t : s = c.list /\ t = Append(s, e)  OBVIOUS
<1>2. PICK a : a = Cache(t, c.pages + PagesOf[e.prompt])  OBVIOUS
<1>3. PICK b : b = WithinLimit(a, kind, limit)  OBVIOUS
<1>4. d = WithinBudget(b)  BY <1>1, <1>2, <1>3 DEF Put
<1>5. Listed(s) /\ c.pages = Pages0(ToSet(s)) /\ ~In(e, s)  BY <1>1 DEF Counted
<1>6. /\ Listed(t) /\ ToSet(t) = ToSet(s) \cup {e} /\ EndsWith(t, e)
      /\ GoesInOrder(s, t, x)
  BY <1>1, <1>5, AppendedIs
<1>7. a.list = t /\ a.pages = c.pages + PagesOf[e.prompt]  BY <1>2 DEF Cache
<1>8. Counted(a)
  <2>1. ToSet(s) \subseteq Entry /\ IsFiniteSet(ToSet(s)) /\ e \notin ToSet(s)  BY <1>5, ListedHas
  <2>2. Pages0(ToSet(s) \cup {e}) = Pages0(ToSet(s)) + PagesOf[e.prompt]  BY <2>1, PagesMore
  <2> QED  BY <1>5, <1>6, <1>7, <2>2 DEF Counted
<1>9. limit \in Nat /\ limit > 0 /\ kind \in {"prompt", "session"}  BY Limits, KindsAre
<1>10. \A k2 : k2 # kind => OfKind(t, k2) = OfKind(s, k2)  BY <1>6 DEF OfKind
<1>11. OfKind(t, kind) = OfKind(s, kind) \cup {e}  BY <1>6 DEF OfKind
<1>12. Cardinality(OfKind(t, kind)) <= limit + 1
  <2>1. PICK A : A = OfKind(s, kind)  OBVIOUS
  <2>2. IsFiniteSet(A) /\ Cardinality(A) \in Nat  BY <1>5, <2>1, KindsFinite
  <2>3. Cardinality(A) <= limit  BY <1>1, <1>5, <1>9, <2>1, AtKind
  <2>4. Cardinality(A \cup {e}) = Cardinality(A) \/ Cardinality(A \cup {e}) = Cardinality(A) + 1  BY <2>2, FS_AddElement
  <2>5. Cardinality(A \cup {e}) \in Nat  BY <1>6, <1>11, <2>1, KindsFinite
  <2> QED  BY <1>9, <1>11, <2>1, <2>2, <2>3, <2>4, <2>5
<1>13. /\ Shrunk(a, b, x) /\ EndsWith(b.list, e)
       /\ Cardinality(OfKind(b.list, kind)) <= limit
  BY <1>3, <1>6, <1>7, <1>8, <1>9, <1>12, LimitKept
<1>14. Counted(b) /\ ToSet(b.list) \subseteq ToSet(t) /\ Listed(b.list)  BY <1>7, <1>13 DEF Shrunk, Counted
<1>15. HoldsLimits(b.list)
  <2>1. ASSUME NEW k2, k2 # kind PROVE Cardinality(OfKind(b.list, k2)) <= Cardinality(OfKind(s, k2))
    <3>1. Cardinality(OfKind(b.list, k2)) <= Cardinality(OfKind(t, k2))  BY <1>6, <1>14, FewerOfKind
    <3> QED  BY <1>10, <2>1, <3>1
  <2>2. \A k2 : Cardinality(OfKind(b.list, k2)) \in Nat /\ Cardinality(OfKind(s, k2)) \in Nat
    BY <1>5, <1>14, KindsFinite
  <2>3. HoldsLimits(s)  BY <1>1
  <2>4. CASE kind = "prompt"
    <3>1. Cardinality(OfKind(b.list, "prompt")) <= PromptCacheLimit  BY <1>13, <2>4
    <3>2. Cardinality(OfKind(b.list, "session")) <= Cardinality(OfKind(s, "session"))  BY <2>1, <2>4
    <3>3. Cardinality(OfKind(s, "session")) <= SessionCacheLimit  BY <2>3 DEF HoldsLimits
    <3>4. Cardinality(OfKind(b.list, "session")) <= SessionCacheLimit  BY <2>2, <3>2, <3>3, Limits
    <3> QED  BY <3>1, <3>4 DEF HoldsLimits
  <2>5. CASE kind = "session"
    <3>1. Cardinality(OfKind(b.list, "session")) <= SessionCacheLimit  BY <1>13, <2>5
    <3>2. Cardinality(OfKind(b.list, "prompt")) <= Cardinality(OfKind(s, "prompt"))  BY <2>1, <2>5
    <3>3. Cardinality(OfKind(s, "prompt")) <= PromptCacheLimit  BY <2>3 DEF HoldsLimits
    <3>4. Cardinality(OfKind(b.list, "prompt")) <= PromptCacheLimit  BY <2>2, <3>2, <3>3, Limits
    <3> QED  BY <3>1, <3>4 DEF HoldsLimits
  <2> QED  BY <1>9, <2>4, <2>5
<1>16. /\ Shrunk(b, d, x) /\ d.pages <= KvPageBudget
       /\ Len(d.list) = 0 \/ EndsWith(d.list, e)
       /\ PagesOf[e.prompt] <= KvPageBudget => EndsWith(d.list, e)
  BY <1>4, <1>13, <1>14, BudgetKept
<1>17. HoldsLimits(d.list)  BY <1>14, <1>15, <1>16, ShrunkHoldsLimits
<1>18. Counted(d) /\ ToSet(d.list) \subseteq ToSet(b.list) /\ GoesInOrder(b.list, d.list, x)  BY <1>16 DEF Shrunk
<1>19. GoesInOrder(t, b.list, x)  BY <1>7, <1>13 DEF Shrunk
<1>20. GoesInOrder(s, d.list, x)  BY <1>6, <1>18, <1>19, OrderGoesOn
<1>21. ToSet(d.list) \subseteq ToSet(s) \cup {e}  BY <1>6, <1>14, <1>18
<1> QED  BY <1>1, <1>16, <1>17, <1>18, <1>20, <1>21 DEF PutWell, CacheKept

LEMMA SetPromptIs ==
  ASSUME NEW c, CacheKept(c), NEW e \in Entry, ~In(e, c.list), e.session = NoSession,
         NEW d, d = SetPromptCache(c, e)
  PROVE  PutWell(c, d, e, e)
<1>1. Kind(e) = "prompt"  BY KindsAre
<1>2. d = Put(c, e, PromptCacheLimit)  BY DEF SetPromptCache
<1> QED  BY <1>1, <1>2, PutIs DEF CacheKept

LEMMA SetSessionIs ==
  ASSUME NEW c, CacheKept(c), NEW e \in Entry, e.session # NoSession, NEW d, d = SetSessionCache(c, e), NEW x
  PROVE  PutWell(c, d, e, x)
<1>1. Kind(e) = "session" /\ ~IsPrompt(e)  BY KindsAre DEF IsPrompt
<1>2. PICK gone : gone = OfSession(c, e)  OBVIOUS
<1>3. PICK a : a = Without(c, gone)  OBVIOUS
<1>4. d = Put(a, e, SessionCacheLimit)  BY <1>2, <1>3 DEF SetSessionCache, Replaced
<1>5. gone \subseteq ToSet(c.list)  BY <1>2 DEF OfSession
<1>6. Counted(a) /\ ToSet(a.list) = ToSet(c.list) \ gone  BY <1>3, <1>5, WithoutIs DEF CacheKept
<1>7. \A b : b \in gone => ~IsPrompt(b)
  <2>1. \A b : b \in gone => b.session = e.session  BY <1>2 DEF OfSession
  <2> QED  BY <2>1, KindsAre DEF IsPrompt
<1>8. GoesInOrder(c.list, a.list, x)  BY <1>3, <1>5, <1>7, WithoutGoes DEF CacheKept
<1>9. Shrunk(c, a, x)  BY <1>6, <1>8 DEF Shrunk
<1>10. HoldsLimits(a.list)  BY <1>9, ShrunkHoldsLimits DEF CacheKept
<1>11. ~In(e, a.list)
  <2>1. Listed(a.list)  BY <1>6 DEF Counted
  <2>2. e \notin ToSet(a.list)  BY <1>2, <1>6 DEF OfSession
  <2> QED  BY <2>1, <2>2, ListedHas
<1>12. PutWell(a, d, e, x)  BY <1>1, <1>4, <1>6, <1>10, <1>11, PutIs
<1>13. GoesInOrder(c.list, d.list, x)
  <2>1. GoesInOrder(a.list, d.list, x)  BY <1>12 DEF PutWell
  <2> QED  BY <1>8, <2>1, OrderGoesOn
<1>14. ToSet(d.list) \subseteq ToSet(c.list) \cup {e}
  <2>1. ToSet(d.list) \subseteq ToSet(a.list) \cup {e}  BY <1>12 DEF PutWell
  <2> QED  BY <1>6, <2>1
<1> QED  BY <1>12, <1>13, <1>14 DEF PutWell

BudgetInv ==
  /\ CacheKept(Cache(recency, residentPages))
  /\ source \in {"cold", "prompt-cache", "session-prefix"}

PrefixOf(list, p, s) == {e \in ToSet(list) : s # NoSession /\ e.session = s /\ <<e.prompt, p>> \in Extends}
AnyOf(entries)       == CHOOSE e \in entries : TRUE

(* The three caches a prefill goes through: looked in, stored to, and      *)
(* stored to for the session.                                              *)
LookedIn(c, p, s) ==
  LET e == [session |-> NoSession, prompt |-> p]
  IN  IF e \in ToSet(c.list) THEN Cache(Touched(c.list, e), c.pages)
      ELSE IF PrefixOf(c.list, p, s) # {} THEN Cache(Touched(c.list, AnyOf(PrefixOf(c.list, p, s))), c.pages)
      ELSE c

LEMMA EntriesAre ==
  ASSUME NEW p \in Prompts, NEW s \in Sessions \cup {NoSession}
  PROVE  /\ [session |-> NoSession, prompt |-> p] \in Entry
         /\ [session |-> s, prompt |-> p] \in Entry
BY DEF Entry

LEMMA TouchedKept ==
  ASSUME NEW c, CacheKept(c), NEW e \in ToSet(c.list), NEW x, e = x \/ ~IsPrompt(e),
         NEW d, d = Cache(Touched(c.list, e), c.pages)
  PROVE  /\ CacheKept(d) /\ ToSet(d.list) = ToSet(c.list) /\ EndsWith(d.list, e)
         /\ GoesInOrder(c.list, d.list, x)
<1>1. PICK r, t : r = c.list /\ t = Touched(r, e)  OBVIOUS
<1>2. Listed(r) /\ HoldsLimits(r) /\ c.pages = Pages0(ToSet(r)) /\ c.pages <= KvPageBudget
  BY <1>1 DEF CacheKept, Counted
<1>3. In(e, r) /\ e \in Entry  BY <1>1, <1>2, ListedHas
<1>4. /\ Listed(t) /\ ToSet(t) = ToSet(r) /\ EndsWith(t, e)
      /\ GoesInOrder(r, t, x)
  BY <1>1, <1>2, <1>3, TouchedIs
<1>5. d.list = t /\ d.pages = c.pages  BY <1>1 DEF Cache
<1>6. HoldsLimits(t)  BY <1>2, <1>4, FewerHoldLimits
<1> QED  BY <1>1, <1>2, <1>4, <1>5, <1>6 DEF CacheKept, Counted

LEMMA LookedIs ==
  ASSUME NEW c, CacheKept(c), NEW p \in Prompts, NEW s \in Sessions \cup {NoSession},
         NEW x, x = [session |-> NoSession, prompt |-> p], NEW d, d = LookedIn(c, p, s)
  PROVE  /\ CacheKept(d) /\ ToSet(d.list) = ToSet(c.list)
         /\ GoesInOrder(c.list, d.list, x)
         /\ x \in ToSet(c.list) => EndsWith(d.list, x)
<1>1. CASE x \in ToSet(c.list)
  <2>1. d = Cache(Touched(c.list, x), c.pages)  BY <1>1 DEF LookedIn
  <2> QED  BY <1>1, <2>1, TouchedKept
<1>2. CASE x \notin ToSet(c.list) /\ PrefixOf(c.list, p, s) # {}
  <2>1. PICK E : E = PrefixOf(c.list, p, s)  OBVIOUS
  <2>2. PICK e : e = AnyOf(E)  OBVIOUS
  <2>3. e \in E  BY <1>2, <2>1, <2>2 DEF AnyOf
  <2>4. e \in ToSet(c.list) /\ e.session # NoSession  BY <2>1, <2>3 DEF PrefixOf
  <2>5. ~IsPrompt(e)  BY <2>4, KindsAre DEF IsPrompt
  <2>6. d = Cache(Touched(c.list, e), c.pages)  BY <1>2, <2>1, <2>2 DEF LookedIn
  <2> QED  BY <1>2, <2>4, <2>5, <2>6, TouchedKept
<1>3. CASE x \notin ToSet(c.list) /\ PrefixOf(c.list, p, s) = {}
  <2>1. d = c  BY <1>3 DEF LookedIn
  <2>2. GoesInOrder(c.list, d.list, x)  BY <2>1 DEF GoesInOrder
  <2> QED  BY <1>3, <2>1, <2>2
<1> QED  BY <1>1, <1>2, <1>3

StoredTo(c, e)    == IF e \in ToSet(c.list) THEN c ELSE SetPromptCache(c, e)

LEMMA StoredIs ==
  ASSUME NEW c, CacheKept(c), NEW e \in Entry, e.session = NoSession, e \in ToSet(c.list) => EndsWith(c.list, e),
         NEW d, d = StoredTo(c, e)
  PROVE  /\ CacheKept(d) /\ GoesInOrder(c.list, d.list, e)
         /\ Len(d.list) = 0 \/ EndsWith(d.list, e)
         /\ PagesOf[e.prompt] <= KvPageBudget => EndsWith(d.list, e)
<1>1. CASE e \in ToSet(c.list)
  <2>1. d = c  BY <1>1 DEF StoredTo
  <2>2. GoesInOrder(c.list, d.list, e)  BY <2>1 DEF GoesInOrder
  <2> QED  BY <1>1, <2>1, <2>2
<1>2. CASE e \notin ToSet(c.list)
  <2>1. d = SetPromptCache(c, e)  BY <1>2 DEF StoredTo
  <2>2. ~In(e, c.list)  BY <1>2, ListedHas DEF CacheKept, Counted
  <2> QED  BY <2>1, <2>2, SetPromptIs DEF PutWell
<1> QED  BY <1>1, <1>2

StoredFor(c, e) == IF e.session = NoSession THEN c ELSE SetSessionCache(c, e)

LEMMA PrefillIs ==
  ASSUME NEW p \in Prompts, NEW s \in Sessions \cup {NoSession}, Prefill(p, s),
         NEW r, NEW now, NEW x, NEW y, NEW looked, NEW stored, NEW after,
         r = recency, now = Cache(r, residentPages),
         x = [session |-> NoSession, prompt |-> p], y = [session |-> s, prompt |-> p],
         looked = LookedIn(now, p, s), stored = (IF x \in ToSet(r) THEN looked ELSE SetPromptCache(looked, x)),
         after = StoredFor(stored, y)
  PROVE  /\ recency' = after.list /\ residentPages' = after.pages
         /\ source' = IF x \in ToSet(r) THEN "prompt-cache"
                      ELSE IF PrefixOf(r, p, s) # {} THEN "session-prefix" ELSE "cold"
BY DEF Prefill, LookedIn, StoredFor, PrefixOf, AnyOf, Cache

(* What a prefill leaves.                                                  *)
LEMMA PrefillKeeps ==
  ASSUME BudgetInv, NEW p \in Prompts, NEW s \in Sessions \cup {NoSession}, Prefill(p, s)
  PROVE  \E r, after, x :
           /\ r = recency /\ after = Cache(recency', residentPages') /\ x = [session |-> NoSession, prompt |-> p]
           /\ CacheKept(after) /\ GoesInOrder(r, after.list, x)
           /\ Len(after.list) = 0 \/ after.list[Len(after.list)].prompt = p
           /\ source' \in {"cold", "prompt-cache", "session-prefix"}
           /\ source' = "cold" /\ PagesOf[p] <= KvPageBudget => \E e \in ToSet(after.list) : e \notin ToSet(r)
<1>1. PICK r, now : r = recency /\ now = Cache(r, residentPages)  OBVIOUS
<1>2. PICK x, y : x = [session |-> NoSession, prompt |-> p] /\ y = [session |-> s, prompt |-> p]  OBVIOUS
<1>3. PICK looked : looked = LookedIn(now, p, s)  OBVIOUS
<1>4. PICK stored : stored = (IF x \in ToSet(r) THEN looked ELSE SetPromptCache(looked, x))  OBVIOUS
<1>5. PICK after : after = StoredFor(stored, y)  OBVIOUS
<1>6. /\ recency' = after.list /\ residentPages' = after.pages
      /\ source' = IF x \in ToSet(r) THEN "prompt-cache"
                   ELSE IF PrefixOf(r, p, s) # {} THEN "session-prefix" ELSE "cold"
  BY <1>1, <1>2, <1>3, <1>4, <1>5, PrefillIs
<1>7. x \in Entry /\ y \in Entry /\ x.session = NoSession /\ y.session = s /\ x.prompt = p /\ y.prompt = p
  BY <1>2, EntriesAre
<1>8. CacheKept(now) /\ now.list = r  BY <1>1 DEF BudgetInv, Cache
<1>9. /\ CacheKept(looked) /\ ToSet(looked.list) = ToSet(r)
      /\ GoesInOrder(r, looked.list, x)
      /\ x \in ToSet(r) => EndsWith(looked.list, x)
  BY <1>2, <1>3, <1>8, LookedIs
<1>10. stored = StoredTo(looked, x)  BY <1>4, <1>9 DEF StoredTo
<1>11. /\ CacheKept(stored) /\ GoesInOrder(looked.list, stored.list, x)
       /\ Len(stored.list) = 0 \/ EndsWith(stored.list, x)
       /\ PagesOf[x.prompt] <= KvPageBudget => EndsWith(stored.list, x)
  BY <1>7, <1>9, <1>10, StoredIs
<1>12. GoesInOrder(r, stored.list, x)  BY <1>9, <1>11, OrderGoesOn
<1>13. ASSUME s = NoSession
      PROVE  /\ CacheKept(after) /\ GoesInOrder(r, after.list, x)
             /\ Len(after.list) = 0 \/ EndsWith(after.list, y)
             /\ PagesOf[p] <= KvPageBudget => EndsWith(after.list, y)
  <2>1. after = stored /\ y = x  BY <1>2, <1>5, <1>7, <1>13 DEF StoredFor
  <2>2. /\ CacheKept(after) /\ GoesInOrder(r, after.list, x)
        /\ Len(after.list) = 0 \/ EndsWith(after.list, y)
        /\ PagesOf[p] <= KvPageBudget => EndsWith(after.list, y)
    BY <1>7, <1>11, <1>12, <2>1
  <2> QED  BY <2>2
<1>14. ASSUME s # NoSession
      PROVE  /\ CacheKept(after) /\ GoesInOrder(r, after.list, x)
             /\ Len(after.list) = 0 \/ EndsWith(after.list, y)
             /\ PagesOf[p] <= KvPageBudget => EndsWith(after.list, y)
  <2>1. after = SetSessionCache(stored, y)  BY <1>5, <1>7, <1>14 DEF StoredFor
  <2>2. PutWell(stored, after, y, x)  BY <1>7, <1>11, <1>14, <2>1, SetSessionIs
  <2>3. GoesInOrder(stored.list, after.list, x)  BY <2>2 DEF PutWell
  <2>4. GoesInOrder(r, after.list, x)  BY <1>12, <2>3, OrderGoesOn
  <2>5. /\ CacheKept(after) /\ GoesInOrder(r, after.list, x)
        /\ Len(after.list) = 0 \/ EndsWith(after.list, y)
        /\ PagesOf[p] <= KvPageBudget => EndsWith(after.list, y)
    BY <1>7, <2>2, <2>4 DEF PutWell
  <2> QED  BY <2>5
<1>15. /\ CacheKept(after) /\ GoesInOrder(r, after.list, x)
       /\ Len(after.list) = 0 \/ EndsWith(after.list, y)
       /\ PagesOf[p] <= KvPageBudget => EndsWith(after.list, y)
  BY <1>13, <1>14
<1>16. PICK z : z = Cache(after.list, after.pages)  OBVIOUS
<1>17. z.list = after.list /\ z.pages = after.pages /\ z = Cache(recency', residentPages')  BY <1>6, <1>16 DEF Cache
<1>18. CacheKept(z) /\ GoesInOrder(r, z.list, x)  BY <1>15, <1>17 DEF CacheKept, Counted
<1>19. Len(z.list) = 0 \/ z.list[Len(z.list)].prompt = p  BY <1>7, <1>15, <1>17 DEF EndsWith
<1>20. source' \in {"cold", "prompt-cache", "session-prefix"}  BY <1>6
<1>21. ASSUME source' = "cold", PagesOf[p] <= KvPageBudget PROVE \E e \in ToSet(z.list) : e \notin ToSet(r)
  <2>1. x \notin ToSet(r) /\ PrefixOf(r, p, s) = {}  BY <1>6, <1>21
  <2>2. EndsWith(z.list, y)  BY <1>15, <1>17, <1>21
  <2>3. y \in ToSet(z.list)  BY <1>18, <2>2, EndsHas DEF CacheKept, Counted
  <2>4. y \notin ToSet(r)
    <3>1. CASE s = NoSession  BY <1>2, <2>1, <3>1
    <3>2. CASE s # NoSession
      <4>1. <<p, p>> \in Extends  BY KvBudgetAssumption
      <4> QED  BY <1>7, <2>1, <3>2, <4>1 DEF PrefixOf
    <3> QED  BY <3>1, <3>2
  <2> QED  BY <2>3, <2>4
<1> QED  BY <1>1, <1>2, <1>17, <1>18, <1>19, <1>20, <1>21

LEMMA BudgetStarts == ASSUME BudgetInit PROVE BudgetInv
<1>1. recency = <<>> /\ residentPages = 0 /\ source = "cold"  BY DEF BudgetInit
<1>2. PICK r : r = <<>>  OBVIOUS
<1>3. r \in Seq(Entry) /\ Len(r) = 0 /\ ToSet(r) = {}  BY <1>2 DEF ToSet
<1>4. Listed(r)  BY <1>3 DEF Listed, Distinct
<1>5. \A kind : OfKind(r, kind) = {}  BY <1>3 DEF OfKind
<1>6. HoldsLimits(r)
  <2>1. \A kind : Cardinality(OfKind(r, kind)) = 0  BY <1>5, FS_EmptySet
  <2>2. Cardinality(OfKind(r, "prompt")) = 0 /\ Cardinality(OfKind(r, "session")) = 0  BY <2>1
  <2> HIDE <1>5
  <2> QED  BY <2>2, Limits DEF HoldsLimits
<1>7. Pages0(ToSet(r)) = 0  BY <1>3, NoPages
<1>8. PICK c : c = Cache(r, 0)  OBVIOUS
<1>9. c.list = r /\ c.pages = 0  BY <1>8 DEF Cache
<1>10. CacheKept(c)  BY <1>4, <1>6, <1>7, <1>9, Limits DEF CacheKept, Counted
<1> QED  BY <1>1, <1>2, <1>8, <1>10 DEF BudgetInv

LEMMA BudgetSteps == ASSUME BudgetInv, BudgetNext PROVE BudgetInv'
<1>1. PICK p \in Prompts, s \in Sessions \cup {NoSession} : Prefill(p, s)  BY DEF BudgetNext
<1>2. PICK r, after, x :
        /\ after = Cache(recency', residentPages') /\ CacheKept(after)
        /\ source' \in {"cold", "prompt-cache", "session-prefix"}
  BY <1>1, PrefillKeeps
<1>3. CacheKept(Cache(recency, residentPages))'
  <2>1. CacheKept(Cache(recency', residentPages'))  BY <1>2
  <2> QED  BY <2>1 DEF CacheKept, Cache, Counted, HoldsLimits, Listed, Distinct
<1> QED  BY <1>2, <1>3 DEF BudgetInv

LEMMA BudgetStutters == ASSUME BudgetInv, UNCHANGED budgetVars PROVE BudgetInv'
BY DEF BudgetInv, budgetVars, CacheKept, Cache, Counted, HoldsLimits, Listed, Distinct

LEMMA BudgetIsSound == ASSUME BudgetInv PROVE CachesSound
<1>1. PICK r, c : r = recency /\ c = Cache(r, residentPages)  OBVIOUS
<1>2. CacheKept(c) /\ c.list = r /\ c.pages = residentPages  BY <1>1 DEF BudgetInv, Cache
<1>3. /\ Listed(r) /\ residentPages = Pages0(ToSet(r)) /\ residentPages <= KvPageBudget
      /\ HoldsLimits(r)
  BY <1>2 DEF CacheKept, Counted
<1>4. /\ ToSet(r) \subseteq Entry /\ IsFiniteSet(ToSet(r))
      /\ Cardinality(ToSet(r)) = Len(r)
  BY <1>3, ListedHas
<1>5. Pages0(ToSet(r)) \in Nat  BY <1>4, PagesFinite
<1>6. r \in Seq(Entry)  BY <1>3 DEF Listed
<1>7. BudgetTypeOK  BY <1>1, <1>3, <1>5, <1>6 DEF BudgetTypeOK, BudgetInv
<1>8. PagesAccounted  BY <1>1, <1>3 DEF PagesAccounted
<1>9. CachesWithinLimits  BY <1>1, <1>3, <1>4 DEF CachesWithinLimits, HoldsLimits
<1> QED  BY <1>7, <1>8, <1>9 DEF CachesSound

LEMMA LastIs ==
  ASSUME NEW T, NEW s \in Seq(T)
  PROVE  Last(s) = s[Len(s)]
BY DEF Last

(* No prompt goes before one that was used earlier, and a cold prefill     *)
(* leaves something new.                                                   *)
LEMMA OldestGo ==
  ASSUME BudgetInv, BudgetNext
  PROVE  /\ source' = "cold" /\ (\A p \in Prompts : PagesOf[p] <= KvPageBudget)
              => ToSet(recency') \ ToSet(recency) # {}
         /\ \A i, j \in DOMAIN recency :
              /\ i < j /\ Kind(recency[i]) = "prompt" /\ Kind(recency[j]) = "prompt"
              /\ recency[j] \notin ToSet(recency')
              => recency[i] \notin ToSet(recency') \/ Last(recency').prompt = recency[i].prompt
<1>1. PICK p \in Prompts, s \in Sessions \cup {NoSession} : Prefill(p, s)  BY DEF BudgetNext
<1>2. PICK r, after, x :
        /\ r = recency /\ after = Cache(recency', residentPages') /\ x = [session |-> NoSession, prompt |-> p]
        /\ CacheKept(after) /\ GoesInOrder(r, after.list, x)
        /\ Len(after.list) = 0 \/ after.list[Len(after.list)].prompt = p
        /\ source' = "cold" /\ PagesOf[p] <= KvPageBudget => \E e \in ToSet(after.list) : e \notin ToSet(r)
  BY <1>1, PrefillKeeps
<1>3. PICK t : t = recency' /\ t = after.list  BY <1>2 DEF Cache
<1>4. Listed(t)  BY <1>2, <1>3 DEF CacheKept, Counted
<1>5. Listed(r)  BY <1>2 DEF BudgetInv, CacheKept, Counted, Cache
<1>6. PICK n \in Nat : n = Len(r) /\ DOMAIN r = 1..n  BY <1>5, LenProperties DEF Listed
<1>7. GoesInOrder(r, t, x) /\ (Len(t) = 0 \/ t[Len(t)].prompt = p)  BY <1>2, <1>3
<1>8. Last(t) = t[Len(t)]  BY <1>4, LastIs DEF Listed
<1>9. ASSUME NEW i \in 1..n, NEW j \in 1..n, i < j, Kind(r[i]) = "prompt", Kind(r[j]) = "prompt",
             r[j] \notin ToSet(t), r[i] \in ToSet(t), r[i] # x
      PROVE  FALSE
  <2>1. Before(r, r[i], r[j])  BY <1>6, <1>9 DEF Before
  <2>2. In(r[i], t)  BY <1>4, <1>9, ListedHas
  <2>3. Before(t, r[i], r[j])  BY <1>7, <1>9, <2>1, <2>2 DEF GoesInOrder, IsPrompt
  <2>4. In(r[j], t)  BY <2>3 DEF Before, In
  <2> QED  BY <1>4, <1>9, <2>4, ListedHas
<1>10. ASSUME NEW i \in 1..n, r[i] \in ToSet(t), r[i] = x PROVE Last(t).prompt = r[i].prompt
  <2>1. In(r[i], t)  BY <1>4, <1>10, ListedHas
  <2>2. Len(t) # 0  BY <1>4, <2>1, ListedHas DEF In
  <2>3. r[i].prompt = p  BY <1>2, <1>10
  <2> QED  BY <1>7, <1>8, <2>2, <2>3
<1>11. ASSUME source' = "cold", \A q \in Prompts : PagesOf[q] <= KvPageBudget
       PROVE  ToSet(t) \ ToSet(r) # {}
  <2>1. PagesOf[p] <= KvPageBudget  BY <1>11
  <2>2. PICK e \in ToSet(t) : e \notin ToSet(r)  BY <1>2, <1>3, <1>11, <2>1
  <2> QED  BY <2>2
<1>12. \A i, j \in 1..n :
              /\ i < j /\ Kind(r[i]) = "prompt" /\ Kind(r[j]) = "prompt"
              /\ r[j] \notin ToSet(t)
              => r[i] \notin ToSet(t) \/ Last(t).prompt = r[i].prompt
  BY <1>9, <1>10
<1> QED  BY <1>2, <1>3, <1>6, <1>11, <1>12
=============================================================================

---------------------------- MODULE ModelCatalog ----------------------------
(***************************************************************************)
(* The catalogue of ManagedModelManager (src/models/modelManager.ts): the  *)
(* records of artifacts and runtimes, in memory and each in a file (shard) *)
(* of its own, the pulls that download artifacts, and the migration of the *)
(* older catalogue, which was one file.                                    *)
(*                                                                         *)
(* Saving is synchronous, so only the end of the process interrupts it: a  *)
(* shard being written then is torn.  Shards are written in the order in   *)
(* which their records were made, which may be any.  What records hold     *)
(* beside a status and tags is left out, and so are the processes of       *)
(* runtimes (WorkerLifecycle).                                             *)
(***************************************************************************)
EXTENDS Naturals, FiniteSets

CONSTANTS
  Artifacts, Hosted,     \* the ids of artifacts and of runtimes, each used once
  SourceOf,              \* of artifacts
  Downloaded,            \* sources fetched into a file; others Ollama fetches,
  Recorded,              \* or nothing is fetched for
  Pulls, PulledSource,
  Creating,              \* the pulls of createModel, which add a runtime
  OldCatalogs,           \* what the older catalogue may hold
  Absent, Torn,
  MaxPulls, MaxCrashes   \* bounds

CatalogIds == Artifacts \cup Hosted

ArtifactRecords == [status : {"pulling", "ready", "error"}, tagged : BOOLEAN]
RuntimeRecords  == [artifact : Artifacts, tagged : BOOLEAN]
RecordsFor(i)   == IF i \in Artifacts THEN ArtifactRecords ELSE RuntimeRecords

ASSUME CatalogAssumption ==
  /\ DOMAIN SourceOf = Artifacts /\ DOMAIN PulledSource = Pulls
  /\ Downloaded \cap Recorded = {} /\ Creating \subseteq Pulls
  /\ Artifacts \cap Hosted = {} /\ {MaxPulls, MaxCrashes} \subseteq Nat
  /\ Absent # Torn /\ {Absent, Torn} \cap (ArtifactRecords \cup RuntimeRecords) = {}
  /\ Absent \notin CatalogIds \cup Pulls \cup OldCatalogs
  /\ \A old \in OldCatalogs :
       old = [i \in CatalogIds |-> old[i]] /\ \A i \in CatalogIds : old[i] \in RecordsFor(i) \cup {Absent}

VARIABLES
  process,    \* "down", "migrated" or "up"
  catalog,    \* state, by id
  shards,     \* the store, by id
  older,      \* the older catalogue, or Absent
  pull,
  file,       \* what was downloaded for an artifact: "none", "partial", "whole"
  opener,     \* the last pull to open that file, or Absent
  used,       \* history: the ids given out,
  dropped,    \* those asked to be deleted, or never saved when a crash came,
  lost,       \* and those a crash tore the shard of
  cut,        \* artifacts whose file a crash, or another pull of it, cut
  crashes

catalogVars == <<process, catalog, shards, older, pull, file, opener, used, dropped, lost, cut, crashes>>

Held(records) == {i \in CatalogIds : records[i] \notin {Absent, Torn}}

CatalogTypeOK ==
  /\ process \in {"down", "migrated", "up"}
  /\ \A i \in CatalogIds : /\ catalog[i] = Absent \/ catalog[i] \in RecordsFor(i)
                           /\ shards[i] \in {Absent, Torn} \/ shards[i] \in RecordsFor(i)
  /\ older = Absent \/ older \in OldCatalogs
  /\ pull \in [Pulls -> [stage : {"idle", "fetching", "writing", "done", "failed", "crashed"},
                         id : Artifacts \cup {Absent}]]
  /\ file \in [Artifacts -> {"none", "partial", "whole"}]
  /\ opener \in [Artifacts -> Pulls \cup {Absent}]
  /\ dropped \cup lost \subseteq used /\ used \subseteq CatalogIds
  /\ cut \subseteq Artifacts /\ crashes \in 0..MaxCrashes

Empty == [i \in CatalogIds |-> Absent]

CatalogInit ==
  /\ process = "down" /\ catalog = Empty /\ shards = Empty
  /\ older \in OldCatalogs \cup {Absent}
  /\ used = IF older = Absent THEN {} ELSE Held(older)
  /\ pull = [p \in Pulls |-> [stage |-> "idle", id |-> Absent]]
  /\ file = [i \in Artifacts |-> IF i \in used /\ SourceOf[i] \in Downloaded THEN "whole" ELSE "none"]
  /\ opener = [i \in Artifacts |-> Absent]
  /\ dropped = {} /\ lost = {} /\ cut = {} /\ crashes = 0

-----------------------------------------------------------------------------
(* writeAllShards over a store, and what it may leave when interrupted.    *)
Written(store, records) == [i \in CatalogIds |-> IF i \in Held(records) THEN records[i] ELSE store[i]]

WrittenPartly(store, records) ==
  {[i \in CatalogIds |-> IF i = torn THEN Torn ELSE IF i \in done THEN records[i] ELSE store[i]] :
     done \in SUBSET Held(records), torn \in Held(records) \cup {Absent}}

(* What if the store were emptied before it is written?                    *)
EmptiedFirst(store, records) == WrittenPartly(Empty, records)

(* persist: the shards are written before those without a record go.       *)
SavedPartly(store, records) ==
  WrittenPartly(store, records)
    \cup {[i \in CatalogIds |-> IF i \in gone THEN Absent ELSE Written(store, records)[i]] :
            gone \in SUBSET (CatalogIds \ Held(records))}

Writing(i) == opener[i] # Absent /\ pull[opener[i]].stage = "writing"

(* The process ends.                                                       *)
Ends ==
  /\ crashes < MaxCrashes /\ crashes' = crashes + 1
  /\ process' = "down" /\ catalog' = Empty
  /\ pull' = [p \in Pulls |-> IF pull[p].stage \in {"fetching", "writing"}
                              THEN [pull[p] EXCEPT !.stage = "crashed"] ELSE pull[p]]

(* The records are saved, while pulls become as given, or the process ends *)
(* meanwhile.                                                              *)
Saves(records, pulls) ==
  \/ /\ catalog' = records /\ shards' = records /\ process' = "up" /\ pull' = pulls
     /\ UNCHANGED crashes
  \/ Ends /\ shards' \in SavedPartly(shards, records)

(* What a crash, if there is one, costs beside torn shards: files that it  *)
(* cut, and records that were not saved; deletions may have been asked.    *)
Cuts(files) ==
  cut' = IF process' = "down" THEN cut \cup files \cup {i \in Artifacts : Writing(i)} ELSE cut

Drops(asked) ==
  dropped' = dropped \cup asked
    \cup (IF process' = "down" THEN {i \in used' : shards[i] = Absent /\ shards'[i] = Absent} ELSE {})

Accounts(asked) == Cuts({}) /\ Drops(asked)

Crash ==
  /\ process = "up" /\ Ends
  /\ UNCHANGED <<shards, older, file, opener, used, lost>>
  /\ Accounts({})

-----------------------------------------------------------------------------
(* The constructor: the older catalogue is written into the store, then    *)
(* removed...                                                              *)
Migrates ==
  /\ process = "down" /\ older # Absent
  /\ \/ /\ shards' = Written(shards, older) /\ process' = "migrated"
        /\ UNCHANGED <<catalog, pull, crashes>>
     \/ Ends /\ shards' \in WrittenPartly(shards, older)
  /\ UNCHANGED <<older, file, opener, used, dropped, lost, cut>>

(* What if it were removed before it is written?                           *)
RemovableAtOnce == process = "down"

Removable == process = "migrated"

RemovesOlder ==
  /\ Removable /\ older # Absent
  /\ \/ older' = Absent /\ process' = "migrated" /\ UNCHANGED crashes
     \/ /\ older' \in {older, Absent} /\ process' = "down"
        /\ crashes < MaxCrashes /\ crashes' = crashes + 1
  /\ UNCHANGED <<catalog, shards, pull, file, opener, used, dropped, lost, cut>>

(* ... then the shards that can be read are loaded, and saved.             *)
Loads ==
  /\ process \in {"down", "migrated"} /\ older = Absent
  /\ lost' = lost \cup {i \in CatalogIds : shards[i] = Torn}
  /\ Saves([i \in CatalogIds |-> IF shards[i] = Torn THEN Absent ELSE shards[i]], pull)
  /\ UNCHANGED <<older, file, opener, used, dropped, cut>>

-----------------------------------------------------------------------------
Patched(i, record) == [catalog EXCEPT ![i] = record]
WithoutRecord(i) == Patched(i, Absent)

(* addTags, setTags, removeTags, attachLoraAdapters, once.                 *)
Tags(i) ==
  /\ process = "up" /\ i \in Held(catalog) /\ ~catalog[i].tagged
  /\ Saves(Patched(i, [catalog[i] EXCEPT !.tagged = TRUE]), pull)
  /\ UNCHANGED <<older, file, opener, used, lost>>
  /\ Accounts({})

NewRuntime(i) == [artifact |-> i, tagged |-> FALSE]

CreateRuntime(r, i) ==
  /\ process = "up" /\ i \in Held(catalog) /\ r \notin used
  /\ used' = used \cup {r}
  /\ Saves(Patched(r, NewRuntime(i)), pull)
  /\ Accounts({})
  /\ UNCHANGED <<older, file, opener, lost>>

DeleteRuntime(r) ==
  /\ process = "up" /\ r \in Held(catalog)
  /\ Saves(WithoutRecord(r), pull)
  /\ UNCHANGED <<older, file, opener, used, lost>>
  /\ Accounts({r})

RuntimesOf(i) == {r \in Hosted \cap Held(catalog) : catalog[r].artifact = i}

(* An artifact is deleted with the first of its runtimes, which is saved   *)
(* before the files go, and they before the artifact's own shard.          *)
DeleteArtifact(i) ==
  /\ process = "up" /\ i \in Held(catalog)
  /\ UNCHANGED <<older, used, lost>>
  /\ \E first \in IF RuntimesOf(i) = {} THEN {Absent} ELSE RuntimesOf(i) :
       LET before == IF first = Absent THEN catalog ELSE WithoutRecord(first)
           after  == [before EXCEPT ![i] = Absent]
           FilesGo == /\ file' = [file EXCEPT ![i] = "none"]
                      /\ opener' = [opener EXCEPT ![i] = Absent]
       IN /\ \/ /\ catalog' = after /\ shards' = after /\ UNCHANGED <<process, pull, crashes>>
                /\ FilesGo
             \/ /\ Ends
                /\ \/ shards' \in SavedPartly(shards, before) /\ UNCHANGED <<file, opener>>
                   \/ shards' \in {before} \cup SavedPartly(before, after) /\ FilesGo
          /\ Cuts({i}) /\ Drops({i, first} \ {Absent})

-----------------------------------------------------------------------------
PullNow(p, stage, i) == [pull EXCEPT ![p] = [stage |-> stage, id |-> i]]

(* The pull of p is over with the given records saved; createModel adds a  *)
(* runtime, also to an artifact that was there.                            *)
PullOver(p, i, records) ==
  IF p \in Creating
  THEN \E r \in Hosted \ used :
         /\ used' = used \cup {r, i}
         /\ Saves([records EXCEPT ![r] = NewRuntime(i)], PullNow(p, "done", i))
         /\ Accounts({})
  ELSE /\ used' = used \cup {i}
       /\ Saves(records, PullNow(p, "done", i))
       /\ Accounts({})

WithStatus(i, status) == Patched(i, [catalog[i] EXCEPT !.status = status])

(* Nothing is fetched: a local path may not be there.                      *)
PullRecords(p, i, record) ==
  \/ PullOver(p, i, Patched(i, [record EXCEPT !.status = "ready"]))
  \/ /\ used' = used \cup {i}
     /\ Saves(Patched(i, [record EXCEPT !.status = "error"]), PullNow(p, "failed", i))
     /\ Accounts({})

ExistingPull(p, i) ==
  IF catalog[i].status = "ready"
  THEN IF p \in Creating THEN PullOver(p, i, catalog)
       ELSE pull' = PullNow(p, "done", i) /\ UNCHANGED <<process, catalog, shards, used, dropped, cut, crashes>>
  ELSE IF PulledSource[p] \in Recorded THEN PullRecords(p, i, catalog[i])
       ELSE Saves(catalog, PullNow(p, "fetching", i)) /\ UNCHANGED used /\ Accounts({})

NewPull(p, i) ==
  LET new == [status |-> "pulling", tagged |-> FALSE]
  IN IF PulledSource[p] \in Recorded THEN PullRecords(p, i, new)
     ELSE /\ catalog' = Patched(i, new) /\ pull' = PullNow(p, "fetching", i)
          /\ used' = used \cup {i}
          /\ UNCHANGED <<process, shards, dropped, cut, crashes>>

(* A record that is ready is not pulled again; one that is not keeps its   *)
(* status for now, and pulls of one source may overlap; a new record is    *)
(* not saved before something else is.                                     *)
PullBegins(p) ==
  /\ process = "up" /\ pull[p].stage = "idle"
  /\ Cardinality({q \in Pulls : pull[q].stage # "idle"}) < MaxPulls
  /\ LET ofSource == {i \in Artifacts : SourceOf[i] = PulledSource[p]}
     IN IF ofSource \cap Held(catalog) # {}
        THEN \E i \in ofSource \cap Held(catalog) : ExistingPull(p, i)
        ELSE \E i \in ofSource \ used : NewPull(p, i)
  /\ UNCHANGED <<older, file, opener, lost>>

(* What if the record of a pull that failed were left as it is?            *)
LeftAsItIs(i) == catalog

Failed(i) == WithStatus(i, "error")

(* A pull whose artifact was deleted meanwhile fails on it.                *)
PullFails(p) ==
  LET i == pull[p].id
  IN IF i \in Held(catalog)
     THEN Saves(Failed(i), PullNow(p, "failed", i)) /\ UNCHANGED used /\ Accounts({})
     ELSE pull' = PullNow(p, "failed", i) /\ UNCHANGED <<process, catalog, shards, used, dropped, cut, crashes>>

PullSucceeds(p) ==
  LET i == pull[p].id
  IN IF i \in Held(catalog) THEN PullOver(p, i, WithStatus(i, "ready")) ELSE PullFails(p)

(* What is fetched answers: Ollama has all of it then; a download opens    *)
(* its file, whose contents go, even if the artifact was deleted.          *)
FetchAnswers(p) ==
  /\ process = "up" /\ pull[p].stage = "fetching"
  /\ IF PulledSource[p] \in Downloaded
     THEN LET i == pull[p].id
          IN /\ pull' = PullNow(p, "writing", i)
             /\ file' = [file EXCEPT ![i] = "partial"]
             /\ opener' = [opener EXCEPT ![i] = p]
             /\ cut' = IF \E q \in Pulls : pull[q] = [stage |-> "writing", id |-> i] THEN cut \cup {i} ELSE cut
             /\ UNCHANGED <<process, catalog, shards, used, dropped, crashes>>
     ELSE PullSucceeds(p) /\ UNCHANGED <<file, opener>>
  /\ UNCHANGED <<older, lost>>

(* The last pull to open a file writes all of it, whoever else does.       *)
DownloadEnds(p) ==
  /\ process = "up" /\ pull[p].stage = "writing"
  /\ file' = IF opener[pull[p].id] = p THEN [file EXCEPT ![pull[p].id] = "whole"] ELSE file
  /\ PullSucceeds(p)
  /\ UNCHANGED <<older, opener, lost>>

FetchFails(p) ==
  /\ process = "up" /\ pull[p].stage \in {"fetching", "writing"}
  /\ PullFails(p)
  /\ UNCHANGED <<older, file, opener, lost>>

CatalogNext ==
  \/ Crash \/ Migrates \/ RemovesOlder \/ Loads
  \/ \E i \in CatalogIds : Tags(i)
  \/ \E r \in Hosted : DeleteRuntime(r) \/ \E i \in Artifacts : CreateRuntime(r, i)
  \/ \E i \in Artifacts : DeleteArtifact(i)
  \/ \E p \in Pulls : PullBegins(p) \/ FetchAnswers(p) \/ DownloadEnds(p) \/ FetchFails(p)

CatalogSpec == CatalogInit /\ [][CatalogNext]_catalogVars

-----------------------------------------------------------------------------
(* The store is what the memory is, but for records of pulls under way     *)
(* that nothing has saved yet.                                             *)
StoreTells ==
  process = "up" =>
    \A i \in CatalogIds :
      \/ shards[i] = catalog[i]
      \/ /\ shards[i] = Absent /\ i \in Artifacts /\ catalog[i].status = "pulling"
         /\ \E p \in Pulls : pull[p].id = i /\ pull[p].stage \in {"fetching", "writing"}

(* A record is in the catalogue, the store or the older catalogue unless   *)
(* its deletion was asked, it was never saved, or a crash tore its shard.  *)
NothingVanishes ==
  used \ (dropped \cup lost) \subseteq
    (IF process = "up" THEN Held(catalog)
     ELSE Held(shards) \cup {i \in CatalogIds : shards[i] = Torn}
          \cup (IF older = Absent THEN {} ELSE Held(older)))

(* A crash costs one record at most, and none that the older catalogue     *)
(* still holds.                                                            *)
OneRecordACrash ==
  Cardinality(lost \cup {i \in CatalogIds :
                shards[i] = Torn /\ (older # Absent => i \notin Held(older))}) <= crashes

(* A downloaded artifact that is ready is there as a whole, or a later     *)
(* pull is writing it again, unless a crash came or two pulls were writing *)
(* it at once: then what the one has still to write may not be enough.     *)
ReadyIsWhole ==
  process = "up" =>
    \A i \in Artifacts \cap Held(catalog) :
      SourceOf[i] \in Downloaded /\ catalog[i].status = "ready" /\ i \notin cut =>
        file[i] = "whole" \/ Writing(i)

(* What a restart and a caller find in the catalogue is what there is.     *)
CatalogSound == CatalogTypeOK /\ StoreTells /\ NothingVanishes /\ OneRecordACrash /\ ReadyIsWhole
=============================================================================

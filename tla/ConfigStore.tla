---------------------------- MODULE ConfigStore ----------------------------
(***************************************************************************)
(* ConfigStore (src/core/configStore.ts) with the handlers that change it  *)
(* (src/server/http.ts, adminModelProviders.ts), the history of business   *)
(* routings (src/routing/routingHistoryStore.ts, routingService.ts), the   *)
(* skills that follow it (src/playground/syncPlayground.ts), and the pages *)
(* that show it and save it (playground/script.js, config-panel.js).       *)
(*                                                                         *)
(* A configuration is reduced to what tells its sections apart: a section  *)
(* that the environment names (an upstream's key; database.ssl always is), *)
(* a routing with its version, and the playground's section: its skills,   *)
(* and by connector the secret in its headers.  A handler is one stretch   *)
(* of a process that may be killed, and whose writes may fail.  Files are  *)
(* written in place.                                                       *)
(***************************************************************************)
EXTENDS Naturals, Sequences, FiniteSets

CONSTANTS
  Connectors, Secrets,
  Redacted, Bare, Missing,    \* shown for a secret; no headers; no connector
  ConfigPages,                \* pages with the editor of the section
  HistoryMax,                 \* entries of the history that are kept
  Spoilt,                     \* a file that a write was cut in
  MaxSaves, LastSecond        \* bounds of the model

ASSUME ConfigAssumption ==
  /\ HistoryMax \in Nat \ {0}
  /\ {Redacted, Bare, Missing} \cap Secrets = {} /\ Redacted \notin {Bare, Missing}
  /\ Spoilt \notin Seq([version : Nat, content : Nat])

VARIABLES
  serving,      \* whether the gateway runs
  config,       \* configStore.get()
  configFile,   \* at persistPath: a configuration, Spoilt, or Blank
  routings,     \* the history file: entries, the newest first, or Spoilt
  registry,     \* the skills of the skill registry
  views,        \* by page: the section it shows, or Missing
  second,       \* the clock
  saves,        \* how many updates were asked for
  mishap,       \* history: a write failed or was cut
  outdated,     \* history: a page saved over what it had not seen
  typed         \* history, by connector: what the operators last made of it

configVars == <<serving, config, configFile, routings, registry, views, second, saves,
                mishap, outdated, typed>>
noted == <<second, saves, mishap, outdated, typed>>

Blank == [blank |-> TRUE]
Readable == configFile \notin {Blank, Spoilt}

DefaultConfig ==
  [setting |-> "default", routing |-> [version |-> 0, content |-> 0],
   skills |-> 0, secret |-> [c \in Connectors |-> Missing]]
SectionOf(cfg) == [skills |-> cfg.skills, secret |-> cfg.secret]

(* toPublicKgmConfig.                                                      *)
Public(section) ==
  [section EXCEPT !.secret = [c \in Connectors |->
     IF section.secret[c] \in Secrets THEN Redacted ELSE section.secret[c]]]

(* What if the placeholder of a connector that was deleted were kept?      *)
PlaceholderKept(base, patch) ==
  [c \in Connectors |->
     IF patch.secret[c] = Redacted /\ base.secret[c] \notin {Missing, Bare}
     THEN base.secret[c] ELSE patch.secret[c]]

(* mergePlaygroundConfig: the placeholder stands for what the connector of *)
(* that id had; one that had nothing loses the header.                     *)
Restored(base, patch) ==
  [c \in Connectors |->
     IF patch.secret[c] # Redacted THEN patch.secret[c]
     ELSE IF base.secret[c] \in {Missing, Bare} THEN Bare
     ELSE base.secret[c]]
Merged(base, patch) ==
  [setting |-> base.setting, routing |-> base.routing,
   skills |-> patch.skills, secret |-> Restored(base, patch)]

(* The constructor and reloadFromDisk: the defaults under the file; an     *)
(* empty file says nothing.                                                *)
Loaded(f) == IF f = Blank THEN DefaultConfig
             ELSE [f EXCEPT !.secret = Restored(DefaultConfig, f)]
UnderEnvironment(cfg) == [cfg EXCEPT !.setting = "env"]

(* RoutingHistoryStore: an unreadable history is an empty one.             *)
Entries == IF routings = Spoilt THEN <<>> ELSE routings

(* What if the history were full of what came first?                       *)
OldestKept(entry) == SubSeq(Entries \o <<entry>>, 1,
                          IF Len(Entries) < HistoryMax THEN Len(Entries) + 1 ELSE HistoryMax)

WithEntry(entry) == SubSeq(<<entry>> \o Entries, 1,
                          IF Len(Entries) < HistoryMax THEN Len(Entries) + 1 ELSE HistoryMax)
Has(version)  == \E n \in DOMAIN Entries : Entries[n].version = version
Found(version) == Entries[CHOOSE n \in DOMAIN Entries :
                            /\ Entries[n].version = version
                            /\ \A m \in 1..n - 1 : Entries[m].version # version]

(* A gateway that starts for the first time writes what it starts with;    *)
(* or the environment names a setting that an older file does not have.    *)
ConfigInit ==
  /\ serving = TRUE
  /\ config = UnderEnvironment(DefaultConfig)
  /\ configFile \in {config, DefaultConfig}
  /\ routings = <<>>
  /\ registry = config.skills
  /\ views = [p \in ConfigPages |-> Missing]
  /\ second = 1 /\ saves = 0
  /\ mishap = FALSE /\ outdated = FALSE
  /\ typed = config.secret

-----------------------------------------------------------------------------
(* update: the memory first, then the file.                                *)
Persisted(next) == config' = next /\ configFile' = next /\ UNCHANGED <<serving, mishap>>
Unwritten(next) ==
  /\ config' = next /\ configFile' \in {configFile, Spoilt}
  /\ mishap' = TRUE /\ UNCHANGED serving
Killed ==
  /\ configFile' \in {Blank, Spoilt} /\ serving' = FALSE
  /\ mishap' = TRUE /\ UNCHANGED config

Updates == serving /\ saves < MaxSaves /\ saves' = saves + 1 /\ UNCHANGED second

(* A handler that goes no further than its update.                         *)
StopsShort(next) == (Unwritten(next) \/ Killed) /\ UNCHANGED <<routings, registry, views>>

(* loadPlaygroundFromServer.                                               *)
PageLoads(p) ==
  /\ serving
  /\ views' = [views EXCEPT ![p] = Public(SectionOf(config))]
  /\ UNCHANGED <<serving, config, configFile, routings, registry, noted>>

(* What an operator makes of the text: one connector, or the skills.       *)
Edits(view) ==
  {[view EXCEPT !.secret[c] = s] : c \in Connectors, s \in Secrets \cup {Missing}}
    \cup {[view EXCEPT !.skills = 1 - @]}

(* savePlaygroundToServer and POST /v1/kgm/config.                         *)
PageSaves(p) ==
  /\ views[p] # Missing
  /\ \E text \in Edits(views[p]) :
    LET next == Merged(config, text)
    IN  /\ Updates
        /\ outdated' = (outdated \/ views[p] # Public(SectionOf(config)))
        /\ typed' = [c \in Connectors |->
                       IF text.secret[c] # views[p].secret[c] THEN text.secret[c] ELSE typed[c]]
        /\ \/ /\ Persisted(next)
              /\ registry' = next.skills
              /\ views' = [views EXCEPT ![p] = Public(SectionOf(next))]
              /\ UNCHANGED routings
           \/ StopsShort(next)

(* saveConfig of the config panel, with a key typed into its form.         *)
KeySaved ==
  LET next == [config EXCEPT !.setting = "typed"]
  IN  /\ Updates
      /\ \/ Persisted(next) /\ registry' = config.skills /\ UNCHANGED <<routings, views>>
         \/ StopsShort(next)
      /\ UNCHANGED <<outdated, typed>>

(* RoutingHistoryStore.record, after the update.                           *)
RecordedAs(entry) ==
  \/ routings' = WithEntry(entry) /\ UNCHANGED <<serving, mishap>>
  \/ routings' = routings        /\ mishap' = TRUE /\ UNCHANGED serving
  \/ routings' \in {routings, Spoilt} /\ mishap' = TRUE /\ serving' = FALSE

RoutingBecomes(routing) ==
  LET next == [config EXCEPT !.routing = routing]
  IN  /\ Updates
      /\ \/ /\ config' = next /\ configFile' = next
            /\ RecordedAs(routing)
            /\ UNCHANGED <<registry, views>>
         \/ StopsShort(next)
      /\ UNCHANGED <<outdated, typed>>

(* POST /v1/kgm/routing: a version of the second it came in, or, where the *)
(* caller sends a routing back that it had read, the version it has.       *)
PostRouting ==
  \E version \in {second, config.routing.version} :
    RoutingBecomes([version |-> version, content |-> saves + 1])

(* POST /v1/kgm/routing/rollback.                                          *)
Rollback ==
  \E version \in 0..LastSecond : Has(version) /\ RoutingBecomes(Found(version))

(* POST /v1/admin/reload; nothing happens where the file cannot be read.   *)
Reload ==
  /\ serving /\ Readable
  /\ config' = Loaded(configFile)
  /\ registry' = config'.skills
  /\ UNCHANGED <<serving, configFile, routings, views, noted>>

(* PUT /v1/admin/model-providers ends with a reload.                       *)
ProvidersSaved ==
  /\ serving /\ Readable
  /\ config' = Loaded(configFile)
  /\ UNCHANGED <<serving, configFile, routings, registry, views, noted>>

GatewayStops ==
  /\ serving /\ serving' = FALSE
  /\ UNCHANGED <<config, configFile, routings, registry, views, noted>>

(* main of server/start.ts: with a file that does not parse, it ends.      *)
GatewayStarts ==
  /\ ~serving /\ configFile # Spoilt
  /\ serving' = TRUE
  /\ config' = UnderEnvironment(Loaded(configFile))
  /\ registry' = config'.skills
  /\ UNCHANGED <<configFile, routings, views, noted>>

SecondPasses ==
  /\ second < LastSecond /\ second' = second + 1
  /\ UNCHANGED <<serving, config, configFile, routings, registry, views, saves, mishap, outdated, typed>>

ConfigNext ==
  \/ \E p \in ConfigPages : PageLoads(p) \/ PageSaves(p)
  \/ KeySaved \/ PostRouting \/ Rollback \/ Reload \/ ProvidersSaved
  \/ GatewayStops \/ GatewayStarts \/ SecondPasses

ConfigSpec == ConfigInit /\ [][ConfigNext]_configVars

-----------------------------------------------------------------------------
(* The placeholder is never kept for a secret (as configStore.ts:1022 says)*)
(* whatever pages save over each other and whatever files lose.            *)
PlaceholderIsNoSecret ==
  /\ \A c \in Connectors : config.secret[c] # Redacted
  /\ Readable => \A c \in Connectors : configFile.secret[c] # Redacted

(* A connector has the secret that was last typed for it: saving a page    *)
(* that shows no secrets, reloads and restarts change none, while nobody   *)
(* saves over what they have not seen and every write is whole.            *)
SecretsKept == ~mishap /\ ~outdated => config.secret = typed

(* A roll-back to the version in effect changes nothing: the history finds *)
(* what is in effect first, where two updates share a version too.         *)
EffectIsOnRecord ==
  ~mishap /\ routings # <<>> =>
    Has(config.routing.version) /\ Found(config.routing.version) = config.routing

(* A restart finds what was acknowledged, and the skills are those of the  *)
(* configuration, whichever way it changed.                                *)
FileIsCurrent ==
  ~mishap => [config EXCEPT !.setting = "any"] = [configFile EXCEPT !.setting = "any"]
RegistryFollows == ~mishap => registry = config.skills

(* What the environment, or an operator, set is not lost once it was saved.*)
SettingKept ==
  serving /\ Readable /\ configFile.setting # "default" => config.setting # "default"

ConfigSound ==
  /\ PlaceholderIsNoSecret /\ SecretsKept
  /\ EffectIsOnRecord /\ FileIsCurrent /\ RegistryFollows /\ SettingKept

=============================================================================

---------------------------- MODULE StreamFailover ----------------------------
(***************************************************************************)
(* One request through src/llm/autoRoutingClient.ts: the choice of a       *)
(* candidate model, its execution, plain (complete) or streamed            *)
(* (streamComplete), the failover chain of src/llm/routingFailure.ts and   *)
(* the audit entries that meter the request.                               *)
(*                                                                         *)
(* Upstreams answer as they like.  A candidate is its model, named by the  *)
(* catalogue entry its id is an alias of, its provider and whether it is   *)
(* the configured default; scores appear only as the order of the list.    *)
(***************************************************************************)
EXTENDS Naturals, SequencesExt

CONSTANTS
  Models,
  Providers,
  MaxCandidates   \* bound on the candidates buildCandidates finds

ASSUME CandidatesAssumption == MaxCandidates \in Nat \ {0}

None == "none"
ASSUME NamesAssumption == None \notin Models \cup Providers

(* The failures the chain tells apart.  "unavailable" is ordered as        *)
(* "rate_limit", "content_policy" as "payment", an unsupported model as    *)
(* "retryable"; "client" is a plain HTTP 400.                              *)
Failures == {"auth", "client", "rate_limit", "payment", "context_window", "retryable"}

VARIABLES
  kind,       \* "complete" or "stream"
  requested,  \* options.model, None when absent or "auto"
  list,       \* selection.candidates, best score first
  tried,      \* the candidates executed so far; the last one is executing
  chain,      \* the fallback candidates left
  failure,    \* history: how the selected candidate failed, None if it did not
  stage,      \* "idle", then the loop it is in, then how the request ended
  started,    \* emittedStarted, or fallbackStarted of the current candidate
  spoke,      \* history: keys of the candidates whose tokens the client got
  audits,     \* recordAudit calls
  unwritten   \* history: has the audit file refused a write?

failoverVars == <<kind, requested, list, tried, chain, failure,
                  stage, started, spoke, audits, unwritten>>

Candidates == [key: 0..MaxCandidates, model: Models,
               provider: Providers \cup {None}, default: BOOLEAN]

FailoverTypeOK ==
  /\ kind \in {"complete", "stream"}
  /\ requested \in Models \cup {None}
  /\ list \in Seq(Candidates) /\ Len(list) <= MaxCandidates + 1
  /\ tried \in Seq(Candidates) /\ Len(tried) <= 4
  /\ chain \in Seq(Candidates) /\ Len(chain) <= 3
  /\ failure \in Failures \cup {None}
  /\ stage \in {"idle", "first", "fallback", "returned", "threw", "left"}
  /\ started \in BOOLEAN
  /\ spoke \subseteq 0..MaxCandidates
  /\ audits \in Seq([by: 0..MaxCandidates, success: BOOLEAN])
  /\ unwritten \in BOOLEAN

(* What buildCandidates returns: distinct route keys in score order, the   *)
(* default among them; a managed runtime may have no provider name.        *)
Listed(n, model, provider, d) ==
  [i \in 1..n |-> [key |-> i, model |-> model[i], provider |-> provider[i], default |-> i = d]]

ListsOf(n) ==
  {Listed(n, choice[1], choice[2], choice[3]) : choice \in
     {c \in [1..n -> Models] \X [1..n -> Providers \cup {None}] \X (1..n) : c[2][c[3]] # None}}

Lists == UNION {ListsOf(n) : n \in 1..MaxCandidates}

FailoverInit ==
  /\ kind = "complete" /\ requested = None /\ list = <<>>
  /\ tried = <<>> /\ chain = <<>> /\ failure = None
  /\ stage = "idle" /\ started = FALSE /\ spoke = {} /\ audits = <<>> /\ unwritten = FALSE

Selected == tried[1]
Current  == Last(tried)
Active   == stage \in {"first", "fallback"}

-----------------------------------------------------------------------------
(* Selection                                                               *)

Matches(candidate, target) ==
  /\ target.model \in {None, candidate.model}
  /\ target.provider \in {None, candidate.provider}

Matching(candidates, target) == {i \in DOMAIN candidates : Matches(candidates[i], target)}

(* selectByTarget: the best candidate that matches.                        *)
SelectByTarget(candidates, target) ==
  LET matching == Matching(candidates, target)
  IN candidates[CHOOSE i \in matching : \A j \in matching : i <= j]

DefaultOf(candidates) ==
  candidates[CHOOSE i \in DOMAIN candidates : candidates[i].default]

(* createDirectTargetCandidate: the default's endpoint under another name. *)
DirectTarget(candidates, target) ==
  LET fallback == DefaultOf(candidates)
  IN [key |-> 0, default |-> TRUE,
      model |-> IF target.model = None THEN fallback.model ELSE target.model,
      provider |-> IF target.provider = None THEN fallback.provider ELSE target.provider]

Begin(how, model, candidates, selected) ==
  /\ kind' = how
  /\ requested' = model
  /\ list' = candidates
  /\ tried' = <<selected>>
  /\ stage' = "first"
  /\ UNCHANGED <<chain, failure, started, spoke, audits, unwritten>>

Targets == [model: Models \cup {None}, provider: Providers \cup {None}]
             \ {[model |-> None, provider |-> None]}

(* A request that names its model, or hints at a target in its routing     *)
(* options; only the former is what the failover is later told.            *)
SelectTarget(how, candidates, target, model) ==
  /\ model = target.model \/ model = None
  /\ model # None => target.provider = None
  /\ IF Matching(candidates, target) # {}
     THEN Begin(how, model, candidates, SelectByTarget(candidates, target))
     ELSE LET direct == DirectTarget(candidates, target)
          IN Begin(how, model, <<direct>> \o candidates, direct)

(* No target: a task route's target if some candidate matches it, the best *)
(* score under dynamic selection, the default otherwise.                   *)
SelectFreely(how, candidates) ==
  \E selected \in {Head(candidates), DefaultOf(candidates)} \cup
       {SelectByTarget(candidates, target) : target \in
          {t \in Targets : Matching(candidates, t) # {}}} :
    Begin(how, None, candidates, selected)

-----------------------------------------------------------------------------
(* The failover chain                                                      *)

(* What if the pin were forgotten, or the failed candidate kept?           *)
UnpinnedReplaces(candidate, failed) == candidate.key # failed.key
FailedReplaces(candidate, failed) == requested \in {None, candidate.model}

MayReplace(candidate, failed) ==
  /\ candidate.key # failed.key
  /\ requested \in {None, candidate.model}

SameModel(candidate, failed) == candidate.model = failed.model
SameProvider(candidate, failed) ==
  candidate.provider # None /\ candidate.provider = failed.provider

(* What if every retryable failure were answered alike?                    *)
SuitsAlike(candidate, failed, how) == how \notin {"auth", "client"}

(* Whom a failure of this class leaves: another provider after an unpaid   *)
(* account, another model after a full context window.                     *)
Suits(candidate, failed, how) ==
  \/ how \in {"rate_limit", "retryable"}
  \/ how = "payment" /\ ~SameProvider(candidate, failed)
  \/ how = "context_window" /\ ~SameModel(candidate, failed)

(* Positions in the list, which is in the order of the scores; after a     *)
(* rate limit those of the same model come first.                          *)
Others(failed, how) ==
  {i \in DOMAIN list : MayReplace(list[i], failed) /\ Suits(list[i], failed, how)}

Before(i, j, failed, how) ==
  IF how = "rate_limit" /\ SameModel(list[i], failed) # SameModel(list[j], failed)
  THEN SameModel(list[i], failed)
  ELSE i < j

First(S, failed, how) == {i \in S : \A j \in S \ {i} : Before(i, j, failed, how)}

Picked(S) == IF S = {} THEN <<>> ELSE <<list[CHOOSE i \in S : TRUE]>>

(* What if the default were cut off by its score, or three others kept?    *)
DefaultByScore(failed, how) ==
  LET others == Others(failed, how)
      first  == First(others, failed, how)
      second == First(others \ first, failed, how)
  IN Picked(first) \o Picked(second) \o Picked(First((others \ first) \ second, failed, how))
LongerChain(failed, how) ==
  LET others == Others(failed, how)
      plain  == {i \in others : ~list[i].default}
      first  == First(plain, failed, how)
      second == First(plain \ first, failed, how)
  IN Picked(first) \o Picked(second) \o Picked(First((plain \ first) \ second, failed, how))
       \o Picked(First(others \ plain, failed, how))

(* orderFailoverCandidates: two others at most, then the default.          *)
FailoverChain(failed, how) ==
  LET others == Others(failed, how)
      plain  == {i \in others : ~list[i].default}
      first  == First(plain, failed, how)
  IN Picked(first) \o Picked(First(plain \ first, failed, how))
       \o Picked(First(others \ plain, failed, how))

-----------------------------------------------------------------------------
(* Execution                                                               *)

(* A stream's "started" event, sent to the client once per candidate.      *)
Announce ==
  /\ Active /\ kind = "stream" /\ ~started
  /\ started' = TRUE
  /\ UNCHANGED <<kind, requested, list, tried, chain, failure, stage, spoke, audits, unwritten>>

(* A candidate's first token; it announces the stream if nothing has.      *)
Token ==
  /\ Active /\ kind = "stream" /\ Current.key \notin spoke
  /\ started' = TRUE
  /\ spoke' = spoke \cup {Current.key}
  /\ UNCHANGED <<kind, requested, list, tried, chain, failure, stage, audits, unwritten>>

(* What if a fallback's answer were metered on the selected candidate?     *)
MeteredOnSelected(candidate, success) ==
  Append(audits, [by |-> Selected.key, success |-> success])

Metered(candidate, success) ==
  Append(audits, [by |-> candidate.key, success |-> success])

(* The next candidate takes over.                                          *)
FallBack(candidates, entries) ==
  /\ tried' = Append(tried, Head(candidates))
  /\ chain' = Tail(candidates)
  /\ stage' = "fallback"
  /\ started' = FALSE
  /\ audits' = entries

(* Nobody is left: the request is metered as a failure of the selected     *)
(* candidate and the last error is thrown.                                 *)
GiveUp(announced, entries) ==
  /\ stage' = "threw"
  /\ audits' = Append(entries, [by |-> Selected.key, success |-> FALSE])
  /\ started' = announced
  /\ UNCHANGED <<tried, chain>>

(* What if a stream did not look at what its client was sent?              *)
FailoverAnyTime(announced) == TRUE

(* The first candidate's failure orders the chain; a stream that began     *)
(* must not change candidates.                                             *)
MayFailover(announced) == kind = "complete" \/ ~announced

(* The current candidate fails, having sent what "announced" says, with    *)
(* these audit entries made.                                               *)
Failed(how, announced, entries) ==
  /\ failure' = IF stage = "first" THEN how ELSE failure
  /\ LET candidates == IF stage = "fallback" THEN chain
                       ELSE IF MayFailover(announced) THEN FailoverChain(Current, how)
                       ELSE <<>>
     IN \/ candidates # <<>> /\ FallBack(candidates, entries)
        \/ candidates = <<>> /\ GiveUp(announced, entries)
  /\ UNCHANGED <<kind, requested, list, spoke>>

CandidateFails(how) ==
  /\ Active
  /\ Failed(how, started, audits)
  /\ UNCHANGED unwritten

(* wrapResult meters the success, then the result is returned, or yielded  *)
(* as the "finished" event of a stream.                                    *)
Answers ==
  /\ Active
  /\ stage' = "returned"
  /\ started' = (kind = "stream")
  /\ audits' = Metered(Current, TRUE)
  /\ UNCHANGED <<kind, requested, list, tried, chain, failure, spoke, unwritten>>

(* The audit file cannot be written: the entry is in the store, wrapResult *)
(* throws, and the catch treats the answer as the candidate's failure.     *)
AnswerUnwritten ==
  /\ Active
  /\ unwritten' = TRUE
  /\ Failed("retryable", kind = "stream", Metered(Current, TRUE))

(* The client closes the stream at an event it was sent.                   *)
ClientLeaves ==
  /\ Active /\ started
  /\ stage' = "left"
  /\ UNCHANGED <<kind, requested, list, tried, chain, failure, started, spoke, audits, unwritten>>

Select ==
  /\ stage = "idle"
  /\ \E how \in {"complete", "stream"}, candidates \in Lists :
       \/ SelectFreely(how, candidates)
       \/ \E target \in Targets, model \in Models \cup {None} :
            SelectTarget(how, candidates, target, model)

FailoverNext ==
  \/ Select
  \/ Announce
  \/ Token
  \/ \E how \in Failures : CandidateFails(how)
  \/ Answers
  \/ AnswerUnwritten
  \/ ClientLeaves

FailoverSpec == FailoverInit /\ [][FailoverNext]_failoverVars

-----------------------------------------------------------------------------
(* Properties                                                              *)

Replaced == 2..Len(tried)

(* A request that names a model is only ever served by that model, however *)
(* it was selected and whoever failed: usage is charged to model accounts. *)
PinKept == requested # None => \A i \in DOMAIN tried : tried[i].model = requested

(* No candidate is executed a second time for the same request: the prompt *)
(* would be paid for twice.                                                *)
NoCandidateTwice == \A i, j \in DOMAIN tried : tried[i].key = tried[j].key => i = j

(* The selected candidate is given up for another one only while the       *)
(* client of the stream has none of its tokens.                            *)
ReplacedBeforeToken == Len(tried) > 1 => Selected.key \notin spoke

(* Who follows a failed candidate suits its failure: nobody after a refused *)
(* key or request, another provider after an unpaid account, another model *)
(* after a full context window, the same model first after a rate limit.   *)
FollowersSuitFailure ==
  Replaced # {} =>
    CASE failure \in {"auth", "client"} -> FALSE
      [] failure = "payment" -> \A i \in Replaced : ~SameProvider(tried[i], Selected)
      [] failure = "context_window" -> \A i \in Replaced : ~SameModel(tried[i], Selected)
      [] failure = "rate_limit" ->
           \A i, j \in Replaced :
             i < j /\ SameModel(tried[j], Selected) /\ ~tried[j].default
               => SameModel(tried[i], Selected)
      [] OTHER -> TRUE

(* A plain request without a model of its own that met only outages is not *)
(* refused before the configured default was tried, however many           *)
(* candidates score above it; a direct target (key 0) is not the default.  *)
DefaultIsTheNet ==
  (/\ stage = "threw" /\ kind = "complete" /\ requested = None
   /\ failure \in {"rate_limit", "retryable"})
    => \E i \in DOMAIN tried : tried[i].default /\ tried[i].key # 0

(* Whoever follows in the chain is there once, suits the failure, and is   *)
(* the default at the latest.                                              *)
ChainSound == NoCandidateTwice /\ FollowersSuitFailure /\ DefaultIsTheNet

(* The audit, which budgets and candidate statistics are computed from,    *)
(* tells what the client saw: one success of the candidate that answered,  *)
(* one failure of the selected one, nothing while the request is open or   *)
(* when its client left.  It needs an audit file that takes its writes.    *)
AuditTellsOutcome ==
  ~unwritten =>
    audits = CASE stage = "returned" -> <<[by |-> Current.key, success |-> TRUE]>>
               [] stage = "threw" -> <<[by |-> Selected.key, success |-> FALSE]>>
               [] OTHER -> <<>>

(* Refuted.  The comment above the fallback loop of streamComplete: it      *)
(* fails over only while no token has been delivered to the client, so a   *)
(* client never gets tokens of two candidates in one answer.               *)
OneVoice == \A i, j \in spoke : i = j
=============================================================================

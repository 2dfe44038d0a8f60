--------------------------- MODULE NativeKvBudget ---------------------------
(***************************************************************************)
(* The prompt cache and the session cache of the in-process engine         *)
(* (src/native/backend.ts): snapshots of prefilled prompts, kept within a  *)
(* number of entries each and a number of KV pages together.               *)
(*                                                                         *)
(* lastTouched grows with every use, so only the order of the entries by   *)
(* it matters: recency lists them, the one touched last at the end.        *)
(***************************************************************************)
EXTENDS Naturals, FiniteSets, SequencesExt, Places

CONSTANTS
  Prompts,
  Sessions,
  PagesOf,            \* pages of each prompt's snapshot
  Extends,            \* <<p, q>>: the tokens of p begin those of q
  PromptCacheLimit, SessionCacheLimit,
  KvPageBudget,       \* cachedKvPageBudget
  NoSession

ASSUME KvBudgetAssumption ==
  /\ IsFiniteSet(Prompts) /\ IsFiniteSet(Sessions)
  /\ PagesOf \in [Prompts -> Nat]
  /\ Extends \subseteq Prompts \X Prompts /\ \A p \in Prompts : <<p, p>> \in Extends
  /\ {PromptCacheLimit, SessionCacheLimit, KvPageBudget} \subseteq Nat \ {0}
  /\ NoSession \notin Sessions

VARIABLES
  recency,        \* entries of both caches, oldest touch first
  residentPages,  \* cachedKvResidentPages
  source          \* cacheSource of the last prefill

budgetVars == <<recency, residentPages, source>>

Entry == [session : Sessions \cup {NoSession}, prompt : Prompts]

BudgetTypeOK ==
  /\ recency \in Seq(Entry)
  /\ residentPages \in Nat
  /\ source \in {"cold", "prompt-cache", "session-prefix"}

BudgetInit == recency = <<>> /\ residentPages = 0 /\ source = "cold"

Kind(e) == IF e.session = NoSession THEN "prompt" ELSE "session"

Pages0(entries)      == Cardinality(UNION {{e} \X (1..PagesOf[e.prompt]) : e \in entries})
OfKind(list, kind)   == {e \in ToSet(list) : Kind(e) = kind}
OldestEntries(list, n)      == {list[k] : k \in 1..n}
OldestOf(list, kind) == list[Min({k \in DOMAIN list : Kind(list[k]) = kind})]

-----------------------------------------------------------------------------
Touched(list, e) == Append(RemoveFirst(list, e), e)

(* A cache as it stands between two calls: its entries and its page count. *)
Cache(list, pages) == [list |-> list, pages |-> pages]

Without(cache, gone) ==
  Cache(AtPlaces(cache.list, {k \in DOMAIN cache.list : cache.list[k] \notin gone}),
        cache.pages - Pages0(gone))

(* What if a cache could hold one entry more?                              *)
OneOver(cache, kind, limit) ==
  IF Cardinality(OfKind(cache.list, kind)) > limit + 1
  THEN Without(cache, {OldestOf(cache.list, kind)}) ELSE cache

(* enforcePromptCacheLimit, enforceSessionCacheLimit: one call adds one    *)
(* entry, so at most one is over.                                          *)
WithinLimit(cache, kind, limit) ==
  IF Cardinality(OfKind(cache.list, kind)) > limit
  THEN Without(cache, {OldestOf(cache.list, kind)}) ELSE cache

(* What if the newest entry went first?                                    *)
NewestFirst(cache) ==
  LET n == Min({k \in 0..Len(cache.list) :
                  Pages0(OldestEntries(cache.list, Len(cache.list) - k)) <= KvPageBudget})
  IN  Without(cache, {cache.list[k] : k \in Len(cache.list) - n + 1..Len(cache.list)})

(* enforceCachedKvBudget: the oldest of both caches go until the counter   *)
(* is within the budget or nothing is left.                                *)
WithinBudget(cache) ==
  LET n == Min({k \in 0..Len(cache.list) :
                  \/ k = Len(cache.list)
                  \/ cache.pages - Pages0(OldestEntries(cache.list, k)) <= KvPageBudget})
  IN  Without(cache, OldestEntries(cache.list, n))

OfSession(cache, e) == {k \in ToSet(cache.list) : k.session = e.session}

(* What if an entry that is replaced were counted on?                      *)
StillCounted(cache, e) == Cache(Without(cache, OfSession(cache, e)).list, cache.pages)

(* setSessionCache takes the pages of the entry it replaces off first.     *)
Replaced(cache, e) == Without(cache, OfSession(cache, e))

Put(cache, e, limit) ==
  WithinBudget(WithinLimit(Cache(Append(cache.list, e), cache.pages + PagesOf[e.prompt]),
                           Kind(e), limit))

SetPromptCache(cache, e)  == Put(cache, e, PromptCacheLimit)
SetSessionCache(cache, e) == Put(Replaced(cache, e), e, SessionCacheLimit)

(* prepareRequestState for prompt p of session s.                          *)
Prefill(p, s) ==
  LET now  == Cache(recency, residentPages)
      asPrompt  == [session |-> NoSession, prompt |-> p]
      asSession == [session |-> s, prompt |-> p]
      prefix == {e \in ToSet(recency) : s # NoSession /\ e.session = s /\ <<e.prompt, p>> \in Extends}
      looked == IF asPrompt \in ToSet(recency) THEN Cache(Touched(recency, asPrompt), residentPages)
                ELSE IF prefix # {} THEN Cache(Touched(recency, CHOOSE e \in prefix : TRUE), residentPages)
                ELSE now
      stored == IF asPrompt \in ToSet(recency) THEN looked ELSE SetPromptCache(looked, asPrompt)
      after  == IF s = NoSession THEN stored ELSE SetSessionCache(stored, asSession)
  IN /\ recency' = after.list
     /\ residentPages' = after.pages
     /\ source' = IF asPrompt \in ToSet(recency) THEN "prompt-cache"
                  ELSE IF prefix # {} THEN "session-prefix" ELSE "cold"

BudgetNext == \E p \in Prompts, s \in Sessions \cup {NoSession} : Prefill(p, s)

BudgetSpec == BudgetInit /\ [][BudgetNext]_budgetVars

-----------------------------------------------------------------------------
(* The page counter is the sum over the entries of both caches and within  *)
(* the budget, through replacements and evictions of either cache.         *)
PagesAccounted == residentPages = Pages0(ToSet(recency)) /\ residentPages <= KvPageBudget

(* Each cache holds an entry once and no more than its limit.              *)
CachesWithinLimits ==
  /\ Cardinality(ToSet(recency)) = Len(recency)
  /\ Cardinality(OfKind(recency, "prompt")) <= PromptCacheLimit
  /\ Cardinality(OfKind(recency, "session")) <= SessionCacheLimit

(* Both caches keep to their own limits and to the budget they share.      *)
CachesSound == BudgetTypeOK /\ PagesAccounted /\ CachesWithinLimits

(* What was used last is what the next turn of a session finds: a cold     *)
(* prefill that fits leaves something new, and no prompt goes before one   *)
(* that was used earlier.                                                  *)
OldestGoes ==
  [][/\ source' = "cold" /\ (\A p \in Prompts : PagesOf[p] <= KvPageBudget)
          => ToSet(recency') \ ToSet(recency) # {}
     /\ \A i, j \in DOMAIN recency :
          /\ i < j /\ Kind(recency[i]) = "prompt" /\ Kind(recency[j]) = "prompt"
          /\ recency[j] \notin ToSet(recency')
          => recency[i] \notin ToSet(recency') \/ Last(recency').prompt = recency[i].prompt]_budgetVars
=============================================================================

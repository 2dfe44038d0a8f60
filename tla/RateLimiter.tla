----------------------------- MODULE RateLimiter -----------------------------
(***************************************************************************)
(* The sliding window of src/server/httpAccess.ts: for every identity the  *)
(* times at which it was let through, cleaned up when it asks again and by *)
(* a sweep that every so many calls of allow make.  Time is abstract, and  *)
(* LastTime bounds a behaviour.  A timestamp is told from others of its    *)
(* time by the place in the list it was pushed to; the list is in order.   *)
(***************************************************************************)
EXTENDS Integers, FiniteSets, FiniteSetsExt

CONSTANTS
  Identities,
  RateMax, Window,    \* config.rateLimit
  SweepEvery,         \* 64 in the code
  LastTime

ASSUME LimiterAssumption ==
  /\ {RateMax, Window, SweepEvery} \subseteq Nat \ {0}
  /\ LastTime \in Nat

VARIABLES
  now,
  stamps,        \* timestamps of each identity, {} without an entry
  opsSinceSweep,
  grants,        \* history: the timestamps of all that each was let through for
  verdict        \* the answer of the last allow

limiterVars == <<now, stamps, opsSinceSweep, grants, verdict>>

Times   == 0..LastTime
Stamps  == Times \X (0..RateMax - 1)
Verdict == [who : Identities, ok : BOOLEAN, retryAt : Int]

LimiterTypeOK ==
  /\ now \in Times
  /\ stamps \in [Identities -> SUBSET Stamps]
  /\ opsSinceSweep \in 0..SweepEvery - 1
  /\ grants \in [Identities -> SUBSET Stamps]
  /\ verdict = <<>> \/ verdict \in Verdict

LimiterInit ==
  /\ now = 0
  /\ stamps = [i \in Identities |-> {}]
  /\ opsSinceSweep = 0
  /\ grants = [i \in Identities |-> {}]
  /\ verdict = <<>>

-----------------------------------------------------------------------------
(* What if an entry that is exactly one window old still counted?          *)
OneLonger(list) == {e \in list : e[1] >= now - Window}

(* What if the window were one short?                                      *)
OneShorter(list) == {e \in list : e[1] > now - Window + 1}

InWindow(list) == {e \in list : e[1] > now - Window}

Oldest(list) == Min({e[1] : e \in list})

(* allow, with the sweep it may make first.                                *)
Allow(i) ==
  LET mine   == InWindow(stamps[i])
      pushed == <<now, Cardinality(mine)>>
      swept  == opsSinceSweep + 1 >= SweepEvery
      others == IF swept THEN [k \in Identities |-> InWindow(stamps[k])] ELSE stamps
  IN
  /\ opsSinceSweep' = IF swept THEN 0 ELSE opsSinceSweep + 1
  /\ IF Cardinality(mine) >= RateMax
     THEN /\ stamps' = [others EXCEPT ![i] = mine]
          /\ verdict' = [who |-> i, ok |-> FALSE, retryAt |-> Oldest(mine) + Window]
          /\ UNCHANGED grants
     ELSE /\ stamps' = [others EXCEPT ![i] = mine \cup {pushed}]
          /\ verdict' = [who |-> i, ok |-> TRUE, retryAt |-> now]
          /\ grants' = [grants EXCEPT ![i] = @ \cup {pushed}]
  /\ UNCHANGED now

LimiterTick ==
  /\ now < LastTime
  /\ now' = now + 1
  /\ UNCHANGED <<stamps, opsSinceSweep, grants, verdict>>

LimiterNext == LimiterTick \/ \E i \in Identities : Allow(i)

LimiterSpec == LimiterInit /\ [][LimiterNext]_limiterVars

-----------------------------------------------------------------------------
(* How often i was let through in the window that ends at t.               *)
GrantedBefore(i, t) == Cardinality({e \in grants[i] : e[1] > t - Window /\ e[1] <= t})

(* In no window, wherever it starts, is anybody let through more often     *)
(* than RateMax, whatever sweeps made of the entries meanwhile.            *)
WindowKept == \A i \in Identities, t \in Times : GrantedBefore(i, t) <= RateMax

(* A refusal was due: the window that ends now is full.  And retryAfter    *)
(* is honest: at that time it will have room again.                        *)
RefusalIsDue ==
  [][opsSinceSweep' # opsSinceSweep /\ ~verdict'.ok
       => /\ GrantedBefore(verdict'.who, now) = RateMax
          /\ GrantedBefore(verdict'.who, verdict'.retryAt) < RateMax]_limiterVars
=============================================================================

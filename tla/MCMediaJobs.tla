---------------------------- MODULE MCMediaJobs ----------------------------
(* Instances of MediaJobs for TLC: two providers, of which "wan" is polled *)
(* inline and may run two jobs while "sora" is not and may run one.        *)
EXTENDS MediaJobs, TLC

MCProviders == {"sora", "wan"}
MCInline    == {"wan"}
MCLimit     == [p \in MCProviders |-> IF p = "wan" THEN 2 ELSE 1]
SymJobs     == Permutations(Jobs)
=============================================================================

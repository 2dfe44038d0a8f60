-------------------------- MODULE MCStreamFailover --------------------------
(* StreamFailover with interchangeable models and providers.               *)
EXTENDS StreamFailover, TLC

CONSTANTS m1, m2, p1, p2

TwoModels    == {m1, m2}
TwoProviders == {p1, p2}
SymNames     == Permutations(TwoModels) \cup Permutations(TwoProviders)
=============================================================================

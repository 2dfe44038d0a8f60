------------------------- MODULE MCWorkerLifecycle -------------------------
(* WorkerLifecycle with three interchangeable process ids.                 *)
EXTENDS WorkerLifecycle, TLC

CONSTANTS w1, w2, w3

ThreeWorkers == {w1, w2, w3}
TwoWorkers   == {w1, w2}
SymWorkers   == Permutations(ThreeWorkers)
=============================================================================

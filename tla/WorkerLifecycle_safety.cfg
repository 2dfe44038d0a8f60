SPECIFICATION Spec
CONSTANTS
  w1 = w1
  w2 = w2
  w3 = w3
  Children <- ThreeWorkers
  MaxAttempts = 2
SYMMETRY SymWorkers
INVARIANTS TypeOK TimerSound MappedIsWatched OneWorker StopIsFinal
CHECK_DEADLOCK FALSE

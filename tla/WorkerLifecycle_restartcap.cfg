SPECIFICATION Spec
CONSTANTS
  w1 = w1
  w2 = w2
  w3 = w3
  Children <- TwoWorkers
  MaxAttempts = 2
INVARIANTS RestartsCapped
CHECK_DEADLOCK FALSE

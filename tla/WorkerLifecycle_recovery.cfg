SPECIFICATION SteadySpec
CONSTANTS
  w1 = w1
  w2 = w2
  w3 = w3
  Children <- TwoWorkers
  MaxAttempts = 2
PROPERTIES RestartIsTried StoppedWorkerGoes
CHECK_DEADLOCK FALSE

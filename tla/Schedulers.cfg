SPECIFICATION SchedulersSpec
CONSTANTS
  j1 = j1
  j2 = j2
  j3 = j3
  j4 = j4
  BatchJobs = {j1, j2, j3, j4}
  BatchIds = {"a", "b", "c"}
  IdOf <- MCIdOf
  PriorityOf <- MCPriorityOf
  Concurrencies = {1, 2}
  MaxQueueLength = 2
  Coalesces = TRUE
  r1 = r1
  r2 = r2
  Inferences = {r1, r2}
  LengthOf <- MCLengthOf
  MaxBatchSize = 2
  MaxQueueSize = 1
  MaxTokens = 2
  MaxDecodeSteps = 2
  Loops = {1, 2}
  n1 = n1
  n2 = n2
  n3 = n3
  Completions = {n1, n2, n3}
  RequestIds = {1, 2, 3}
  RequestIdChoices <- MCRequestIds
  SchedulerBatch = 2
  PrefillsPerTick = 2
  TokenLimit = 2
  t1 = t1
  t2 = t2
  t3 = t3
  Tasks = {t1, t2, t3}
  UrgencyOf <- MCUrgencyOf
  QueueSize = 2
  PoolSizes <- MCPoolSizes
  Resizes = 1
  MaxImmediates = 1
  Nothing = Nothing
  x1 = x1
  x2 = x2
  x3 = x3
  x4 = x4
  x5 = x5
  P1 = P1
  P2 = P2
  P3 = P3
  Plans = {P1, P2, P3}
  Calls = {x1, x2, x3, x4, x5}
  PlanOf <- MCPlanOf
  DependsOn <- MCDependsOn
  Keys = {1, 2}
  KeyOf <- MCKeyOf
  Registered = {x1, x2, x3, x5}
  MaxConcurrency = 1
  MaxAttempts = 2
  CacheSize = 1
  g1 = g1
  g2 = g2
  GridTasks = {g1, g2}
  UrgencyRank <- MCUrgencyRank
  GridNodes = {1}
  OwnNode = 1
  Nowhere = 0
  GridQueueSize = 1
  RetryLimit = 2
  PerNode = 1
  MaxLeaves = 1
  i1 = i1
  s1 = s1
  w1 = w1
  k1 = k1
  Cores = {1, 2}
  Inferring = {i1}
  Streaming = {s1}
  Switching = {w1}
  Stopping = {k1}
  StreamTokens = 2
  NoCore = 0
  Offered = {"tb"}
  Executable = {}
  Skills = {"sk"}
  ExecutesCalls = TRUE
  MaxHeard = 3
  CallIndices = {0, 1}
  MaxFrames = 4
  d1 = d1
  d2 = d2
  m1 = m1
  m2 = m2
  Runs <- MCRuns
  Teams = {m1, m2}
  Alone = {m2}
  MaxHops <- MCHops
  Allowed = {"ta"}
  Forbidden = {"tf"}
  MaxRounds <- MCRounds
  HasSkills = FALSE
  HasMemory = TRUE
  Runtimes = {"u1", "u2"}
  NoRuntime = "none"
INVARIANTS
  BatchersSound
  ToolsSound
  CoreSound
  StreamsSound
  AgentsSound
PROPERTIES
  StartsByPriority
  ImplementsRounds
  WorkEnds
CHECK_DEADLOCK FALSE

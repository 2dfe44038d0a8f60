SPECIFICATION ResourcesSpec
CONSTANTS
  KvRequests = {1, 2}
  Pages = 2
  MaxBlocks = 2
  MaxDrawn = 4
  MaxRefs = 3
  Nobody = Nobody
  m1 = m1
  m2 = m2
  m3 = m3
  Models = {m1, m2, m3}
  SwapCalls = {1, 2}
  MaxLoadedModels = 2
  NoModel = NoModel
  p1 = p1
  p2 = p2
  p3 = p3
  p4 = p4
  Prompts = {p1, p2, p3, p4}
  Sessions = {1, 2}
  PagesOf <- MCPagesOf
  Extends <- MCExtends
  PromptCacheLimit = 3
  SessionCacheLimit = 1
  KvPageBudget = 6
  NoSession = NoSession
  h1 = h1
  h2 = h2
  h3 = h3
  h4 = h4
  v1 = v1
  HttpRequests = {h1, h2, h3, h4}
  Owner <- MCOwner
  VirtualKeys = {v1}
  Master = Master
  Anonymous = Anonymous
  Identities = {v1, Master, Anonymous}
  OnPaidPath = {h1, h2, h3, h4}
  KeyRequired = TRUE
  Limit <- MCLimit
  RateMax = 2
  Window = 2
  SweepEvery = 2
  LastTime = 3
  g1 = g1
  g2 = g2
  GridTasks = {g1, g2}
  UrgencyRank <- MCUrgencyRank
  GridNodes = {1, 2}
  OwnNode = 1
  Nowhere = 0
  GridQueueSize = 2
  RetryLimit = 2
  PerNode = 1
  MaxLeaves = 2
  a1 = a1
  a2 = a2
  a3 = a3
  a4 = a4
  q1 = q1
  f1 = f1
  f2 = f2
  f3 = f3
  f4 = f4
  Artifacts = {a1, a2, a3, a4}
  Hosted = {q1}
  SourceOf <- MCSourceOf
  PulledSource <- MCPulledSource
  Downloaded = {"hub"}
  Recorded = {"local"}
  Pulls = {f1, f2, f3, f4}
  Creating = {f3}
  OldCatalogs <- MCOldCatalogs
  Absent = Absent
  Torn = Torn
  MaxPulls = 2
  MaxCrashes = 1
  k1 = k1
  k2 = k2
  w1 = w1
  w2 = w2
  ChainCalls = {k1}
  SafeCalls = {k2}
  Levels = 1
  BatchItems = {1, 2}
  BatchWorkers = {w1, w2}
  MaxAttempts = 2
  FailureThreshold = 2
  SuccessThreshold = 2
  DelaysOverflow = FALSE
  Origins = {1, 2}
  PoolUsers = {1, 2, 3}
  MaxConnections = 2
  NoAgent = NoAgent
  MaxAgents = 4
  c1 = c1
  s1 = s1
  Connectors = {c1}
  Secrets = {s1}
  Redacted = Redacted
  Bare = Bare
  Missing = Missing
  ConfigPages = {1, 2}
  HistoryMax = 2
  Spoilt = Spoilt
  MaxSaves = 3
  LastSecond = 2
  t1 = t1
  t2 = t2
  PanelTasks = {t1, t2}
  NoTask = NoTask
  MaxRuns = 2
  MaxDrawings = 2
  e1 = e1
  e2 = e2
  Rules = {e1, e2}
  Refreshes = {1}
  RuleSaves = {1, 2}
INVARIANTS ChargedToCaller
CHECK_DEADLOCK FALSE

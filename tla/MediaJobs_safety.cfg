SPECIFICATION FairSpec
CONSTANTS
  Jobs = {j1, j2, j3}
  Providers <- MCProviders
  Inline <- MCInline
  Limit <- MCLimit
  MaxJobs = 2
  TTL = 0
  MaxPolls = 2
INVARIANTS TypeOK SlotsAreRuns ToldTheTruth KeptWhileFresh
PROPERTY RunsEnd
CHECK_DEADLOCK FALSE

SPECIFICATION Spec
CONSTANTS
  Jobs = {j1, j2, j3}
  Providers <- MCProviders
  Inline <- MCInline
  Limit <- MCLimit
  MaxJobs = 2
  TTL = 1
  MaxPolls = 2
INVARIANT ProcessingHasRun
SYMMETRY SymJobs
CHECK_DEADLOCK FALSE

SPECIFICATION FailoverSpec
CONSTANTS
  m1 = m1
  m2 = m2
  p1 = p1
  p2 = p2
  Models <- TwoModels
  Providers <- TwoProviders
  MaxCandidates = 3
SYMMETRY SymNames
INVARIANT OneVoice
CHECK_DEADLOCK FALSE

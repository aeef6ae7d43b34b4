SPECIFICATION BaselineSpec
CONSTANTS
  s1 = s1
  s2 = s2
  w3 = w3
  Server = {s1, s2}
  Worker = {w1, w2, w3}
  Home <- TwoServers
  MaxRuns = 1
  MaxAttempts = 2
  c1 = c1
  c2 = c2
  c3 = c3
  Case = {c1, c2, c3}
  QuestionOf <- Questions
  Asking = {r1}
  MaxCases = 2
  MaxPerRun = 2
  MaxEval = 2
  Dataset = {d1, d2}
  NoDataset = NoDataset
  RunsEach = 1
  MaxAsks = 2
  MaxLost = 1
INVARIANT
  PairsCompareTheSameCase
CHECK_DEADLOCK FALSE

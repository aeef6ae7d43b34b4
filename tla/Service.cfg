SPECIFICATION ServiceSpec
CONSTANTS
  Request = {r1, r2}
  Doc = {d1}
  Changing = {d1}
  Finds <- ByWordsAndMeaning
  MaxVersion = 2
  Call = {c1, c2, c3}
  MaxTries = 2
  Timeout = 2
  TotalTimeout = 3
  RetryDelay = 1
  Threshold = 2
  ResetTime = 1
  Address = {a1, a2}
  Email = {e1}
  Asking = {q1, q2}
  MaxGlobal = 1
  MaxRoute = 1
  Window = 2
  MaxTime = 2
  MaxRefused = 1
  Insight = {i1, i2}
  Requests = {p1, p2}
  MaxRequests = 4
  Queues = {"files", "evaluations"}
SYMMETRY Symmetric
INVARIANTS
  EvidenceIsCurrent
  AnswersAreFresh
  ProbesEnd
  LimitsHold
  WorkEndsBeforeThePool
PROPERTIES
  AnalysisYields
CHECK_DEADLOCK FALSE

SPECIFICATION Spec
CONSTANTS
  Files = {f1}
  NoFile = NoFile
  Deletable = {f1}
  MaxClaims = 2
  MaxAttempts = 1
  MaxResets = 1
INVARIANTS
  ServedIsWhole
  CompletedServesLatest
PROPERTIES
  ImplementsPublication
ACTION_CONSTRAINT
  RepeatedOrDeleted
CHECK_DEADLOCK FALSE

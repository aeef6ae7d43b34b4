SPECIFICATION FairSpec
CONSTANTS
  Files = {f1}
  NoFile = NoFile
  Deletable = {}
  MaxClaims = 2
  MaxAttempts = 2
  MaxResets = 0
PROPERTIES
  LostOnlyByTakeover
  EveryFileSettles
CHECK_DEADLOCK FALSE

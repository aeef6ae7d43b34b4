SPECIFICATION MCSpec
CONSTANTS
  s1 = s1
  w2 = w2
  NoOne = NoOne
  Account = Account
  File = {f1}
  Space = {s1}
  SpaceOf <- InSpace
  Avatar = {a1, a2}
  FirstAvatar = a1
  Worker = {w1, w2}
  MaxAttempts = 1
INVARIANTS
  IndexIsTracked
PROPERTIES
  ParentsGoLast
  ObjectsLostOnlyByRepeatedDeletion
  RepairsEnd
CHECK_DEADLOCK FALSE

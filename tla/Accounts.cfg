SPECIFICATION Spec
CONSTANTS
  None = None
  User = {u1}
  Tab = {t1, t2}
  Acting = {t1}
  Tokens = 2
  MaxTime = 3
  AccessLife = 2
  BrowserLife = 2
  RememberedLife = 3
  MaxRev = 1
INVARIANTS
  OneSessionPerLogin
  LoginsEndOnTime
  LogoutEndsTheLogin
CHECK_DEADLOCK FALSE

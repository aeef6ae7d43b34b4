SPECIFICATION UploadsSpec
CONSTANTS
  Request = {r1, r2}
  MaxUploads = 2
  None = None
  File = {f1, f2, f3}
  Chunked = {f1}
  Content = {a, b}
  Tab = {r1, r2}
  Size <- OneEach
  Quota = 1
  ActiveQuota = 1
SYMMETRY Alike
INVARIANTS
  PublishedIsStored
  StoredAsVerified
  QuotaHolds
PROPERTIES
  StraysHaveACause
CHECK_DEADLOCK FALSE

SPECIFICATION UploadsSpec
CONSTANTS
  Request = {r1}
  MaxUploads = 1
  None = None
  File = {f1}
  Chunked = {f1}
  Content = {a}
  Tab = {t1}
  Size <- OneEach
  Quota = 1
  ActiveQuota = 1
PROPERTIES
  ExpiryKeepsStoredObject
CHECK_DEADLOCK FALSE

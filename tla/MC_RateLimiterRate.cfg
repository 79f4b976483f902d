SPECIFICATION Spec
CONSTANTS
  t1 = t1
  t2 = t2
  t3 = t3
  ca = ca
  cb = cb
  Global = Global
  NoBucket = NoClient
  NoThread = NoThread
  Threads = {t1, t2, t3}
  Clients = {ca}
  Limit <- OneEach
  Quiet = 2
  Hour = 3
  MaxClock = 2
  MaxRequests = 5
SYMMETRY Symm
CHECK_DEADLOCK FALSE
INVARIANT TokenBucketRate

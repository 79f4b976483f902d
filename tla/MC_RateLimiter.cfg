SPECIFICATION Spec
CONSTANTS
  t1 = t1
  t2 = t2
  t3 = t3
  ca = ca
  cb = cb
  Global = Global
  NoBucket = NoClient
  NoThread = NoThread
  Threads = {t1, t2}
  Clients = {ca, cb}
  Limit <- SmallLimit
  Quiet = 2
  Hour = 3
  MaxClock = 3
  MaxRequests = 5
SYMMETRY Symm
CHECK_DEADLOCK FALSE
INVARIANTS Conservation EveryRequestPays RefillsBounded CrashOnlyIf

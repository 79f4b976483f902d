SPECIFICATION Spec
CONSTANTS
  a = a
  b = b
  p = p
  image = image
  NoEntry = NoEntry
  Posts <- OnePost
  Pages <- OnePage
  ImagesOf <- Shown
  MaxTime = 3
  MaxRuns = 3
CHECK_DEADLOCK FALSE
INVARIANTS CacheFresh SkipIsSound  RunRepairs

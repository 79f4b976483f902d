SPECIFICATION Spec
CONSTANTS
  r1 = r1
  r2 = r2
  r3 = r3
  f = f
  g = g
  Requests = {r1, r2, r3}
  UrlOf <- TwoFeeds
  Entries = 2
  Nobody = Nobody
  MaxKills = 1
CHECK_DEADLOCK FALSE
INVARIANTS SuccessIsStored AllOrNothing ItemsBelong TransactionHasOwner

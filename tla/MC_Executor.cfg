SPECIFICATION Spec
CONSTANTS
  w1 = w1
  w2 = w2
  c1 = c1
  c2 = c2
  r1 = r1
  r2 = r2
  l1 = l1
  l2 = l2
  NoThread = NoThread
  NoValue = NoValue
  Workers = {w1, w2}
  Clients = {c1, c2}
  Threads = {w1, w2, c1, c2}
  Values <- FewTasks
  Roots <- FewRoots
  Child <- FewChild
  Outcomes = {"returns", "runtime_error", "other_error"}
  Capacity = 1
CHECK_DEADLOCK FALSE
SYMMETRY Symm
INVARIANTS AtMostOnce AnswerIsTrue OneLateStart NoWedge
PROPERTIES FifoSpec PoolSpec

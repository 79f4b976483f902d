SPECIFICATION Spec
CONSTANTS
  c1 = c1
  c2 = c2
  p = p
  q = q
  w1 = w1
  w2 = w2
  NoPeer = NoPeer
  NoConn = NoConn
  Conns = {c1, c2}
  Peers = {p}
  PeerOf <- OnePeer
  SlowPeers = {}
  Workers = {w1, w2}
  LengthOf <- Lengths
  Heads = {"post"}
  Shapes <- PostAndGet
  Buffers = 3
  MaxRequests <- OneThenTwo
  SizeLimit = 10
SYMMETRY Symm
CHECK_DEADLOCK FALSE
INVARIANTS AtMostOneAnswer OneWritePerStream FirstAnswerIsOwn

SPECIFICATION LiveSpec
CONSTANTS
  c1 = c1
  c2 = c2
  p = p
  q = q
  w1 = w1
  w2 = w2
  NoPeer = NoPeer
  NoConn = NoConn
  Conns = {c1, c2}
  Peers = {p, q}
  PeerOf <- TwoPeers
  SlowPeers = {q}
  Workers = {w1}
  LengthOf <- Lengths
  Heads = {"post"}
  Shapes <- PostAndBare
  Buffers = 3
  MaxRequests <- OneEach
  SizeLimit = 10
CHECK_DEADLOCK FALSE
INVARIANT NoCrossTalk
PROPERTIES FirstAnswered BuffersGo

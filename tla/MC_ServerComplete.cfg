SPECIFICATION Spec
CONSTANTS
  c1 = c1
  c2 = c2
  p = p
  q = q
  w1 = w1
  w2 = w2
  NoPeer = NoPeer
  NoConn = NoConn
  Conns = {c1}
  Peers = {p}
  PeerOf <- OnePeer
  SlowPeers = {p}
  Workers = {w1, w2}
  LengthOf <- Lengths
  Heads = {"post"}
  Shapes <- GetOrPost
  Buffers = 2
  MaxRequests <- TwoThenOne
  SizeLimit = 10
CHECK_DEADLOCK FALSE
PROPERTY CompleteIsComplete

SPECIFICATION Spec
CONSTANTS
  c1 = c1
  c2 = c2
  a1 = a1
  a2 = a2
  s1 = s1
  s2 = s2
  w1 = w1
  w2 = w2
  Loop = Loop
  None = None
  Sessions <- TwoSessions
  Addresses <- TwoAddresses
  Sockets <- TwoSockets
  Workers <- TwoWorkers
  MaxPackets = 2
INVARIANTS NothingLeftBehind EmptyBatchExplained SendsReachPeer
PROPERTIES KeepsContract
SYMMETRY Symmetric
CHECK_DEADLOCK FALSE

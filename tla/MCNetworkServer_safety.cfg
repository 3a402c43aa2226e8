SPECIFICATION Spec
CONSTANTS
  p1 = p1
  p2 = p2
  p3 = p3
  s1 = s1
  s2 = s2
  s3 = s3
  Listener = Listener
  None = None
  Peers <- ThreePeers
  Sockets <- ThreeSockets
  Addresses <- ThreeAddresses
  FdSetSize = 2
  Endings <- BothEndings
  MaxUnread = 1
INVARIANTS TypeOK SessionsMatch OneClientPerSocket PolledAreClients NeverBlocks WithinFdSet
PROPERTIES OnlyInactiveDeleted ServesEachAlone
SYMMETRY Symmetric

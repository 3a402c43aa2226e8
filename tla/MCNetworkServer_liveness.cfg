SPECIFICATION Spec
CONSTANTS
  p1 = p1
  p2 = p2
  p3 = p3
  s1 = s1
  s2 = s2
  s3 = s3
  Listener = Listener
  None = None
  Peers <- ThreePeers
  Sockets <- TwoSockets
  Addresses <- TwoAddresses
  FdSetSize = 2
  Endings <- ClosedOnly
  MaxUnread = 1
PROPERTIES PeerGoneNoticed DataRead WaitingAccepted

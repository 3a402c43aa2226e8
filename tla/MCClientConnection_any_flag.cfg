SPECIFICATION Spec
CONSTANTS
  HeaderSize = 3
  BufferSize = 6
  Word = 65536
  Lengths <- SmallLengths
  Kinds <- AllKinds
  FreshFlag <- EitherValue
  AppResults <- EitherValue
  MaxFrames = 2
CHECK_DEADLOCK FALSE
INVARIANTS TypeOK CountsAddUp RecvAsksForData HeaderOnce OverrunOnlyAfterRejection
PROPERTIES PeerGoneNoticed

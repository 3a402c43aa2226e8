SPECIFICATION Spec
CONSTANTS
  HeaderSize = 3
  BufferSize = 6
  Word = 65536
  Lengths <- SmallLengths
  Kinds <- GoodAndDamaged
  FreshFlag <- OnlyFalse
  AppResults <- OnlyTrue
  MaxFrames = 2
CHECK_DEADLOCK FALSE
INVARIANT OnlyVerifiedDelivered

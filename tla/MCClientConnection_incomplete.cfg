SPECIFICATION Spec
CONSTANTS
  HeaderSize = 3
  BufferSize = 6
  Word = 65536
  Lengths <- SmallLengths
  Kinds <- GoodOnly
  FreshFlag <- EitherValue
  AppResults <- OnlyTrue
  MaxFrames = 2
CHECK_DEADLOCK FALSE
INVARIANT OnlyCompleteDelivered

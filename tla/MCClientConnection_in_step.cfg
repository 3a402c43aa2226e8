SPECIFICATION Spec
CONSTANTS
  HeaderSize = 3
  BufferSize = 6
  Word = 65536
  Lengths <- SmallLengths
  Kinds <- AllKinds
  FreshFlag <- OnlyFalse
  AppResults <- EitherValue
  MaxFrames = 3
CHECK_DEADLOCK FALSE
INVARIANTS InStep DeliveredInOrder
PROPERTIES StopHasCause KeepsContract InactiveDeleted MakesProgress

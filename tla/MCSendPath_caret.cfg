SPECIFICATION Spec
CONSTANTS
  t1 = t1
  t2 = t2
  Nobody = Nobody
  Senders <- OneThread
  HeaderSize = 1
  BufferSize = 4
  LengthMod = 8
  Word = 32
  FreshCaret = {0, 1}
  FieldSizes = {0, 1}
  Slots <- TwoStrings
  Strings <- NullAndLong
  Capacity = 3
  MaxSends = 2
INVARIANT HeaderFirst
CHECK_DEADLOCK FALSE

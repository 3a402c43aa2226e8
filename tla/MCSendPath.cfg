SPECIFICATION Spec
CONSTANTS
  t1 = t1
  t2 = t2
  Nobody = Nobody
  Senders <- TwoThreads
  HeaderSize = 1
  BufferSize = 4
  LengthMod = 8
  Word = 32
  FreshCaret = {0}
  FieldSizes = {0}
  Slots <- TwoStrings
  Strings <- NullAndLong
  Capacity = 2
  MaxSends = 2
INVARIANTS LengthsAgree DeclaredLength OutOfStepHasCause BytesAccounted
PROPERTY SendReturns
CHECK_DEADLOCK FALSE

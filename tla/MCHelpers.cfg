SPECIFICATION HelpersSpec
CONSTANTS
  Word = 65536
  Parts = 2
  Kinds <- BothKinds
  Periods <- SomePeriods
  Settings <- SomeSettings
  MaxTime = 4
  MaxStamp = 6
  Classes <- AllClasses
  MaxSize = 4
  Amounts <- SomeAmounts
  MaxCaret = 8
INVARIANTS TimeAccounted NeverAhead PositionKnown LossOnlyAtEnd
CHECK_DEADLOCK FALSE

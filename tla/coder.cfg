SPECIFICATION FairSpec
CONSTANTS
  ByteSize = 8
  StateSize = 5
  Encoders = {0, 1}
  Tables <- SmallTables
  MaxSymbols = 4
INVARIANTS
  TypeOK
  IntervalsGood
  CodeInInterval
  DecodedIsMessage
  BitsCounted
PROPERTIES
  EndIsReached
CHECK_DEADLOCK FALSE

SPECIFICATION Spec
CONSTANTS
  ByteSize = 8
  StateSize = 5
  Encoders = {0}
  Tables <- SmallTables
  MaxSymbols = 5
INVARIANTS IntervalNeverEmpty
CHECK_DEADLOCK FALSE

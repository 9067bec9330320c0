SPECIFICATION Spec
CONSTANTS
  Cycles = 6
  Bits = 2
  Bytes <- AnyByte
  Drifts <- AnyDrift
INVARIANTS
  TypeOK
  EchoesInOrder
  OverrunsOnlyWhenBehind
  SilenceSettles

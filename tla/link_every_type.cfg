SPECIFICATION Spec
CONSTANTS
  DataMax = 2
  Frames <- AllFrames
  TtySize = 20
  Heap <- OldWords
  Noise <- NoiseWords
  MaxSent = 2
  MaxFaults = 0
INVARIANTS EveryTypeDelivered
CHECK_DEADLOCK FALSE

SPECIFICATION FairSpec
CONSTANTS
  DataMax = 2
  Frames <- WrongFrames
  TtySize = 14
  Heap <- OldWords
  Noise <- NoiseWords
  MaxSent = 3
  MaxFaults = 1
INVARIANTS TypeOK UndisturbedDelivery
PROPERTIES ImplementsChannel LineDrains
CHECK_DEADLOCK FALSE

SPECIFICATION FairSpec
CONSTANTS
  Callers = {c1, c2}
  Sizes <- AnySize
  Rooms <- OneRoom
  Soundness = {TRUE, FALSE}
  Align = 2
  BurstData = 4
  Overlapping <- OneBurst
  MaxCalls = 2
INVARIANTS
  TypeOK
  AloneIsDone
  AloneIsSafe
PROPERTIES
  BurstsInBounds
  EveryCallEnds
CHECK_DEADLOCK FALSE

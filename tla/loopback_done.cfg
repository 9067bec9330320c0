SPECIFICATION Spec
CONSTANTS
  Callers = {c1}
  Sizes <- TwoBursts
  Rooms <- OneRoom
  Soundness = {TRUE}
  Align = 2
  BurstData = 4
  Overlapping = {}
  MaxCalls = 1
INVARIANTS
  SuccessMeansDone
CHECK_DEADLOCK FALSE

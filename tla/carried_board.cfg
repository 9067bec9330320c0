SPECIFICATION Spec
CONSTANTS
  Inputs <- AnyInput
  NFrames = 3
  MaxInputs = 4
INVARIANTS
  TypeOK
  FilesAreTheDataReceived
CHECK_DEADLOCK FALSE

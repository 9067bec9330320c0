SPECIFICATION FairSpec
CONSTANTS
  DataMax = 2
  Images = 2
  Sizes <- OffT
  Names = {"a", "b"}
  Words = 7
  Lens = 8
  NFrames = 2
  Inputs <- AnyInput
  MaxInputs = 2
INVARIANTS
  TypeOK
  AnswerIsPrefix
  PartBlockIsSent
  RequestsMatch
  CodeInOrder
PROPERTIES
  AnswerEnds
CHECK_DEADLOCK FALSE

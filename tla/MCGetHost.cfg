SPECIFICATION Spec
CHECK_DEADLOCK FALSE
CONSTANTS
  Streams <- Requests
  BufferSize = 7
INVARIANT AnswerIsMeaning
PROPERTY Closes

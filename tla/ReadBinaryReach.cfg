CONSTANTS
  MaxChunk = 3
  MaxOffset = 8
  MaxSize = 12
  Ends = {"6B00"}
SPECIFICATION Spec
INVARIANT WholeFileIsRead
CHECK_DEADLOCK FALSE

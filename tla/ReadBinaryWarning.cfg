CONSTANTS
  MaxChunk = 3
  MaxOffset = 8
  MaxSize = 12
  Ends = {"6282"}
SPECIFICATION Spec
INVARIANT ReadsWhatIsThere
CHECK_DEADLOCK FALSE

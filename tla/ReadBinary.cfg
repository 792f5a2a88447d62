CONSTANTS
  MaxChunk = 3
  MaxOffset = 8
  MaxSize = 12
  Ends = {"6B00", "empty"}
SPECIFICATION Spec
INVARIANTS
  TypeOK
  ReadsWhatIsThere
  RefusesOnlyBeyondReach
  ReadsAreFew
PROPERTIES
  Returns
CHECK_DEADLOCK FALSE

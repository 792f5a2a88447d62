CONSTANTS
  File <- MCFile
  Size <- MCSize
  Object <- MCObject
  AtOnce <- MCAtOnce
  Reach = 2
  MaxTries = 2
  MaxSessions = 2
  MaxCounter = 5
SPECIFICATION Spec
INVARIANTS
  TypeOK
  OnlyLossesDrift
  BrokenMeansGone
  ReadsAreRight
  OnlyFirstIsGarbled
PROPERTIES
  DriftIsNoticed

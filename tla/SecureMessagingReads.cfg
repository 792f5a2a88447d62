CONSTANTS
  File <- MCFile
  Size <- MCSize
  Object <- MCObject
  AtOnce <- MCAtOnce
  Reach = 2
  MaxTries = 2
  MaxSessions = 1
  MaxCounter = 5
SPECIFICATION Spec
INVARIANT ReadsDecrypt

CONSTANTS
  KeyId <- MCKeyId
  Key <- MCKey
  Truth <- MCTruth
  Known <- MCKnown
  MaxLinks = 3
  Card <- MCCard
  MaxRecord = 3
SPECIFICATION Spec
INVARIANTS
  CertifiedKeysAreTrue
  AcceptsWhatHangsTogether
  ChainIsComplete
  FilesAreToldAsWritten
  AtrIsUndamaged
  VerifiedIsHeld
PROPERTIES
  CallsReturn
CHECK_DEADLOCK FALSE

CONSTANTS
  Object <- MCObject
  Tails <- MCTails
  MaxObjects = 2
  UsizeBytes = 2
  Kinds <- MCKinds
  MaxEdits = 2
  MaxFiller = 1
  DaySeconds = 3
  Spans <- MCSpans
  Roots <- MCRoots
  Leaf <- MCLeaf
  Moment = {0, 1, 2, 3, 4, 5, 6, 7, 8, 9, 10, 11}
SPECIFICATION Spec
INVARIANTS
  ItemsAreObjects
  VerifiedIsIssued
  MatchedIsIssued
  IssuedIsAccepted
  DatesAreTrue
  CodeTellsBirthDate
  RootedIffIssued
  ChainsAcceptedWhileInForce
PROPERTIES
  ErasTurn
CHECK_DEADLOCK FALSE

CONSTANTS
  p1 = p1
  p2 = p2
  Proc <- MCProc
  Careful <- MCCareful
  Value = {a, b}
  MaxTries = 2
  App = {"text", "common"}
  Id = {"0011","0001","0019"}
  Sharings = {"shared", "exclusive"}
SYMMETRY MCSymmetry
SPECIFICATION Spec
INVARIANTS
  TypeOK
  OwnKeyOnly
  DataOfTarget
  ReportStillHolds
  NoInheritedStatus
PROPERTIES
  AttemptsOnlyOnWrongValue
  ChangeOnlyByHolder
  CarefulNeverBlocks

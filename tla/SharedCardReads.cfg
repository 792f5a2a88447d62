CONSTANTS
  p1 = p1
  p2 = p2
  Proc <- MCProc
  Careful <- MCCareful
  Value = {"a", "b"}
  MaxTries = 2
  App = {"surface", "text"}
  Id = {"0004"}
  Sharings = {"shared"}
SPECIFICATION Spec
INVARIANT ReadsDoNotMix

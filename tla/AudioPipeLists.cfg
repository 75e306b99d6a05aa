CONSTANTS
  Pipes = {p1, p2}
  NoPipe = NoPipe
SPECIFICATION Spec
SYMMETRY Symmetry
CONSTRAINT ListsOnly
INVARIANTS NoUseAfterFree ConnectNotLost CloseNotLost
CHECK_DEADLOCK FALSE

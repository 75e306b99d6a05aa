CONSTANTS
  Pipes = {f1, f2}
  Callers = {a1, a2}
  NoFork = NoFork
  NoThread = NoThread
  MaxFiles = 1
  Overlap = TRUE
SPECIFICATION Spec
CONSTRAINT Running
SYMMETRY Symmetry
INVARIANTS LiveWhileUsed NoLockCycle NoPipeAfterUnload
PROPERTIES KeepsLife
CHECK_DEADLOCK FALSE

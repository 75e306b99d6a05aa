CONSTANTS
  Pipes = {f1}
  Callers = {a1, a2}
  NoFork = NoFork
  NoThread = NoThread
  MaxFiles = 1
  Overlap = FALSE
SPECIFICATION FairSpec
CONSTRAINT Running
INVARIANTS NoOrphan
PROPERTIES GateOpens
CHECK_DEADLOCK FALSE

CONSTANTS
  Cbs = {b1, b2}
  NoCb = NoCb
  Callers = {a1, a2}
  MaxFrames = 2
  MaxCalls = 3
  ChunkLen = 2
  PreChunks = 1
\* The session ends, and a module may be unloaded.
CHECK_DEADLOCK FALSE
SYMMETRY Symmetry
SPECIFICATION Spec
INVARIANTS AudioInOrder NothingLeft EndIsTold

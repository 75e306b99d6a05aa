\* The call comes to an end.
CHECK_DEADLOCK FALSE
SPECIFICATION Spec
CONSTANTS
  ChunkLen = 2
  PreChunks = 1
  FrameLens = {3}
  MaxPieces = 6
  MaxResponses = 1
INVARIANTS StreamContract NoGap NoUseAfterDelete TailDrained NothingLeft
PROPERTIES StopCompletes

\* The call comes to an end.
CHECK_DEADLOCK FALSE
SPECIFICATION Spec
CONSTANTS
  ChunkLen = 2
  PreChunks = 1
  MaxBuffered = 2
  FrameLens = {3}
  MaxPieces = 6
  MaxEvents = 1
INVARIANTS InOrder TailSent NoUseAfterDelete LastTranscriptOut
PROPERTIES StopCompletes

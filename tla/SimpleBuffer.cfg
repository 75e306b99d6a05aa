CONSTANTS
  Chunk = {c1, c2, c3}
  NoChunk = NoChunk
  NumChunks = 3
  MaxAdd = 2
SPECIFICATION RingSpec
SYMMETRY Symmetry
PROPERTIES IsQueue

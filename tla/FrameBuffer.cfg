CONSTANTS
  Pre = 3
  MaxLen = 33
  Packet = 6
  MaxFrames = 5
SPECIFICATION FrameSpec
INVARIANTS InBounds WholeSamples

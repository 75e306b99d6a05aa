CONSTANTS
  MaxRecv = 7
  Grow = 2
  MaxPiece = 2
  MaxMessage = 10
SPECIFICATION RecvSpec
INVARIANTS NoOverrun WholeOrNothing

CONSTANTS
  Pipes = {p1}
  NoPipe = NoPipe
SPECIFICATION FairSpec
INVARIANTS NoStrandedReaper
PROPERTIES EventOrder Lives ReaperCompletes TextLeaves
CHECK_DEADLOCK FALSE

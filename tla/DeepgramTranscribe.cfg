CONSTANTS
  Bugs = {b1, b2}
  NoBug = NoBug
  Starters = {a1}
  Stoppers = {a2}
\* The session ends, and a module may be unloaded.
CHECK_DEADLOCK FALSE
SPECIFICATION Spec
CONSTRAINTS FramesAlone FailsAlone
INVARIANTS FinishOnce NoStrandedReaper PublishedIsLive NothingLeft

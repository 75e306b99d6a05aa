\* The call comes to an end, and a stop and a hangup may wait for each other.
CHECK_DEADLOCK FALSE
SPECIFICATION Spec
CONSTANTS
  MaxResponses = 2
INVARIANTS NoUseAfterDelete StreamContract
PROPERTIES StopCompletes

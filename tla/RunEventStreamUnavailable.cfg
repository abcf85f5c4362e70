\* The endpoint cannot read the row or the stream once.
SPECIFICATION Spec
CONSTANTS
  MaxChunks = 1
  Limit = 2
  MaxTries = 2
  Faults = {"sse_error"}
  MaxFaults = 1
INVARIANT FollowsUntilSettled
CHECK_DEADLOCK FALSE

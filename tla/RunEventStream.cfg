\* Two chunks, reads of at most two events, one fault.
SPECIFICATION FairSpec
CONSTANTS
  MaxChunks = 2
  Limit = 2
  MaxTries = 2
  Faults = {"crash", "raise", "flush", "handler", "disconnect", "sse_error"}
  MaxFaults = 1
INVARIANTS
  TypeOK
  EndIsComplete
  LanesInOrder
  NoTextLeftBehind
PROPERTY BrowserFinishes
CHECK_DEADLOCK FALSE

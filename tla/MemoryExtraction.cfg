\* One conversation of two turns, read one at a time by two job slots.
SPECIFICATION Spec
CONSTANTS
  Threads = {t1}
  Workers = {w1, w2}
  Contents = {a, b}
  MaxTurns = 2
  Batch = 1
  MaxReviews = 1
  Faults = {"crash", "model", "enqueue", "expire"}
  MaxFaults = 1
INVARIANTS
  TypeOK
  NothingSkipped
  OneActiveFact
  FactsSurvive
PROPERTIES
  CursorForward
  MemoryIsKept
  ConfirmedStands
SYMMETRY Symmetry
CHECK_DEADLOCK FALSE

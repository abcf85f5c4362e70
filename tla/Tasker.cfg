\* Two tasks of one payload, two workers, one settled task remembered.
SPECIFICATION FairSpec
CONSTANTS
  MaxTasks = 2
  Unique = {1, 2}
  Workers = {w1, w2}
  MaxTerminal = 1
  Faults = {"db", "crash", "shutdown"}
  MaxFaults = 2
INVARIANTS
  TypeOK
  NoOrphan
  RowTellsTruth
  OneOfAKind
  HistoryBounded
  CancelledInQueue
PROPERTIES
  DeletedStaysDeleted
  OutcomeIsFinal
  TasksSettle
CHECK_DEADLOCK FALSE

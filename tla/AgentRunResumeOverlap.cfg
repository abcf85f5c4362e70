\* An interrupted run still writes when its resume run starts.
SPECIFICATION Spec
CONSTANTS
  Calls = {c1, c2}
  Requests = {q1, q2}
  Threads = {t1}
  NoRun = NoRun
  MaxTries = 2
  Faults = {}
  MaxFaults = 0
INVARIANT OneWriterPerThread
CHECK_DEADLOCK FALSE

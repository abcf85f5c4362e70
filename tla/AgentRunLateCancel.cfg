\* A cancel call reads a running run and commits after the run has settled.
SPECIFICATION Spec
CONSTANTS
  Calls = {c1, c2}
  Requests = {q1, q2}
  Threads = {t1}
  NoRun = NoRun
  MaxTries = 2
  Faults = {}
  MaxFaults = 0
INVARIANT DrainedMeansSettled
CHECK_DEADLOCK FALSE

\* One request sent twice, a stream that may go on for ever, and as many faults as tries.
SPECIFICATION FairSpec
CONSTANTS
  Calls = {c1, c2}
  Requests = {q1}
  Threads = {t1}
  NoRun = NoRun
  MaxTries = 3
  Faults = {"worker_crash", "stream_error"}
  MaxFaults = 3
INVARIANT EndTellsTruth
PROPERTIES
  RunsSettle
  CancelSettlesRun
CHECK_DEADLOCK FALSE

\* The queue does not retry a job that raised an exception of the program's own.
SPECIFICATION FairSpec
CONSTANTS
  Calls = {c1}
  Requests = {q1, q2}
  Threads = {t1}
  NoRun = NoRun
  MaxTries = 2
  Faults = {"retryable_error"}
  MaxFaults = 1
PROPERTY RetryableErrorIsRetried
CHECK_DEADLOCK FALSE

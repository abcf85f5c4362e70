\* The API dies between the commit of the row and the enqueue of the job.
SPECIFICATION FairSpec
CONSTANTS
  Calls = {c1}
  Requests = {q1, q2}
  Threads = {t1}
  NoRun = NoRun
  MaxTries = 2
  Faults = {"api_crash"}
  MaxFaults = 1
PROPERTY CancelSettlesRun
CHECK_DEADLOCK FALSE

\* Two calls, two threads, every kind of fault, at most one fault.
SPECIFICATION Spec
CONSTANTS
  Calls = {c1, c2}
  Requests = {q1, q2}
  Threads = {t1, t2}
  NoRun = NoRun
  MaxTries = 2
  Faults = {"api_crash", "worker_crash", "shutdown", "stream_error", "retryable_error", "step_error", "key_lost", "publish_lost"}
  MaxFaults = 1
SYMMETRY Symmetry
VIEW View
INVARIANTS
  TypeOK
  OneActivePerThread
  IdempotentCreate
  JobHasRow
  EndImpliesTerminal
  OneGeneratorPerThread
  ResumeFollowsInterrupt
PROPERTY ImplementsLifecycle
CHECK_DEADLOCK FALSE

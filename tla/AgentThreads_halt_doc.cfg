SPECIFICATION Spec
CONSTANTS
  t1 = t1
  t2 = t2
  c1 = c1
  None = None
  Threads = {t1}
  RemoteThreads = {t1}
  Callers = {c1}
  MaxAttempts = 1
  MaxWorkers = 1
  MaxStarts = 1
  MaxCrashes = 0
  Environment = {"halt", "interrupt"}
CHECK_DEADLOCK FALSE
INVARIANT HaltStopsAgents

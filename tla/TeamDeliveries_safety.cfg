SPECIFICATION Spec
CONSTANTS
  t1 = t1
  t2 = t2
  N = 3
  Threads = {t1, t2}
  ThreadOf <- MCThreadOf
  Managed = {1, 2}
  SameBackend = {2}
  MaxCrashes = 2
INVARIANTS Serialized GivenOnce NothingStranded FailuresEscalatedOnce
PROPERTIES CancelledByStops

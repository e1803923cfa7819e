SPECIFICATION Spec
CONSTANTS
  j1 = j1
  t1 = t1
  t2 = t2
  NoJob = NoJob
  NoRun = NoRun
  NoTick = NoTick
  Jobs = {j1}
  AgentJobs = {j1}
  Ticks = {t1, t2}
  Crons <- const_Crons
  Retention = 1
  PurgeInterval = 1
  MaxMinute = 2
  MaxRuns = 2
  MaxEdits = 1
  Environment = {"manual", "user", "remove", "disk", "throw", "crash"}
SYMMETRY symmetry
CHECK_DEADLOCK FALSE
INVARIANTS NoOverlappingRuns OneShotFiresOnce RunRowsSettle GoneStaysGone
PROPERTIES OneLaunchPerMinute

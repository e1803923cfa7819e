SPECIFICATION Spec
CONSTANTS
  MaxLoopTurns = 2
  MaxStalled = 2
  MaxUnchecked = 2
  MaxRevision = 4
  MaxGoals = 2
  MaxOutside = 1
INVARIANTS NotStranded BudgetHolds
PROPERTIES StaleDispatchDies StaleReviewDies StoppedStaysStopped
CHECK_DEADLOCK FALSE

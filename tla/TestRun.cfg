SPECIFICATION RunSpec
CONSTANTS
  Tests = {t1, t2, t3, t4}
  PoolSize = 4
  Options <- MCOptions
INVARIANTS PermitsHold FailureBudget Accounted
PROPERTIES AllDone
CHECK_DEADLOCK FALSE

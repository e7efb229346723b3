SPECIFICATION Spec
CONSTANTS
  run1 = run1
  run2 = run2
  None = None
  Runs = {run1, run2}
  Troubled = {run1}
  MaxManagers = 2
  PoolSize = 1
CHECK_DEADLOCK FALSE
INVARIANTS StartedOnce NothingStranded
PROPERTIES RecoverySparesLiving

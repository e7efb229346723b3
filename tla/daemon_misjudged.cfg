SPECIFICATION Spec
CONSTANTS
  MaxAgents = 1
  MaxStoreFailures = 0
  None = None
PROPERTY
  UnregisteredIsTrue
CHECK_DEADLOCK FALSE

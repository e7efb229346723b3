SPECIFICATION FairSpec
CONSTANTS
  MaxAgents = 3
  MaxStoreFailures = 1
  None = None
INVARIANTS
  UnresolvedIsMarked
  PublisherLeavesNoChild
PROPERTIES
  ImplementsOutcome
  OutcomeSurfaces
CHECK_DEADLOCK FALSE

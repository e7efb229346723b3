SPECIFICATION FairSpec
CONSTANTS
  h1 = h1
  h2 = h2
  i1 = i1
  i2 = i2
  None = None
  Request = Request
  Wake = Wake
  Handles = {h1, h2}
  Ids = {i1, i2}
  IdOf <- OwnIds
  MaxPlain = 1
  MaxAttempts = 0
  MaxStops = 0
  MayCrash = TRUE
INVARIANTS CancellationWins NoCancelLeak PendingCancelNeverDispatched NoOrphanedHandle
PROPERTIES AcceptedByLiveLoopSettles

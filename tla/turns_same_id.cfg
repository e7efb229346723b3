SPECIFICATION Spec
CONSTANTS
  h1 = h1
  h2 = h2
  i1 = i1
  i2 = i2
  None = None
  Request = Request
  Wake = Wake
  Handles = {h1, h2}
  Ids = {i1}
  IdOf <- SameId
  MaxPlain = 1
  MaxAttempts = 1
  MaxStops = 2
  MayCrash = TRUE
INVARIANTS StoppedMeansSettled SettledOnce
PROPERTIES ImplementsReceipt

SPECIFICATION FairSpec
CONSTANTS
  Peer = {p}
  Own = {o}
  Pseudo = {q}
  Retries = 2
  MaxEntries = 1
  Received <- MCReceived
  MaxSends = 1
  MaxHandled = 1
  MaxMishaps = 2
  MaxCrashes = 1
  None = None
  p = p
  o = o
  q = q
CHECK_DEADLOCK FALSE
INVARIANTS DispatchedOnce CopyFollowsClaim 
PROPERTIES ImplementsDelivery MailIsServed

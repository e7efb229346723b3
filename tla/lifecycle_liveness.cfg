SPECIFICATION FairSpec
CONSTANTS
  MaxVersions = 1
  MaxRequests = 1
  MaxRounds = 1
  MaxAttempts = 1
  MaxResets = 1
  Errors <- LoudErrors
  Sleeps <- OwnSleep
  Signals <- Ending
INVARIANT
  PairIsDriven
PROPERTIES
  NoticeReachesModel 

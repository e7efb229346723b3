SPECIFICATION Spec
CONSTANTS
  MaxVersions = 2
  MaxRequests = 1
  MaxRounds = 1
  MaxAttempts = 0
  MaxResets = 1
  Errors <- EveryError
  Sleeps <- EverySleep
  Signals <- Interrupting
INVARIANTS
  CommittedMeansKnown
  AsleepWireAppendable
  PairedOnce
PROPERTIES FingerprintNeverRegresses ImplementsNotices

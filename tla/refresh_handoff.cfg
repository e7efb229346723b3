\* Two attempts (MAX_ATTEMPTS is 12), one manual launch; two files
\* for five processes.
SPECIFICATION FairSpec
CONSTANTS
  old = old
  hand = hand
  kid1 = kid1
  kid2 = kid2
  watcher = watcher
  Old = old
  Hand = hand
  Watcher = watcher
  Kids <- MCKids
  Procs <- MCProcs
  Files = {f1, f2}
  NoFile = NoFile
  NoProc = NoProc
CHECK_DEADLOCK FALSE
INVARIANTS ExclusiveUnlessTorn OneAgentAtATime
PROPERTIES NoFalseSuccess HardExitDoesNotStrand WatcherEnds

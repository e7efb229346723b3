\* Two events of a run and the retry of one; two callers; two removals.
SPECIFICATION FairSpec
CONSTANTS
  a = a
  again = again
  b = b
  r1 = r1
  ka = ka
  kb = kb
  Events = {a, again, b}
  Runs = {r1}
  Keys = {ka, kb}
  RunOf <- MCRunOf
  KeyOf <- MCKeyOf
  Procs = {p1, p2}
  Control = Control
  Unconditional = Unconditional
  NoOne = NoOne
  NoEvent = NoEvent
  MaxRemovals = 2
CHECK_DEADLOCK FALSE
INVARIANTS NothingLost NoResurrection CountIsExact
PROPERTIES OperationsEnd ImplementsLog

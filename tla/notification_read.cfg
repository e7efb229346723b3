\* An event of one run and its retry, an event of another; two callers; one
\* removal; the read gives up after one attempt (_COHERENT_READ_ATTEMPTS is 3).
SPECIFICATION ReadSpec
CONSTANTS
  a = a
  again = again
  c = c
  r1 = r1
  r2 = r2
  ka = ka
  kc = kc
  Events = {a, again, c}
  Runs = {r1, r2}
  Keys = {ka, kc}
  RunOf <- MCRunOf
  KeyOf <- MCKeyOf
  Procs = {p1, p2}
  Control = Control
  Unconditional = Unconditional
  NoOne = NoOne
  NoEvent = NoEvent
  MaxRemovals = 1
  ReadAttempts = 1
SYMMETRY CallerSymmetry
CHECK_DEADLOCK FALSE
INVARIANTS ShownOnce
PROPERTIES OnlyShownDismissed

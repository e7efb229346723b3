--------------------------- MODULE MCDaemonManager ---------------------------
(* DaemonManager for TLC: two runs that compete for one slot, and two       *)
(* managers, after each other or at once.                                   *)
EXTENDS DaemonManager

CONSTANTS run1, run2
=============================================================================

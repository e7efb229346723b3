--------------------------- MODULE NotificationLog ---------------------------
(***************************************************************************)
(* What the daemon channel of the notification store promises whoever uses *)
(* it: a log of events per run and a count of the batch.  An append and a  *)
(* dismissal each take effect at one instant or not at all, no append is   *)
(* repeated, and nothing else changes what is in the log: no lock, no      *)
(* compaction, no death of a process.                                      *)
(*                                                                         *)
(* A run is void once two dismissals of its events met in the way that     *)
(* NotificationStore describes; after that only the events that were not   *)
(* dismissed are promised to be there.                                     *)
(***************************************************************************)
EXTENDS Naturals

CONSTANTS Events, Runs, RunOf, KeyOf

VARIABLES
    log,     \* the events each run shows
    ever,    \* the events that were ever appended
    count,   \* the events appended since the log was last emptied
    void     \* the runs whose dismissals are not kept to

vars == <<log, ever, count, void>>

All == UNION {log[r] : r \in Runs}

Init ==
    /\ log = [r \in Runs |-> {}]
    /\ ever = {}
    /\ count = 0
    /\ void = {}

\* A new event, none with its idempotency key being there.
AppendEvent(e) ==
    /\ e \notin ever
    /\ \A x \in log[RunOf[e]] : KeyOf[x] # KeyOf[e]
    /\ log' = [log EXCEPT ![RunOf[e]] = @ \cup {e}]
    /\ ever' = ever \cup {e}
    /\ count' = count + 1
    /\ UNCHANGED void

\* Some of the events go.  Emptying the log ends the batch.
DismissEvents(gone) ==
    /\ gone # {} /\ gone \subseteq All
    /\ void \subseteq void' /\ void' \subseteq Runs
    /\ log' \in [Runs -> SUBSET ever]
    /\ \A r \in Runs :
          /\ log[r] \ gone \subseteq log'[r]
          /\ log'[r] \cap gone = {}
          /\ r \notin void' => log'[r] \subseteq log[r]
    /\ count' = IF gone = All THEN 0 ELSE count
    /\ UNCHANGED ever

Next ==
    \/ \E e \in Events : AppendEvent(e)
    \/ \E gone \in SUBSET Events : DismissEvents(gone)

Spec == Init /\ [][Next]_vars
=============================================================================

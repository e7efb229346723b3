---------------------------- MODULE RunOutcome ----------------------------
(***************************************************************************)
(* What one detached daemon run promises the agent that started it: one    *)
(* outcome, which is final; a notice that tells this outcome and no other, *)
(* never twice at a time; and a receipt that is only written when the      *)
(* notice has really been published.                                       *)
(***************************************************************************)
EXTENDS Naturals

CONSTANTS Verdicts, None

VARIABLES
  outcome,   \* "running", or the verdict
  notice,    \* None, or the verdict the agent's daemon channel shows
  posted,    \* how often a notice was put into the channel
  receipt    \* TRUE once the publication is on record

vars == <<outcome, notice, posted, receipt>>

Init ==
  /\ outcome = "running"
  /\ notice = None
  /\ posted = 0
  /\ receipt = FALSE

\* The first verdict stands.
Decide ==
  /\ outcome = "running"
  /\ outcome' \in Verdicts
  /\ UNCHANGED <<notice, posted, receipt>>

Announce ==
  /\ outcome # "running"
  /\ notice = None
  /\ notice' = outcome
  /\ posted' = posted + 1
  /\ UNCHANGED <<outcome, receipt>>

\* The agent has read the notice and dismisses it.
Dismiss ==
  /\ notice # None
  /\ notice' = None
  /\ UNCHANGED <<outcome, posted, receipt>>

Acknowledge ==
  /\ posted > 0
  /\ receipt' = TRUE
  /\ UNCHANGED <<outcome, notice, posted>>

Next == Decide \/ Announce \/ Dismiss \/ Acknowledge

Spec == Init /\ [][Next]_vars
=============================================================================

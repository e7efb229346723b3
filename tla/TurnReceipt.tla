----------------------------- MODULE TurnReceipt -----------------------------
(***************************************************************************)
(* What a TurnHandle promises its caller, without registry, queue, threads *)
(* or locks (kernel/base_agent/CONTRACT.md, agent-runtime.correlated-turn):*)
(* a live handle is decided exactly once, a cancellation that came before  *)
(* the decision wins, one that comes after it is refused, and the decided  *)
(* outcome is the one the caller reads, once and for ever.                 *)
(***************************************************************************)
CONSTANTS Handles, Outcomes, Cancelled, Pending

VARIABLES
  live,      \* handles that may still be cancelled or decided
  given,     \* handles their callers have been given
  wanted,    \* handles with an accepted cancellation
  verdict,   \* what was decided, or Pending
  future     \* what the caller can read, or Pending

vars == <<live, given, wanted, verdict, future>>

Init ==
  /\ live = {} /\ given = {} /\ wanted = {}
  /\ verdict = [h \in Handles |-> Pending]
  /\ future = [h \in Handles |-> Pending]

Accept(h) ==
  /\ h \notin live \union given /\ verdict[h] = Pending
  /\ live' = live \union {h}
  /\ UNCHANGED <<given, wanted, verdict, future>>

\* The caller gets the handle: it is live, or teardown has already decided it.
Give(h) ==
  /\ h \in live \/ verdict[h] # Pending
  /\ given' = given \union {h}
  /\ UNCHANGED <<live, wanted, verdict, future>>

\* The submission itself failed: its caller got an exception, not a handle.
Withdraw(h) ==
  /\ h \notin given
  /\ live' = live \ {h}
  /\ UNCHANGED <<given, wanted, verdict, future>>

Cancel(h) ==
  /\ h \in live
  /\ wanted' = wanted \union {h}
  /\ UNCHANGED <<live, given, verdict, future>>

\* Teardown decides many handles at once and counts as their cancellation.
Decide(S, outcome) ==
  /\ S \subseteq live
  /\ live' = live \ S
  /\ \A h \in S : h \in wanted => outcome[h] = Cancelled
  /\ verdict' = [h \in Handles |-> IF h \in S THEN outcome[h] ELSE verdict[h]]
  /\ \/ wanted' = wanted
     \/ wanted' = wanted \union S /\ \A h \in S : outcome[h] = Cancelled
  /\ UNCHANGED <<given, future>>

Deliver(h) ==
  /\ verdict[h] # Pending /\ future[h] = Pending
  /\ future' = [future EXCEPT ![h] = verdict[h]]
  /\ UNCHANGED <<live, given, wanted, verdict>>

Next ==
  \/ \E h \in Handles :
       Accept(h) \/ Give(h) \/ Withdraw(h) \/ Cancel(h) \/ Deliver(h)
  \/ \E S \in SUBSET Handles : \E outcome \in [Handles -> Outcomes] :
       Decide(S, outcome)

Spec == Init /\ [][Next]_vars
=============================================================================

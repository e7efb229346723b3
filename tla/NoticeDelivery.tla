--------------------------- MODULE NoticeDelivery ---------------------------
(***************************************************************************)
(* What the kernel promises of the notices of one agent, whoever delivers  *)
(* them: the latest notice is put before the model once, in a pair of its  *)
(* own, and once more when a pair on the history was lost to redaction; it *)
(* is taken for delivered only when the model has it, or will, or when it  *)
(* was given up by name; it is never taken back for an older one; and a    *)
(* notice the model was told is not put before it anew, unless it is due   *)
(* again.                                                                  *)
(*                                                                         *)
(* Tool results carry the latest notice as often as there are results.  If *)
(* they were stamped while no turn was on, or against another delivery,    *)
(* the order of the deliveries is not kept to any more: void.              *)
(***************************************************************************)
EXTENDS Naturals

CONSTANT MaxVersions

VARIABLES
  present,  \* the notice that is up, 0 if there is none
  last,     \* the last one that was published
  taken,    \* the one taken for delivered, 0 if there is none
  fate,     \* what became of each
  again,    \* those that are due once more
  void

vars == <<present, last, taken, fate, again, void>>

Init ==
  /\ present = 0 /\ last = 0 /\ taken = 0 /\ void = FALSE
  /\ fate = [v \in 1..MaxVersions |-> "unseen"]
  /\ again = {}

Publish ==
  /\ last < MaxVersions
  /\ last' = last + 1 /\ present' = last + 1
  /\ UNCHANGED <<taken, fate, again, void>>

Dismiss ==
  /\ present # 0 /\ present' = 0
  /\ UNCHANGED <<last, taken, fate, again, void>>

\* Nothing is up, so nothing is taken for delivered.
Forget ==
  /\ present = 0 /\ taken' = 0
  /\ UNCHANGED <<present, last, fate, again, void>>

Published == UNCHANGED <<present, last>>

\* A notice whose turn it is: none newer was taken, and nothing became of it, or
\* it is due again.
Due(v) ==
  /\ v \in 1..last
  /\ void \/ (v >= taken /\ (fate[v] = "unseen" \/ v \in again))
  /\ fate[v] # "told" \/ v \in again

\* A pair for it goes on the history ...
Offer(v) ==
  /\ Due(v) /\ fate' = [fate EXCEPT ![v] = "shown"] /\ again' = again \ {v}
  /\ Published /\ UNCHANGED <<taken, void>>

\* ... and then it is taken for delivered.
Take(v) ==
  /\ v \in 1..last /\ fate[v] # "unseen"
  /\ void \/ v >= taken
  /\ taken' = v /\ again' = again \ {v}
  /\ Published /\ UNCHANGED <<fate, void>>

\* It is taken without a pair: it is named in a message, or dropped.
GiveUp(v) ==
  /\ Due(v) /\ taken' = v /\ again' = again \ {v}
  /\ \E why \in {"pointed", "dropped"} : fate' = [fate EXCEPT ![v] = why]
  /\ Published /\ UNCHANGED void

\* Tool results carry it.
Stamp(v) ==
  /\ v \in 1..last
  /\ void' \in {void, TRUE}
  /\ void' \/ v >= taken
  /\ taken' = v /\ again' = again \ {v}
  /\ fate' = [fate EXCEPT ![v] =
                IF @ = "shown" \/ (@ = "told" /\ v \notin again) THEN @
                                                                ELSE "stamped"]
  /\ Published

Passed(from, to) ==
  [v \in 1..MaxVersions |-> IF fate[v] \in from THEN to ELSE fate[v]]

\* A call to the model carries all that is on the history ...
Told == Passed({"shown", "stamped", "left"}, "told")

Tell == fate' = Told /\ Published /\ UNCHANGED <<taken, again, void>>

\* ... or an answer, or the end of a turn, gets ahead of it.
GetAhead(of) ==
  /\ fate' = Passed({of}, "left")
  /\ Published /\ UNCHANGED <<taken, again, void>>

\* A pair that was on the history comes back redacted, when a call is about to be
\* made or has failed: what is up is due again, and nothing is taken.
Redact ==
  /\ \E v \in 1..MaxVersions : fate[v] # "unseen"
  /\ taken' = 0 /\ again' = again \union ({present} \ {0})
  /\ fate' \in {Told, Passed({"shown"}, "left")}
  /\ Published /\ UNCHANGED void

Next ==
  \/ Publish \/ Dismiss \/ Forget \/ Tell \/ Redact
  \/ \E v \in 1..MaxVersions : Offer(v) \/ Take(v) \/ GiveUp(v) \/ Stamp(v)
  \/ \E of \in {"shown", "stamped"} : GetAhead(of)

Spec == Init /\ [][Next]_vars
=============================================================================

---------------------------- MODULE MailDelivery ----------------------------
(***************************************************************************)
(* What the mailbox promises the agent that listens to it.  A message is   *)
(* announced once, over all restarts of the listener.  One that a rival    *)
(* listener may take as well is taken first and is then either kept or     *)
(* given back: it is announced at the moment it is kept, and neither       *)
(* announced nor kept here when it went elsewhere.  A message that ended   *)
(* - archived, deleted, disposed of - does not come again.                 *)
(*                                                                         *)
(* Nothing is promised of a message whose copy could not be removed when   *)
(* it was given back.                                                      *)
(***************************************************************************)
EXTENDS Naturals

CONSTANTS Messages, Shared

VARIABLES
    place,  \* where a message is
    told    \* how often it was announced

vars == <<place, told>>

Init ==
    /\ place = [m \in Messages |-> "away"]
    /\ told = [m \in Messages |-> 0]

Moves(m, from, to) == place[m] = from /\ place' = [place EXCEPT ![m] = to]

Announces(m) == told[m] = 0 /\ told' = [told EXCEPT ![m] = 1]

\* A message for this agent alone.
Arrive(m) == m \notin Shared /\ Moves(m, "away", "here") /\ UNCHANGED told

Announce(m) ==
    m \notin Shared /\ place[m] = "here" /\ Announces(m) /\ UNCHANGED place

\* One that may go elsewhere.
Take(m) == m \in Shared /\ Moves(m, "away", "taken") /\ UNCHANGED told

GiveBack(m) == Moves(m, "taken", "away") /\ UNCHANGED told

Spoil(m) == Moves(m, "taken", "void") /\ UNCHANGED told

\* The agent may already have removed it.
Keep(m) == (Moves(m, "taken", "here") \/ Moves(m, "taken", "ended")) /\ Announces(m)

GoElsewhere(m) == m \in Shared /\ Moves(m, "away", "elsewhere") /\ UNCHANGED told

\* What arrives cut off is disposed of without being here.
End(m) ==
    /\ Moves(m, "here", "ended") \/ (m \notin Shared /\ Moves(m, "away", "ended"))
    /\ UNCHANGED told

Next ==
    \E m \in Messages :
        \/ Arrive(m) \/ Announce(m) \/ Take(m) \/ GiveBack(m) \/ Spoil(m) \/ Keep(m)
        \/ GoElsewhere(m) \/ End(m)

Spec == Init /\ [][Next]_vars
=============================================================================

------------------------------ MODULE MCMailbox ------------------------------
EXTENDS Mailbox, TLC

CONSTANTS p, o, q

\* The mail of the pseudo-agent is older than a peer's, and newer than one's own.
MCReceived == (o :> 1) @@ (q :> 2) @@ (p :> 3)
=============================================================================

-------------------------- MODULE MCCorrelatedTurns --------------------------
(* Small instances of CorrelatedTurns for TLC.                             *)
EXTENDS CorrelatedTurns, TLC

CONSTANTS h1, h2, i1, i2

\* Two submissions under the same correlation id: the second is refused while
\* the first is live and accepted once it is settled.
SameId == [h \in Handles |-> i1]

\* Two submissions under ids of their own.
OwnIds == [h \in Handles |-> IF h = h1 THEN i1 ELSE i2]
=============================================================================

------------------------ MODULE MCNotificationStore ------------------------
EXTENDS NotificationStore, TLC

CONSTANTS a, again, b, r1, ka, kb

\* Event a, its retry with a fresh event id, and another event of the run.
MCRunOf == a :> r1 @@ again :> r1 @@ b :> r1

MCKeyOf == a :> ka @@ again :> ka @@ b :> kb
=============================================================================

------------------------ MODULE MCNotificationRead ------------------------
EXTENDS NotificationRead, TLC

CONSTANTS a, again, c, r1, r2, ka, kc

\* "again" is the notice of event a, retried with a fresh event id.
MCRunOf == a :> r1 @@ again :> r1 @@ c :> r2

MCKeyOf == a :> ka @@ again :> ka @@ c :> kc

CallerSymmetry == Permutations(Procs)
=============================================================================

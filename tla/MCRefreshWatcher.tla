-------------------------- MODULE MCRefreshWatcher --------------------------
\* One refresh with two relaunch attempts and one launch by hand.
EXTENDS RefreshWatcher, TLC

CONSTANTS old, hand, kid1, kid2, watcher

MCProcs == {old, hand, kid1, kid2, watcher}
MCKids == <<kid1, kid2>>
=============================================================================

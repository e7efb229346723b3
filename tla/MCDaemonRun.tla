----------------------------- MODULE MCDaemonRun -----------------------------
EXTENDS DaemonRun
=============================================================================

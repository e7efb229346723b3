--------------------------- MODULE MCAgentLifecycle ---------------------------
(***************************************************************************)
(* AgentLifecycle on instances small enough for TLC: what may go wrong in  *)
(* each of them, as sets the .cfg files name.                              *)
(***************************************************************************)
EXTENDS AgentLifecycle

EveryError == ErrorKinds
EverySleep == SleepKinds

\* All but the quiet exits, which leave the state ACTIVE behind them.
LoudErrors == ErrorKinds \ {"terminal"}

\* An agent that only its own tool puts to sleep.
OwnSleep == {"self"}

\* The signals that cancel a turn and let the agent live, and those that end it.
Interrupting == {"interrupt", "sleep"}
Ending == {"suspend", "stop"}
=============================================================================

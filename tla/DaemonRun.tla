------------------------------ MODULE DaemonRun ------------------------------
(***************************************************************************)
(* One detached daemon run, from the launch to the notice of its outcome.  *)
(* Four parties share the run directory: the agent that started it (one    *)
(* process after another), the supervisor with its control and deadline    *)
(* watcher, and the execution child that does the work.  Every process may *)
(* die between any two steps.                                              *)
(*                                                                         *)
(* `daemon.json` changes in transactions under the run's file lock; a      *)
(* transaction that leaves a terminal state behind then moves the recovery *)
(* markers, one file at a time, before it lets the lock go.  Reads take no *)
(* lock.  Timeouts are abstract: a deadline may pass whenever it is waited *)
(* for.  The specification begins when the dispatch is committed.          *)
(***************************************************************************)
EXTENDS Naturals

CONSTANTS
  MaxAgents,          \* agent processes, one after another
  MaxStoreFailures,   \* refusals of the notification store
  None

Verdicts == {"done", "failed", "cancelled", "timeout"}
Threads  == {"agent", "supervisor", "watcher", "child"}

ASSUME RunConstants ==
  /\ MaxAgents \in Nat \ {0} /\ MaxStoreFailures \in Nat
  /\ None \notin Verdicts \union Threads \union {"running"}

VARIABLES
  \* daemon.json
  fate,          \* "running", or the verdict
  why,           \* the error message of a failed run
  owner,         \* who records itself as the run's owner
  execution,     \* what is recorded of the execution child
  claimed,       \* terminal_notification_claim is pending
  receipt,       \* terminal_notified
  \* recovery markers
  runningMark, pendingMark,
  \* the run's file lock
  lockedBy,      \* the thread moving the markers of its terminal write
  syncStep,      \* which marker is next
  torn,          \* it died when neither marker was there
  \* the run's event in the agent's daemon channel
  event, posted,
  \* processes and threads
  agentPc, agents, rows,
  supPc, watchPc, cancelEvent,
  childPc,
  reclaim,       \* the reclaim request in the control spool
  storeFailures

disk   == <<fate, why, owner, execution, claimed, receipt>>
marks  == <<runningMark, pendingMark>>
lock   == <<lockedBy, syncStep, torn>>
notice == <<event, posted, storeFailures>>
agent  == <<agentPc, agents, rows>>
sup    == <<supPc, watchPc, cancelEvent>>
vars   == <<disk, marks, lock, notice, agent, sup, childPc, reclaim>>

AgentPcs == {"launch", "await", "idle", "down", "start", "remark", "reap",
             "publish", "confirm"}
SupPcs == {"off", "boot", "spawn", "check", "record", "await", "kill",
           "watch", "verdict", "claim", "store", "confirm", "unclaim",
           "leave", "exit", "dead"}

TypeOK ==
  /\ fate \in Verdicts \union {"running"}
  /\ why \in {"none", "launch", "orphaned", "spawn", "unregistered",
              "exited", "error"}
  /\ owner \in {"agent", "supervisor"}
  /\ execution \in {"none", "spawned", "recorded", "registered"}
  /\ claimed \in BOOLEAN /\ receipt \in BOOLEAN
  /\ runningMark \in BOOLEAN /\ pendingMark \in BOOLEAN
  /\ lockedBy \in Threads \union {None}
  /\ syncStep \in {"none", "clearRunning", "settlePending"}
  /\ torn \in BOOLEAN
  /\ (lockedBy = None) <=> (syncStep = "none")
  /\ event \in Verdicts \union {None} /\ posted \in Nat
  /\ storeFailures \in 0..MaxStoreFailures
  /\ agentPc \in AgentPcs /\ agents \in 1..MaxAgents
  /\ rows \in SUBSET {"running", "pending"}
  /\ supPc \in SupPcs
  /\ watchPc \in {"off", "armed", "cancel", "kill", "killReclaimed"}
  /\ cancelEvent \in BOOLEAN
  /\ childPc \in {"off", "boot", "work", "exiting", "ended"}
  /\ reclaim \in {"none", "pending", "accepted", "rejected"}

Init ==
  /\ fate = "running" /\ why = "none" /\ owner = "agent"
  /\ execution = "none" /\ claimed = FALSE /\ receipt = FALSE
  /\ runningMark = TRUE /\ pendingMark = FALSE
  /\ lockedBy = None /\ syncStep = "none" /\ torn = FALSE
  /\ event = None /\ posted = 0 /\ storeFailures = 0
  /\ agentPc = "launch" /\ agents = 1 /\ rows = {}
  /\ supPc = "off" /\ watchPc = "off" /\ cancelEvent = FALSE
  /\ childPc = "off" /\ reclaim = "none"

-----------------------------------------------------------------------------
(* Transactions on daemon.json                                             *)

Free == lockedBy = None

\* _persist_daemon_state: the file is written, then the markers follow it.
Persist(t) ==
  IF fate' = "running"
    THEN /\ runningMark' = TRUE /\ pendingMark' = FALSE
         /\ UNCHANGED lock
    ELSE /\ lockedBy' = t /\ syncStep' = "clearRunning"
         /\ UNCHANGED <<marks, torn>>

\* For comparison: the receipt tested the wrong way round.
SyncInverted(t) ==
  /\ lockedBy = t
  /\ \/ /\ syncStep = "clearRunning"
        /\ runningMark' = FALSE
        /\ syncStep' = "settlePending"
        /\ UNCHANGED <<pendingMark, lockedBy, torn>>
     \/ /\ syncStep = "settlePending"
        /\ pendingMark' = receipt
        /\ lockedBy' = None /\ syncStep' = "none" /\ torn' = FALSE
        /\ UNCHANGED runningMark
  /\ UNCHANGED <<disk, notice, agent, sup, childPc, reclaim>>

\* _sync_dispatch_recovery of a terminal state, one file after the other.
SyncRecovery(t) ==
  /\ lockedBy = t
  /\ \/ /\ syncStep = "clearRunning"
        /\ runningMark' = FALSE
        /\ syncStep' = "settlePending"
        /\ UNCHANGED <<pendingMark, lockedBy, torn>>
     \/ /\ syncStep = "settlePending"
        /\ pendingMark' = ~receipt
        /\ lockedBy' = None /\ syncStep' = "none" /\ torn' = FALSE
        /\ UNCHANGED runningMark
  /\ UNCHANGED <<disk, notice, agent, sup, childPc, reclaim>>

\* For comparison: a verdict written over an earlier one.
LastVerdictWins(t, verdict, error) ==
  /\ Free
  /\ fate' = verdict /\ why' = error
  /\ UNCHANGED <<owner, execution, claimed, receipt>>
  /\ Persist(t)

\* mark_done, mark_failed, mark_cancelled, mark_timeout: the state is read
\* again under the lock, and the first verdict stands.
MarkTerminal(t, verdict, error) ==
  /\ Free
  /\ IF fate = "running"
       THEN /\ fate' = verdict /\ why' = error
            /\ UNCHANGED <<owner, execution, claimed, receipt>>
            /\ Persist(t)
       ELSE UNCHANGED <<disk, marks, lock>>

\* What a dying process leaves: the operating system drops its file lock.
DropLock(threads) ==
  IF lockedBy \in threads
    THEN /\ lockedBy' = None /\ syncStep' = "none"
         /\ torn' = (torn \/ /\ syncStep = "settlePending"
                             /\ ~receipt /\ ~pendingMark)
    ELSE UNCHANGED lock

\* _terminate_exact_run_children: only a child whose identity is recorded.
TerminateChild ==
  IF execution \in {"recorded", "registered"}
    THEN childPc' = "ended" /\ DropLock({"child"})
    ELSE UNCHANGED <<childPc, lock>>

-----------------------------------------------------------------------------
(* The notification channel                                                *)

\* _publish_daemon_notification: an event whose idempotency key is in the
\* run's file already counts as published.
Post ==
  IF event = None
    THEN event' = fate /\ posted' = posted + 1
    ELSE UNCHANGED <<event, posted>>

StoreAccepts == Post /\ UNCHANGED storeFailures

StoreRefuses ==
  /\ storeFailures < MaxStoreFailures
  /\ storeFailures' = storeFailures + 1
  /\ UNCHANGED <<event, posted>>

-----------------------------------------------------------------------------
(* The agent: launch                                                       *)

\* spawn_detached; it raises when the process cannot be created.
Launch ==
  /\ agentPc = "launch"
  /\ \/ /\ supPc' = "boot" /\ agentPc' = "await"
        /\ UNCHANGED <<disk, marks, lock>>
     \/ /\ MarkTerminal("agent", "failed", "launch")
        /\ agentPc' = "idle" /\ UNCHANGED supPc
  /\ UNCHANGED <<agents, rows, notice, watchPc, cancelEvent, childPc, reclaim>>

\* _await_supervisor_startup, and the mark_failed of the caller on its timeout.
AwaitStartup ==
  /\ agentPc = "await"
  /\ \/ /\ owner = "supervisor" \/ fate # "running"
        /\ UNCHANGED <<disk, marks, lock>>
     \/ MarkTerminal("agent", "failed", "launch")
  /\ agentPc' = "idle"
  /\ UNCHANGED <<agents, rows, notice, sup, childPc, reclaim>>

-----------------------------------------------------------------------------
(* The agent: running                                                      *)

SupAlive == supPc \notin {"off", "exit", "dead"}

\* _reclaim_detached_runs: only a running record whose supervisor lives.
RequestReclaim ==
  /\ agentPc = "idle" /\ lockedBy # "agent"
  /\ reclaim = "none"
  /\ fate = "running" /\ owner = "supervisor" /\ SupAlive
  /\ reclaim' = "pending"
  /\ UNCHANGED <<disk, marks, lock, notice, agent, sup, childPc>>

\* The agent dismisses the notice it has read.
DismissNotice ==
  /\ agentPc = "idle" /\ lockedBy # "agent"
  /\ event # None
  /\ event' = None
  /\ UNCHANGED <<disk, marks, lock, posted, storeFailures, agent, sup, childPc,
                 reclaim>>

AgentCrash ==
  /\ agentPc # "down"
  /\ agentPc' = "down" /\ rows' = {}
  /\ IF agentPc = "remark" /\ ~pendingMark /\ ~receipt
       THEN torn' = TRUE /\ UNCHANGED <<lockedBy, syncStep>>
       ELSE DropLock({"agent"})
  /\ UNCHANGED <<disk, marks, notice, agents, sup, childPc, reclaim>>

-----------------------------------------------------------------------------
(* The agent: recovery when it starts again                                *)

\* _recover_unresolved_markers reads the marker directory once.
AgentStart ==
  /\ agentPc = "down" /\ agents < MaxAgents
  /\ agents' = agents + 1
  /\ agentPc' = "start"
  /\ rows' = (IF runningMark THEN {"running"} ELSE {}) \union
             (IF pendingMark THEN {"pending"} ELSE {})
  /\ UNCHANGED <<disk, marks, lock, notice, sup, childPc, reclaim>>

\* A row "running": terminal meanwhile, or its owner is dead, or left alone.
RecoverRunning ==
  /\ agentPc = "start" /\ lockedBy # "agent"
  /\ "running" \in rows
  /\ rows' = rows \ {"running"}
  /\ \/ /\ fate # "running"
        /\ runningMark' = FALSE
        /\ agentPc' = IF receipt THEN "start" ELSE "remark"
     \/ /\ fate = "running"
        /\ agentPc' = IF owner = "supervisor" /\ SupAlive THEN "start" ELSE "reap"
        /\ UNCHANGED runningMark
  /\ UNCHANGED <<disk, pendingMark, lock, notice, agents, sup, childPc, reclaim>>

\* mark_pending_terminal_notification of that row.
RemarkPending ==
  /\ agentPc = "remark"
  /\ pendingMark' = TRUE /\ torn' = FALSE
  /\ agentPc' = "start"
  /\ UNCHANGED <<disk, runningMark, lockedBy, syncStep, notice, agents, rows,
                 sup, childPc, reclaim>>

\* _reap_daemon_state_path marks the orphan failed.
Reap ==
  /\ agentPc = "reap"
  /\ MarkTerminal("agent", "failed", "orphaned")
  /\ agentPc' = "start"
  /\ UNCHANGED <<agents, rows, notice, sup, childPc, reclaim>>

\* _reconcile_terminal_notification_path of a row "pending-terminal".
RecoverPending ==
  /\ agentPc = "start" /\ lockedBy # "agent"
  /\ "pending" \in rows
  /\ rows' = rows \ {"pending"}
  /\ \/ /\ fate # "running" /\ ~receipt
        /\ agentPc' = "publish" /\ UNCHANGED pendingMark
     \/ /\ fate # "running" /\ receipt
        /\ pendingMark' = FALSE /\ UNCHANGED agentPc
     \/ /\ fate = "running"
        /\ UNCHANGED <<agentPc, pendingMark>>
  /\ UNCHANGED <<disk, runningMark, lock, notice, agents, sup, childPc, reclaim>>

AgentPublish ==
  /\ agentPc = "publish"
  /\ \/ StoreAccepts /\ agentPc' = "confirm"
     \/ StoreRefuses /\ agentPc' = "start"
  /\ UNCHANGED <<disk, marks, lock, agents, rows, sup, childPc, reclaim>>

\* mark_terminal_notification_published_on_disk: nothing when it is there.
AgentConfirm ==
  /\ agentPc = "confirm" /\ Free
  /\ IF receipt
       THEN UNCHANGED <<claimed, receipt, pendingMark>>
       ELSE receipt' = TRUE /\ claimed' = FALSE /\ pendingMark' = FALSE
  /\ agentPc' = "start"
  /\ UNCHANGED <<fate, why, owner, execution, runningMark, lock, notice, agents,
                 rows, sup, childPc, reclaim>>

AgentReady ==
  /\ agentPc = "start" /\ rows = {} /\ lockedBy # "agent"
  /\ agentPc' = "idle"
  /\ UNCHANGED <<disk, marks, lock, notice, agents, rows, sup, childPc, reclaim>>

-----------------------------------------------------------------------------
(* The supervisor: one execution child                                     *)

SupAt(pc) == supPc = pc /\ lockedBy # "supervisor"

\* _run_supervisor_owned records itself, whatever the state is by now.
SupRecordsItself ==
  /\ SupAt("boot") /\ Free
  /\ owner' = "supervisor" /\ supPc' = "spawn"
  /\ UNCHANGED <<fate, why, execution, claimed, receipt>>
  /\ Persist("supervisor")
  /\ UNCHANGED <<notice, agent, watchPc, cancelEvent, childPc, reclaim>>

\* The registration is reset and the child spawned, or the spawn raises.
SupSpawns ==
  /\ SupAt("spawn") /\ Free
  /\ \/ /\ execution' = "spawned" /\ childPc' = "boot" /\ supPc' = "check"
        /\ UNCHANGED <<fate, why, owner, claimed, receipt>>
        /\ Persist("supervisor")
     \/ /\ MarkTerminal("supervisor", "failed", "spawn")
        /\ supPc' = "claim" /\ UNCHANGED childPc
  /\ UNCHANGED <<notice, agent, watchPc, cancelEvent, reclaim>>

\* The child may have registered already: a read without the lock.
SupChecks ==
  /\ SupAt("check")
  /\ supPc' = IF execution = "registered" THEN "await" ELSE "record"
  /\ UNCHANGED <<disk, marks, lock, notice, agent, watchPc, cancelEvent, childPc,
                 reclaim>>

\* For comparison: the identity of the child left to the child.
SupLeavesIdentity ==
  /\ SupAt("record") /\ Free
  /\ supPc' = "await"
  /\ UNCHANGED <<disk, marks, lock, notice, agent, watchPc, cancelEvent, childPc,
                 reclaim>>

\* The pid and its identity, together with execution_registration "spawned".
SupRecordsChild ==
  /\ SupAt("record") /\ Free
  /\ execution' = "recorded" /\ supPc' = "await"
  /\ UNCHANGED <<fate, why, owner, claimed, receipt>>
  /\ Persist("supervisor")
  /\ UNCHANGED <<notice, agent, watchPc, cancelEvent, childPc, reclaim>>

\* Registered: the watcher starts.
SupSeesRegistration ==
  /\ SupAt("await") /\ execution = "registered"
  /\ supPc' = "watch" /\ watchPc' = "armed"
  /\ UNCHANGED <<disk, marks, lock, notice, agent, cancelEvent, childPc, reclaim>>

\* Five seconds are over, or the child has ended, without a registration.
SupGivesUp ==
  /\ SupAt("await") /\ execution # "registered"
  /\ MarkTerminal("supervisor", "failed", "unregistered")
  /\ supPc' = "kill"
  /\ UNCHANGED <<notice, agent, watchPc, cancelEvent, childPc, reclaim>>

SupKills ==
  /\ SupAt("kill")
  /\ TerminateChild
  /\ supPc' = "claim"
  /\ UNCHANGED <<disk, marks, notice, agent, watchPc, cancelEvent, reclaim>>

\* The child has exited; the watcher is told to stop.
SupSeesExit ==
  /\ SupAt("watch") /\ childPc = "ended"
  /\ cancelEvent' = TRUE /\ supPc' = "verdict"
  /\ UNCHANGED <<disk, marks, lock, notice, agent, watchPc, childPc, reclaim>>

SupVerdict ==
  /\ SupAt("verdict")
  /\ MarkTerminal("supervisor", "failed", "exited")
  /\ supPc' = "claim"
  /\ UNCHANGED <<notice, agent, watchPc, cancelEvent, childPc, reclaim>>

-----------------------------------------------------------------------------
(* The supervisor: the notice                                              *)

\* claim_terminal_notification: nobody else has published or is about to.
SupClaims ==
  /\ SupAt("claim") /\ Free
  /\ IF receipt \/ claimed
       THEN supPc' = "leave" /\ UNCHANGED <<disk, marks, lock>>
       ELSE /\ claimed' = TRUE /\ supPc' = "store"
            /\ UNCHANGED <<fate, why, owner, execution, receipt>>
            /\ Persist("supervisor")
  /\ UNCHANGED <<notice, agent, watchPc, cancelEvent, childPc, reclaim>>

SupPublishes ==
  /\ SupAt("store")
  /\ \/ StoreAccepts /\ supPc' = "confirm"
     \/ StoreRefuses /\ supPc' = "unclaim"
  /\ UNCHANGED <<disk, marks, lock, agent, watchPc, cancelEvent, childPc, reclaim>>

\* mark_terminal_notification_published.
SupConfirms ==
  /\ SupAt("confirm") /\ Free
  /\ receipt' = TRUE /\ claimed' = FALSE /\ supPc' = "leave"
  /\ UNCHANGED <<fate, why, owner, execution>>
  /\ Persist("supervisor")
  /\ UNCHANGED <<notice, agent, watchPc, cancelEvent, childPc, reclaim>>

\* clear_terminal_notification_claim: a failed attempt stays retryable.
SupUnclaims ==
  /\ SupAt("unclaim") /\ Free
  /\ supPc' = "leave"
  /\ IF receipt
       THEN UNCHANGED <<disk, marks, lock>>
       ELSE /\ claimed' = FALSE
            /\ UNCHANGED <<fate, why, owner, execution, receipt>>
            /\ Persist("supervisor")
  /\ UNCHANGED <<notice, agent, watchPc, cancelEvent, childPc, reclaim>>

\* The process ends, and its daemon threads with it.
SupExits ==
  /\ SupAt("leave")
  /\ supPc' = "exit" /\ watchPc' = "off"
  /\ DropLock({"watcher"})
  /\ UNCHANGED <<disk, marks, notice, agent, cancelEvent, childPc, reclaim>>

SupCrash ==
  /\ SupAlive
  /\ supPc' = "dead" /\ watchPc' = "off"
  /\ DropLock({"supervisor", "watcher"})
  /\ UNCHANGED <<disk, marks, notice, agent, cancelEvent, childPc, reclaim>>

-----------------------------------------------------------------------------
(* The control and deadline watcher                                        *)

WatchAt(pc) == watchPc = pc /\ lockedBy # "watcher"

\* For comparison: a deadline that is recorded but not enforced.
DeadlineNoted ==
  /\ WatchAt("armed") /\ ~cancelEvent
  /\ MarkTerminal("watcher", "timeout", "none")
  /\ cancelEvent' = TRUE /\ watchPc' = "off"
  /\ UNCHANGED <<notice, agent, supPc, childPc, reclaim>>

DeadlinePasses ==
  /\ WatchAt("armed") /\ ~cancelEvent
  /\ MarkTerminal("watcher", "timeout", "none")
  /\ cancelEvent' = TRUE /\ watchPc' = "kill"
  /\ UNCHANGED <<notice, agent, supPc, childPc, reclaim>>

\* A reclaim is rejected when the run has ended, by a read without the lock.
WatchReadsRequest ==
  /\ WatchAt("armed") /\ ~cancelEvent
  /\ reclaim = "pending"
  /\ IF fate = "running"
       THEN watchPc' = "cancel" /\ UNCHANGED reclaim
       ELSE reclaim' = "rejected" /\ UNCHANGED watchPc
  /\ UNCHANGED <<disk, marks, lock, notice, agent, supPc, cancelEvent, childPc>>

WatchCancels ==
  /\ WatchAt("cancel")
  /\ MarkTerminal("watcher", "cancelled", "none")
  /\ cancelEvent' = TRUE /\ watchPc' = "killReclaimed"
  /\ UNCHANGED <<notice, agent, supPc, childPc, reclaim>>

WatchKills ==
  /\ WatchAt("kill") \/ WatchAt("killReclaimed")
  /\ TerminateChild
  /\ watchPc' = "off"
  /\ reclaim' = IF watchPc = "killReclaimed" THEN "accepted" ELSE reclaim
  /\ UNCHANGED <<disk, marks, notice, agent, supPc, cancelEvent>>

WatchStops ==
  /\ WatchAt("armed") /\ cancelEvent
  /\ watchPc' = "off"
  /\ UNCHANGED <<disk, marks, lock, notice, agent, supPc, cancelEvent, childPc,
                 reclaim>>

-----------------------------------------------------------------------------
(* The execution child                                                     *)

ChildAt(pc) == childPc = pc /\ lockedBy # "child"

\* It records its identity as registered, whatever the state is by now.
ChildRegisters ==
  /\ ChildAt("boot") /\ Free
  /\ execution' = "registered" /\ childPc' = "work"
  /\ UNCHANGED <<fate, why, owner, claimed, receipt>>
  /\ Persist("child")
  /\ UNCHANGED <<notice, agent, sup, reclaim>>

ChildFinishes ==
  /\ ChildAt("work")
  /\ \/ MarkTerminal("child", "done", "none")
     \/ MarkTerminal("child", "failed", "error")
  /\ childPc' = "exiting"
  /\ UNCHANGED <<notice, agent, sup, reclaim>>

ChildExits ==
  /\ ChildAt("exiting")
  /\ childPc' = "ended"
  /\ UNCHANGED <<disk, marks, lock, notice, agent, sup, reclaim>>

ChildCrash ==
  /\ childPc \in {"boot", "work", "exiting"}
  /\ childPc' = "ended"
  /\ DropLock({"child"})
  /\ UNCHANGED <<disk, marks, notice, agent, sup, reclaim>>

-----------------------------------------------------------------------------
AgentStep ==
  \/ Launch \/ AwaitStartup \/ RecoverRunning \/ RemarkPending \/ Reap
  \/ RecoverPending \/ AgentPublish \/ AgentConfirm \/ AgentReady
  \/ SyncRecovery("agent")

SupStep ==
  \/ SupRecordsItself \/ SupSpawns \/ SupChecks \/ SupRecordsChild
  \/ SupSeesRegistration \/ SupGivesUp \/ SupKills \/ SupSeesExit
  \/ SupVerdict \/ SupClaims \/ SupPublishes \/ SupConfirms \/ SupUnclaims
  \/ SupExits \/ SyncRecovery("supervisor")

WatchStep ==
  \/ DeadlinePasses \/ WatchReadsRequest \/ WatchCancels \/ WatchKills
  \/ WatchStops \/ SyncRecovery("watcher")

ChildStep ==
  \/ ChildRegisters \/ ChildFinishes \/ ChildExits \/ SyncRecovery("child")

Next ==
  \/ AgentStep \/ SupStep \/ WatchStep \/ ChildStep
  \/ RequestReclaim \/ DismissNotice
  \/ AgentCrash \/ AgentStart \/ SupCrash \/ ChildCrash

Spec == Init /\ [][Next]_vars

\* Every live thread goes on; nobody has to crash, to restart the agent, to
\* ask for a reclaim or to dismiss, and the work itself may take for ever.
Fairness ==
  /\ WF_vars(AgentStep) /\ WF_vars(SupStep) /\ WF_vars(WatchStep)
  /\ WF_vars(ChildRegisters \/ ChildExits \/ SyncRecovery("child"))

FairSpec == Spec /\ Fairness

-----------------------------------------------------------------------------
(* Properties                                                              *)

\* "The small marker directory contains only unresolved ... work": and every
\* unresolved run is in it, so that a later start finds it.  The exception is
\* the process that died between the two files of one transaction.
UnresolvedIsMarked ==
  \/ runningMark \/ pendingMark \/ torn
  \/ receipt
  \/ lockedBy # None /\ syncStep = "settlePending"
  \/ agentPc = "remark"

\* When the supervisor turns to the notice its run is decided and its child is
\* gone: no daemon works on behind the notice that tells its end, also when the
\* child registered at the moment the supervisor gave it up.
PublisherLeavesNoChild ==
  supPc \in {"claim", "store", "confirm", "unclaim", "leave", "exit"} =>
    /\ fate # "running"
    /\ childPc \in {"off", "ended"}

\* The four parties and all their crashes implement the promise of RunOutcome:
\* one final outcome, a notice that tells it, a receipt that is true.
Outcome == INSTANCE RunOutcome WITH outcome <- fate, notice <- event

ImplementsOutcome == Outcome!Spec

\* A supervisor that was launched and does not die brings its run to a verdict
\* and the verdict to the agent; and what a start of the agent finds marked as
\* pending is published by it: both unless the store refuses.
OutcomeSurfaces ==
  /\ supPc = "boot" ~> posted > 0 \/ supPc = "dead" \/ storeFailures > 0
  /\ agentPc = "publish" ~> posted > 0 \/ agentPc = "down" \/ storeFailures > 0

\* "execution child did not register within 5 seconds" is only said of a child
\* that has not registered.
UnregisteredIsTrue ==
  [][why # "unregistered" /\ why' = "unregistered" => childPc # "work"]_vars
=============================================================================

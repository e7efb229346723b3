--------------------------- MODULE RefreshWatcher ---------------------------
(***************************************************************************)
(* A refresh: the agent that runs hands its directory to a new process.    *)
(* It leaves `.refresh.taken`, starts a detached watcher and shuts down;   *)
(* the watcher waits for the marker and for the lease, then relaunches the *)
(* agent until one attempt shows a heartbeat, stopping a stale duplicate   *)
(* that an attempt ran into.  A person may start the agent by hand in      *)
(* between.  Processes meet in five places only: the lease, the heartbeat  *)
(* file, the marker, the process table and the relaunch log.               *)
(*                                                                         *)
(* The specification begins when spawn_detached has returned and ends with *)
(* the watcher.  Time is abstract: a deadline may pass at any moment, and a*)
(* heartbeat grows old only while no process is beating.                   *)
(***************************************************************************)
EXTENDS WorkdirLease, Sequences

CONSTANTS Old,          \* the process that asked for the refresh
          Hand,         \* a process a person starts
          Kids,         \* attempt -> the process start_agent creates in it
          Watcher

MaxAttempts == Len(Kids)
KidSet == {Kids[i] : i \in 1..MaxAttempts}
Agents == {Old, Hand} \cup KidSet

ASSUME WatcherConstants ==
  /\ Procs = Agents \cup {Watcher} /\ Watcher \notin Agents
  /\ Kids \in Seq(Procs) /\ MaxAttempts > 0
  /\ \A i, j \in 1..MaxAttempts : Kids[i] = Kids[j] => i = j
  /\ Old # Hand /\ Old \notin KidSet /\ Hand \notin KidSet
  /\ Files # {}

VARIABLES
  phase,      \* agent -> its life, see Phases
  told,       \* agent -> the signal the watcher sent it last
  marker,     \* `.refresh.taken` exists
  beatBy,     \* who wrote the heartbeat file last, NoProc when there is none
  beatAge,    \* its age: 0 under 20 s, 1 under 30, 2 under 60, 3 older
  beatNew,    \* it is later than the watcher's baseline
  late,       \* Old's heartbeat thread outlived the join of _stop_heartbeat
  refusals,   \* relaunch log: the PIDs that refused attempts named
  refused,    \* the current attempt's guard line is in the log
  pc,         \* the watcher's program counter
  overdue,    \* the 60 s deadline of phases 1 and 2 has passed
  attempt,    \* 1..MaxAttempts in phase 3
  target,     \* the duplicate under cleanup
  result      \* how the watcher ended

watchVars == <<pc, overdue, attempt, target, result>>
beatVars == <<beatBy, beatAge, beatNew, late>>
logVars == <<refusals, refused>>
vars == <<leaseVars, phase, told, marker, beatVars, logVars, watchVars>>

Phases == {"none",      \* not started
           "boot",      \* in the process table, duplicates not looked for yet
           "lease",     \* in acquire(10)
           "built",     \* lease held, MCP servers booting, no heartbeat yet
           "asked",     \* saw `.refresh.taken`, about to remove it
           "live",      \* beating every second
           "hung",      \* alive, lease held, not beating
           "stopping",  \* told to stop, still beating
           "release",   \* heartbeat withdrawn, lease being released
           "gone"}

Pcs == {"ack", "free", "probe", "probed", "baseline", "observe", "gate",
        "launch", "health", "settle", "inspect", "grace", "exit", "done"}

Results == {"none", "ack_timeout", "lock_timeout", "already_alive",
            "relaunch_success", "refresh_failed_permanent"}

TypeOK ==
  /\ LeaseTypeOK
  /\ phase \in [Agents -> Phases]
  /\ told \in [Agents -> {"nothing", "SIGTERM", "SIGKILL"}]
  /\ marker \in BOOLEAN
  /\ beatBy \in Agents \cup {NoProc} /\ beatAge \in 0..3 /\ beatNew \in BOOLEAN
  /\ late \in {"no", "pending", "wrote"}
  /\ refusals \subseteq Agents /\ refused \in BOOLEAN
  /\ pc \in Pcs /\ overdue \in BOOLEAN /\ attempt \in 0..MaxAttempts
  /\ target \in Agents \cup {NoProc} /\ result \in Results

Init ==
  /\ named = CHOOSE f \in Files : TRUE
  /\ locker = [f \in Files |-> IF f = named THEN Old ELSE NoProc]
  /\ handle = [p \in Procs |-> IF p = Old THEN named ELSE NoFile]
  /\ step = [p \in Procs |-> IF p = Old THEN "held" ELSE "idle"]
  /\ torn = FALSE
  /\ phase = [a \in Agents |-> IF a = Old THEN "stopping" ELSE "none"]
  /\ told = [a \in Agents |-> "nothing"]
  /\ marker = TRUE
  /\ beatBy = Old /\ beatAge = 0 /\ beatNew = FALSE /\ late = "no"
  /\ refusals = {} /\ refused = FALSE
  /\ pc = "ack" /\ overdue = FALSE /\ attempt = 0
  /\ target = NoProc /\ result = "none"

Becomes(a, ph) == phase' = [phase EXCEPT ![a] = ph]
Is(a, ph) == phase[a] = ph

\* In the process table with the command line of a run of this directory; a
\* child that has exited stays a zombie without one.
InTable(a) == phase[a] \notin {"none", "gone"}

-----------------------------------------------------------------------------
(* An agent process *)

\* _check_duplicate_process: the first matching line of the process table, in
\* any order, refuses the boot.  Only an attempt's stderr is the relaunch log.
Refuse(a) ==
  /\ Is(a, "boot")
  /\ \E other \in Agents \ {a} :
       /\ InTable(other)
       /\ IF a \in KidSet
          THEN /\ refusals' = refusals \cup {other}
               /\ refused' = (refused \/ a = Kids[attempt])
          ELSE UNCHANGED logVars
  /\ Becomes(a, "gone")
  /\ UNCHANGED <<leaseVars, told, marker, beatVars, watchVars>>

\* For comparison: a boot that does not look at the process table.
AdmitUnseen(a) ==
  /\ Is(a, "boot")
  /\ Becomes(a, "lease")
  /\ UNCHANGED <<leaseVars, told, marker, beatVars, logVars, watchVars>>

Admit(a) ==
  /\ Is(a, "boot")
  /\ \A other \in Agents \ {a} : ~InTable(other)
  /\ Becomes(a, "lease")
  /\ UNCHANGED <<leaseVars, told, marker, beatVars, logVars, watchVars>>

\* BaseAgent's acquire(10); a raise ends the boot.
Acquire(a) ==
  /\ Is(a, "lease")
  /\ \/ OpenLock(a) /\ UNCHANGED phase
     \/ TakeLock(a) /\ Becomes(a, "built")
     \/ FailLock(a, "waiting") /\ UNCHANGED phase
     \/ FailLock(a, "idle") /\ Becomes(a, "gone")
  /\ UNCHANGED <<told, marker, beatVars, logVars, watchVars>>

\* The rest of construction fails: the lease is rolled back and the boot ends.
BootFails(a) ==
  /\ Is(a, "built")
  /\ Becomes(a, "release")
  /\ UNCHANGED <<leaseVars, told, marker, beatVars, logVars, watchVars>>

\* cli.run: the marker is looked at, removed, and only then start() beats.
LookForMarker(a) ==
  /\ Is(a, "built")
  /\ Becomes(a, IF marker THEN "asked" ELSE "live")
  /\ UNCHANGED <<leaseVars, told, marker, beatVars, logVars, watchVars>>

\* unlink() without missing_ok, outside the try: a marker the watcher removed
\* in between ends the process, which leaves the lease to the system.
TakeMarker(a) ==
  /\ Is(a, "asked")
  /\ IF marker
     THEN Becomes(a, "live") /\ UNCHANGED leaseVars
     ELSE Becomes(a, "gone") /\ ExitProcess(a)
  /\ marker' = FALSE
  /\ UNCHANGED <<told, beatVars, logVars, watchVars>>

\* One publication of the heartbeat loop, which goes on while the agent stops.
Beat(a) ==
  /\ phase[a] \in {"live", "stopping"}
  /\ <<beatBy, beatAge, beatNew>> # <<a, 0, TRUE>>
  /\ beatBy' = a /\ beatAge' = 0 /\ beatNew' = TRUE
  /\ UNCHANGED <<leaseVars, phase, told, marker, late, logVars, watchVars>>

\* The process stalls; it may come back.
Hang(a) ==
  /\ Is(a, "live")
  /\ Becomes(a, "hung")
  /\ UNCHANGED <<leaseVars, told, marker, beatVars, logVars, watchVars>>

Resume(a) ==
  /\ Is(a, "hung")
  /\ Becomes(a, "live")
  /\ UNCHANGED <<leaseVars, told, marker, beatVars, logVars, watchVars>>

\* _stop after quiescence: stop the heartbeat thread, waiting 5 s for it, and
\* withdraw the file.  Old's thread may be inside its publication still.
Withdraw(a) ==
  /\ Is(a, "stopping")
  /\ beatBy' = NoProc /\ beatAge' = 0 /\ beatNew' = FALSE
  /\ late' \in IF a = Old THEN {"no", "pending"} ELSE {late}
  /\ Becomes(a, "release")
  /\ UNCHANGED <<leaseVars, told, marker, logVars, watchVars>>

LateBeat ==
  /\ late = "pending"
  /\ InTable(Old)
  /\ late' = "wrote"
  /\ beatBy' = Old /\ beatAge' = 0 /\ beatNew' = TRUE
  /\ UNCHANGED <<leaseVars, phase, told, marker, logVars, watchVars>>

\* WorkdirLeasePort.release, its steps.
Release(a) ==
  /\ Is(a, "release")
  /\ Unlock(a) \/ CloseLock(a) \/ Unlink(a)
  /\ UNCHANGED <<phase, told, marker, beatVars, logVars, watchVars>>

\* The process leaves the table: its release is over, or it dies earlier, by
\* os._exit of a poisoned worker or by a crash.
Leave(a) ==
  /\ InTable(a)
  /\ ExitProcess(a)
  /\ Becomes(a, "gone")
  /\ told' = [told EXCEPT ![a] = "nothing"]
  /\ UNCHANGED <<marker, beatVars, logVars, watchVars>>

\* The handler of SIGTERM has touched `.suspend` and set _shutdown.
Obey(a) ==
  /\ Is(a, "live") /\ told[a] = "SIGTERM"
  /\ Becomes(a, "stopping")
  /\ UNCHANGED <<leaseVars, told, marker, beatVars, logVars, watchVars>>

AgentStep(a) ==
  \/ /\ told[a] # "SIGKILL"
     /\ \/ Refuse(a) \/ Admit(a) \/ Acquire(a) \/ BootFails(a)
        \/ LookForMarker(a) \/ TakeMarker(a) \/ Beat(a) \/ Hang(a) \/ Resume(a)
        \/ Obey(a) \/ Withdraw(a) \/ Release(a)
  \/ Leave(a)

LaunchByHand ==
  /\ Is(Hand, "none")
  /\ Becomes(Hand, "boot")
  /\ UNCHANGED <<leaseVars, told, marker, beatVars, logVars, watchVars>>

\* Nobody beats and the file grows older.
Age ==
  /\ beatBy # NoProc /\ beatAge < 3
  /\ \A a \in Agents : phase[a] \notin {"live", "stopping"}
  /\ beatAge' = beatAge + 1
  /\ UNCHANGED <<leaseVars, phase, told, marker, beatBy, beatNew, late, logVars, watchVars>>

-----------------------------------------------------------------------------
(* The watcher: the policy that watcher_program renders *)

\* _settle_taken: the marker goes, unless its removal fails, and the watcher ends.
Settle(how) ==
  /\ marker' = FALSE \/ UNCHANGED marker
  /\ result' = how
  /\ pc' = "done"

\* The 60 s of phases 1 and 2, one deadline for both.
Overdue ==
  /\ pc \in {"ack", "free", "probe", "probed"} /\ ~overdue
  /\ overdue' = TRUE
  /\ UNCHANGED <<leaseVars, phase, told, marker, beatVars, logVars, pc, attempt, target, result>>

\* Phase 1: wait for the marker.
AwaitMarker ==
  /\ pc = "ack"
  /\ \/ marker /\ pc' = "free" /\ UNCHANGED <<marker, result>>
     \/ ~marker /\ overdue /\ Settle("ack_timeout")
  /\ UNCHANGED <<leaseVars, phase, told, beatVars, logVars, overdue, attempt, target>>

\* For comparison: phase 2 that takes the name of the lock file for the lock.
AwaitNameGone ==
  /\ pc = "free"
  /\ \/ overdue /\ Settle("lock_timeout")
     \/ /\ ~overdue /\ named = NoFile
        /\ pc' = "baseline"
        /\ UNCHANGED <<marker, result>>
  /\ UNCHANGED <<leaseVars, phase, told, beatVars, logVars, overdue, attempt, target>>

\* Phase 2: the name is gone, or a probe acquires and releases the lease.
AwaitFree ==
  /\ pc = "free"
  /\ \/ overdue /\ Settle("lock_timeout")
     \/ /\ ~overdue
        /\ pc' = IF named = NoFile THEN "baseline" ELSE "probe"
        /\ UNCHANGED <<marker, result>>
  /\ UNCHANGED <<leaseVars, phase, told, beatVars, logVars, overdue, attempt, target>>

Probe ==
  /\ pc = "probe"
  /\ \/ OpenLock(Watcher) /\ UNCHANGED pc
     \/ TakeLock(Watcher) /\ pc' = "probed"
     \/ FailLock(Watcher, "idle") /\ pc' = "free"
  /\ UNCHANGED <<phase, told, marker, beatVars, logVars, overdue, attempt, target, result>>

ProbeRelease ==
  /\ pc = "probed"
  /\ \/ Unlock(Watcher) \/ CloseLock(Watcher) \/ Unlink(Watcher)
  /\ pc' = IF step'[Watcher] \in {"idle", "leaked"} THEN "baseline" ELSE "probed"
  /\ UNCHANGED <<phase, told, marker, beatVars, logVars, overdue, attempt, target, result>>

\* hb_baseline: only a later heartbeat counts from here on.
Baseline ==
  /\ pc = "baseline"
  /\ beatNew' = FALSE
  /\ attempt' = 1
  /\ pc' = IF beatBy # NoProc /\ beatAge < 2 THEN "observe" ELSE "gate"
  /\ UNCHANGED <<leaseVars, phase, told, marker, beatBy, beatAge, late, logVars, overdue, target, result>>

\* A young baseline gets ALREADY_ALIVE_OBSERVE to advance.
Observe ==
  /\ pc = "observe"
  /\ pc' = "gate"
  /\ UNCHANGED <<leaseVars, phase, told, marker, beatVars, logVars, overdue, attempt, target, result>>

\* For comparison: any heartbeat counts, the dead owner's too.
AnyBeat == beatBy # NoProc

Advanced == beatBy # NoProc /\ beatNew

IsAlive == Advanced /\ beatAge < 2

Gate ==
  /\ pc = "gate"
  /\ \/ IsAlive /\ Settle("already_alive") /\ UNCHANGED logVars
     \/ /\ ~IsAlive
        /\ pc' = "launch"
        /\ refused' = FALSE
        /\ UNCHANGED <<marker, result, refusals>>
  /\ UNCHANGED <<leaseVars, phase, told, beatVars, overdue, attempt, target>>

NextAttempt ==
  \/ /\ attempt < MaxAttempts
     /\ attempt' = attempt + 1
     /\ pc' = "gate"
     /\ UNCHANGED <<marker, result>>
  \/ /\ attempt = MaxAttempts
     /\ Settle("refresh_failed_permanent")
     /\ UNCHANGED attempt

\* start_agent, which may raise.
Launch ==
  /\ pc = "launch"
  /\ \/ /\ Becomes(Kids[attempt], "boot")
        /\ pc' = "health"
        /\ UNCHANGED <<marker, result, attempt>>
     \/ NextAttempt /\ UNCHANGED phase
  /\ UNCHANGED <<leaseVars, told, beatVars, logVars, overdue, target>>

\* _await_fresh_heartbeat: success; or a refusal, after which it looks once
\* more; or the budget is spent.
Health ==
  /\ pc \in {"health", "settle"}
  /\ \/ Advanced /\ beatAge = 0 /\ Settle("relaunch_success")
     \/ /\ ~(Advanced /\ beatAge = 0)
        /\ pc' \in IF pc = "health" /\ refused THEN {"settle", "inspect"} ELSE {"inspect"}
        /\ UNCHANGED <<marker, result>>
  /\ UNCHANGED <<leaseVars, phase, told, beatVars, logVars, overdue, attempt, target>>

\* What the last twenty lines of the log may begin with: the refusals that are
\* still in them, the one of this attempt always.
TailNames == refusals \cup (IF refused THEN {} ELSE {NoProc})

\* SIGTERM before cli.run has installed its handlers ends the process at once.
Terminate(a) ==
  IF phase[a] \in {"boot", "lease", "built"}
  THEN Becomes(a, "gone") /\ ExitProcess(a) /\ UNCHANGED told
  ELSE told' = [told EXCEPT ![a] = "SIGTERM"] /\ UNCHANGED <<leaseVars, phase>>

\* _cleanup_stale_duplicate: the first PID of the tail, when it is a run of this
\* directory and nobody's heartbeat has advanced in the last 60 s.
Inspect ==
  /\ pc = "inspect"
  /\ \E dup \in TailNames :
       \/ /\ dup # NoProc /\ InTable(dup)
          /\ ~(Advanced /\ beatAge < 3)
          /\ Terminate(dup)
          /\ target' = dup
          /\ pc' = "grace"
          /\ UNCHANGED <<marker, attempt, result>>
       \/ /\ dup # NoProc => ~InTable(dup) \/ (Advanced /\ beatAge < 3)
          /\ NextAttempt
          /\ UNCHANGED <<leaseVars, phase, told, target>>
  /\ UNCHANGED <<beatVars, logVars, overdue>>

\* Five seconds to go, then SIGKILL; to a zombie it does nothing.
Grace ==
  /\ pc = "grace"
  /\ IF InTable(target)
     THEN told' = [told EXCEPT ![target] = "SIGKILL"]
     ELSE UNCHANGED told
  /\ pc' = "exit"
  /\ UNCHANGED <<leaseVars, phase, marker, beatVars, logVars, overdue, attempt, target, result>>

\* For comparison: a wait for the duplicate that has no end.
AwaitExitForever ==
  /\ pc = "exit" /\ ~InTable(target)
  /\ NextAttempt
  /\ target' = NoProc
  /\ UNCHANGED <<leaseVars, phase, told, beatVars, logVars, overdue>>

\* _await_duplicate_exit: until it is gone or DUPLICATE_EXIT_WAIT is over; the
\* next attempt follows either way.
AwaitExit ==
  /\ pc = "exit"
  /\ NextAttempt
  /\ target' = NoProc
  /\ UNCHANGED <<leaseVars, phase, told, beatVars, logVars, overdue>>

WatcherStep ==
  \/ AwaitMarker \/ AwaitFree \/ Probe \/ ProbeRelease \/ Baseline \/ Observe
  \/ Gate \/ Launch \/ Health \/ Inspect \/ Grace \/ AwaitExit

\* The watcher's process ends with its descriptors.
WatcherLeaves ==
  /\ pc = "done" /\ handle[Watcher] # NoFile
  /\ ExitProcess(Watcher)
  /\ UNCHANGED <<phase, told, marker, beatVars, logVars, watchVars>>

\* What follows the watcher's end is not this refresh any more.
Next ==
  \/ /\ pc # "done"
     /\ \/ \E a \in Agents : AgentStep(a)
        \/ LaunchByHand \/ LateBeat \/ Age \/ Overdue \/ WatcherStep
  \/ WatcherLeaves

Spec == Init /\ [][Next]_vars

\* The watcher's process is scheduled; agents, people, clocks and the file
\* system owe nothing.
FairSpec == Spec /\ WF_vars(WatcherStep)

-----------------------------------------------------------------------------
Driving(a) == phase[a] \in {"built", "asked", "live", "hung", "stopping"}

\* No two processes drive the directory at once: one that is past its lease and
\* not yet at its release.  The lease alone does not give this (it can be torn);
\* the process-table guard of cli.run and the lease together do.
OneAgentAtATime == \A a, b \in Agents : Driving(a) /\ Driving(b) => a = b

\* The watcher never takes the dead owner's heartbeat for a live agent: when it
\* reports an agent alive or a relaunch successful, the heartbeat it judged by
\* was written by another process than the one that asked for the refresh,
\* unless that one's heartbeat thread outlived its join and wrote once more.
NoFalseSuccess ==
  [][result' \in {"already_alive", "relaunch_success"} /\ result = "none"
       => beatBy # Old \/ late = "wrote"]_vars

\* A holder that died without releasing does not hold up the relaunch: while the
\* deadline lasts and only the watcher itself has the lease, phase 2 ends.
HardExitDoesNotStrand ==
  (pc = "free" /\ Owners \subseteq {Watcher})
     ~> (pc \notin {"free", "probe", "probed"} \/ ~(Owners \subseteq {Watcher}))

\* Once the lease was free the watcher ends, whatever the duplicates do.
WatcherEnds == (pc = "baseline") ~> (pc = "done")

=============================================================================

---------------------------- MODULE DaemonManager ----------------------------
(***************************************************************************)
(* The resident manager process that queues detached daemon runs: who      *)
(* submits makes sure that one is there, writes a job file and hands the   *)
(* run's capsule to the manager's socket; the manager starts a job whose   *)
(* capsule it holds, fails one whose capsule does not come, cancels one    *)
(* that is reclaimed before its start, and, when it comes up, fails what   *)
(* its predecessor left active.  The unlink of the job file decides who    *)
(* owns a run.  Managers, submitters and children die anywhere; the        *)
(* children of a dead manager go on.  The run itself, with its record and  *)
(* its notice, is the subject of DaemonRun.                                *)
(***************************************************************************)
EXTENDS Naturals, FiniteSets

CONSTANTS
  Runs,
  Troubled,    \* a bound: the runs whose submitter may fail and that may be reclaimed
  MaxManagers, \* manager processes, one spawned after the other
  PoolSize,
  None

ASSUME ManagerConstants ==
  /\ Troubled \subseteq Runs
  /\ PoolSize \in Nat \ {0} /\ MaxManagers \in Nat
  /\ None \notin Runs \union (1..MaxManagers)

VARIABLES
  \* files
  pid,      \* the manager that manager.pid names
  fresh,    \* manager.pid is younger than _PID_STALE_AFTER_S
  job,      \* the runs that have a file in queue/
  journal,  \* per run
  fate,     \* of a run; of the verdicts only the one of the recovery is told apart
  owner,    \* the manager a run's record names
  reclaims, \* the runs with a reclaim request
  \* manager processes
  mgr, sock, capsules, pc, hand, todo, active,
  \* others
  sub,      \* the submitter of a run
  child,    \* the runs whose child works
  \* history
  starts,   \* how often a run was started
  slow,     \* a manager took longer to come up than its reservation lasts
  torn      \* runs that a manager held between their two files when it died

files   == <<pid, fresh, job, journal, fate, owner, reclaims>>
manager == <<mgr, sock, capsules, pc, hand, todo, active>>
history == <<starts, slow, torn>>
vars    == <<files, manager, sub, child, history>>

Managers == 1..MaxManagers

Up(m) == m # None /\ mgr[m] = "up"

UpManagers == {m \in Managers : mgr[m] = "up"}

TypeOK ==
  /\ pid \in Managers \union {None} /\ fresh \in BOOLEAN
  /\ job \subseteq Runs /\ reclaims \subseteq Runs /\ child \subseteq Runs
  /\ journal \in [Runs -> {"none", "active", "closed"}]
  /\ fate \in [Runs -> {"running", "recovered", "decided"}]
  /\ owner \in [Runs -> Managers \union {None}]
  /\ mgr \in [Managers -> {"off", "starting", "aborted", "up", "dead"}]
  /\ sock \in Managers \union {None}
  /\ capsules \in [Managers -> SUBSET Runs]
  /\ pc \in [Managers -> {"recover", "close", "idle", "take", "start", "cancel",
                          "drop"}]
  /\ hand \in [Managers -> Runs \union {None}]
  /\ todo \in [Managers -> SUBSET Runs]
  /\ active \in [Managers -> SUBSET Runs]
  /\ sub \in [Runs -> {"idle", "write", "send", "fail", "accepted", "refused", "dead"}]
  /\ starts \in [Runs -> Nat]
  /\ slow \in BOOLEAN /\ torn \subseteq Runs

Init ==
  /\ pid = None /\ fresh = FALSE
  /\ job = {} /\ journal = [r \in Runs |-> "none"]
  /\ fate = [r \in Runs |-> "running"] /\ owner = [r \in Runs |-> None]
  /\ reclaims = {}
  /\ mgr = [m \in Managers |-> "off"] /\ sock = None
  /\ capsules = [m \in Managers |-> {}]
  /\ pc = [m \in Managers |-> "recover"] /\ hand = [m \in Managers |-> None]
  /\ todo = [m \in Managers |-> {}] /\ active = [m \in Managers |-> {}]
  /\ sub = [r \in Runs |-> "idle"] /\ child = {}
  /\ starts = [r \in Runs |-> 0] /\ slow = FALSE /\ torn = {}

\* mark_failed, mark_cancelled, mark_done: nothing replaces a verdict.
Judge(r, verdict) ==
  fate' = [fate EXCEPT ![r] = IF @ = "running" THEN verdict ELSE @]

-----------------------------------------------------------------------------
(* Submission                                                              *)

\* For comparison: only a live manager counts.
SettledWhenLive == Up(pid)

\* A manager that is alive, or a file that is young, whoever wrote it.
Settled == Up(pid) \/ (pid # None /\ fresh)

\* _ensure_manager, under manager.lock.
EnsureReuses(r) ==
  /\ sub[r] = "idle" /\ Settled
  /\ sub' = [sub EXCEPT ![r] = "write"]
  /\ UNCHANGED <<files, manager, child, history>>

EnsureSpawns(r, m) ==
  /\ sub[r] = "idle" /\ ~Settled
  /\ mgr[m] = "off" /\ \A k \in 1..(m - 1) : mgr[k] # "off"
  /\ mgr' = [mgr EXCEPT ![m] = "starting"]
  /\ pid' = m /\ fresh' = TRUE
  /\ sub' = [sub EXCEPT ![r] = "write"]
  /\ UNCHANGED <<job, journal, fate, owner, reclaims, sock, capsules, pc, hand, todo,
                 active, child, history>>

\* The manager is of another version, or none can be spawned.
EnsureRaises(r) ==
  /\ sub[r] = "idle"
  /\ sub' = [sub EXCEPT ![r] = "fail"]
  /\ UNCHANGED <<files, manager, child, history>>

\* manager.pid grows old, also under a manager that is still coming up.
ReservationAges ==
  /\ fresh /\ fresh' = FALSE
  /\ slow' = (slow \/ mgr[pid] = "starting")
  /\ UNCHANGED <<pid, job, journal, fate, owner, reclaims, manager, sub, child,
                 starts, torn>>

\* _mark_run_manager_owned: the manager is named if it is alive.
Owned(r) == owner' = [owner EXCEPT ![r] = IF Up(pid) THEN pid ELSE @]

WriteJob(r) ==
  /\ sub[r] = "write" /\ sub' = [sub EXCEPT ![r] = "send"]
  /\ Owned(r)
  /\ job' = job \union {r}
  /\ UNCHANGED <<pid, fresh, journal, fate, reclaims, manager, child, history>>

\* _send_capsule reaches the manager behind the socket, which keeps the capsule
\* before it answers; without the answer the submitter goes on trying.
SendCapsule(r) ==
  /\ sub[r] = "send" /\ Up(sock)
  /\ capsules' = [capsules EXCEPT ![sock] = @ \union {r}]
  /\ \/ sub' = [sub EXCEPT ![r] = "accepted"] /\ Owned(r)
     \/ UNCHANGED <<sub, owner>>
  /\ UNCHANGED <<pid, fresh, job, journal, fate, reclaims, mgr, sock, pc, hand, todo,
                 active, child, history>>

\* After _CAPSULE_SEND_TIMEOUT_S the job is taken back ...
SendFails(r) ==
  /\ r \in Troubled
  /\ sub[r] = "send" /\ sub' = [sub EXCEPT ![r] = "fail"]
  /\ job' = job \ {r}
  /\ UNCHANGED <<pid, fresh, journal, fate, owner, reclaims, manager, child, history>>

\* ... and the run is marked failed by who launched it.
LaunchFails(r) ==
  /\ sub[r] = "fail" /\ sub' = [sub EXCEPT ![r] = "refused"]
  /\ Judge(r, "decided")
  /\ UNCHANGED <<pid, fresh, job, journal, owner, reclaims, manager, child, history>>

SubmitterDies(r) ==
  /\ r \in Troubled
  /\ sub[r] \in {"write", "send", "fail"} /\ sub' = [sub EXCEPT ![r] = "dead"]
  /\ UNCHANGED <<files, manager, child, history>>

\* _manager_owner_alive: a reservation counts as long as it is young.
OwnerAlive(r) ==
  \/ Up(owner[r]) \/ Up(pid)
  \/ pid # None /\ mgr[pid] \in {"starting", "aborted"} /\ fresh

\* The next start of the agent reaps what has no living owner.
Reap(r) ==
  /\ sub[r] \in {"accepted", "dead"} /\ fate[r] = "running"
  /\ ~OwnerAlive(r)
  /\ Judge(r, "decided")
  /\ UNCHANGED <<pid, fresh, job, journal, owner, reclaims, manager, sub, child,
                 history>>

\* Reclaim asks of a run that has begun whether its manager lives, of a queued
\* one what the reaper asks.
RequestReclaim(r) ==
  /\ sub[r] = "accepted" /\ fate[r] = "running"
  /\ IF starts[r] > 0 THEN \E m \in UpManagers : r \in active[m] ELSE OwnerAlive(r)
  /\ r \in Troubled \ reclaims /\ reclaims' = reclaims \union {r}
  /\ UNCHANGED <<pid, fresh, job, journal, fate, owner, manager, sub, child, history>>

-----------------------------------------------------------------------------
(* The manager comes up and recovers                                       *)

\* run_manager takes manager.pid and the socket, whoever had them, and lists
\* the journal.
Boot(m) ==
  /\ mgr[m] = "starting" /\ mgr' = [mgr EXCEPT ![m] = "up"]
  /\ pid' = m /\ fresh' = TRUE /\ sock' = m
  /\ todo' = [todo EXCEPT ![m] = {r \in Runs : journal[r] # "none"}]
  /\ UNCHANGED <<job, journal, fate, owner, reclaims, capsules, pc, hand, active, sub,
                 child, history>>

\* recover_interrupted_active_runs: what is recorded as active is failed and its
\* child ended ...
Recover(m, r) ==
  /\ Up(m) /\ pc[m] = "recover" /\ r \in todo[m]
  /\ todo' = [todo EXCEPT ![m] = @ \ {r}]
  /\ IF journal[r] = "active"
       THEN /\ Judge(r, "recovered")
            /\ child' = IF fate[r] = "running" THEN child \ {r} ELSE child
            /\ pc' = [pc EXCEPT ![m] = "close"] /\ hand' = [hand EXCEPT ![m] = r]
       ELSE UNCHANGED <<fate, child, pc, hand>>
  /\ UNCHANGED <<pid, fresh, job, journal, owner, reclaims, mgr, sock, capsules, active, sub,
                 history>>

\* ... and then recorded.
RecoverCloses(m) ==
  /\ Up(m) /\ pc[m] = "close"
  /\ journal' = [journal EXCEPT ![hand[m]] = "closed"]
  /\ pc' = [pc EXCEPT ![m] = "recover"] /\ hand' = [hand EXCEPT ![m] = None]
  /\ UNCHANGED <<pid, fresh, job, fate, owner, reclaims, mgr, sock, capsules, todo,
                 active, sub, child, history>>

RecoverEnds(m) ==
  /\ Up(m) /\ pc[m] = "recover" /\ todo[m] = {}
  /\ pc' = [pc EXCEPT ![m] = "idle"]
  /\ UNCHANGED <<files, mgr, sock, capsules, hand, todo, active, sub, child, history>>

-----------------------------------------------------------------------------
(* The manager's loop                                                      *)

Takes(m, r, from, to) ==
  /\ Up(m) /\ pc[m] = from
  /\ pc' = [pc EXCEPT ![m] = to]
  /\ hand' = [hand EXCEPT ![m] = IF to = "idle" THEN None ELSE r]
  /\ UNCHANGED <<mgr, sock, todo>>

\* _consume_queue_cancel_requests: whoever unlinks the job decides the run.
CancelQueued(m, r) ==
  /\ r \in job /\ r \in reclaims /\ fate[r] = "running"
  /\ Takes(m, r, "idle", "cancel")
  /\ job' = job \ {r}
  /\ capsules' = [capsules EXCEPT ![m] = @ \ {r}]
  /\ UNCHANGED <<pid, fresh, journal, fate, owner, reclaims, active, sub, child,
                 history>>

\* A request for a run that is decided is rejected.
RejectReclaim(m, r) ==
  /\ Up(m) /\ pc[m] = "idle"
  /\ r \in job /\ r \in reclaims /\ fate[r] # "running"
  /\ reclaims' = reclaims \ {r}
  /\ UNCHANGED <<pid, fresh, job, journal, fate, owner, manager, sub, child, history>>

MarkCancelled(m) ==
  /\ Takes(m, hand[m], "cancel", "idle")
  /\ Judge(hand[m], "decided")
  /\ owner' = [owner EXCEPT ![hand[m]] = m]
  /\ journal' = [journal EXCEPT ![hand[m]] = "closed"]
  /\ reclaims' = reclaims \ {hand[m]}
  /\ UNCHANGED <<pid, fresh, job, capsules, active, sub, child, history>>

\* _start_queued_jobs: a free slot, a job, its capsule ...
TakeCapsule(m, r) ==
  /\ Cardinality(active[m]) < PoolSize
  /\ r \in job /\ r \in capsules[m]
  /\ Takes(m, r, "idle", "take")
  /\ capsules' = [capsules EXCEPT ![m] = @ \ {r}]
  /\ UNCHANGED <<files, active, sub, child, history>>

\* For comparison: the unlink is not asked whether it removed anything.
UnlinkUnasked(m) ==
  /\ Takes(m, hand[m], "take", "start")
  /\ job' = job \ {hand[m]}
  /\ UNCHANGED <<pid, fresh, journal, fate, owner, reclaims, capsules, active, sub,
                 child, history>>

\* ... the unlink, without which the capsule is put back ...
UnlinkJob(m) ==
  /\ \/ /\ hand[m] \in job /\ job' = job \ {hand[m]}
        /\ Takes(m, hand[m], "take", "start")
        /\ UNCHANGED capsules
     \/ /\ hand[m] \notin job
        /\ Takes(m, hand[m], "take", "idle")
        /\ capsules' = [capsules EXCEPT ![m] = @ \union {hand[m]}]
        /\ UNCHANGED job
  /\ UNCHANGED <<pid, fresh, journal, fate, owner, reclaims, active, sub, child,
                 history>>

\* ... the journal, and the thread with its child.
StartJob(m) ==
  /\ Takes(m, hand[m], "start", "idle")
  /\ journal' = [journal EXCEPT ![hand[m]] = "active"]
  /\ owner' = [owner EXCEPT ![hand[m]] = m]
  /\ active' = [active EXCEPT ![m] = @ \union {hand[m]}]
  /\ child' = child \union {hand[m]}
  /\ starts' = [starts EXCEPT ![hand[m]] = @ + 1]
  /\ UNCHANGED <<pid, fresh, job, fate, reclaims, capsules, sub, slow, torn>>

\* For comparison: the job is removed before the run is judged.
DropFirst(m, r) ==
  /\ Cardinality(active[m]) < PoolSize
  /\ r \in job /\ r \notin capsules[m]
  /\ Takes(m, r, "idle", "drop")
  /\ job' = job \ {r}
  /\ UNCHANGED <<pid, fresh, journal, fate, owner, reclaims, capsules, active, sub,
                 child, history>>

\* A job whose capsule has not come in time fails its run ...
FailUncapsuled(m, r) ==
  /\ Cardinality(active[m]) < PoolSize
  /\ r \in job /\ r \notin capsules[m]
  /\ Takes(m, r, "idle", "drop")
  /\ Judge(r, "decided")
  /\ UNCHANGED <<pid, fresh, job, journal, owner, reclaims, capsules, active, sub,
                 child, history>>

\* ... and is removed after that.
DropJob(m) ==
  /\ Takes(m, hand[m], "drop", "idle")
  /\ journal' = [journal EXCEPT ![hand[m]] = "closed"]
  /\ job' = job \ {hand[m]}
  /\ UNCHANGED <<pid, fresh, fate, owner, reclaims, capsules, active, sub, child,
                 history>>

-----------------------------------------------------------------------------
(* Children and their threads                                              *)

\* The child ends by itself, or its run's deadline ends it; one that is killed
\* leaves the verdict to the thread of its manager.
ChildEnds(r) ==
  /\ r \in child /\ child' = child \ {r}
  /\ Judge(r, "decided") \/ UNCHANGED fate
  /\ UNCHANGED <<pid, fresh, job, journal, owner, reclaims, manager, sub, history>>

\* The watcher of a started run serves a reclaim, or rejects it after a verdict.
WatcherCancels(m, r) ==
  /\ Up(m) /\ r \in active[m] /\ r \in child /\ r \in reclaims
  /\ reclaims' = reclaims \ {r}
  /\ Judge(r, "decided")
  /\ child' = IF fate[r] = "running" THEN child \ {r} ELSE child
  /\ UNCHANGED <<pid, fresh, job, journal, owner, manager, sub, history>>

\* _run_job publishes, closes the journal and is reaped from the pool.
JobEnds(m, r) ==
  /\ Up(m) /\ r \in active[m] /\ r \notin child
  /\ Judge(r, "decided")
  /\ journal' = [journal EXCEPT ![r] = "closed"]
  /\ active' = [active EXCEPT ![m] = @ \ {r}]
  /\ UNCHANGED <<pid, fresh, job, owner, reclaims, mgr, sock, capsules, pc, hand, todo,
                 sub, child, history>>

\* What a manager holds in memory goes with it; its children do not.
ManagerDies(m) ==
  /\ mgr[m] \in {"starting", "up"}
  /\ mgr' = [mgr EXCEPT ![m] = IF @ = "up" THEN "dead" ELSE "aborted"]
  /\ torn' = IF pc[m] \in {"start", "cancel"} THEN torn \union {hand[m]} ELSE torn
  /\ capsules' = [capsules EXCEPT ![m] = {}] /\ active' = [active EXCEPT ![m] = {}]
  /\ todo' = [todo EXCEPT ![m] = {}]
  /\ pc' = [pc EXCEPT ![m] = "recover"] /\ hand' = [hand EXCEPT ![m] = None]
  /\ UNCHANGED <<files, sock, sub, child, starts, slow>>

-----------------------------------------------------------------------------
Submit(r) ==
  \/ EnsureReuses(r) \/ EnsureRaises(r) \/ \E m \in Managers : EnsureSpawns(r, m)
  \/ WriteJob(r) \/ SendCapsule(r) \/ SendFails(r) \/ LaunchFails(r)

\* The loop of a manager; the runs it starts and their children are its too.
Manage(m) ==
  \/ RecoverCloses(m) \/ RecoverEnds(m) \/ MarkCancelled(m) \/ UnlinkJob(m)
  \/ StartJob(m) \/ DropJob(m)
  \/ \E r \in Runs :
       \/ Recover(m, r) \/ CancelQueued(m, r) \/ RejectReclaim(m, r)
       \/ TakeCapsule(m, r) \/ FailUncapsuled(m, r)

Next ==
  \/ \E r \in Runs :
       \/ Submit(r) \/ SubmitterDies(r) \/ Reap(r) \/ RequestReclaim(r)
       \/ ChildEnds(r)
  \/ \E m \in Managers :
       \/ Boot(m) \/ Manage(m) \/ ManagerDies(m)
       \/ \E r \in Runs : WatcherCancels(m, r) \/ JobEnds(m, r)
  \/ ReservationAges

Spec == Init /\ [][Next]_vars

-----------------------------------------------------------------------------
(* Properties                                                              *)

\* "The queue job file's unlink() is the single arbitration token": no run is
\* started twice, over retried capsules, restarts, and two managers at a time.
StartedOnce == \A r \in Runs : starts[r] <= 1

\* A run that was accepted and is not decided is in the queue, in the journal as
\* active, or in the hands of a manager, so that this manager or the next one
\* decides it; but for one whose manager died between the queue and the journal.
NothingStranded ==
  \A r \in Runs :
    (sub[r] = "accepted" /\ fate[r] = "running") =>
      \/ r \in job \/ journal[r] = "active" \/ r \in torn
      \/ \E m \in UpManagers : hand[m] = r /\ pc[m] \in {"start", "cancel"}

\* "Prior manager died before committing terminal truth": recovery fails no run
\* that another manager is working on, unless that one came up so slowly that
\* its reservation had run out.
RecoverySparesLiving ==
  [][\A r \in Runs :
       (fate[r] # "recovered" /\ fate'[r] = "recovered") =>
         (slow \/ \A m \in UpManagers : r \notin active[m])]_vars
=============================================================================

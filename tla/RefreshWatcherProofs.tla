------------------------ MODULE RefreshWatcherProofs ------------------------
(***************************************************************************)
(* Proofs about WorkdirLease for every set of processes and of lock files, *)
(* and about RefreshWatcher, which composes it with the hand-off, for      *)
(* every number of attempts.                                               *)
(***************************************************************************)
EXTENDS RefreshWatcher, TLAPS

-----------------------------------------------------------------------------
(* The lease *)

\* A lock is held through an open descriptor, from TakeLock on.
LocksAreOpen ==
  \A f \in Files : locker[f] # NoProc =>
    /\ handle[locker[f]] = f
    /\ step[locker[f]] \in {"held", "unlocked", "leaked"}

\* An adapter has no file open exactly between its operations.
ClosedBetween ==
  \A p \in Procs : step[p] \in {"idle", "waiting", "closed"} <=> handle[p] = NoFile

\* Until a release has torn it, whoever has a lock file open has the named one.
OpenIsNamed == ~torn => \A p \in Procs : handle[p] # NoFile => handle[p] = named

LeaseInv == LeaseTypeOK /\ LocksAreOpen /\ ClosedBetween /\ OpenIsNamed

\* A new file is one nobody has.
LEMMA NewFileFacts ==
  ASSUME Unused # {}
  PROVE  NewFile \in Files /\ NewFile # named /\ \A p \in Procs : handle[p] # NewFile
  BY DEF NewFile, Unused

\* The locks of p go, the others stay.
LEMMA WithoutLocksFacts ==
  ASSUME LeaseTypeOK, NEW p \in Procs
  PROVE  /\ WithoutLocksOf(p) \in [Files -> Procs \cup {NoProc}]
         /\ \A f \in Files : WithoutLocksOf(p)[f] # NoProc
                               => WithoutLocksOf(p)[f] = locker[f] /\ locker[f] # p
  BY DEF LeaseTypeOK, WithoutLocksOf

LEMMA OpenLockKeeps ==
  ASSUME LeaseInv, NEW p \in Procs, OpenLock(p)
  PROVE  LeaseInv'
  <1>1. named' \in Files /\ torn' = torn /\ locker' = locker
        /\ handle' = [handle EXCEPT ![p] = named'] /\ step' = [step EXCEPT ![p] = "opened"]
        /\ handle[p] = NoFile
    BY NewFileFacts DEF OpenLock, Goto, LeaseInv, LeaseTypeOK, ClosedBetween
  <1>2. LeaseTypeOK' BY <1>1 DEF LeaseInv, LeaseTypeOK, Steps
  <1>3. LocksAreOpen'
    <2> SUFFICES ASSUME NEW f \in Files, locker[f] # NoProc
                 PROVE  handle'[locker[f]] = f /\ step'[locker[f]] \in {"held", "unlocked", "leaked"}
      BY <1>1 DEF LocksAreOpen
    <2>1. /\ handle[locker[f]] = f /\ locker[f] \in Procs
          /\ step[locker[f]] \in {"held", "unlocked", "leaked"}
      BY DEF LeaseInv, LocksAreOpen, LeaseTypeOK
    <2>2. locker[f] # p BY <2>1, <1>1, LeaseConstants
    <2> QED BY <1>1, <2>1, <2>2 DEF LeaseInv, LeaseTypeOK
  <1>4. ClosedBetween' BY <1>1, LeaseConstants DEF LeaseInv, LeaseTypeOK, ClosedBetween
  <1>5. OpenIsNamed'
    <2> SUFFICES ASSUME ~torn, NEW q \in Procs, handle'[q] # NoFile, q # p
                 PROVE handle'[q] = named'
      BY <1>1 DEF OpenIsNamed, LeaseInv, LeaseTypeOK
    <2>1. handle'[q] = handle[q] BY <1>1 DEF LeaseInv, LeaseTypeOK
    <2>2. handle[q] = named /\ named # NoFile BY <2>1 DEF LeaseInv, OpenIsNamed
    <2>3. named' = named BY <2>2 DEF OpenLock
    <2> QED BY <2>1, <2>2, <2>3
  <1> QED BY <1>2, <1>3, <1>4, <1>5 DEF LeaseInv

\* TakeLock, FailLock, Unlock and CloseLock leave the name alone.
LEMMA LockingKeeps ==
  ASSUME LeaseInv, NEW p \in Procs,
         \/ TakeLock(p) \/ (\E then \in {"waiting", "idle"} : FailLock(p, then))
         \/ Unlock(p) \/ CloseLock(p)
  PROVE  LeaseInv'
  <1> USE WithoutLocksFacts, LeaseConstants DEF LeaseInv, Goto, At
  <1>1. CASE TakeLock(p)
    <2>0. handle[p] \in Files BY <1>1 DEF TakeLock, LeaseTypeOK, ClosedBetween
    <2>1. LeaseTypeOK' BY <1>1, <2>0 DEF TakeLock, LeaseTypeOK, Steps
    <2>2. LocksAreOpen' BY <1>1, <2>0 DEF TakeLock, LeaseTypeOK, LocksAreOpen
    <2>3. ClosedBetween' BY <1>1 DEF TakeLock, LeaseTypeOK, ClosedBetween
    <2>4. OpenIsNamed' BY <1>1 DEF TakeLock, OpenIsNamed
    <2> QED BY <2>1, <2>2, <2>3, <2>4
  <1>2. CASE \E then \in {"waiting", "idle"} : FailLock(p, then)
    <2>1. LeaseTypeOK' BY <1>2 DEF FailLock, LeaseTypeOK, Steps
    <2>2. LocksAreOpen' BY <1>2 DEF FailLock, LeaseTypeOK, LocksAreOpen
    <2>3. ClosedBetween' BY <1>2 DEF FailLock, LeaseTypeOK, ClosedBetween
    <2>4. OpenIsNamed' BY <1>2 DEF FailLock, LeaseTypeOK, OpenIsNamed
    <2> QED BY <2>1, <2>2, <2>3, <2>4
  <1>3. CASE Unlock(p)
    <2>1. LeaseTypeOK' BY <1>3 DEF Unlock, LeaseTypeOK, Steps
    <2>2. LocksAreOpen' BY <1>3 DEF Unlock, LeaseTypeOK, LocksAreOpen
    <2>3. ClosedBetween' BY <1>3 DEF Unlock, LeaseTypeOK, ClosedBetween
    <2>4. OpenIsNamed' BY <1>3 DEF Unlock, OpenIsNamed
    <2> QED BY <2>1, <2>2, <2>3, <2>4
  <1>4. CASE CloseLock(p)
    <2>1. LeaseTypeOK' BY <1>4 DEF CloseLock, LeaseTypeOK, Steps
    <2>2. LocksAreOpen' BY <1>4 DEF CloseLock, LeaseTypeOK, LocksAreOpen
    <2>3. ClosedBetween' BY <1>4 DEF CloseLock, LeaseTypeOK, ClosedBetween
    <2>4. OpenIsNamed' BY <1>4 DEF CloseLock, LeaseTypeOK, OpenIsNamed
    <2> QED BY <2>1, <2>2, <2>3, <2>4
  <1> QED BY <1>1, <1>2, <1>3, <1>4

LEMMA UnlinkKeeps ==
  ASSUME LeaseInv, NEW p \in Procs, Unlink(p)
  PROVE  LeaseInv'
  <1> USE LeaseConstants DEF LeaseInv, Unlink, Goto, At
  <1>1. LeaseTypeOK' BY DEF LeaseTypeOK, Steps
  <1>2. LocksAreOpen' BY DEF LocksAreOpen
  <1>3. ClosedBetween' BY DEF LeaseTypeOK, ClosedBetween
  <1>4. OpenIsNamed'
    <2> SUFFICES ASSUME ~torn', NEW q \in Procs PROVE handle[q] = NoFile
      BY DEF OpenIsNamed
    <2>1. handle[p] = NoFile BY DEF ClosedBetween
    <2>2. ~torn /\ (q # p => named = NoFile \/ handle[q] # named) BY DEF LeaseTypeOK
    <2> QED BY <2>1, <2>2 DEF OpenIsNamed
  <1> QED BY <1>1, <1>2, <1>3, <1>4

LEMMA ExitKeeps ==
  ASSUME LeaseInv, NEW p \in Procs, ExitProcess(p)
  PROVE  LeaseInv'
  <1> USE WithoutLocksFacts, LeaseConstants DEF LeaseInv, ExitProcess, Goto
  <1>1. LeaseTypeOK' BY DEF LeaseTypeOK, Steps
  <1>2. LocksAreOpen' BY DEF LeaseTypeOK, LocksAreOpen
  <1>3. ClosedBetween' BY DEF LeaseTypeOK, ClosedBetween
  <1>4. OpenIsNamed' BY DEF LeaseTypeOK, OpenIsNamed
  <1> QED BY <1>1, <1>2, <1>3, <1>4

\* Every step of an adapter and every end of a process keeps the invariant.
LEMMA LeaseStepKeeps ==
  ASSUME LeaseInv, NEW p \in Procs, LeaseStep(p) \/ ExitProcess(p)
  PROVE  LeaseInv'
  BY OpenLockKeeps, LockingKeeps, UnlinkKeeps, ExitKeeps DEF LeaseStep

LEMMA LeaseInvExcludes ==
  ASSUME LeaseInv
  PROVE  ExclusiveUnlessTorn
  <1> SUFFICES ASSUME ~torn, NEW p \in Procs, NEW q \in Procs,
                      NEW f \in Files, NEW g \in Files, locker[f] = p, locker[g] = q
               PROVE  p = q
    BY DEF ExclusiveUnlessTorn, Owners
  <1>1. handle[p] = f /\ handle[q] = g BY LeaseConstants DEF LeaseInv, LocksAreOpen
  <1>2. f = named /\ g = named BY <1>1, LeaseConstants DEF LeaseInv, OpenIsNamed
  <1> QED BY <1>2

\* For any number of processes: the adapter's state is well formed, every lock is
\* held through an open descriptor, and until a release has removed the name under
\* another's descriptor all open descriptors are of the named file.
THEOREM LeaseIsWellFormed == LeaseSpec => []LeaseInv
  <1>1. LeaseInit => LeaseInv
    BY LeaseConstants
    DEF LeaseInit, LeaseInv, LeaseTypeOK, LocksAreOpen, ClosedBetween, OpenIsNamed, Steps
  <1>2. LeaseInv /\ [LeaseNext]_leaseVars => LeaseInv'
    <2> SUFFICES ASSUME LeaseInv, [LeaseNext]_leaseVars PROVE LeaseInv' OBVIOUS
    <2>1. CASE LeaseNext BY <2>1, LeaseStepKeeps DEF LeaseNext
    <2>2. CASE UNCHANGED leaseVars
      BY <2>2 DEF leaseVars, LeaseInv, LeaseTypeOK, LocksAreOpen, ClosedBetween, OpenIsNamed
    <2> QED BY <2>1, <2>2
  <1> QED BY <1>1, <1>2, PTL DEF LeaseSpec

\* For any number of processes: two of them own a lock of the directory only after
\* a release has removed the name of a file that another process had open.
THEOREM LeaseExcludes == LeaseSpec => []ExclusiveUnlessTorn
  <1>1. LeaseInv => ExclusiveUnlessTorn BY LeaseInvExcludes
  <1> QED BY <1>1, LeaseIsWellFormed, PTL

-----------------------------------------------------------------------------
(* The hand-off *)

\* Past the process-table guard of cli.run and not at its end yet.
Admitted(a) == phase[a] \notin {"none", "boot", "gone"}

\* The guard lets one process in at a time.
OneAdmitted == \A a, b \in Agents : Admitted(a) /\ Admitted(b) => a = b

\* A process outside of its admitted life has nothing open.
OutsideIdle == \A a \in Agents : ~Admitted(a) => step[a] = "idle"

\* Before the baseline was read.
Early == pc \in {"ack", "free", "probe"}

\* The process that asked for the refresh only goes down; while it is stopping
\* the watcher cannot get its lock, so that it gets no further than phase 2.
OldGoesDown ==
  /\ phase[Old] \in {"stopping", "release", "gone"}
  /\ phase[Old] = "stopping" =>
       /\ ~torn /\ step[Old] = "held" /\ named = handle[Old]
       /\ locker[handle[Old]] = Old
       /\ Early \/ pc = "done"
       /\ step[Watcher] \in {"idle", "opened"}

\* After the baseline a new heartbeat of that process is a late one.
OldBeatIsLate ==
  beatNew /\ beatBy = Old =>
    Early \/ pc \in {"probed", "baseline", "done"} \/ late = "wrote"

\* Phase 3 counts attempts from 1, and each has a process of its own.
AttemptsInOrder ==
  /\ pc \in {"ack", "free", "probe", "probed", "baseline"} => attempt = 0
  /\ pc \in {"observe", "gate", "launch", "health", "settle", "inspect", "grace", "exit"}
       => attempt \in 1..MaxAttempts
  /\ \A i \in 1..MaxAttempts :
       i > attempt \/ (i = attempt /\ pc \in {"observe", "gate", "launch"})
         => phase[Kids[i]] = "none"

Inv ==
  /\ TypeOK /\ LeaseInv
  /\ OneAdmitted /\ OutsideIdle /\ OldGoesDown /\ OldBeatIsLate /\ AttemptsInOrder

-----------------------------------------------------------------------------
\* The processes and the attempts, from the assumptions on the constants.
LEMMA ConstantFacts ==
  /\ Agents \subseteq Procs /\ Old \in Agents /\ Hand \in Agents
  /\ Watcher \in Procs /\ Watcher \notin Agents /\ NoProc \notin Agents
  /\ MaxAttempts \in Nat /\ MaxAttempts > 0 /\ Kids \in Seq(Procs)
  /\ \A i \in 1..MaxAttempts : Kids[i] \in Agents /\ Kids[i] # Old /\ Kids[i] # Hand
  BY WatcherConstants, LeaseConstants DEF Agents, KidSet, MaxAttempts

\* Every step is a step of one adapter, the end of one process, or none of the
\* lease's business.
LEMMA LeaseMoves ==
  ASSUME TypeOK, [Next]_vars
  PROVE  UNCHANGED leaseVars \/ \E p \in Procs : LeaseStep(p) \/ ExitProcess(p)
  <1> USE ConstantFacts
  <1>1. CASE pc # "done" /\ \E a \in Agents : AgentStep(a)
    <2> SUFFICES ASSUME NEW a \in Agents, AgentStep(a)
                 PROVE  UNCHANGED leaseVars \/ \E p \in Procs : LeaseStep(p) \/ ExitProcess(p)
      BY <1>1
    <2>1. CASE Refuse(a) BY <2>1 DEF Refuse, LeaseStep, leaseVars
    <2>2. CASE Admit(a) BY <2>2 DEF Admit, LeaseStep, leaseVars
    <2>3. CASE Acquire(a) BY <2>3 DEF Acquire, LeaseStep
    <2>4. CASE BootFails(a) BY <2>4 DEF BootFails, LeaseStep, leaseVars
    <2>5. CASE LookForMarker(a) BY <2>5 DEF LookForMarker, LeaseStep, leaseVars
    <2>6. CASE TakeMarker(a) BY <2>6 DEF TakeMarker, LeaseStep, leaseVars
    <2>7. CASE Beat(a) BY <2>7 DEF Beat, LeaseStep, leaseVars
    <2>8. CASE Hang(a) BY <2>8 DEF Hang, LeaseStep, leaseVars
    <2>9. CASE Resume(a) BY <2>9 DEF Resume, LeaseStep, leaseVars
    <2>10. CASE Obey(a) BY <2>10 DEF Obey, LeaseStep, leaseVars
    <2>11. CASE Withdraw(a) BY <2>11 DEF Withdraw, LeaseStep, leaseVars
    <2>12. CASE Release(a) BY <2>12 DEF Release, LeaseStep
    <2>13. CASE Leave(a) BY <2>13 DEF Leave, LeaseStep
    <2> QED BY <2>1, <2>2, <2>3, <2>4, <2>5, <2>6, <2>7, <2>8, <2>9, <2>10, <2>11,
              <2>12, <2>13 DEF AgentStep
  <1>2. CASE LaunchByHand BY <1>2 DEF LaunchByHand, LeaseStep, leaseVars
  <1>3. CASE LateBeat BY <1>3 DEF LateBeat, LeaseStep, leaseVars
  <1>4. CASE Age BY <1>4 DEF Age, LeaseStep, leaseVars
  <1>5. CASE Overdue BY <1>5 DEF Overdue, LeaseStep, leaseVars
  <1>6. CASE AwaitMarker BY <1>6 DEF AwaitMarker, LeaseStep, leaseVars
  <1>7. CASE AwaitFree BY <1>7 DEF AwaitFree, LeaseStep, leaseVars
  <1>8. CASE Probe BY <1>8 DEF Probe, LeaseStep
  <1>9. CASE ProbeRelease BY <1>9 DEF ProbeRelease, LeaseStep
  <1>10. CASE Baseline BY <1>10 DEF Baseline, LeaseStep, leaseVars
  <1>11. CASE Observe BY <1>11 DEF Observe, LeaseStep, leaseVars
  <1>12. CASE Gate BY <1>12 DEF Gate, LeaseStep, leaseVars
  <1>13. CASE Launch BY <1>13 DEF Launch, LeaseStep, leaseVars
  <1>14. CASE Health BY <1>14 DEF Health, LeaseStep, leaseVars
  <1>15. CASE Inspect
    BY <1>15 DEF Inspect, LeaseStep, leaseVars, Terminate, TailNames, TypeOK
  <1>16. CASE Grace BY <1>16 DEF Grace, LeaseStep, leaseVars
  <1>17. CASE AwaitExit BY <1>17 DEF AwaitExit, LeaseStep, leaseVars
  <1>18. CASE WatcherLeaves BY <1>18 DEF WatcherLeaves, LeaseStep
  <1>19. CASE UNCHANGED vars
    BY <1>19 DEF vars, leaseVars, beatVars, logVars, watchVars, LeaseStep
  <1> QED BY <1>1, <1>2, <1>3, <1>4, <1>5, <1>6, <1>7, <1>8, <1>9, <1>10,
      <1>11, <1>12, <1>13, <1>14, <1>15, <1>16, <1>17, <1>18, <1>19 DEF Next,
      WatcherStep

\* The types of the watcher's own variables.
LEMMA TypeKept ==
  ASSUME TypeOK, AttemptsInOrder, LeaseTypeOK', [Next]_vars
  PROVE  TypeOK'
  <1> USE ConstantFacts DEF TypeOK
  <1>1. CASE pc # "done" /\ \E a \in Agents : AgentStep(a)
    <2> SUFFICES ASSUME NEW a \in Agents, AgentStep(a) PROVE TypeOK' BY <1>1
    <2>1. CASE Refuse(a)
      <3> USE <2>1 DEF Refuse, beatVars, logVars, watchVars, Becomes, Is
      <3>1. refused' \in BOOLEAN OBVIOUS
      <3>2. phase' \in [Agents -> Phases] BY DEF Phases
      <3>3. refusals' \subseteq Agents OBVIOUS
      <3> QED BY <3>1, <3>2, <3>3
    <2>2. CASE Admit(a)
      BY <2>2 DEF Admit, Becomes, Is, Phases, Pcs, Results, beatVars, logVars,
        watchVars
    <2>3. CASE Acquire(a)
      BY <2>3 DEF Acquire, Becomes, Is, Phases, Pcs, Results, beatVars,
        logVars, watchVars
    <2>4. CASE BootFails(a)
      BY <2>4 DEF BootFails, Becomes, Is, Phases, Pcs, Results, beatVars,
        logVars, watchVars
    <2>5. CASE LookForMarker(a)
      BY <2>5 DEF LookForMarker, Becomes, Is, Phases, Pcs, Results, beatVars,
        logVars, watchVars
    <2>6. CASE TakeMarker(a)
      <3> USE <2>6 DEF TakeMarker, beatVars, logVars, watchVars, Becomes, Is
      <3>1. marker' \in BOOLEAN OBVIOUS
      <3>2. phase' \in [Agents -> Phases] BY DEF Phases
      <3> QED BY <3>1, <3>2
    <2>7. CASE Beat(a)
      BY <2>7 DEF Beat, Becomes, Is, Phases, Pcs, Results, beatVars, logVars,
        watchVars
    <2>8. CASE Hang(a)
      BY <2>8 DEF Hang, Becomes, Is, Phases, Pcs, Results, beatVars, logVars,
        watchVars
    <2>9. CASE Resume(a)
      BY <2>9 DEF Resume, Becomes, Is, Phases, Pcs, Results, beatVars,
        logVars, watchVars
    <2>10. CASE Obey(a)
      BY <2>10 DEF Obey, Becomes, Is, Phases, Pcs, Results, beatVars, logVars,
        watchVars
    <2>11. CASE Withdraw(a)
      <3> USE <2>11 DEF Withdraw, beatVars, logVars, watchVars, Becomes, Is
      <3>1. late' \in {"no", "pending", "wrote"} OBVIOUS
      <3>2. beatBy' \in Agents \cup {NoProc} /\ beatAge' \in 0..3 OBVIOUS
      <3>3. beatNew' \in BOOLEAN OBVIOUS
      <3>4. phase' \in [Agents -> Phases] BY DEF Phases
      <3> QED BY <3>1, <3>2, <3>3, <3>4
    <2>12. CASE Release(a)
      BY <2>12 DEF Release, Becomes, Is, Phases, Pcs, Results, beatVars,
        logVars, watchVars
    <2>13. CASE Leave(a)
      BY <2>13 DEF Leave, Becomes, Is, Phases, Pcs, Results, beatVars,
        logVars, watchVars, InTable
    <2> QED BY <2>1, <2>2, <2>3, <2>4, <2>5, <2>6, <2>7, <2>8, <2>9, <2>10, <2>11,
              <2>12, <2>13 DEF AgentStep
  <1>2. CASE LaunchByHand
    BY <1>2 DEF LaunchByHand, Becomes, Is, Phases, Pcs, Results, beatVars,
      logVars, watchVars
  <1>3. CASE LateBeat
    BY <1>3 DEF LateBeat, Becomes, Is, Phases, Pcs, Results, beatVars,
      logVars, watchVars
  <1>4. CASE Age
    BY <1>4 DEF Age, Becomes, Is, Phases, Pcs, Results, beatVars, logVars,
      watchVars
  <1>5. CASE Overdue
    BY <1>5 DEF Overdue, Becomes, Is, Phases, Pcs, Results, beatVars, logVars,
      watchVars
  <1>6. CASE AwaitMarker
    BY <1>6 DEF AwaitMarker, Becomes, Is, Phases, Pcs, Results, beatVars,
      logVars, watchVars, Settle
  <1>7. CASE AwaitFree
    BY <1>7 DEF AwaitFree, Becomes, Is, Phases, Pcs, Results, beatVars,
      logVars, watchVars, Settle
  <1>8. CASE Probe
    BY <1>8 DEF Probe, Becomes, Is, Phases, Pcs, Results, beatVars, logVars,
      watchVars
  <1>9. CASE ProbeRelease
    BY <1>9 DEF ProbeRelease, Becomes, Is, Phases, Pcs, Results, beatVars,
      logVars, watchVars
  <1>10. CASE Baseline
    <2> USE <1>10 DEF Baseline, beatVars, logVars
    <2>1. pc' \in Pcs BY DEF Pcs
    <2>2. attempt' \in 0..MaxAttempts OBVIOUS
    <2> QED BY <2>1, <2>2
  <1>11. CASE Observe
    BY <1>11 DEF Observe, Becomes, Is, Phases, Pcs, Results, beatVars,
      logVars, watchVars
  <1>12. CASE Gate
    BY <1>12 DEF Gate, Becomes, Is, Phases, Pcs, Results, beatVars, logVars,
      watchVars, Settle
  <1>13. CASE Launch
    <2> USE <1>13 DEF Launch, beatVars, logVars, NextAttempt, Settle
    <2>1. pc' \in Pcs BY DEF Pcs
    <2>2. marker' \in BOOLEAN OBVIOUS
    <2>3. attempt' \in 0..MaxAttempts OBVIOUS
    <2>4. result' \in Results BY DEF Results
    <2>5. phase' \in [Agents -> Phases] BY DEF Becomes, Phases
    <2> QED BY <2>1, <2>2, <2>3, <2>4, <2>5
  <1>14. CASE Health
    BY <1>14 DEF Health, Becomes, Is, Phases, Pcs, Results, beatVars, logVars,
      watchVars, Settle
  <1>15. CASE Inspect
    <2> USE <1>15 DEF Inspect, beatVars, logVars, NextAttempt, Settle
    <2>1. pc' \in Pcs BY DEF Pcs
    <2>2. marker' \in BOOLEAN OBVIOUS
    <2>3. attempt' \in 0..MaxAttempts OBVIOUS
    <2>4. result' \in Results BY DEF Results
    <2>5. phase' \in [Agents -> Phases] BY DEF Terminate, Becomes, Phases
    <2>6. told' \in [Agents -> {"nothing", "SIGTERM", "SIGKILL"}] BY DEF Terminate
    <2>7. target' \in Agents \cup {NoProc} BY DEF TailNames
    <2> QED BY <2>1, <2>2, <2>3, <2>4, <2>5, <2>6, <2>7
  <1>16. CASE Grace
    BY <1>16 DEF Grace, Becomes, Is, Phases, Pcs, Results, beatVars, logVars,
      watchVars, InTable
  <1>17. CASE AwaitExit
    <2> USE <1>17 DEF AwaitExit, beatVars, logVars, NextAttempt, Settle
    <2>1. pc' \in Pcs BY DEF Pcs
    <2>2. marker' \in BOOLEAN OBVIOUS
    <2>3. attempt' \in 0..MaxAttempts OBVIOUS
    <2>4. result' \in Results BY DEF Results
    <2> QED BY <2>1, <2>2, <2>3, <2>4
  <1>18. CASE WatcherLeaves
    BY <1>18 DEF WatcherLeaves, Becomes, Is, Phases, Pcs, Results, beatVars,
      logVars, watchVars
  <1>19. CASE UNCHANGED vars
    BY <1>19 DEF vars, leaseVars, beatVars, logVars, watchVars, Becomes, Is,
      Phases, Pcs, Results, beatVars, logVars, watchVars
  <1> QED BY <1>1, <1>2, <1>3, <1>4, <1>5, <1>6, <1>7, <1>8, <1>9, <1>10,
      <1>11, <1>12, <1>13, <1>14, <1>15, <1>16, <1>17, <1>18, <1>19 DEF Next,
      WatcherStep

\* One process is past the guard: the one that passes it sees no other in the
\* table.
LEMMA GuardKept ==
  ASSUME TypeOK, OneAdmitted, AttemptsInOrder, [Next]_vars
  PROVE  OneAdmitted'
  <1> USE ConstantFacts DEF TypeOK, OneAdmitted, Admitted
  <1>1. CASE pc # "done" /\ \E a \in Agents : AgentStep(a)
    <2> SUFFICES ASSUME NEW a \in Agents, AgentStep(a) PROVE OneAdmitted' BY <1>1
    <2>1. CASE Refuse(a) BY <2>1 DEF Refuse, Becomes, Is
    <2>2. CASE Admit(a) BY <2>2 DEF Admit, Becomes, Is, InTable
    <2>3. CASE Acquire(a) BY <2>3 DEF Acquire, Becomes, Is
    <2>4. CASE BootFails(a) BY <2>4 DEF BootFails, Becomes, Is
    <2>5. CASE LookForMarker(a) BY <2>5 DEF LookForMarker, Becomes, Is
    <2>6. CASE TakeMarker(a) BY <2>6 DEF TakeMarker, Becomes, Is
    <2>7. CASE Beat(a) BY <2>7 DEF Beat, Becomes, Is
    <2>8. CASE Hang(a) BY <2>8 DEF Hang, Becomes, Is
    <2>9. CASE Resume(a) BY <2>9 DEF Resume, Becomes, Is
    <2>10. CASE Obey(a) BY <2>10 DEF Obey, Becomes, Is
    <2>11. CASE Withdraw(a) BY <2>11 DEF Withdraw, Becomes, Is
    <2>12. CASE Release(a) BY <2>12 DEF Release, Becomes, Is
    <2>13. CASE Leave(a) BY <2>13 DEF Leave, Becomes, Is, InTable
    <2> QED BY <2>1, <2>2, <2>3, <2>4, <2>5, <2>6, <2>7, <2>8, <2>9, <2>10, <2>11,
              <2>12, <2>13 DEF AgentStep
  <1>2. CASE LaunchByHand BY <1>2 DEF LaunchByHand, Becomes, Is
  <1>3. CASE LateBeat BY <1>3 DEF LateBeat, Becomes, Is
  <1>4. CASE Age BY <1>4 DEF Age, Becomes, Is
  <1>5. CASE Overdue BY <1>5 DEF Overdue, Becomes, Is
  <1>6. CASE AwaitMarker BY <1>6 DEF AwaitMarker, Becomes, Is, Settle
  <1>7. CASE AwaitFree BY <1>7 DEF AwaitFree, Becomes, Is, Settle
  <1>8. CASE Probe BY <1>8 DEF Probe, Becomes, Is
  <1>9. CASE ProbeRelease BY <1>9 DEF ProbeRelease, Becomes, Is
  <1>10. CASE Baseline BY <1>10 DEF Baseline, Becomes, Is
  <1>11. CASE Observe BY <1>11 DEF Observe, Becomes, Is
  <1>12. CASE Gate BY <1>12 DEF Gate, Becomes, Is, Settle
  <1>13. CASE Launch BY <1>13 DEF Launch, Becomes, Is, NextAttempt, Settle
  <1>14. CASE Health BY <1>14 DEF Health, Becomes, Is, Settle
  <1>15. CASE Inspect
    BY <1>15 DEF Inspect, Becomes, Is, Terminate, TailNames, NextAttempt,
      Settle, InTable
  <1>16. CASE Grace BY <1>16 DEF Grace, Becomes, Is
  <1>17. CASE AwaitExit BY <1>17 DEF AwaitExit, Becomes, Is, NextAttempt, Settle
  <1>18. CASE WatcherLeaves BY <1>18 DEF WatcherLeaves, Becomes, Is
  <1>19. CASE UNCHANGED vars
    BY <1>19 DEF vars, leaseVars, beatVars, logVars, watchVars, Becomes, Is
  <1> QED BY <1>1, <1>2, <1>3, <1>4, <1>5, <1>6, <1>7, <1>8, <1>9, <1>10,
      <1>11, <1>12, <1>13, <1>14, <1>15, <1>16, <1>17, <1>18, <1>19 DEF Next,
      WatcherStep

\* Outside of its admitted life a process touches no lock.
LEMMA OutsideKept ==
  ASSUME TypeOK, OutsideIdle, AttemptsInOrder, [Next]_vars
  PROVE  OutsideIdle'
  <1> USE ConstantFacts DEF TypeOK, LeaseTypeOK, OutsideIdle, Admitted
  <1>1. CASE pc # "done" /\ \E a \in Agents : AgentStep(a)
    <2> SUFFICES ASSUME NEW a \in Agents, AgentStep(a) PROVE OutsideIdle' BY <1>1
    <2>1. CASE Refuse(a) BY <2>1 DEF Refuse, Becomes, Is, Goto, At, leaseVars
    <2>2. CASE Admit(a) BY <2>2 DEF Admit, Becomes, Is, Goto, At, leaseVars
    <2>3. CASE Acquire(a)
      BY <2>3 DEF Acquire, OpenLock, TakeLock, FailLock, Becomes, Is, Goto, At
    <2>4. CASE BootFails(a)
      BY <2>4 DEF BootFails, Becomes, Is, Goto, At, leaseVars
    <2>5. CASE LookForMarker(a)
      BY <2>5 DEF LookForMarker, Becomes, Is, Goto, At, leaseVars
    <2>6. CASE TakeMarker(a)
      BY <2>6 DEF TakeMarker, ExitProcess, Becomes, Is, Goto, At, leaseVars
    <2>7. CASE Beat(a) BY <2>7 DEF Beat, Becomes, Is, Goto, At, leaseVars
    <2>8. CASE Hang(a) BY <2>8 DEF Hang, Becomes, Is, Goto, At, leaseVars
    <2>9. CASE Resume(a) BY <2>9 DEF Resume, Becomes, Is, Goto, At, leaseVars
    <2>10. CASE Obey(a) BY <2>10 DEF Obey, Becomes, Is, Goto, At, leaseVars
    <2>11. CASE Withdraw(a)
      BY <2>11 DEF Withdraw, Becomes, Is, Goto, At, leaseVars
    <2>12. CASE Release(a)
      BY <2>12 DEF Release, Unlock, CloseLock, Unlink, Becomes, Is, Goto, At
    <2>13. CASE Leave(a)
      BY <2>13 DEF Leave, ExitProcess, Becomes, Is, Goto, At, InTable
    <2> QED BY <2>1, <2>2, <2>3, <2>4, <2>5, <2>6, <2>7, <2>8, <2>9, <2>10, <2>11,
              <2>12, <2>13 DEF AgentStep
  <1>2. CASE LaunchByHand
    BY <1>2 DEF LaunchByHand, Becomes, Is, Goto, At, leaseVars
  <1>3. CASE LateBeat BY <1>3 DEF LateBeat, Becomes, Is, Goto, At, leaseVars
  <1>4. CASE Age BY <1>4 DEF Age, Becomes, Is, Goto, At, leaseVars
  <1>5. CASE Overdue BY <1>5 DEF Overdue, Becomes, Is, Goto, At, leaseVars
  <1>6. CASE AwaitMarker
    BY <1>6 DEF AwaitMarker, Settle, Becomes, Is, Goto, At, Settle, leaseVars
  <1>7. CASE AwaitFree
    BY <1>7 DEF AwaitFree, Settle, Becomes, Is, Goto, At, Settle, leaseVars
  <1>8. CASE Probe
    BY <1>8 DEF Probe, OpenLock, TakeLock, FailLock, Becomes, Is, Goto, At
  <1>9. CASE ProbeRelease
    BY <1>9 DEF ProbeRelease, Unlock, CloseLock, Unlink, Becomes, Is, Goto, At
  <1>10. CASE Baseline BY <1>10 DEF Baseline, Becomes, Is, Goto, At, leaseVars
  <1>11. CASE Observe BY <1>11 DEF Observe, Becomes, Is, Goto, At, leaseVars
  <1>12. CASE Gate
    BY <1>12 DEF Gate, Settle, Becomes, Is, Goto, At, Settle, leaseVars
  <1>13. CASE Launch
    BY <1>13 DEF Launch, NextAttempt, Settle, Becomes, Is, Goto, At,
      leaseVars, AttemptsInOrder
  <1>14. CASE Health
    BY <1>14 DEF Health, Settle, Becomes, Is, Goto, At, Settle, leaseVars
  <1>15. CASE Inspect
    BY <1>15 DEF Inspect, Terminate, ExitProcess, NextAttempt, Settle,
      Becomes, Is, Goto, At, leaseVars, TailNames
  <1>16. CASE Grace BY <1>16 DEF Grace, Becomes, Is, Goto, At, leaseVars
  <1>17. CASE AwaitExit
    BY <1>17 DEF AwaitExit, NextAttempt, Settle, Becomes, Is, Goto, At,
      leaseVars
  <1>18. CASE WatcherLeaves
    BY <1>18 DEF WatcherLeaves, Becomes, Is, Goto, At, ExitProcess
  <1>19. CASE UNCHANGED vars
    BY <1>19 DEF vars, leaseVars, beatVars, logVars, watchVars, Becomes, Is,
      Goto, At
  <1> QED BY <1>1, <1>2, <1>3, <1>4, <1>5, <1>6, <1>7, <1>8, <1>9, <1>10,
      <1>11, <1>12, <1>13, <1>14, <1>15, <1>16, <1>17, <1>18, <1>19 DEF Next,
      WatcherStep

\* Attempts are made in order.
LEMMA AttemptsKept ==
  ASSUME TypeOK, AttemptsInOrder, [Next]_vars
  PROVE  AttemptsInOrder'
  <1> USE ConstantFacts, WatcherConstants DEF TypeOK, AttemptsInOrder
  <1>1. CASE pc # "done" /\ \E a \in Agents : AgentStep(a)
    <2> SUFFICES ASSUME NEW a \in Agents, AgentStep(a) PROVE AttemptsInOrder' BY <1>1
    <2>1. CASE Refuse(a) BY <2>1 DEF Refuse, Becomes, Is, watchVars
    <2>2. CASE Admit(a) BY <2>2 DEF Admit, Becomes, Is, watchVars
    <2>3. CASE Acquire(a) BY <2>3 DEF Acquire, Becomes, Is, watchVars
    <2>4. CASE BootFails(a) BY <2>4 DEF BootFails, Becomes, Is, watchVars
    <2>5. CASE LookForMarker(a)
      BY <2>5 DEF LookForMarker, Becomes, Is, watchVars
    <2>6. CASE TakeMarker(a) BY <2>6 DEF TakeMarker, Becomes, Is, watchVars
    <2>7. CASE Beat(a) BY <2>7 DEF Beat, Becomes, Is, watchVars
    <2>8. CASE Hang(a) BY <2>8 DEF Hang, Becomes, Is, watchVars
    <2>9. CASE Resume(a) BY <2>9 DEF Resume, Becomes, Is, watchVars
    <2>10. CASE Obey(a) BY <2>10 DEF Obey, Becomes, Is, watchVars
    <2>11. CASE Withdraw(a) BY <2>11 DEF Withdraw, Becomes, Is, watchVars
    <2>12. CASE Release(a) BY <2>12 DEF Release, Becomes, Is, watchVars
    <2>13. CASE Leave(a) BY <2>13 DEF Leave, Becomes, Is, InTable, watchVars
    <2> QED BY <2>1, <2>2, <2>3, <2>4, <2>5, <2>6, <2>7, <2>8, <2>9, <2>10, <2>11,
              <2>12, <2>13 DEF AgentStep
  <1>2. CASE LaunchByHand BY <1>2 DEF LaunchByHand, Becomes, Is, watchVars
  <1>3. CASE LateBeat BY <1>3 DEF LateBeat, Becomes, Is, watchVars
  <1>4. CASE Age BY <1>4 DEF Age, Becomes, Is, watchVars
  <1>5. CASE Overdue BY <1>5 DEF Overdue, Becomes, Is
  <1>6. CASE AwaitMarker BY <1>6 DEF AwaitMarker, Becomes, Is, Settle, watchVars
  <1>7. CASE AwaitFree BY <1>7 DEF AwaitFree, Becomes, Is, Settle, watchVars
  <1>8. CASE Probe BY <1>8 DEF Probe, Becomes, Is
  <1>9. CASE ProbeRelease BY <1>9 DEF ProbeRelease, Becomes, Is
  <1>10. CASE Baseline BY <1>10 DEF Baseline, Becomes, Is
  <1>11. CASE Observe BY <1>11 DEF Observe, Becomes, Is
  <1>12. CASE Gate BY <1>12 DEF Gate, Becomes, Is, Settle, watchVars
  <1>13. CASE Launch
    BY <1>13 DEF Launch, Becomes, Is, NextAttempt, Settle, watchVars
  <1>14. CASE Health BY <1>14 DEF Health, Becomes, Is, Settle, watchVars
  <1>15. CASE Inspect
    BY <1>15 DEF Inspect, Becomes, Is, Terminate, TailNames, NextAttempt,
      Settle, InTable, watchVars
  <1>16. CASE Grace BY <1>16 DEF Grace, Becomes, Is
  <1>17. CASE AwaitExit
    <2>1. UNCHANGED phase /\ attempt \in 1..MaxAttempts
      BY <1>17 DEF AwaitExit
    <2>2. CASE attempt < MaxAttempts /\ attempt' = attempt + 1 /\ pc' = "gate"
      BY <2>1, <2>2
    <2>3. CASE attempt = MaxAttempts /\ UNCHANGED attempt /\ pc' = "done"
      BY <2>1, <2>3
    <2> QED BY <1>17, <2>2, <2>3 DEF AwaitExit, NextAttempt, Settle
  <1>18. CASE WatcherLeaves BY <1>18 DEF WatcherLeaves, Becomes, Is, watchVars
  <1>19. CASE UNCHANGED vars
    BY <1>19 DEF vars, leaseVars, beatVars, logVars, watchVars, Becomes, Is
  <1> QED BY <1>1, <1>2, <1>3, <1>4, <1>5, <1>6, <1>7, <1>8, <1>9, <1>10,
      <1>11, <1>12, <1>13, <1>14, <1>15, <1>16, <1>17, <1>18, <1>19 DEF Next,
      WatcherStep


\* While the process that asked is stopping, its lock is the one of the named
\* file, nobody else is past the guard, and a probe is of that file.
LEMMA StoppingFacts ==
  ASSUME Inv, phase[Old] = "stopping"
  PROVE  /\ handle[Old] \in Files /\ named = handle[Old] /\ named # NoFile
         /\ \A a \in Agents : a # Old =>
              ~Admitted(a) /\ step[a] = "idle" /\ handle[a] = NoFile
         /\ step[Watcher] = "opened" => handle[Watcher] = named
  <1> USE ConstantFacts, LeaseConstants
  <1>1. handle[Old] \in Files
    BY DEF Inv, OldGoesDown, LeaseInv, LeaseTypeOK, ClosedBetween
  <1>2. \A a \in Agents : a # Old => ~Admitted(a) /\ step[a] = "idle"
    BY DEF Inv, OneAdmitted, OutsideIdle, Admitted
  <1>3. \A a \in Agents : a # Old => handle[a] = NoFile
    BY <1>2 DEF Inv, LeaseInv, ClosedBetween
  <1>4. step[Watcher] = "opened" => handle[Watcher] = named
    BY DEF Inv, OldGoesDown, LeaseInv, ClosedBetween, OpenIsNamed
  <1> QED BY <1>1, <1>2, <1>3, <1>4 DEF Inv, OldGoesDown

\* The end of another process leaves its lock alone.
LEMMA OthersExit ==
  ASSUME Inv, phase[Old] = "stopping", NEW p \in Procs, p # Old, ExitProcess(p)
  PROVE  /\ named' = named /\ torn' = torn /\ handle'[Old] = handle[Old]
         /\ step'[Old] = step[Old] /\ locker'[handle[Old]] = Old
         /\ p # Watcher => step'[Watcher] = step[Watcher]
         /\ p = Watcher => step'[Watcher] = "idle"
  BY StoppingFacts, ConstantFacts DEF Inv, OldGoesDown, LeaseInv, LeaseTypeOK,
     ExitProcess, WithoutLocksOf, Goto

\* It does not come back from its way down.
LEMMA OldPhaseKept ==
  ASSUME Inv, [Next]_vars
  PROVE  phase'[Old] \in {"stopping", "release", "gone"}
         /\ (phase'[Old] = "stopping" => phase[Old] = "stopping")
  <1> USE ConstantFacts DEF Inv, TypeOK, OldGoesDown, AttemptsInOrder
  <1>1. CASE pc # "done" /\ \E a \in Agents : AgentStep(a)
    <2> SUFFICES ASSUME NEW a \in Agents, AgentStep(a)
                 PROVE  phase'[Old] \in {"stopping", "release", "gone"}
         /\ (phase'[Old] = "stopping" => phase[Old] = "stopping") BY <1>1
    <2>1. CASE Refuse(a) BY <2>1 DEF Refuse, Becomes, Is
    <2>2. CASE Admit(a) BY <2>2 DEF Admit, Becomes, Is, InTable
    <2>3. CASE Acquire(a) BY <2>3 DEF Acquire, Becomes, Is
    <2>4. CASE BootFails(a) BY <2>4 DEF BootFails, Becomes, Is
    <2>5. CASE LookForMarker(a) BY <2>5 DEF LookForMarker, Becomes, Is
    <2>6. CASE TakeMarker(a) BY <2>6 DEF TakeMarker, Becomes, Is
    <2>7. CASE Beat(a) BY <2>7 DEF Beat, Becomes, Is
    <2>8. CASE Hang(a) BY <2>8 DEF Hang, Becomes, Is
    <2>9. CASE Resume(a) BY <2>9 DEF Resume, Becomes, Is
    <2>10. CASE Obey(a) BY <2>10 DEF Obey, Becomes, Is
    <2>11. CASE Withdraw(a) BY <2>11 DEF Withdraw, Becomes, Is
    <2>12. CASE Release(a) BY <2>12 DEF Release, Becomes, Is
    <2>13. CASE Leave(a) BY <2>13 DEF Leave, Becomes, Is, InTable
    <2> QED BY <2>1, <2>2, <2>3, <2>4, <2>5, <2>6, <2>7, <2>8, <2>9, <2>10, <2>11,
              <2>12, <2>13 DEF AgentStep
  <1>2. CASE LaunchByHand BY <1>2 DEF LaunchByHand, Becomes, Is
  <1>3. CASE LateBeat BY <1>3 DEF LateBeat, Becomes, Is
  <1>4. CASE Age BY <1>4 DEF Age, Becomes, Is
  <1>5. CASE Overdue BY <1>5 DEF Overdue, Becomes, Is
  <1>6. CASE AwaitMarker BY <1>6 DEF AwaitMarker, Becomes, Is, Settle
  <1>7. CASE AwaitFree BY <1>7 DEF AwaitFree, Becomes, Is, Settle
  <1>8. CASE Probe BY <1>8 DEF Probe, Becomes, Is
  <1>9. CASE ProbeRelease BY <1>9 DEF ProbeRelease, Becomes, Is
  <1>10. CASE Baseline BY <1>10 DEF Baseline, Becomes, Is
  <1>11. CASE Observe BY <1>11 DEF Observe, Becomes, Is
  <1>12. CASE Gate BY <1>12 DEF Gate, Becomes, Is, Settle
  <1>13. CASE Launch BY <1>13 DEF Launch, Becomes, Is, NextAttempt, Settle
  <1>14. CASE Health BY <1>14 DEF Health, Becomes, Is, Settle
  <1>15. CASE Inspect
    BY <1>15 DEF Inspect, Becomes, Is, Terminate, TailNames, NextAttempt,
      Settle, InTable
  <1>16. CASE Grace BY <1>16 DEF Grace, Becomes, Is
  <1>17. CASE AwaitExit BY <1>17 DEF AwaitExit, Becomes, Is, NextAttempt, Settle
  <1>18. CASE WatcherLeaves BY <1>18 DEF WatcherLeaves, Becomes, Is
  <1>19. CASE UNCHANGED vars
    BY <1>19 DEF vars, leaseVars, beatVars, logVars, watchVars, Becomes, Is
  <1> QED BY <1>1, <1>2, <1>3, <1>4, <1>5, <1>6, <1>7, <1>8, <1>9, <1>10,
      <1>11, <1>12, <1>13, <1>14, <1>15, <1>16, <1>17, <1>18, <1>19 DEF Next,
      WatcherStep

\* While it is stopping it keeps its lock, and the watcher waits for it.
LEMMA OldGoesDownKept ==
  ASSUME Inv, [Next]_vars
  PROVE  OldGoesDown'
  <1> USE ConstantFacts DEF Inv
  <1> SUFFICES ASSUME phase[Old] = "stopping", phase'[Old] = "stopping"
               PROVE  OldGoesDown'
    BY OldPhaseKept DEF OldGoesDown
  <1> USE StoppingFacts
  <1>1. CASE pc # "done" /\ \E a \in Agents : AgentStep(a)
    <2> SUFFICES ASSUME NEW a \in Agents, AgentStep(a) PROVE OldGoesDown' BY <1>1
    <2>1. CASE Refuse(a)
      BY <2>1 DEF Refuse, leaseVars, OldGoesDown, Early, watchVars
    <2>2. CASE Admit(a)
      BY <2>2 DEF Admit, leaseVars, OldGoesDown, Early, watchVars
    <2>3. CASE Acquire(a) BY <2>3 DEF Acquire, OldGoesDown, Admitted, Is
    <2>4. CASE BootFails(a)
      BY <2>4 DEF BootFails, leaseVars, OldGoesDown, Early, watchVars
    <2>5. CASE LookForMarker(a)
      BY <2>5 DEF LookForMarker, leaseVars, OldGoesDown, Early, watchVars
    <2>6. CASE TakeMarker(a) BY <2>6 DEF TakeMarker, OldGoesDown, Admitted, Is
    <2>7. CASE Beat(a)
      BY <2>7 DEF Beat, leaseVars, OldGoesDown, Early, watchVars
    <2>8. CASE Hang(a)
      BY <2>8 DEF Hang, leaseVars, OldGoesDown, Early, watchVars
    <2>9. CASE Resume(a)
      BY <2>9 DEF Resume, leaseVars, OldGoesDown, Early, watchVars
    <2>10. CASE Obey(a)
      BY <2>10 DEF Obey, leaseVars, OldGoesDown, Early, watchVars
    <2>11. CASE Withdraw(a)
      BY <2>11 DEF Withdraw, leaseVars, OldGoesDown, Early, watchVars,
        Becomes, Is, TypeOK
    <2>12. CASE Release(a) BY <2>12 DEF Release, OldGoesDown, Admitted, Is
    <2>13. CASE Leave(a)
      BY <2>13, OthersExit DEF Leave, OldGoesDown, Early, watchVars, InTable,
        Becomes, TypeOK
    <2> QED BY <2>1, <2>2, <2>3, <2>4, <2>5, <2>6, <2>7, <2>8, <2>9, <2>10, <2>11,
              <2>12, <2>13 DEF AgentStep
  <1>2. CASE LaunchByHand
    BY <1>2 DEF LaunchByHand, leaseVars, OldGoesDown, Early, watchVars
  <1>3. CASE LateBeat
    BY <1>3 DEF LateBeat, leaseVars, OldGoesDown, Early, watchVars
  <1>4. CASE Age BY <1>4 DEF Age, leaseVars, OldGoesDown, Early, watchVars
  <1>5. CASE Overdue
    BY <1>5 DEF Overdue, leaseVars, OldGoesDown, Early, watchVars
  <1>6. CASE AwaitMarker
    BY <1>6 DEF AwaitMarker, leaseVars, OldGoesDown, Early, Settle
  <1>7. CASE AwaitFree
    BY <1>7 DEF AwaitFree, leaseVars, OldGoesDown, Early, Settle
  <1>8. CASE Probe
    <2> USE <1>8 DEF Probe, OldGoesDown, Early
    <2>0. Old # Watcher /\ step \in [Procs -> Steps] /\ handle \in [Procs -> Files \cup {NoFile}]
      BY DEF LeaseInv, LeaseTypeOK
    <2>1. CASE OpenLock(Watcher) /\ UNCHANGED pc
      <3>1. named' = named /\ torn' = torn /\ locker' = locker BY <2>1 DEF OpenLock
      <3>2. handle'[Old] = handle[Old] /\ step'[Old] = step[Old] /\ step'[Watcher] = "opened"
        BY <2>0, <2>1 DEF OpenLock, Goto
      <3> QED BY <2>1, <3>1, <3>2
    <2>2. CASE TakeLock(Watcher)
      BY <2>2, LeaseConstants DEF TakeLock, At
    <2>3. CASE FailLock(Watcher, "idle") /\ pc' = "free"
      <3>1. named' = named /\ torn' = torn /\ locker' = locker BY <2>3 DEF FailLock
      <3>2. handle'[Old] = handle[Old] /\ step'[Old] = step[Old] /\ step'[Watcher] = "idle"
        BY <2>0, <2>3 DEF FailLock, Goto
      <3> QED BY <2>3, <3>1, <3>2
    <2> QED BY <2>1, <2>2, <2>3
  <1>9. CASE ProbeRelease BY <1>9 DEF ProbeRelease, OldGoesDown, Early
  <1>10. CASE Baseline
    BY <1>10 DEF Baseline, leaseVars, OldGoesDown, Early, watchVars
  <1>11. CASE Observe
    BY <1>11 DEF Observe, leaseVars, OldGoesDown, Early, watchVars
  <1>12. CASE Gate BY <1>12 DEF Gate, leaseVars, OldGoesDown, Early, Settle
  <1>13. CASE Launch BY <1>13 DEF Launch, OldGoesDown, Early
  <1>14. CASE Health BY <1>14 DEF Health, leaseVars, OldGoesDown, Early, Settle
  <1>15. CASE Inspect BY <1>15 DEF Inspect, OldGoesDown, Early
  <1>16. CASE Grace BY <1>16 DEF Grace, leaseVars, OldGoesDown, Early, watchVars
  <1>17. CASE AwaitExit BY <1>17 DEF AwaitExit, OldGoesDown, Early
  <1>18. CASE WatcherLeaves
    BY <1>18, OthersExit DEF WatcherLeaves, OldGoesDown, Early, watchVars
  <1>19. CASE UNCHANGED vars
    BY <1>19 DEF vars, leaseVars, beatVars, logVars, watchVars, OldGoesDown,
      Early, leaseVars
  <1> QED BY <1>1, <1>2, <1>3, <1>4, <1>5, <1>6, <1>7, <1>8, <1>9, <1>10,
      <1>11, <1>12, <1>13, <1>14, <1>15, <1>16, <1>17, <1>18, <1>19 DEF Next,
      WatcherStep

\* After the baseline only its late heartbeat is new.
LEMMA LateBeatKept ==
  ASSUME Inv, [Next]_vars
  PROVE  OldBeatIsLate'
  <1> USE ConstantFacts, LeaseConstants DEF Inv, OldBeatIsLate
  <1>1. CASE pc # "done" /\ \E a \in Agents : AgentStep(a)
    <2> SUFFICES ASSUME NEW a \in Agents, AgentStep(a) PROVE OldBeatIsLate' BY <1>1
    <2>1. CASE Refuse(a) BY <2>1 DEF Refuse, beatVars, watchVars, Early
    <2>2. CASE Admit(a) BY <2>2 DEF Admit, beatVars, watchVars, Early
    <2>3. CASE Acquire(a) BY <2>3 DEF Acquire, beatVars, watchVars, Early
    <2>4. CASE BootFails(a) BY <2>4 DEF BootFails, beatVars, watchVars, Early
    <2>5. CASE LookForMarker(a)
      BY <2>5 DEF LookForMarker, beatVars, watchVars, Early
    <2>6. CASE TakeMarker(a) BY <2>6 DEF TakeMarker, beatVars, watchVars, Early
    <2>7. CASE Beat(a) BY <2>7 DEF Beat, watchVars, Early, OldGoesDown
    <2>8. CASE Hang(a) BY <2>8 DEF Hang, beatVars, watchVars, Early
    <2>9. CASE Resume(a) BY <2>9 DEF Resume, beatVars, watchVars, Early
    <2>10. CASE Obey(a) BY <2>10 DEF Obey, beatVars, watchVars, Early
    <2>11. CASE Withdraw(a) BY <2>11 DEF Withdraw, beatVars, watchVars, Early
    <2>12. CASE Release(a) BY <2>12 DEF Release, beatVars, watchVars, Early
    <2>13. CASE Leave(a) BY <2>13 DEF Leave, beatVars, watchVars, Early
    <2> QED BY <2>1, <2>2, <2>3, <2>4, <2>5, <2>6, <2>7, <2>8, <2>9, <2>10, <2>11,
              <2>12, <2>13 DEF AgentStep
  <1>2. CASE LaunchByHand BY <1>2 DEF LaunchByHand, beatVars, watchVars, Early
  <1>3. CASE LateBeat BY <1>3 DEF LateBeat, beatVars, watchVars, Early
  <1>4. CASE Age BY <1>4 DEF Age, beatVars, watchVars, Early
  <1>5. CASE Overdue BY <1>5 DEF Overdue, beatVars, watchVars, Early
  <1>6. CASE AwaitMarker
    BY <1>6 DEF AwaitMarker, beatVars, watchVars, Early, Settle
  <1>7. CASE AwaitFree BY <1>7 DEF AwaitFree, beatVars, watchVars, Early, Settle
  <1>8. CASE Probe BY <1>8 DEF Probe, beatVars, watchVars, Early
  <1>9. CASE ProbeRelease BY <1>9 DEF ProbeRelease, beatVars, watchVars, Early
  <1>10. CASE Baseline BY <1>10 DEF Baseline, beatVars, watchVars, Early
  <1>11. CASE Observe BY <1>11 DEF Observe, beatVars, watchVars, Early
  <1>12. CASE Gate BY <1>12 DEF Gate, beatVars, watchVars, Early, Settle
  <1>13. CASE Launch
    BY <1>13 DEF Launch, beatVars, watchVars, Early, Settle, NextAttempt
  <1>14. CASE Health BY <1>14 DEF Health, beatVars, watchVars, Early, Settle
  <1>15. CASE Inspect
    BY <1>15 DEF Inspect, beatVars, watchVars, Early, Settle, NextAttempt
  <1>16. CASE Grace BY <1>16 DEF Grace, beatVars, watchVars, Early
  <1>17. CASE AwaitExit
    BY <1>17 DEF AwaitExit, beatVars, watchVars, Early, Settle, NextAttempt
  <1>18. CASE WatcherLeaves
    BY <1>18 DEF WatcherLeaves, beatVars, watchVars, Early
  <1>19. CASE UNCHANGED vars
    BY <1>19 DEF vars, leaseVars, beatVars, logVars, watchVars, Early
  <1> QED BY <1>1, <1>2, <1>3, <1>4, <1>5, <1>6, <1>7, <1>8, <1>9, <1>10,
      <1>11, <1>12, <1>13, <1>14, <1>15, <1>16, <1>17, <1>18, <1>19 DEF Next,
      WatcherStep


LEMMA InvKept ==
  ASSUME Inv, [Next]_vars
  PROVE  Inv'
  <1>1. LeaseInv'
    <2>1. CASE UNCHANGED leaseVars
  BY <2>1 DEF Inv, leaseVars, LeaseInv, LeaseTypeOK, LocksAreOpen,
     ClosedBetween, OpenIsNamed
    <2>2. CASE \E p \in Procs : LeaseStep(p) \/ ExitProcess(p)
      BY <2>2, LeaseStepKeeps DEF Inv
    <2> QED BY <2>1, <2>2, LeaseMoves DEF Inv
  <1>2. TypeOK' BY <1>1, TypeKept DEF Inv, LeaseInv
  <1>3. OneAdmitted' /\ OutsideIdle' /\ AttemptsInOrder'
    BY GuardKept, OutsideKept, AttemptsKept DEF Inv
  <1> QED BY <1>1, <1>2, <1>3, OldGoesDownKept, LateBeatKept DEF Inv

LEMMA InvHolds == Spec => []Inv
  <1>1. Init => Inv
    <2> SUFFICES ASSUME Init PROVE Inv OBVIOUS
    <2> USE ConstantFacts, LeaseConstants, WatcherConstants DEF Init
    <2>1. named \in Files BY DEF Init
    <2>2. LeaseTypeOK BY <2>1 DEF LeaseTypeOK, Steps
    <2>3. TypeOK
      <3>1. phase \in [Agents -> Phases] BY DEF Phases
      <3>2. pc \in Pcs /\ result \in Results BY DEF Pcs, Results
      <3>3. marker \in BOOLEAN /\ beatNew \in BOOLEAN /\ refused \in BOOLEAN /\ overdue \in BOOLEAN
        OBVIOUS
      <3>4. attempt \in 0..MaxAttempts /\ beatAge \in 0..3 OBVIOUS
      <3> QED BY <2>2, <3>1, <3>2, <3>3, <3>4 DEF TypeOK
    <2>4. LeaseInv BY <2>1, <2>2 DEF LeaseInv, LocksAreOpen, ClosedBetween, OpenIsNamed
    <2>5. OneAdmitted /\ OutsideIdle BY DEF OneAdmitted, OutsideIdle, Admitted
    <2>6. OldGoesDown BY <2>1 DEF OldGoesDown, Early
    <2>7. OldBeatIsLate /\ AttemptsInOrder BY DEF OldBeatIsLate, Early, AttemptsInOrder
    <2> QED BY <2>3, <2>4, <2>5, <2>6, <2>7 DEF Inv
  <1> QED BY <1>1, InvKept, PTL DEF Spec

\* For any number of attempts: every variable keeps its type.
THEOREM TypeCorrect == Spec => []TypeOK
  <1>1. Inv => TypeOK BY DEF Inv
  <1> QED BY <1>1, InvHolds, PTL

\* For any number of attempts: no two processes drive the directory at once,
\* the asking process, one started by hand and those of the attempts included.
THEOREM OneAgent == Spec => []OneAgentAtATime
  <1>1. Inv => OneAgentAtATime
    BY DEF Inv, OneAdmitted, Admitted, OneAgentAtATime, Driving
  <1> QED BY <1>1, InvHolds, PTL

\* The agents, the watcher and the deaths of their processes move the lease in
\* its own steps only: whatever is true of every step of WorkdirLease is true of
\* the hand-off's.
THEOREM RefreshUsesLease == Spec => [][LeaseNext]_leaseVars
  <1>1. Inv /\ [Next]_vars => [LeaseNext]_leaseVars
    BY LeaseMoves DEF Inv, LeaseNext
  <1> QED BY <1>1, InvHolds, PTL DEF Spec

\* The agents and the watcher use the lease as WorkdirLease lets them, so that
\* its exclusion holds in the composition.
THEOREM RefreshKeepsLease == Spec => []ExclusiveUnlessTorn
  <1>1. Inv => ExclusiveUnlessTorn BY LeaseInvExcludes DEF Inv
  <1> QED BY <1>1, InvHolds, PTL

\* For any number of attempts: the watcher reports success only on a heartbeat of
\* another process than the one that asked, or on one its thread wrote too late.
THEOREM SuccessIsReal == Spec => NoFalseSuccess
  <1>1. ASSUME Inv, [Next]_vars, result = "none",
               result' \in {"already_alive", "relaunch_success"}
        PROVE  beatBy # Old \/ late = "wrote"
    <2>1. Gate \/ Health
      BY <1>1 DEF vars, watchVars, Next, AgentStep, WatcherStep, Settle, NextAttempt,
         Refuse, Admit, Acquire, BootFails, LookForMarker, TakeMarker, Beat, Hang,
         Resume, Obey, Withdraw, Release, Leave, LaunchByHand, LateBeat, Age, Overdue,
         AwaitMarker, AwaitFree, Probe, ProbeRelease, Baseline, Observe, Launch,
         Inspect, Grace, AwaitExit, WatcherLeaves
    <2>2. beatNew /\ pc \in {"gate", "health", "settle"}
      BY <1>1, <2>1 DEF Gate, Health, IsAlive, Advanced, Settle
    <2> QED BY <1>1, <2>2 DEF Inv, OldBeatIsLate, Early
  <1> QED BY <1>1, InvHolds, PTL DEF Spec, NoFalseSuccess

=============================================================================

---------------------------- MODULE WorkdirLease ----------------------------
(***************************************************************************)
(* The lease on an agent's working directory (POSIX adapter): an flock on  *)
(* the file `.agent.lock`.  acquire opens the file, which creates it when  *)
(* the name is gone, and tries the lock until a deadline; release unlocks, *)
(* closes and only then removes the name.  A lock belongs to the file that *)
(* was opened, not to the name, so a process that opened the file before   *)
(* its name was removed holds the lock of a file nobody can reach.         *)
(*                                                                         *)
(* A file is a number; one that has no name and no open descriptor is free *)
(* to be used for the next file that is created, so that Cardinality(Procs)*)
(* + 1 files are enough for every behaviour.                               *)
(***************************************************************************)
EXTENDS Naturals, FiniteSets

CONSTANTS Procs,     \* processes that use the lease of this directory
          Files,     \* identities of lock files
          NoFile,    \* no such name, no descriptor
          NoProc     \* the lock of this file is free

ASSUME LeaseConstants == NoFile \notin Files /\ NoProc \notin Procs

VARIABLES named,     \* the file `.agent.lock` names, or NoFile
          locker,    \* file -> the process that holds its flock
          handle,    \* process -> the file its adapter has open (_lock_file)
          step,      \* process -> where its adapter is in acquire or release
          torn       \* auxiliary: some release removed the name of a file
                     \* that another process had opened

leaseVars == <<named, locker, handle, step, torn>>

Steps == {"idle",      \* no operation in progress, nothing held
          "opened",    \* acquire: the file is open, the lock not tried yet
          "waiting",   \* acquire: the attempt failed, sleeping 250 ms
          "held",      \* acquire returned
          "unlocked",  \* release: LOCK_UN was issued
          "closed",    \* release: the descriptor is confirmed closed
          "leaked"}    \* release: close failed, the descriptor may be live

LeaseTypeOK ==
  /\ named \in Files \cup {NoFile}
  /\ locker \in [Files -> Procs \cup {NoProc}]
  /\ handle \in [Procs -> Files \cup {NoFile}]
  /\ step \in [Procs -> Steps]
  /\ torn \in BOOLEAN

LeaseInit ==
  /\ named = NoFile
  /\ locker = [f \in Files |-> NoProc]
  /\ handle = [p \in Procs |-> NoFile]
  /\ step = [p \in Procs |-> "idle"]
  /\ torn = FALSE

At(p, s) == step[p] = s
Goto(p, s) == step' = [step EXCEPT ![p] = s]

\* A file nobody names and nobody has open: the next file created may be it.
Unused == {f \in Files : f # named /\ \A p \in Procs : handle[p] # f}

\* Which one does not matter.
NewFile == CHOOSE f \in Unused : TRUE

\* The flock of every file p holds goes with p's descriptors.
WithoutLocksOf(p) == [f \in Files |-> IF locker[f] = p THEN NoProc ELSE locker[f]]

\* open(lock_path, "w"): the named file, or a new one under that name.
OpenLock(p) ==
  /\ step[p] \in {"idle", "waiting"}
  /\ named = NoFile => Unused # {}
  /\ named' = IF named = NoFile THEN NewFile ELSE named
  /\ handle' = [handle EXCEPT ![p] = named']
  /\ Goto(p, "opened")
  /\ UNCHANGED <<locker, torn>>

\* flock(LOCK_EX | LOCK_NB) succeeds: acquire returns.
TakeLock(p) ==
  /\ At(p, "opened")
  /\ locker[handle[p]] = NoProc
  /\ locker' = [locker EXCEPT ![handle[p]] = p]
  /\ Goto(p, "held")
  /\ UNCHANGED <<named, handle, torn>>

\* It fails: the file is closed; the deadline may have passed, then acquire
\* raises, else it sleeps and tries again.
FailLock(p, then) ==
  /\ At(p, "opened")
  /\ locker[handle[p]] # NoProc
  /\ then \in {"waiting", "idle"}
  /\ handle' = [handle EXCEPT ![p] = NoFile]
  /\ Goto(p, then)
  /\ UNCHANGED <<named, locker, torn>>

\* release: LOCK_UN; an error is suppressed and leaves the lock in place.
Unlock(p) ==
  /\ At(p, "held")
  /\ locker' \in {locker, WithoutLocksOf(p)}
  /\ Goto(p, "unlocked")
  /\ UNCHANGED <<named, handle, torn>>

\* For comparison: a close that failed is taken for one that succeeded.
CloseUnconfirmed(p) ==
  /\ At(p, "unlocked")
  /\ \/ /\ locker' = WithoutLocksOf(p)
        /\ handle' = [handle EXCEPT ![p] = NoFile]
     \/ UNCHANGED <<locker, handle>>
  /\ Goto(p, "closed")
  /\ UNCHANGED <<named, torn>>

\* release: close, which drops the lock too, or fails and keeps it.
CloseLock(p) ==
  /\ At(p, "unlocked")
  /\ \/ /\ locker' = WithoutLocksOf(p)
        /\ handle' = [handle EXCEPT ![p] = NoFile]
        /\ Goto(p, "closed")
     \/ /\ Goto(p, "leaked")
        /\ UNCHANGED <<locker, handle>>
  /\ UNCHANGED <<named, torn>>

\* release: the name goes, whatever file it names by now.
Unlink(p) ==
  /\ At(p, "closed")
  /\ named' = NoFile
  /\ torn' = (torn \/ \E q \in Procs \ {p} : named # NoFile /\ handle[q] = named)
  /\ Goto(p, "idle")
  /\ UNCHANGED <<locker, handle>>

\* The process ends, at any point: the system closes its descriptors and
\* frees its locks; the name stays.
ExitProcess(p) ==
  /\ locker' = WithoutLocksOf(p)
  /\ handle' = [handle EXCEPT ![p] = NoFile]
  /\ Goto(p, "idle")
  /\ UNCHANGED <<named, torn>>

LeaseStep(p) ==
  \/ OpenLock(p)
  \/ TakeLock(p)
  \/ \E then \in {"waiting", "idle"} : FailLock(p, then)
  \/ Unlock(p)
  \/ CloseLock(p)
  \/ Unlink(p)

LeaseNext == \E p \in Procs : LeaseStep(p) \/ ExitProcess(p)

LeaseSpec == LeaseInit /\ [][LeaseNext]_leaseVars

-----------------------------------------------------------------------------
\* The processes that own a lock of this directory, by whatever file.
Owners == {p \in Procs : \E f \in Files : locker[f] = p}

\* Rule 2 of kernel/workdir_lease/CONTRACT.md, "A held lease excludes a second
\* acquire of the same directory", as far as release's order (unlock, confirmed
\* close, then unlink) gives it: as long as no release has removed the name under a process that had already opened the
\* file, at most one process owns a lock of the directory, one that release could
\* not close and one whose owner is in the middle of its release included.
ExclusiveUnlessTorn == ~torn => \A p, q \in Owners : p = q

=============================================================================

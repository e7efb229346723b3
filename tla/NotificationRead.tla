-------------------------- MODULE NotificationRead --------------------------
(***************************************************************************)
(* The notification store with the agent that reads it.  The store has no  *)
(* operation that returns the payloads with their version, and readers     *)
(* take no lock: the agent reads the fingerprint, the payloads and the     *)
(* fingerprint again, and commits it, as the token of its later            *)
(* dismissals, only when the two agree.                                    *)
(***************************************************************************)
EXTENDS NotificationStore

CONSTANT ReadAttempts    \* _COHERENT_READ_ATTEMPTS

ASSUME AttemptsConstant == ReadAttempts \in Nat \ {0}

VARIABLES
    reader,      \* the coherent read in progress
    delivered    \* what was last shown, with the fingerprint committed for it

readVars == <<reader, delivered>>
allVars == <<vars, readVars>>

ReadTypeOK ==
    /\ TypeOK
    /\ reader \in [pc : {"idle", "control", "list", "files"}, pass : 1..3,
                   tries : 0..(ReadAttempts - 1), cleared : [Runs -> Tombstone],
                   left : SUBSET Runs, seen : Contents,
                   before : Contents, payload : SUBSET Events]
    /\ delivered \in [fp : Contents, events : SUBSET Events]

NotReading == [pc |-> "idle", pass |-> 1, tries |-> 0,
               cleared |-> [r \in Runs |-> NoTombstone], left |-> {},
               seen |-> Nothing, before |-> Nothing, payload |-> {}]

ReadInit ==
    /\ Init
    /\ reader = NotReading
    /\ delivered = [fp |-> Nothing, events |-> {}]

(***************************************************************************)
(* The coherent read: a pass for the fingerprint, one for the payloads and *)
(* one more for the fingerprint, none of them under a lock.  A pass reads  *)
(* the control record, lists the files and reads each.                     *)
(***************************************************************************)
ReadControl ==
    /\ reader.pc \in {"idle", "control"}
    /\ reader' = [reader EXCEPT !.pc = "list", !.cleared = ctl.cleared,
                                !.seen = Nothing]
    /\ UNCHANGED <<vars, delivered>>

ReadList ==
    /\ reader.pc = "list"
    /\ reader' = [reader EXCEPT !.pc = "files",
                                !.left = {r \in Runs : file[r] # {}}]
    /\ UNCHANGED <<vars, delivered>>

ReadFile(r) ==
    /\ reader.pc = "files"
    /\ r \in reader.left
    /\ reader' = [reader EXCEPT !.left = @ \ {r},
                                !.seen[r] = Shown(file[r], reader.cleared[r])]
    /\ UNCHANGED <<vars, delivered>>

Union(contents) == UNION {contents[r] : r \in Runs}

\* The first two passes are kept for the comparison.
ReadPass ==
    /\ reader.pc = "files"
    /\ reader.left = {}
    /\ reader.pass < 3
    /\ reader' = [reader EXCEPT
            !.pc = "control",
            !.pass = @ + 1,
            !.before = IF reader.pass = 1 THEN reader.seen ELSE @,
            !.payload = IF reader.pass = 2 THEN Union(reader.seen) ELSE @]
    /\ UNCHANGED <<vars, delivered>>

\* Equal bookends: the payload is shown and the fingerprint committed.
ReadStable ==
    /\ reader.pc = "files"
    /\ reader.left = {}
    /\ reader.pass = 3
    /\ reader.before = reader.seen
    /\ delivered' = [fp |-> reader.seen, events |-> reader.payload]
    /\ reader' = NotReading
    /\ UNCHANGED vars

\* For comparison: the last observation is committed although a producer
\* wrote while it was made.
CommitsUnstable ==
    /\ reader.pc = "files"
    /\ reader.left = {}
    /\ reader.pass = 3
    /\ reader.before # reader.seen
    /\ delivered' = [fp |-> reader.seen, events |-> reader.payload]
    /\ reader' = NotReading
    /\ UNCHANGED vars

\* A producer wrote in between: again, until the attempts are used up; then
\* the last observation is used but no fingerprint committed.
ReadUnstable ==
    /\ reader.pc = "files"
    /\ reader.left = {}
    /\ reader.pass = 3
    /\ reader.before # reader.seen
    /\ reader' = IF reader.tries + 1 = ReadAttempts THEN NotReading
                 ELSE [NotReading EXCEPT !.pc = "control",
                                         !.tries = reader.tries + 1]
    /\ UNCHANGED <<vars, delivered>>

Read ==
    \/ ReadControl \/ ReadList \/ \E r \in Runs : ReadFile(r)
    \/ ReadPass \/ ReadStable \/ ReadUnstable


DismissShown(p, want) ==
    \/ Dismiss(p, want, Unconditional, {})
    \/ Dismiss(p, want, delivered.fp, delivered.events)

ReadNext ==
    \/ Read
    \/ /\ \E p \in Procs :
            \/ \E e \in Events : Publish(p, e)
            \/ \E want \in Targets : DismissShown(p, want)
            \/ Step(p)
            \/ Abort(p)
       /\ UNCHANGED readVars

ReadSpec == ReadInit /\ [][ReadNext]_allVars

\* A dismissal that is not forced newly dismisses only events that were shown
\* to the agent before it asked for it.
OnlyShownDismissed ==
    [][\A p \in Procs :
        op[p].pc = "cut" /\ op[p].expected # Unconditional
            => dismissed' \ dismissed \subseteq op[p].shown]_allVars
=============================================================================

-------------------------- MODULE NotificationStore --------------------------
(***************************************************************************)
(* The daemon channel of the notification store: one mini-file per daemon  *)
(* run, one control record (.tombstone) that says which events of those    *)
(* files are dismissed and how many events the current batch has, and      *)
(* locks per run and for the control record.  Supervisor processes append  *)
(* events, the agent dismisses them.  NotificationRead adds the read the   *)
(* agent makes without a lock.                                             *)
(*                                                                         *)
(* Every write replaces one file atomically; a process may die, or leave   *)
(* with an exception, between any two writes.  Event ids are unique, so    *)
(* the bytes of a mini-file, and their SHA-256, are identified with the    *)
(* set of events in it; {} is a file that does not exist.                  *)
(***************************************************************************)
EXTENDS Naturals, FiniteSets

CONSTANTS
    Events,         \* events a producer may publish, each with a fresh id
    Runs,           \* daemon runs
    Keys,           \* idempotency keys
    RunOf,          \* the run an event belongs to (its ref_id)
    KeyOf,          \* its idempotency key: a retried notice has the same
    Procs,          \* processes, or threads, that change the store
    Control,        \* the scope "resource:daemon-control"
    Unconditional,            \* UNCONDITIONAL
    NoOne,          \* nobody holds the lock
    NoEvent,        \* no append is pending
    MaxRemovals     \* bound on clears and dismissals

ASSUME StoreConstants ==
    /\ IsFiniteSet(Events)
    /\ RunOf \in [Events -> Runs]
    /\ KeyOf \in [Events -> Keys]
    /\ Control \notin Runs
    /\ NoOne \notin Procs
    /\ NoEvent \notin Events
    /\ Unconditional \notin [Runs -> SUBSET Events]
    /\ MaxRemovals \in Nat

VARIABLES
    file,        \* the events in each run's mini-file
    ctl,         \* the control record
    lock,        \* who holds each scope
    op,          \* where each process is in its operation
    published,   \* history: events whose publication was started
    accepted,    \* history: events written to a mini-file
    dismissed,   \* history: events a committed cut removed
    batch,       \* history: events accepted since the last whole clear
    overlapped,  \* history: runs where a cut replaced a tombstone still in force
    removals     \* number of removals started

storeVars == <<file, ctl, lock, op>>
history == <<published, accepted, dismissed, batch, overlapped, removals>>
vars == <<storeVars, history>>

Tombstone == [of : SUBSET Events, keys : SUBSET Events]
NoTombstone == [of |-> {}, keys |-> {}]

Pending == [event : Events \cup {NoEvent}, prior : Nat, next : Nat]
NoPending == [event |-> NoEvent, prior |-> 0, next |-> 0]

ControlRecord ==
    [cleared : [Runs -> Tombstone], count : Nat, pending : Pending]

Contents == [Runs -> SUBSET Events]

Scopes == Runs \cup {Control}

EventsOf(r) == {e \in Events : RunOf[e] = r}

(***************************************************************************)
(* What the files and the control record mean.                             *)
(***************************************************************************)

\* A tombstone hides its events only while the file has the content the cut
\* was made for; otherwise it is inert.
Shown(content, tomb) ==
    IF content = tomb.of THEN content \ tomb.keys ELSE content

Logical == [r \in Runs |-> Shown(file[r], ctl.cleared[r])]

Visible == UNION {Logical[r] : r \in Runs}

\* For comparison: an append counts when its commit is written.
CommittedCount == ctl.count

\* The batch count: a pending append counts once its event is in the file.
EffectiveCount ==
    IF ctl.pending.event = NoEvent THEN ctl.count
    ELSE IF ctl.pending.event \in file[RunOf[ctl.pending.event]]
         THEN ctl.pending.next
         ELSE ctl.pending.prior

\* For comparison: the writer drops an open receipt without looking at the file.
DropsReceipt == [ctl EXCEPT !.pending = NoPending]

\* A writer first resolves what an interrupted append left behind.
Normalised == [ctl EXCEPT !.count = EffectiveCount, !.pending = NoPending]

(***************************************************************************)
(* Processes and locks.  A process takes the run scope before the control  *)
(* scope ("daemon-run:..." sorts before "resource:...").                   *)
(***************************************************************************)
Idle == [pc |-> "idle", event |-> NoEvent, want |-> {}, expected |-> Unconditional,
         shown |-> {}, todo |-> {}, run |-> Control]

Ops ==
    [pc : {"idle", "append_run", "append_control", "pending", "append_file",
           "commit", "remove_control", "cut", "names", "compact",
           "compact_control", "compact_file", "compact_entry"},
     event : Events \cup {NoEvent},
     want : SUBSET Events,
     expected : Contents \cup {Unconditional},
     shown : SUBSET Events,
     todo : SUBSET Runs,
     run : Runs \cup {Control}]

Goto(p, pc) == op' = [op EXCEPT ![p].pc = pc]

Take(p, scope) ==
    /\ lock[scope] = NoOne
    /\ lock' = [lock EXCEPT ![scope] = p]

LocksWithout(p) ==
    [s \in Scopes |-> IF lock[s] = p THEN NoOne ELSE lock[s]]

\* Leaving the with block, at its end, by a return or by an exception.
Release(p) == lock' = LocksWithout(p)

TypeOK ==
    /\ file \in Contents
    /\ ctl \in ControlRecord
    /\ lock \in [Scopes -> Procs \cup {NoOne}]
    /\ op \in [Procs -> Ops]
    /\ published \subseteq Events /\ accepted \subseteq published
    /\ dismissed \subseteq accepted /\ batch \subseteq accepted
    /\ overlapped \subseteq Runs
    /\ removals \in 0..MaxRemovals

Nothing == [r \in Runs |-> {}]

Init ==
    /\ file = Nothing
    /\ ctl = [cleared |-> [r \in Runs |-> NoTombstone], count |-> 0,
              pending |-> NoPending]
    /\ lock = [s \in Scopes |-> NoOne]
    /\ op = [p \in Procs |-> Idle]
    /\ published = {} /\ accepted = {} /\ dismissed = {} /\ batch = {}
    /\ overlapped = {}
    /\ removals = 0

(***************************************************************************)
(* Appending an event to its run's mini-file.                              *)
(***************************************************************************)
Publish(p, e) ==
    /\ op[p].pc = "idle"
    /\ e \notin published
    /\ published' = published \cup {e}
    /\ op' = [op EXCEPT ![p] = [Idle EXCEPT !.pc = "append_run", !.event = e]]
    /\ UNCHANGED <<file, ctl, lock, accepted, dismissed, batch,
                   overlapped, removals>>

AppendTakeRun(p) ==
    /\ op[p].pc = "append_run"
    /\ Take(p, RunOf[op[p].event])
    /\ Goto(p, "append_control")
    /\ UNCHANGED <<file, ctl, history>>

AppendTakeControl(p) ==
    /\ op[p].pc = "append_control"
    /\ Take(p, Control)
    /\ ctl' = Normalised
    /\ Goto(p, "pending")
    /\ UNCHANGED <<file, history>>

\* For comparison: the retried notice is looked for by its event id.
AlreadyAppended(p) == op[p].event \in Logical[RunOf[op[p].event]]

\* The mutator finds the notice's idempotency key in the run: nothing to do.
AlreadyPublished(p) ==
    LET e == op[p].event IN
    \E x \in Logical[RunOf[e]] : KeyOf[x] = KeyOf[e]

AppendSkip(p) ==
    /\ op[p].pc = "pending"
    /\ AlreadyPublished(p)
    /\ Release(p)
    /\ op' = [op EXCEPT ![p] = Idle]
    /\ UNCHANGED <<file, ctl, history>>

\* The receipt of an append that may not be finished: which event, and the
\* count without and with it.
AppendPending(p) ==
    /\ op[p].pc = "pending"
    /\ ~AlreadyPublished(p)
    /\ ctl' = [ctl EXCEPT !.pending = [event |-> op[p].event,
                                       prior |-> EffectiveCount,
                                       next |-> EffectiveCount + 1]]
    /\ Goto(p, "append_file")
    /\ UNCHANGED <<file, lock, history>>

\* For comparison: the event is added to the bytes of the file, dismissed
\* events included.
AppendsToBytes(p) ==
    LET e == op[p].event IN
    /\ op[p].pc = "append_file"
    /\ file' = [file EXCEPT ![RunOf[e]] = @ \cup {e}]
    /\ accepted' = accepted \cup {e}
    /\ batch' = batch \cup {e}
    /\ Goto(p, "commit")
    /\ UNCHANGED <<ctl, lock, published, dismissed, overlapped, removals>>

AppendFile(p) ==
    LET e == op[p].event IN
    /\ op[p].pc = "append_file"
    /\ file' = [file EXCEPT ![RunOf[e]] = Logical[RunOf[e]] \cup {e}]
    /\ accepted' = accepted \cup {e}
    /\ batch' = batch \cup {e}
    /\ Goto(p, "commit")
    /\ UNCHANGED <<ctl, lock, published, dismissed, overlapped,
                   removals>>

AppendCommit(p) ==
    /\ op[p].pc = "commit"
    /\ ctl' = [ctl EXCEPT !.count = ctl.pending.next, !.pending = NoPending]
    /\ Release(p)
    /\ op' = [op EXCEPT ![p] = Idle]
    /\ UNCHANGED <<file, history>>

(***************************************************************************)
(* Clearing the channel and dismissing events of it.                       *)
(***************************************************************************)

\* The whole channel, the events of one run (a ref_id), one event.
Targets == {Events} \cup {EventsOf(r) : r \in Runs} \cup {{e} : e \in Events}

\* A forced dismissal is unconditional; any other compares the store with
\* the fingerprint of what was shown.
Dismiss(p, want, expected, shown) ==
    /\ op[p].pc = "idle"
    /\ removals < MaxRemovals
    /\ removals' = removals + 1
    /\ op' = [op EXCEPT ![p] =
                [Idle EXCEPT !.pc = "remove_control", !.want = want,
                             !.expected = expected, !.shown = shown]]
    /\ UNCHANGED <<file, ctl, lock, published, accepted, dismissed,
                   batch, overlapped>>

\* In this module the caller has seen the whole channel at once;
\* NotificationRead has the read the agent really makes.
DismissAny(p, want) ==
    \/ Dismiss(p, want, Unconditional, {})
    \/ Dismiss(p, want, Logical, Visible)

RemoveTakeControl(p) ==
    /\ op[p].pc = "remove_control"
    /\ Take(p, Control)
    /\ ctl' = Normalised
    /\ Goto(p, "cut")
    /\ UNCHANGED <<file, history>>

Current(p) == op[p].expected \in {Unconditional, Logical}

\* The store has moved on since what the caller was shown (a conflict), or
\* nothing of what is wanted is there.
RemoveNothing(p) ==
    /\ op[p].pc = "cut"
    /\ ~Current(p) \/ Visible \cap op[p].want = {}
    /\ Release(p)
    /\ op' = [op EXCEPT ![p] = Idle]
    /\ UNCHANGED <<file, ctl, history>>

\* _extend_control: the runs that lose an event get a tombstone with the
\* events this removal takes, whatever the tombstone they had.
Extended(gone) ==
    [r \in Runs |->
        IF Logical[r] \cap gone = {} THEN ctl.cleared[r]
        ELSE [of |-> file[r], keys |-> Logical[r] \cap gone]]

InForce(r) ==
    /\ ctl.cleared[r].keys # {}
    /\ ctl.cleared[r].of = file[r]

\* The cut: one durable write of the control record.  Nothing left means the
\* channel is cleared, and with it the count of the batch.
Cut(p) ==
    LET gone == Visible \cap op[p].want IN
    /\ op[p].pc = "cut"
    /\ Current(p)
    /\ gone # {}
    /\ ctl' = [ctl EXCEPT !.cleared = Extended(gone),
                          !.count = IF gone = Visible THEN 0 ELSE ctl.count]
    /\ dismissed' = dismissed \cup gone
    /\ batch' = IF gone = Visible THEN {} ELSE batch
    /\ overlapped' = overlapped \cup
            {r \in Runs : Logical[r] \cap gone # {} /\ InForce(r)}
    /\ Release(p)
    /\ Goto(p, "names")
    /\ UNCHANGED <<file, published, accepted, removals>>

(***************************************************************************)
(* Compaction, after the cut and without its lock: each file a tombstone   *)
(* names is rewritten without the dismissed events, then the tombstone is  *)
(* dropped.                                                                *)
(***************************************************************************)

\* For comparison: the control scope is kept while the files are done.
KeepsControl(p) ==
    LET names == {r \in Runs : ctl.cleared[r].keys # {}} IN
    /\ op[p].pc = "names"
    /\ Take(p, Control)
    /\ op' = [op EXCEPT ![p] = [Idle EXCEPT !.pc = "compact", !.todo = names]]
    /\ UNCHANGED <<file, ctl, history>>

\* The names are read under the control scope and used after it is released.
CompactNames(p) ==
    LET names == {r \in Runs : ctl.cleared[r].keys # {}} IN
    /\ op[p].pc = "names"
    /\ lock[Control] = NoOne
    /\ op' = [op EXCEPT ![p] =
                IF names = {} THEN Idle
                ELSE [Idle EXCEPT !.pc = "compact", !.todo = names]]
    /\ UNCHANGED <<file, ctl, lock, history>>

\* The code goes through the names in their order; here in any order.
CompactTakeRun(p, r) ==
    /\ op[p].pc = "compact"
    /\ r \in op[p].todo
    /\ Take(p, r)
    /\ op' = [op EXCEPT ![p].pc = "compact_control", ![p].run = r]
    /\ UNCHANGED <<file, ctl, history>>

CompactTakeControl(p) ==
    /\ op[p].pc = "compact_control"
    /\ Take(p, Control)
    /\ Goto(p, "compact_file")
    /\ UNCHANGED <<file, ctl, history>>

NextName(p) ==
    LET left == op[p].todo \ {op[p].run} IN
    op' = [op EXCEPT ![p] = IF left = {} THEN Idle
                            ELSE [Idle EXCEPT !.pc = "compact", !.todo = left]]

\* Another compaction has done this file.
CompactSkip(p) ==
    /\ op[p].pc = "compact_file"
    /\ ctl.cleared[op[p].run].keys = {}
    /\ Release(p)
    /\ NextName(p)
    /\ UNCHANGED <<file, ctl, history>>

\* For comparison: the file goes with its tombstone, whatever it holds by now.
DropsFile(p) ==
    /\ op[p].pc = "compact_file"
    /\ ctl.cleared[op[p].run].keys # {}
    /\ file' = [file EXCEPT ![op[p].run] = {}]
    /\ Goto(p, "compact_entry")
    /\ UNCHANGED <<ctl, lock, history>>

\* The file is rewritten to, or removed with, what it still shows; an inert
\* tombstone changes nothing.
CompactFile(p) ==
    LET r == op[p].run IN
    /\ op[p].pc = "compact_file"
    /\ ctl.cleared[r].keys # {}
    /\ file' = [file EXCEPT ![r] = Logical[r]]
    /\ Goto(p, "compact_entry")
    /\ UNCHANGED <<ctl, lock, history>>

CompactEntry(p) ==
    /\ op[p].pc = "compact_entry"
    /\ ctl' = [ctl EXCEPT !.cleared[op[p].run] = NoTombstone]
    /\ Release(p)
    /\ NextName(p)
    /\ UNCHANGED <<file, history>>

\* The process dies, or a write raises: its locks are released, what it wrote
\* stays.  Its place is taken by another caller.
Abort(p) ==
    /\ op[p].pc # "idle"
    /\ Release(p)
    /\ op' = [op EXCEPT ![p] = Idle]
    /\ UNCHANGED <<file, ctl, history>>

AppendStep(p) ==
    \/ AppendTakeRun(p) \/ AppendTakeControl(p) \/ AppendSkip(p)
    \/ AppendPending(p) \/ AppendFile(p) \/ AppendCommit(p)

RemoveStep(p) == RemoveTakeControl(p) \/ RemoveNothing(p) \/ Cut(p)

CompactStep(p) ==
    \/ CompactNames(p) \/ \E r \in Runs : CompactTakeRun(p, r)
    \/ CompactTakeControl(p) \/ CompactSkip(p) \/ CompactFile(p)
    \/ CompactEntry(p)

Step(p) == AppendStep(p) \/ RemoveStep(p) \/ CompactStep(p)

Next ==
    \E p \in Procs :
         \/ \E e \in Events : Publish(p, e)
         \/ \E want \in Targets : DismissAny(p, want)
         \/ Step(p)
         \/ Abort(p)

Spec == Init /\ [][Next]_vars

\* A process that has started goes on: its locks are blocking flocks.
FairSpec == Spec /\ \A p \in Procs : WF_vars(Step(p))

(***************************************************************************)
(* Properties                                                              *)
(***************************************************************************)

\* An event that reached its mini-file stays visible until a dismissal takes
\* it, whatever dies in between and however appends, cuts and compactions of
\* the same run interleave.
NothingLost == accepted \ dismissed \subseteq Visible

\* A dismissed event does not come back, in any run where no cut has replaced
\* a tombstone that was still in force.
NoResurrection ==
    \A r \in Runs \ overlapped : Logical[r] \cap dismissed = {}

\* The same without the exception: what the store's contract says of a crash
\* after the cut.
DismissedStaysDismissed == Visible \cap dismissed = {}

\* The batch count, from which the alarm threshold decides whether the agent
\* is woken, is the number of events appended since the last whole clear, in
\* every state, so after every crash.
CountIsExact == EffectiveCount = Cardinality(batch)

\* A notice that is retried, since its receipt was lost, is shown once.
ShownOnce ==
    \A r \in Runs \ overlapped : \A x, y \in Logical[r] :
        KeyOf[x] = KeyOf[y] => x = y

\* Locks, files, tombstones, compactions and deaths together are a log to which
\* events are appended and from which they are dismissed, each at one instant.
Log == INSTANCE NotificationLog
           WITH log <- Logical, ever <- accepted, count <- EffectiveCount,
                void <- overlapped

ImplementsLog == Log!Spec

\* Every operation ends: nobody waits for locks for ever.
OperationsEnd == \A p \in Procs : op[p].pc # "idle" ~> op[p].pc = "idle"
=============================================================================

----------------------- MODULE NotificationStoreProofs -----------------------
(***************************************************************************)
(* Proofs about NotificationStore for every set of runs and callers, every *)
(* finite set of events and every number of removals.                      *)
(***************************************************************************)
EXTENDS NotificationStore, FiniteSetTheorems, TLAPS

\* Whoever writes a file or the control record holds the control scope.
Holders ==
    \A p \in Procs :
        op[p].pc \in {"pending", "append_file", "commit", "cut",
                     "compact_file", "compact_entry"} => lock[Control] = p

\* An append in flight has an event of its own, written only at the commit.
InFlight ==
    \A p \in Procs :
        /\ op[p].event # NoEvent =>
              /\ op[p].event \in published
              /\ \A q \in Procs : op[q].event = op[p].event => q = p
        /\ op[p].pc \in {"append_run", "append_control", "pending", "append_file"}
              => op[p].event # NoEvent /\ op[p].event \notin accepted
        /\ op[p].pc = "commit" => op[p].event # NoEvent
        /\ op[p].pc \in {"compact_control", "compact_file", "compact_entry"}
              => op[p].run \in Runs

\* A file has accepted events of its run; a tombstone hides dismissed ones.
Placed ==
    \A r \in Runs :
        /\ file[r] \subseteq accepted \cap EventsOf(r)
        /\ ctl.cleared[r].of \subseteq accepted
        /\ ctl.cleared[r].keys \subseteq dismissed

\* An event that was not dismissed is in its file.
Kept == \A e \in accepted \ dismissed : e \in file[RunOf[e]]

\* What each caller has established under the control scope.
Prepared ==
    \A p \in Procs :
        /\ op[p].pc \in {"pending", "cut"} => ctl.pending.event = NoEvent
        /\ op[p].pc = "append_file" =>
              /\ ctl.pending.event = op[p].event
              /\ ctl.pending.next = ctl.pending.prior + 1
              /\ ~AlreadyPublished(p)
        /\ op[p].pc = "commit" =>
              /\ ctl.pending.event = op[p].event
              /\ op[p].event \in file[RunOf[op[p].event]]
        /\ op[p].pc = "compact_entry" => file[op[p].run] = Logical[op[p].run]

\* The event of a pending append is not dismissed: the cut comes after the
\* receipt is resolved.
PendingKept == ctl.pending.event \notin dismissed

Inv ==
    /\ TypeOK /\ Holders /\ InFlight /\ Placed /\ Kept /\ Prepared
    /\ PendingKept /\ NoResurrection /\ ShownOnce /\ CountIsExact

-----------------------------------------------------------------------------
LEMMA LogicalType ==
  ASSUME TypeOK
  PROVE  /\ Logical \in Contents
         /\ \A r \in Runs : Logical[r] = Shown(file[r], ctl.cleared[r])
         /\ \A r \in Runs : Logical[r] \subseteq file[r]
         /\ Visible \subseteq Events
  BY DEF TypeOK, Logical, Visible, Shown, Contents

LEMMA CountType ==
  ASSUME TypeOK
  PROVE  /\ EffectiveCount \in Nat
         /\ Normalised \in ControlRecord
         /\ Normalised.cleared = ctl.cleared
         /\ Normalised.pending.event = NoEvent
         /\ Normalised.count = EffectiveCount
  BY DEF TypeOK, EffectiveCount, Normalised, ControlRecord, Pending, NoPending

\* The four parts of the type invariant.
LockTypes == lock \in [Scopes -> Procs \cup {NoOne}]
OpTypes == op \in [Procs -> Ops]
DataTypes == file \in Contents /\ ctl \in ControlRecord
HistoryTypes ==
    /\ published \subseteq Events /\ accepted \subseteq published
    /\ dismissed \subseteq accepted /\ batch \subseteq accepted
    /\ overlapped \subseteq Runs
    /\ removals \in 0..MaxRemovals

LEMMA IdleType ==
  /\ Idle \in Ops
  /\ Idle.event = NoEvent /\ Idle.pc = "idle" /\ Idle.want = {}
  BY DEF Idle, Ops

\* A dismissal with any token and any idea of what was shown: the callers of
\* this module and those of NotificationRead differ in nothing else.
DismissWith(p, want) ==
    \E expected \in Contents \cup {Unconditional}, shown \in SUBSET Events :
        Dismiss(p, want, expected, shown)

Move ==
    \E p \in Procs :
        \/ \E e \in Events : Publish(p, e)
        \/ \E want \in Targets : DismissWith(p, want)
        \/ Step(p)
        \/ Abort(p)

LEMMA NextIsMove ==
  ASSUME TypeOK, [Next]_vars
  PROVE  [Move]_vars
<1>1. Logical \in Contents /\ Visible \in SUBSET Events
  BY LogicalType
<1>2. ASSUME NEW p \in Procs, NEW want \in Targets, DismissAny(p, want)
      PROVE  DismissWith(p, want)
  BY <1>1, <1>2 DEF DismissAny, DismissWith
<1> QED BY <1>2 DEF Next, Move

LEMMA DismissStep ==
  ASSUME NEW p \in Procs, NEW want \in Targets, DismissWith(p, want)
  PROVE  /\ UNCHANGED <<file, ctl, lock, published, accepted, dismissed, batch,
                       overlapped>>
         /\ removals < MaxRemovals /\ removals' = removals + 1
         /\ \E z \in Ops : /\ z.pc = "remove_control" /\ z.event = NoEvent
                          /\ op' = [op EXCEPT ![p] = z]
<1>1. PICK x \in Contents \cup {Unconditional}, y \in SUBSET Events :
        Dismiss(p, want, x, y)
  BY DEF DismissWith
<1> DEFINE z == [Idle EXCEPT !.pc = "remove_control", !.want = want,
                             !.expected = x, !.shown = y]
<1>2. want \in SUBSET Events
  BY DEF Targets, EventsOf
<1>3. z \in Ops /\ z.pc = "remove_control" /\ z.event = NoEvent
  BY <1>2 DEF Ops, Idle
<1> QED BY <1>1, <1>3 DEF Dismiss

LEMMA StepLockTypes ==
  ASSUME Inv, [Move]_vars
  PROVE  LockTypes'
<1>1. ASSUME NEW p \in Procs, NEW e \in Events, Publish(p, e) PROVE LockTypes'
  BY <1>1, StoreConstants DEF Publish, Inv, TypeOK, LockTypes, InFlight, storeVars,
       history, Release, LocksWithout, Take, Ops, Scopes
<1>2. ASSUME NEW p \in Procs, NEW want \in Targets, DismissWith(p, want) PROVE LockTypes'
  BY <1>2, DismissStep, StoreConstants DEF Inv, TypeOK, LockTypes, InFlight,
       storeVars, history, Release, LocksWithout, Take, Ops, Scopes
<1>3. ASSUME NEW p \in Procs, AppendTakeRun(p) PROVE LockTypes'
  BY <1>3, StoreConstants DEF AppendTakeRun, Inv, TypeOK, LockTypes, InFlight,
       storeVars, history, Release, LocksWithout, Take, Ops, Scopes
<1>4. ASSUME NEW p \in Procs, AppendTakeControl(p) PROVE LockTypes'
  BY <1>4, StoreConstants DEF AppendTakeControl, Inv, TypeOK, LockTypes, InFlight,
       storeVars, history, Release, LocksWithout, Take, Ops, Scopes
<1>5. ASSUME NEW p \in Procs, AppendSkip(p) PROVE LockTypes'
  BY <1>5, StoreConstants DEF AppendSkip, Inv, TypeOK, LockTypes, InFlight, storeVars,
       history, Release, LocksWithout, Take, Ops, Scopes
<1>6. ASSUME NEW p \in Procs, AppendPending(p) PROVE LockTypes'
  BY <1>6, StoreConstants DEF AppendPending, Inv, TypeOK, LockTypes, InFlight,
       storeVars, history, Release, LocksWithout, Take, Ops, Scopes
<1>7. ASSUME NEW p \in Procs, AppendFile(p) PROVE LockTypes'
  BY <1>7, StoreConstants DEF AppendFile, Inv, TypeOK, LockTypes, InFlight, storeVars,
       history, Release, LocksWithout, Take, Ops, Scopes
<1>8. ASSUME NEW p \in Procs, AppendCommit(p) PROVE LockTypes'
  BY <1>8, StoreConstants DEF AppendCommit, Inv, TypeOK, LockTypes, InFlight,
       storeVars, history, Release, LocksWithout, Take, Ops, Scopes
<1>9. ASSUME NEW p \in Procs, RemoveTakeControl(p) PROVE LockTypes'
  BY <1>9, StoreConstants DEF RemoveTakeControl, Inv, TypeOK, LockTypes, InFlight,
       storeVars, history, Release, LocksWithout, Take, Ops, Scopes
<1>10. ASSUME NEW p \in Procs, RemoveNothing(p) PROVE LockTypes'
  BY <1>10, StoreConstants DEF RemoveNothing, Inv, TypeOK, LockTypes, InFlight,
       storeVars, history, Release, LocksWithout, Take, Ops, Scopes
<1>11. ASSUME NEW p \in Procs, Cut(p) PROVE LockTypes'
  BY <1>11, StoreConstants DEF Cut, Inv, TypeOK, LockTypes, InFlight, storeVars,
       history, Release, LocksWithout, Take, Ops, Scopes
<1>12. ASSUME NEW p \in Procs, CompactNames(p) PROVE LockTypes'
  BY <1>12, StoreConstants DEF CompactNames, Inv, TypeOK, LockTypes, InFlight,
       storeVars, history, Release, LocksWithout, Take, Ops, Scopes
<1>13. ASSUME NEW p \in Procs, NEW r \in Runs, CompactTakeRun(p, r) PROVE LockTypes'
  BY <1>13, StoreConstants DEF CompactTakeRun, Inv, TypeOK, LockTypes, InFlight,
       storeVars, history, Release, LocksWithout, Take, Ops, Scopes
<1>14. ASSUME NEW p \in Procs, CompactTakeControl(p) PROVE LockTypes'
  BY <1>14, StoreConstants DEF CompactTakeControl, Inv, TypeOK, LockTypes, InFlight,
       storeVars, history, Release, LocksWithout, Take, Ops, Scopes
<1>15. ASSUME NEW p \in Procs, CompactSkip(p) PROVE LockTypes'
  BY <1>15, StoreConstants DEF CompactSkip, Inv, TypeOK, LockTypes, InFlight,
       storeVars, history, Release, LocksWithout, Take, Ops, Scopes
<1>16. ASSUME NEW p \in Procs, CompactFile(p) PROVE LockTypes'
  BY <1>16, StoreConstants DEF CompactFile, Inv, TypeOK, LockTypes, InFlight,
       storeVars, history, Release, LocksWithout, Take, Ops, Scopes
<1>17. ASSUME NEW p \in Procs, CompactEntry(p) PROVE LockTypes'
  BY <1>17, StoreConstants DEF CompactEntry, Inv, TypeOK, LockTypes, InFlight,
       storeVars, history, Release, LocksWithout, Take, Ops, Scopes
<1>18. ASSUME NEW p \in Procs, Abort(p) PROVE LockTypes'
  BY <1>18, StoreConstants DEF Abort, Inv, TypeOK, LockTypes, InFlight, storeVars,
       history, Release, LocksWithout, Take, Ops, Scopes
<1>19. CASE UNCHANGED vars
  BY <1>19, StoreConstants DEF vars, Inv, TypeOK, LockTypes, InFlight, storeVars,
       history, Release, LocksWithout, Take, Ops, Scopes
<1> QED BY <1>1, <1>2, <1>3, <1>4, <1>5, <1>6, <1>7, <1>8, <1>9, <1>10, <1>11, <1>12,
     <1>13, <1>14, <1>15, <1>16, <1>17, <1>18, <1>19 DEF Move, Step, AppendStep,
     RemoveStep, CompactStep

LEMMA StepOpTypes ==
  ASSUME Inv, [Move]_vars
  PROVE  OpTypes'
<1>1. ASSUME NEW p \in Procs, NEW e \in Events, Publish(p, e) PROVE OpTypes'
  BY <1>1, StoreConstants, IdleType, LogicalType DEF Publish, Inv, TypeOK, OpTypes,
       storeVars, history, Goto, NextName, Ops, Idle
<1>2. ASSUME NEW p \in Procs, NEW want \in Targets, DismissWith(p, want) PROVE OpTypes'
  BY <1>2, DismissStep, StoreConstants, IdleType, LogicalType DEF Inv, TypeOK,
       OpTypes, storeVars, history, Goto, NextName, Ops, Idle
<1>3. ASSUME NEW p \in Procs, AppendTakeRun(p) PROVE OpTypes'
  BY <1>3, StoreConstants, IdleType, LogicalType DEF AppendTakeRun, Inv, TypeOK,
       OpTypes, storeVars, history, Goto, NextName, Ops, Idle
<1>4. ASSUME NEW p \in Procs, AppendTakeControl(p) PROVE OpTypes'
  BY <1>4, StoreConstants, IdleType, LogicalType DEF AppendTakeControl, Inv, TypeOK,
       OpTypes, storeVars, history, Goto, NextName, Ops, Idle
<1>5. ASSUME NEW p \in Procs, AppendSkip(p) PROVE OpTypes'
  BY <1>5, StoreConstants, IdleType, LogicalType DEF AppendSkip, Inv, TypeOK, OpTypes,
       storeVars, history, Goto, NextName, Ops, Idle
<1>6. ASSUME NEW p \in Procs, AppendPending(p) PROVE OpTypes'
  BY <1>6, StoreConstants, IdleType, LogicalType DEF AppendPending, Inv, TypeOK,
       OpTypes, storeVars, history, Goto, NextName, Ops, Idle
<1>7. ASSUME NEW p \in Procs, AppendFile(p) PROVE OpTypes'
  BY <1>7, StoreConstants, IdleType, LogicalType DEF AppendFile, Inv, TypeOK, OpTypes,
       storeVars, history, Goto, NextName, Ops, Idle
<1>8. ASSUME NEW p \in Procs, AppendCommit(p) PROVE OpTypes'
  BY <1>8, StoreConstants, IdleType, LogicalType DEF AppendCommit, Inv, TypeOK,
       OpTypes, storeVars, history, Goto, NextName, Ops, Idle
<1>9. ASSUME NEW p \in Procs, RemoveTakeControl(p) PROVE OpTypes'
  BY <1>9, StoreConstants, IdleType, LogicalType DEF RemoveTakeControl, Inv, TypeOK,
       OpTypes, storeVars, history, Goto, NextName, Ops, Idle
<1>10. ASSUME NEW p \in Procs, RemoveNothing(p) PROVE OpTypes'
  BY <1>10, StoreConstants, IdleType, LogicalType DEF RemoveNothing, Inv, TypeOK,
       OpTypes, storeVars, history, Goto, NextName, Ops, Idle
<1>11. ASSUME NEW p \in Procs, Cut(p) PROVE OpTypes'
  BY <1>11, StoreConstants, IdleType, LogicalType DEF Cut, Inv, TypeOK, OpTypes,
       storeVars, history, Goto, NextName, Ops, Idle
<1>12. ASSUME NEW p \in Procs, CompactNames(p) PROVE OpTypes'
  BY <1>12, StoreConstants, IdleType, LogicalType DEF CompactNames, Inv, TypeOK,
       OpTypes, storeVars, history, Goto, NextName, Ops, Idle
<1>13. ASSUME NEW p \in Procs, NEW r \in Runs, CompactTakeRun(p, r) PROVE OpTypes'
  <2>1. [op[p] EXCEPT !.pc = "compact_control", !.run = r] \in Ops
    BY DEF Inv, TypeOK, Ops
  <2>2. op' = [op EXCEPT ![p] = [op[p] EXCEPT !.pc = "compact_control", !.run = r]]
    BY <1>13 DEF CompactTakeRun, Inv, TypeOK, Ops
  <2> QED BY <2>1, <2>2 DEF Inv, TypeOK, OpTypes
<1>14. ASSUME NEW p \in Procs, CompactTakeControl(p) PROVE OpTypes'
  BY <1>14, StoreConstants, IdleType, LogicalType DEF CompactTakeControl, Inv, TypeOK,
       OpTypes, storeVars, history, Goto, NextName, Ops, Idle
<1>15. ASSUME NEW p \in Procs, CompactSkip(p) PROVE OpTypes'
  BY <1>15, StoreConstants, IdleType, LogicalType DEF CompactSkip, Inv, TypeOK,
       OpTypes, storeVars, history, Goto, NextName, Ops, Idle
<1>16. ASSUME NEW p \in Procs, CompactFile(p) PROVE OpTypes'
  BY <1>16, StoreConstants, IdleType, LogicalType DEF CompactFile, Inv, TypeOK,
       OpTypes, storeVars, history, Goto, NextName, Ops, Idle
<1>17. ASSUME NEW p \in Procs, CompactEntry(p) PROVE OpTypes'
  BY <1>17, StoreConstants, IdleType, LogicalType DEF CompactEntry, Inv, TypeOK,
       OpTypes, storeVars, history, Goto, NextName, Ops, Idle
<1>18. ASSUME NEW p \in Procs, Abort(p) PROVE OpTypes'
  BY <1>18, StoreConstants, IdleType, LogicalType DEF Abort, Inv, TypeOK, OpTypes,
       storeVars, history, Goto, NextName, Ops, Idle
<1>19. CASE UNCHANGED vars
  BY <1>19, StoreConstants, IdleType, LogicalType DEF vars, Inv, TypeOK, OpTypes,
       storeVars, history, Goto, NextName, Ops, Idle
<1> QED BY <1>1, <1>2, <1>3, <1>4, <1>5, <1>6, <1>7, <1>8, <1>9, <1>10, <1>11, <1>12,
     <1>13, <1>14, <1>15, <1>16, <1>17, <1>18, <1>19 DEF Move, Step, AppendStep,
     RemoveStep, CompactStep

LEMMA StepDataTypes ==
  ASSUME Inv, [Move]_vars
  PROVE  DataTypes'
<1>1. ASSUME NEW p \in Procs, NEW e \in Events, Publish(p, e) PROVE DataTypes'
  BY <1>1, StoreConstants, LogicalType, CountType DEF Publish, Inv, TypeOK, DataTypes,
       InFlight, storeVars, history, Contents, ControlRecord, Tombstone, NoTombstone,
       Pending, NoPending, Ops
<1>2. ASSUME NEW p \in Procs, NEW want \in Targets, DismissWith(p, want) PROVE DataTypes'
  BY <1>2, DismissStep, StoreConstants, LogicalType, CountType DEF Inv, TypeOK,
       DataTypes, InFlight, storeVars, history, Contents, ControlRecord, Tombstone,
       NoTombstone, Pending, NoPending, Ops
<1>3. ASSUME NEW p \in Procs, AppendTakeRun(p) PROVE DataTypes'
  BY <1>3, StoreConstants, LogicalType, CountType DEF AppendTakeRun, Inv, TypeOK,
       DataTypes, InFlight, storeVars, history, Contents, ControlRecord, Tombstone,
       NoTombstone, Pending, NoPending, Ops
<1>4. ASSUME NEW p \in Procs, AppendTakeControl(p) PROVE DataTypes'
  BY <1>4, StoreConstants, LogicalType, CountType DEF AppendTakeControl, Inv, TypeOK,
       DataTypes, InFlight, storeVars, history, Contents, ControlRecord, Tombstone,
       NoTombstone, Pending, NoPending, Ops
<1>5. ASSUME NEW p \in Procs, AppendSkip(p) PROVE DataTypes'
  BY <1>5, StoreConstants, LogicalType, CountType DEF AppendSkip, Inv, TypeOK,
       DataTypes, InFlight, storeVars, history, Contents, ControlRecord, Tombstone,
       NoTombstone, Pending, NoPending, Ops
<1>6. ASSUME NEW p \in Procs, AppendPending(p) PROVE DataTypes'
  BY <1>6, StoreConstants, LogicalType, CountType DEF AppendPending, Inv, TypeOK,
       DataTypes, InFlight, storeVars, history, Contents, ControlRecord, Tombstone,
       NoTombstone, Pending, NoPending, Ops
<1>7. ASSUME NEW p \in Procs, AppendFile(p) PROVE DataTypes'
  BY <1>7, StoreConstants, LogicalType, CountType DEF AppendFile, Inv, TypeOK,
       DataTypes, InFlight, storeVars, history, Contents, ControlRecord, Tombstone,
       NoTombstone, Pending, NoPending, Ops
<1>8. ASSUME NEW p \in Procs, AppendCommit(p) PROVE DataTypes'
  BY <1>8, StoreConstants, LogicalType, CountType DEF AppendCommit, Inv, TypeOK,
       DataTypes, InFlight, storeVars, history, Contents, ControlRecord, Tombstone,
       NoTombstone, Pending, NoPending, Ops
<1>9. ASSUME NEW p \in Procs, RemoveTakeControl(p) PROVE DataTypes'
  BY <1>9, StoreConstants, LogicalType, CountType DEF RemoveTakeControl, Inv, TypeOK,
       DataTypes, InFlight, storeVars, history, Contents, ControlRecord, Tombstone,
       NoTombstone, Pending, NoPending, Ops
<1>10. ASSUME NEW p \in Procs, RemoveNothing(p) PROVE DataTypes'
  BY <1>10, StoreConstants, LogicalType, CountType DEF RemoveNothing, Inv, TypeOK,
       DataTypes, InFlight, storeVars, history, Contents, ControlRecord, Tombstone,
       NoTombstone, Pending, NoPending, Ops
<1>11. ASSUME NEW p \in Procs, Cut(p) PROVE DataTypes'
  BY <1>11, StoreConstants, LogicalType, CountType DEF Cut, Inv, TypeOK, DataTypes,
       InFlight, storeVars, history, Contents, ControlRecord, Tombstone, NoTombstone,
       Pending, NoPending, Ops, Extended
<1>12. ASSUME NEW p \in Procs, CompactNames(p) PROVE DataTypes'
  BY <1>12, StoreConstants, LogicalType, CountType DEF CompactNames, Inv, TypeOK,
       DataTypes, InFlight, storeVars, history, Contents, ControlRecord, Tombstone,
       NoTombstone, Pending, NoPending, Ops
<1>13. ASSUME NEW p \in Procs, NEW r \in Runs, CompactTakeRun(p, r) PROVE DataTypes'
  BY <1>13, StoreConstants, LogicalType, CountType DEF CompactTakeRun, Inv, TypeOK,
       DataTypes, InFlight, storeVars, history, Contents, ControlRecord, Tombstone,
       NoTombstone, Pending, NoPending, Ops
<1>14. ASSUME NEW p \in Procs, CompactTakeControl(p) PROVE DataTypes'
  BY <1>14, StoreConstants, LogicalType, CountType DEF CompactTakeControl, Inv,
       TypeOK, DataTypes, InFlight, storeVars, history, Contents, ControlRecord,
       Tombstone, NoTombstone, Pending, NoPending, Ops
<1>15. ASSUME NEW p \in Procs, CompactSkip(p) PROVE DataTypes'
  BY <1>15, StoreConstants, LogicalType, CountType DEF CompactSkip, Inv, TypeOK,
       DataTypes, InFlight, storeVars, history, Contents, ControlRecord, Tombstone,
       NoTombstone, Pending, NoPending, Ops
<1>16. ASSUME NEW p \in Procs, CompactFile(p) PROVE DataTypes'
  BY <1>16, StoreConstants, LogicalType, CountType DEF CompactFile, Inv, TypeOK,
       DataTypes, InFlight, storeVars, history, Contents, ControlRecord, Tombstone,
       NoTombstone, Pending, NoPending, Ops
<1>17. ASSUME NEW p \in Procs, CompactEntry(p) PROVE DataTypes'
  BY <1>17, StoreConstants, LogicalType, CountType DEF CompactEntry, Inv, TypeOK,
       DataTypes, InFlight, storeVars, history, Contents, ControlRecord, Tombstone,
       NoTombstone, Pending, NoPending, Ops
<1>18. ASSUME NEW p \in Procs, Abort(p) PROVE DataTypes'
  BY <1>18, StoreConstants, LogicalType, CountType DEF Abort, Inv, TypeOK, DataTypes,
       InFlight, storeVars, history, Contents, ControlRecord, Tombstone, NoTombstone,
       Pending, NoPending, Ops
<1>19. CASE UNCHANGED vars
  BY <1>19, StoreConstants, LogicalType, CountType DEF vars, Inv, TypeOK, DataTypes,
       InFlight, storeVars, history, Contents, ControlRecord, Tombstone, NoTombstone,
       Pending, NoPending, Ops
<1> QED BY <1>1, <1>2, <1>3, <1>4, <1>5, <1>6, <1>7, <1>8, <1>9, <1>10, <1>11, <1>12,
     <1>13, <1>14, <1>15, <1>16, <1>17, <1>18, <1>19 DEF Move, Step, AppendStep,
     RemoveStep, CompactStep

LEMMA StepHistoryTypes ==
  ASSUME Inv, [Move]_vars
  PROVE  HistoryTypes'
<1>1. ASSUME NEW p \in Procs, NEW e \in Events, Publish(p, e) PROVE HistoryTypes'
  BY <1>1, StoreConstants, LogicalType DEF Publish, Inv, TypeOK, HistoryTypes,
       InFlight, Placed, storeVars, history
<1>2. ASSUME NEW p \in Procs, NEW want \in Targets, DismissWith(p,
     want) PROVE HistoryTypes'
  BY <1>2, DismissStep, StoreConstants, LogicalType DEF Inv, TypeOK, HistoryTypes,
       InFlight, Placed, storeVars, history
<1>3. ASSUME NEW p \in Procs, AppendTakeRun(p) PROVE HistoryTypes'
  BY <1>3, StoreConstants, LogicalType DEF AppendTakeRun, Inv, TypeOK, HistoryTypes,
       InFlight, Placed, storeVars, history
<1>4. ASSUME NEW p \in Procs, AppendTakeControl(p) PROVE HistoryTypes'
  BY <1>4, StoreConstants, LogicalType DEF AppendTakeControl, Inv, TypeOK,
       HistoryTypes, InFlight, Placed, storeVars, history
<1>5. ASSUME NEW p \in Procs, AppendSkip(p) PROVE HistoryTypes'
  BY <1>5, StoreConstants, LogicalType DEF AppendSkip, Inv, TypeOK, HistoryTypes,
       InFlight, Placed, storeVars, history
<1>6. ASSUME NEW p \in Procs, AppendPending(p) PROVE HistoryTypes'
  BY <1>6, StoreConstants, LogicalType DEF AppendPending, Inv, TypeOK, HistoryTypes,
       InFlight, Placed, storeVars, history
<1>7. ASSUME NEW p \in Procs, AppendFile(p) PROVE HistoryTypes'
  BY <1>7, StoreConstants, LogicalType DEF AppendFile, Inv, TypeOK, HistoryTypes,
       InFlight, Placed, storeVars, history
<1>8. ASSUME NEW p \in Procs, AppendCommit(p) PROVE HistoryTypes'
  BY <1>8, StoreConstants, LogicalType DEF AppendCommit, Inv, TypeOK, HistoryTypes,
       InFlight, Placed, storeVars, history
<1>9. ASSUME NEW p \in Procs, RemoveTakeControl(p) PROVE HistoryTypes'
  BY <1>9, StoreConstants, LogicalType DEF RemoveTakeControl, Inv, TypeOK,
       HistoryTypes, InFlight, Placed, storeVars, history
<1>10. ASSUME NEW p \in Procs, RemoveNothing(p) PROVE HistoryTypes'
  BY <1>10, StoreConstants, LogicalType DEF RemoveNothing, Inv, TypeOK, HistoryTypes,
       InFlight, Placed, storeVars, history
<1>11. ASSUME NEW p \in Procs, Cut(p) PROVE HistoryTypes'
  BY <1>11, StoreConstants, LogicalType DEF Cut, Inv, TypeOK, HistoryTypes, InFlight,
       Placed, storeVars, history, Visible, Contents
<1>12. ASSUME NEW p \in Procs, CompactNames(p) PROVE HistoryTypes'
  BY <1>12, StoreConstants, LogicalType DEF CompactNames, Inv, TypeOK, HistoryTypes,
       InFlight, Placed, storeVars, history
<1>13. ASSUME NEW p \in Procs, NEW r \in Runs, CompactTakeRun(p, r) PROVE HistoryTypes'
  BY <1>13, StoreConstants, LogicalType DEF CompactTakeRun, Inv, TypeOK, HistoryTypes,
       InFlight, Placed, storeVars, history
<1>14. ASSUME NEW p \in Procs, CompactTakeControl(p) PROVE HistoryTypes'
  BY <1>14, StoreConstants, LogicalType DEF CompactTakeControl, Inv, TypeOK,
       HistoryTypes, InFlight, Placed, storeVars, history
<1>15. ASSUME NEW p \in Procs, CompactSkip(p) PROVE HistoryTypes'
  BY <1>15, StoreConstants, LogicalType DEF CompactSkip, Inv, TypeOK, HistoryTypes,
       InFlight, Placed, storeVars, history
<1>16. ASSUME NEW p \in Procs, CompactFile(p) PROVE HistoryTypes'
  BY <1>16, StoreConstants, LogicalType DEF CompactFile, Inv, TypeOK, HistoryTypes,
       InFlight, Placed, storeVars, history
<1>17. ASSUME NEW p \in Procs, CompactEntry(p) PROVE HistoryTypes'
  BY <1>17, StoreConstants, LogicalType DEF CompactEntry, Inv, TypeOK, HistoryTypes,
       InFlight, Placed, storeVars, history
<1>18. ASSUME NEW p \in Procs, Abort(p) PROVE HistoryTypes'
  BY <1>18, StoreConstants, LogicalType DEF Abort, Inv, TypeOK, HistoryTypes,
       InFlight, Placed, storeVars, history
<1>19. CASE UNCHANGED vars
  BY <1>19, StoreConstants, LogicalType DEF vars, Inv, TypeOK, HistoryTypes, InFlight,
       Placed, storeVars, history
<1> QED BY <1>1, <1>2, <1>3, <1>4, <1>5, <1>6, <1>7, <1>8, <1>9, <1>10, <1>11, <1>12,
     <1>13, <1>14, <1>15, <1>16, <1>17, <1>18, <1>19 DEF Move, Step, AppendStep,
     RemoveStep, CompactStep

LEMMA StepHolders ==
  ASSUME Inv, [Move]_vars
  PROVE  Holders'
<1>1. ASSUME NEW p \in Procs, NEW e \in Events, Publish(p, e) PROVE Holders'
  BY <1>1, StoreConstants DEF Publish, Inv, TypeOK, Holders, storeVars, history,
       Release, LocksWithout, Take, Goto, NextName, Ops, Idle, Scopes
<1>2. ASSUME NEW p \in Procs, NEW want \in Targets, DismissWith(p, want) PROVE Holders'
  BY <1>2, DismissStep, StoreConstants DEF Inv, TypeOK, Holders, storeVars, history,
       Release, LocksWithout, Take, Goto, NextName, Ops, Idle, Scopes
<1>3. ASSUME NEW p \in Procs, AppendTakeRun(p) PROVE Holders'
  BY <1>3, StoreConstants DEF AppendTakeRun, Inv, TypeOK, Holders, storeVars, history,
       Release, LocksWithout, Take, Goto, NextName, Ops, Idle, Scopes
<1>4. ASSUME NEW p \in Procs, AppendTakeControl(p) PROVE Holders'
  BY <1>4, StoreConstants DEF AppendTakeControl, Inv, TypeOK, Holders, storeVars,
       history, Release, LocksWithout, Take, Goto, NextName, Ops, Idle, Scopes
<1>5. ASSUME NEW p \in Procs, AppendSkip(p) PROVE Holders'
  BY <1>5, StoreConstants DEF AppendSkip, Inv, TypeOK, Holders, storeVars, history,
       Release, LocksWithout, Take, Goto, NextName, Ops, Idle, Scopes
<1>6. ASSUME NEW p \in Procs, AppendPending(p) PROVE Holders'
  BY <1>6, StoreConstants DEF AppendPending, Inv, TypeOK, Holders, storeVars, history,
       Release, LocksWithout, Take, Goto, NextName, Ops, Idle, Scopes
<1>7. ASSUME NEW p \in Procs, AppendFile(p) PROVE Holders'
  BY <1>7, StoreConstants DEF AppendFile, Inv, TypeOK, Holders, storeVars, history,
       Release, LocksWithout, Take, Goto, NextName, Ops, Idle, Scopes
<1>8. ASSUME NEW p \in Procs, AppendCommit(p) PROVE Holders'
  BY <1>8, StoreConstants DEF AppendCommit, Inv, TypeOK, Holders, storeVars, history,
       Release, LocksWithout, Take, Goto, NextName, Ops, Idle, Scopes
<1>9. ASSUME NEW p \in Procs, RemoveTakeControl(p) PROVE Holders'
  BY <1>9, StoreConstants DEF RemoveTakeControl, Inv, TypeOK, Holders, storeVars,
       history, Release, LocksWithout, Take, Goto, NextName, Ops, Idle, Scopes
<1>10. ASSUME NEW p \in Procs, RemoveNothing(p) PROVE Holders'
  BY <1>10, StoreConstants DEF RemoveNothing, Inv, TypeOK, Holders, storeVars,
       history, Release, LocksWithout, Take, Goto, NextName, Ops, Idle, Scopes
<1>11. ASSUME NEW p \in Procs, Cut(p) PROVE Holders'
  BY <1>11, StoreConstants DEF Cut, Inv, TypeOK, Holders, storeVars, history, Release,
       LocksWithout, Take, Goto, NextName, Ops, Idle, Scopes
<1>12. ASSUME NEW p \in Procs, CompactNames(p) PROVE Holders'
  BY <1>12, StoreConstants DEF CompactNames, Inv, TypeOK, Holders, storeVars, history,
       Release, LocksWithout, Take, Goto, NextName, Ops, Idle, Scopes
<1>13. ASSUME NEW p \in Procs, NEW r \in Runs, CompactTakeRun(p, r) PROVE Holders'
  BY <1>13, StoreConstants DEF CompactTakeRun, Inv, TypeOK, Holders, storeVars,
       history, Release, LocksWithout, Take, Goto, NextName, Ops, Idle, Scopes
<1>14. ASSUME NEW p \in Procs, CompactTakeControl(p) PROVE Holders'
  BY <1>14, StoreConstants DEF CompactTakeControl, Inv, TypeOK, Holders, storeVars,
       history, Release, LocksWithout, Take, Goto, NextName, Ops, Idle, Scopes
<1>15. ASSUME NEW p \in Procs, CompactSkip(p) PROVE Holders'
  BY <1>15, StoreConstants DEF CompactSkip, Inv, TypeOK, Holders, storeVars, history,
       Release, LocksWithout, Take, Goto, NextName, Ops, Idle, Scopes
<1>16. ASSUME NEW p \in Procs, CompactFile(p) PROVE Holders'
  BY <1>16, StoreConstants DEF CompactFile, Inv, TypeOK, Holders, storeVars, history,
       Release, LocksWithout, Take, Goto, NextName, Ops, Idle, Scopes
<1>17. ASSUME NEW p \in Procs, CompactEntry(p) PROVE Holders'
  BY <1>17, StoreConstants DEF CompactEntry, Inv, TypeOK, Holders, storeVars, history,
       Release, LocksWithout, Take, Goto, NextName, Ops, Idle, Scopes
<1>18. ASSUME NEW p \in Procs, Abort(p) PROVE Holders'
  BY <1>18, StoreConstants DEF Abort, Inv, TypeOK, Holders, storeVars, history,
       Release, LocksWithout, Take, Goto, NextName, Ops, Idle, Scopes
<1>19. CASE UNCHANGED vars
  BY <1>19, StoreConstants DEF vars, Inv, TypeOK, Holders, storeVars, history,
       Release, LocksWithout, Take, Goto, NextName, Ops, Idle, Scopes
<1> QED BY <1>1, <1>2, <1>3, <1>4, <1>5, <1>6, <1>7, <1>8, <1>9, <1>10, <1>11, <1>12,
     <1>13, <1>14, <1>15, <1>16, <1>17, <1>18, <1>19 DEF Move, Step, AppendStep,
     RemoveStep, CompactStep

LEMMA StepInFlight ==
  ASSUME Inv, [Move]_vars
  PROVE  InFlight'
<1>1. ASSUME NEW p \in Procs, NEW e \in Events, Publish(p, e) PROVE InFlight'
  BY <1>1, StoreConstants DEF Publish, Inv, TypeOK, InFlight, storeVars, history,
       Goto, NextName, Ops, Idle
<1>2. ASSUME NEW p \in Procs, NEW want \in Targets, DismissWith(p, want) PROVE InFlight'
  BY <1>2, DismissStep, StoreConstants DEF Inv, TypeOK, InFlight, storeVars, history,
       Goto, NextName, Ops, Idle
<1>3. ASSUME NEW p \in Procs, AppendTakeRun(p) PROVE InFlight'
  BY <1>3, StoreConstants DEF AppendTakeRun, Inv, TypeOK, InFlight, storeVars,
       history, Goto, NextName, Ops, Idle
<1>4. ASSUME NEW p \in Procs, AppendTakeControl(p) PROVE InFlight'
  BY <1>4, StoreConstants DEF AppendTakeControl, Inv, TypeOK, InFlight, storeVars,
       history, Goto, NextName, Ops, Idle
<1>5. ASSUME NEW p \in Procs, AppendSkip(p) PROVE InFlight'
  BY <1>5, StoreConstants DEF AppendSkip, Inv, TypeOK, InFlight, storeVars, history,
       Goto, NextName, Ops, Idle
<1>6. ASSUME NEW p \in Procs, AppendPending(p) PROVE InFlight'
  BY <1>6, StoreConstants DEF AppendPending, Inv, TypeOK, InFlight, storeVars,
       history, Goto, NextName, Ops, Idle
<1>7. ASSUME NEW p \in Procs, AppendFile(p) PROVE InFlight'
  BY <1>7, StoreConstants DEF AppendFile, Inv, TypeOK, InFlight, storeVars, history,
       Goto, NextName, Ops, Idle
<1>8. ASSUME NEW p \in Procs, AppendCommit(p) PROVE InFlight'
  BY <1>8, StoreConstants DEF AppendCommit, Inv, TypeOK, InFlight, storeVars, history,
       Goto, NextName, Ops, Idle
<1>9. ASSUME NEW p \in Procs, RemoveTakeControl(p) PROVE InFlight'
  BY <1>9, StoreConstants DEF RemoveTakeControl, Inv, TypeOK, InFlight, storeVars,
       history, Goto, NextName, Ops, Idle
<1>10. ASSUME NEW p \in Procs, RemoveNothing(p) PROVE InFlight'
  BY <1>10, StoreConstants DEF RemoveNothing, Inv, TypeOK, InFlight, storeVars,
       history, Goto, NextName, Ops, Idle
<1>11. ASSUME NEW p \in Procs, Cut(p) PROVE InFlight'
  BY <1>11, StoreConstants DEF Cut, Inv, TypeOK, InFlight, storeVars, history, Goto,
       NextName, Ops, Idle
<1>12. ASSUME NEW p \in Procs, CompactNames(p) PROVE InFlight'
  BY <1>12, StoreConstants DEF CompactNames, Inv, TypeOK, InFlight, storeVars,
       history, Goto, NextName, Ops, Idle
<1>13. ASSUME NEW p \in Procs, NEW r \in Runs, CompactTakeRun(p, r) PROVE InFlight'
  BY <1>13, StoreConstants DEF CompactTakeRun, Inv, TypeOK, InFlight, storeVars,
       history, Goto, NextName, Ops, Idle
<1>14. ASSUME NEW p \in Procs, CompactTakeControl(p) PROVE InFlight'
  BY <1>14, StoreConstants DEF CompactTakeControl, Inv, TypeOK, InFlight, storeVars,
       history, Goto, NextName, Ops, Idle
<1>15. ASSUME NEW p \in Procs, CompactSkip(p) PROVE InFlight'
  BY <1>15, StoreConstants DEF CompactSkip, Inv, TypeOK, InFlight, storeVars, history,
       Goto, NextName, Ops, Idle
<1>16. ASSUME NEW p \in Procs, CompactFile(p) PROVE InFlight'
  BY <1>16, StoreConstants DEF CompactFile, Inv, TypeOK, InFlight, storeVars, history,
       Goto, NextName, Ops, Idle
<1>17. ASSUME NEW p \in Procs, CompactEntry(p) PROVE InFlight'
  BY <1>17, StoreConstants DEF CompactEntry, Inv, TypeOK, InFlight, storeVars,
       history, Goto, NextName, Ops, Idle
<1>18. ASSUME NEW p \in Procs, Abort(p) PROVE InFlight'
  BY <1>18, StoreConstants DEF Abort, Inv, TypeOK, InFlight, storeVars, history, Goto,
       NextName, Ops, Idle
<1>19. CASE UNCHANGED vars
  BY <1>19, StoreConstants DEF vars, Inv, TypeOK, InFlight, storeVars, history, Goto,
       NextName, Ops, Idle
<1> QED BY <1>1, <1>2, <1>3, <1>4, <1>5, <1>6, <1>7, <1>8, <1>9, <1>10, <1>11, <1>12,
     <1>13, <1>14, <1>15, <1>16, <1>17, <1>18, <1>19 DEF Move, Step, AppendStep,
     RemoveStep, CompactStep

\* The files, the tombstones and the history they are compared with.
shownVars == <<file, ctl.cleared, accepted, dismissed, batch, overlapped>>

\* Most steps change none of them.
LEMMA MostlyFrame ==
  ASSUME Inv, [Move]_vars
  PROVE  \/ UNCHANGED shownVars
         \/ \E p \in Procs : AppendFile(p) \/ Cut(p) \/ CompactFile(p) \/ CompactEntry(p)
<1>1. ASSUME NEW p \in Procs, NEW e \in Events, Publish(p, e) PROVE UNCHANGED shownVars
  BY <1>1, StoreConstants, CountType DEF Publish, Inv, TypeOK, shownVars, storeVars,
       history
<1>2. ASSUME NEW p \in Procs, NEW want \in Targets, DismissWith(p,
     want) PROVE UNCHANGED shownVars
  BY <1>2, DismissStep, StoreConstants, CountType DEF Inv, TypeOK, shownVars,
       storeVars, history
<1>3. ASSUME NEW p \in Procs, AppendTakeRun(p) PROVE UNCHANGED shownVars
  BY <1>3, StoreConstants, CountType DEF AppendTakeRun, Inv, TypeOK, shownVars,
       storeVars, history
<1>4. ASSUME NEW p \in Procs, AppendTakeControl(p) PROVE UNCHANGED shownVars
  BY <1>4, StoreConstants, CountType DEF AppendTakeControl, Inv, TypeOK, shownVars,
       storeVars, history
<1>5. ASSUME NEW p \in Procs, AppendSkip(p) PROVE UNCHANGED shownVars
  BY <1>5, StoreConstants, CountType DEF AppendSkip, Inv, TypeOK, shownVars,
       storeVars, history
<1>6. ASSUME NEW p \in Procs, AppendPending(p) PROVE UNCHANGED shownVars
  BY <1>6, StoreConstants, CountType DEF AppendPending, Inv, TypeOK, shownVars,
       storeVars, history
<1>7. ASSUME NEW p \in Procs, AppendCommit(p) PROVE UNCHANGED shownVars
  BY <1>7, StoreConstants, CountType DEF AppendCommit, Inv, TypeOK, shownVars,
       storeVars, history
<1>8. ASSUME NEW p \in Procs, RemoveTakeControl(p) PROVE UNCHANGED shownVars
  BY <1>8, StoreConstants, CountType DEF RemoveTakeControl, Inv, TypeOK, shownVars,
       storeVars, history
<1>9. ASSUME NEW p \in Procs, RemoveNothing(p) PROVE UNCHANGED shownVars
  BY <1>9, StoreConstants, CountType DEF RemoveNothing, Inv, TypeOK, shownVars,
       storeVars, history
<1>10. ASSUME NEW p \in Procs, CompactNames(p) PROVE UNCHANGED shownVars
  BY <1>10, StoreConstants, CountType DEF CompactNames, Inv, TypeOK, shownVars,
       storeVars, history
<1>11. ASSUME NEW p \in Procs, NEW r \in Runs, CompactTakeRun(p,
     r) PROVE UNCHANGED shownVars
  BY <1>11, StoreConstants, CountType DEF CompactTakeRun, Inv, TypeOK, shownVars,
       storeVars, history
<1>12. ASSUME NEW p \in Procs, CompactTakeControl(p) PROVE UNCHANGED shownVars
  BY <1>12, StoreConstants, CountType DEF CompactTakeControl, Inv, TypeOK, shownVars,
       storeVars, history
<1>13. ASSUME NEW p \in Procs, CompactSkip(p) PROVE UNCHANGED shownVars
  BY <1>13, StoreConstants, CountType DEF CompactSkip, Inv, TypeOK, shownVars,
       storeVars, history
<1>14. ASSUME NEW p \in Procs, Abort(p) PROVE UNCHANGED shownVars
  BY <1>14, StoreConstants, CountType DEF Abort, Inv, TypeOK, shownVars, storeVars,
       history
<1>15. CASE UNCHANGED vars
  BY <1>15, StoreConstants, CountType DEF vars, Inv, TypeOK, shownVars, storeVars,
       history
<1> QED BY <1>1, <1>2, <1>3, <1>4, <1>5, <1>6, <1>7, <1>8, <1>9, <1>10, <1>11, <1>12,
     <1>13, <1>14, <1>15 DEF Move, Step, AppendStep, RemoveStep, CompactStep

LEMMA FrameLogical ==
  ASSUME UNCHANGED shownVars
  PROVE  Logical' = Logical
  BY DEF shownVars, Logical

\* The appended event is shown besides what was shown; no older tombstone can
\* come into force, since none was made for a file with the new event.
LEMMA AppendLogical ==
  ASSUME Inv, NEW p \in Procs, AppendFile(p)
  PROVE  /\ op[p].event \in Events /\ op[p].event \notin accepted
         /\ RunOf[op[p].event] \in Runs
         /\ Logical' = [Logical EXCEPT ![RunOf[op[p].event]] = @ \cup {op[p].event}]
<1> DEFINE e == op[p].event  s == RunOf[e]
<1>1. e \in Events /\ e \notin accepted /\ s \in Runs
  BY StoreConstants DEF Inv, TypeOK, InFlight, AppendFile
<1>2. file' = [file EXCEPT ![s] = Logical[s] \cup {e}] /\ ctl' = ctl
  BY DEF AppendFile
<1>3. e \notin ctl.cleared[s].of
  BY <1>1 DEF Inv, Placed
<1>4. file'[s] = Logical[s] \cup {e}
  BY <1>1, <1>2 DEF Inv, TypeOK, Contents
<1>5. \A r \in Runs \ {s} : file'[r] = file[r]
  BY <1>1, <1>2 DEF Inv, TypeOK, Contents
<1>6. Logical'[s] = Logical[s] \cup {e}
  <2>1. Logical'[s] = Shown(file'[s], ctl.cleared[s])
    BY <1>1, <1>2 DEF Logical
  <2> QED BY <2>1, <1>3, <1>4 DEF Shown
<1>7. \A r \in Runs \ {s} : Logical'[r] = Logical[r]
  BY <1>2, <1>5 DEF Logical
<1> QED BY <1>1, <1>6, <1>7 DEF Logical

\* Compaction does not change what is shown.
LEMMA CompactLogical ==
  ASSUME Inv, NEW p \in Procs, CompactFile(p)
  PROVE  /\ op[p].run \in Runs
         /\ file' = [file EXCEPT ![op[p].run] = Logical[op[p].run]]
         /\ Logical' = Logical
         /\ ctl' = ctl
<1> DEFINE s == op[p].run
<1>1. s \in Runs /\ ctl' = ctl /\ file' = [file EXCEPT ![s] = Logical[s]]
  BY DEF Inv, InFlight, CompactFile
<1>2. file'[s] = Logical[s] /\ \A r \in Runs \ {s} : file'[r] = file[r]
  BY <1>1 DEF Inv, TypeOK, Contents
<1>3. Logical[s] = Shown(file[s], ctl.cleared[s])
  BY <1>1 DEF Logical
<1>4. Logical'[s] = Shown(file'[s], ctl.cleared[s])
  BY <1>1 DEF Logical
<1>5. Logical'[s] = Logical[s]
  BY <1>2, <1>3, <1>4 DEF Shown
<1>6. \A r \in Runs \ {s} : Logical'[r] = Logical[r]
  BY <1>1, <1>2 DEF Logical
<1> QED BY <1>1, <1>5, <1>6 DEF Logical

LEMMA EntryLogical ==
  ASSUME Inv, NEW p \in Procs, CompactEntry(p)
  PROVE  /\ op[p].run \in Runs
         /\ file' = file
         /\ ctl'.count = ctl.count /\ ctl'.pending = ctl.pending
         /\ ctl'.cleared = [ctl.cleared EXCEPT ![op[p].run] = NoTombstone]
         /\ Logical' = Logical
<1> DEFINE s == op[p].run
<1>1. /\ s \in Runs /\ file' = file
      /\ ctl'.count = ctl.count /\ ctl'.pending = ctl.pending
      /\ ctl'.cleared = [ctl.cleared EXCEPT ![s] = NoTombstone]
  BY DEF Inv, TypeOK, InFlight, CompactEntry, ControlRecord
<1>2. file[s] = Logical[s]
  BY DEF Inv, Prepared, CompactEntry
<1>3. ctl'.cleared[s] = NoTombstone /\ \A r \in Runs \ {s} : ctl'.cleared[r] = ctl.cleared[r]
  BY <1>1 DEF Inv, TypeOK, ControlRecord
<1>4. Logical'[s] = Shown(file[s], NoTombstone)
  BY <1>1, <1>3 DEF Logical
<1>5. Logical'[s] = Logical[s]
  BY <1>2, <1>4 DEF Shown, NoTombstone
<1>6. \A r \in Runs \ {s} : Logical'[r] = Logical[r]
  BY <1>1, <1>3 DEF Logical
<1> QED BY <1>1, <1>5, <1>6 DEF Logical

\* A cut hides what it removes; it hides nothing else, and where it replaces
\* no tombstone in force it brings nothing back.
LEMMA CutLogical ==
  ASSUME Inv, NEW p \in Procs, Cut(p)
  PROVE  LET gone == Visible \cap op[p].want IN
         /\ file' = file /\ accepted' = accepted
         /\ dismissed' = dismissed \cup gone
         /\ gone \subseteq accepted
         /\ overlapped \subseteq overlapped'
         /\ \A r \in Runs :
              /\ ctl'.cleared[r] = Extended(gone)[r]
              /\ r \notin overlapped' => Logical'[r] = Logical[r] \ gone
<1> DEFINE gone == Visible \cap op[p].want
<1>1. /\ file' = file /\ accepted' = accepted
      /\ dismissed' = dismissed \cup gone
      /\ overlapped' = overlapped \cup
            {r \in Runs : Logical[r] \cap gone # {} /\ InForce(r)}
      /\ ctl'.cleared = Extended(gone)
  BY DEF Cut, Inv, TypeOK, ControlRecord
<1>2. gone \subseteq accepted
  BY LogicalType DEF Inv, Placed, Visible
<1>3. ASSUME NEW r \in Runs, r \notin overlapped'
      PROVE  Logical'[r] = Logical[r] \ gone
  <2>1. Logical'[r] = Shown(file[r], Extended(gone)[r])
    BY <1>1 DEF Logical
  <2>2. Logical[r] = Shown(file[r], ctl.cleared[r])
    BY DEF Logical
  <2>3. CASE Logical[r] \cap gone = {}
    BY <2>1, <2>2, <2>3 DEF Extended
  <2>4. CASE Logical[r] \cap gone # {}
    <3>1. ~InForce(r)
      BY <1>1, <1>3, <2>4
    <3>2. Logical[r] = file[r]
      BY <2>2, <3>1 DEF InForce, Shown
    <3>3. Extended(gone)[r] = [of |-> file[r], keys |-> Logical[r] \cap gone]
      BY <2>4 DEF Extended
    <3> QED BY <2>1, <3>2, <3>3 DEF Shown
  <2> QED BY <2>3, <2>4
<1> QED BY <1>1, <1>2, <1>3

LEMMA StepPlaced ==
  ASSUME Inv, [Move]_vars
  PROVE  Placed'
<1>1. CASE UNCHANGED shownVars
  BY <1>1 DEF Inv, Placed, shownVars
<1>2. ASSUME NEW p \in Procs, AppendFile(p) PROVE Placed'
  <2>1. accepted' = accepted \cup {op[p].event} /\ dismissed' = dismissed /\ ctl' = ctl
    BY <1>2 DEF AppendFile
  <2>2. file' = [file EXCEPT ![RunOf[op[p].event]] = Logical[RunOf[op[p].event]] \cup {op[p].event}]
    BY <1>2 DEF AppendFile
  <2> QED BY <1>2, <2>1, <2>2, AppendLogical, LogicalType DEF Inv, TypeOK, Contents,
       Placed, EventsOf
<1>3. ASSUME NEW p \in Procs, Cut(p) PROVE Placed'
  <2> DEFINE gone == Visible \cap op[p].want
  <2>1. \A r \in Runs : /\ Extended(gone)[r].of \subseteq accepted
                        /\ Extended(gone)[r].keys \subseteq dismissed \cup gone
    BY DEF Inv, Placed, Extended
  <2> QED BY <1>3, <2>1, CutLogical DEF Inv, Placed
<1>4. ASSUME NEW p \in Procs, CompactFile(p) PROVE Placed'
  BY <1>4, CompactLogical, LogicalType DEF Inv, TypeOK, Contents, Placed, CompactFile,
       history
<1>5. ASSUME NEW p \in Procs, CompactEntry(p) PROVE Placed'
  BY <1>5, EntryLogical DEF Inv, TypeOK, ControlRecord, Placed, CompactEntry, history,
       NoTombstone
<1> QED BY <1>1, <1>2, <1>3, <1>4, <1>5, MostlyFrame

LEMMA StepKept ==
  ASSUME Inv, [Move]_vars
  PROVE  Kept'
<1>1. CASE UNCHANGED shownVars
  BY <1>1 DEF Inv, Kept, shownVars
<1>2. ASSUME NEW p \in Procs, AppendFile(p) PROVE Kept'
  <2> DEFINE e == op[p].event
  <2>1. /\ accepted' = accepted \cup {e} /\ dismissed' = dismissed
        /\ file' = [file EXCEPT ![RunOf[e]] = Logical[RunOf[e]] \cup {e}]
    BY <1>2 DEF AppendFile
  <2>2. \A x \in accepted \ dismissed : x \in Logical[RunOf[x]] /\ RunOf[x] \in Runs
    BY StoreConstants DEF Inv, TypeOK, Kept, Placed, Logical, Shown
  <2> QED BY <1>2, <2>1, <2>2, AppendLogical DEF Inv, TypeOK, Contents, Kept
<1>3. ASSUME NEW p \in Procs, Cut(p) PROVE Kept'
  BY <1>3, CutLogical DEF Inv, Kept
<1>4. ASSUME NEW p \in Procs, CompactFile(p) PROVE Kept'
  <2>1. \A x \in accepted \ dismissed : x \in Logical[RunOf[x]] /\ RunOf[x] \in Runs
    BY StoreConstants DEF Inv, TypeOK, Kept, Placed, Logical, Shown
  <2> QED BY <1>4, <2>1, CompactLogical DEF Inv, TypeOK, Contents, Kept, CompactFile,
       history
<1>5. ASSUME NEW p \in Procs, CompactEntry(p) PROVE Kept'
  BY <1>5 DEF Inv, Kept, CompactEntry, history
<1> QED BY <1>1, <1>2, <1>3, <1>4, <1>5, MostlyFrame

LEMMA StepNoResurrection ==
  ASSUME Inv, [Move]_vars
  PROVE  NoResurrection'
<1>1. CASE UNCHANGED shownVars
  BY <1>1, FrameLogical DEF Inv, NoResurrection, shownVars
<1>2. ASSUME NEW p \in Procs, AppendFile(p) PROVE NoResurrection'
  <2>1. dismissed' = dismissed /\ overlapped' = overlapped /\ dismissed \subseteq accepted
    BY <1>2 DEF AppendFile, Inv, TypeOK
  <2> QED BY <1>2, <2>1, AppendLogical, LogicalType DEF Inv, Contents, NoResurrection
<1>3. ASSUME NEW p \in Procs, Cut(p) PROVE NoResurrection'
  BY <1>3, CutLogical DEF Inv, NoResurrection
<1>4. ASSUME NEW p \in Procs, CompactFile(p) PROVE NoResurrection'
  BY <1>4, CompactLogical DEF Inv, NoResurrection, CompactFile, history
<1>5. ASSUME NEW p \in Procs, CompactEntry(p) PROVE NoResurrection'
  BY <1>5, EntryLogical DEF Inv, NoResurrection, CompactEntry, history
<1> QED BY <1>1, <1>2, <1>3, <1>4, <1>5, MostlyFrame

LEMMA StepShownOnce ==
  ASSUME Inv, [Move]_vars
  PROVE  ShownOnce'
<1>1. CASE UNCHANGED shownVars
  BY <1>1, FrameLogical DEF Inv, ShownOnce, shownVars
<1>2. ASSUME NEW p \in Procs, AppendFile(p) PROVE ShownOnce'
  <2> DEFINE e == op[p].event
  <2>1. overlapped' = overlapped
    BY <1>2 DEF AppendFile
  <2>2. \A x \in Logical[RunOf[e]] : KeyOf[x] # KeyOf[e]
    BY <1>2 DEF AppendFile, Inv, Prepared, AlreadyPublished
  <2> QED BY <1>2, <2>1, <2>2, AppendLogical, LogicalType DEF Inv, Contents, ShownOnce
<1>3. ASSUME NEW p \in Procs, Cut(p) PROVE ShownOnce'
  BY <1>3, CutLogical DEF Inv, ShownOnce
<1>4. ASSUME NEW p \in Procs, CompactFile(p) PROVE ShownOnce'
  BY <1>4, CompactLogical DEF Inv, ShownOnce, CompactFile, history
<1>5. ASSUME NEW p \in Procs, CompactEntry(p) PROVE ShownOnce'
  BY <1>5, EntryLogical DEF Inv, ShownOnce, CompactEntry, history
<1> QED BY <1>1, <1>2, <1>3, <1>4, <1>5, MostlyFrame

LEMMA StepPrepared ==
  ASSUME Inv, [Move]_vars
  PROVE  Prepared'
<1>1. ASSUME NEW p \in Procs, NEW e \in Events, Publish(p, e) PROVE Prepared'
  BY <1>1, StoreConstants, FrameLogical, CountType DEF Publish, Inv, TypeOK, Holders,
       InFlight, Prepared, shownVars, storeVars, history, Goto, NextName, Take, Ops,
       Idle, Contents, ControlRecord, AlreadyPublished
<1>2. ASSUME NEW p \in Procs, NEW want \in Targets, DismissWith(p, want) PROVE Prepared'
  <2>1. PICK z \in Ops : z.pc = "remove_control" /\ op' = [op EXCEPT ![p] = z]
    BY <1>2, DismissStep
  <2>2. op'[p].pc = "remove_control" /\ \A q \in Procs \ {p} : op'[q] = op[q]
    BY <2>1 DEF Inv, TypeOK
  <2>3. file' = file /\ ctl' = ctl /\ Logical' = Logical
    BY <1>2, DismissStep, FrameLogical DEF shownVars
  <2> QED BY <2>2, <2>3 DEF Inv, Prepared, AlreadyPublished
<1>3. ASSUME NEW p \in Procs, AppendTakeRun(p) PROVE Prepared'
  BY <1>3, StoreConstants, FrameLogical, CountType DEF AppendTakeRun, Inv, TypeOK,
       Holders, InFlight, Prepared, shownVars, storeVars, history, Goto, NextName,
       Take, Ops, Idle, Contents, ControlRecord, AlreadyPublished
<1>4. ASSUME NEW p \in Procs, AppendTakeControl(p) PROVE Prepared'
  BY <1>4, StoreConstants, FrameLogical, CountType DEF AppendTakeControl, Inv, TypeOK,
       Holders, InFlight, Prepared, shownVars, storeVars, history, Goto, NextName,
       Take, Ops, Idle, Contents, ControlRecord, AlreadyPublished
<1>5. ASSUME NEW p \in Procs, AppendSkip(p) PROVE Prepared'
  BY <1>5, StoreConstants, FrameLogical, CountType DEF AppendSkip, Inv, TypeOK,
       Holders, InFlight, Prepared, shownVars, storeVars, history, Goto, NextName,
       Take, Ops, Idle, Contents, ControlRecord, AlreadyPublished
<1>6. ASSUME NEW p \in Procs, AppendPending(p) PROVE Prepared'
  BY <1>6, StoreConstants, FrameLogical, CountType DEF AppendPending, Inv, TypeOK,
       Holders, InFlight, Prepared, shownVars, storeVars, history, Goto, NextName,
       Take, Ops, Idle, Contents, ControlRecord, AlreadyPublished
<1>7. ASSUME NEW p \in Procs, AppendFile(p) PROVE Prepared'
  BY <1>7, StoreConstants, FrameLogical, CountType, AppendLogical DEF AppendFile, Inv,
       TypeOK, Holders, InFlight, Prepared, shownVars, storeVars, history, Goto,
       NextName, Take, Ops, Idle, Contents, ControlRecord, AlreadyPublished
<1>8. ASSUME NEW p \in Procs, AppendCommit(p) PROVE Prepared'
  BY <1>8, StoreConstants, FrameLogical, CountType DEF AppendCommit, Inv, TypeOK,
       Holders, InFlight, Prepared, shownVars, storeVars, history, Goto, NextName,
       Take, Ops, Idle, Contents, ControlRecord, AlreadyPublished
<1>9. ASSUME NEW p \in Procs, RemoveTakeControl(p) PROVE Prepared'
  BY <1>9, StoreConstants, FrameLogical, CountType DEF RemoveTakeControl, Inv, TypeOK,
       Holders, InFlight, Prepared, shownVars, storeVars, history, Goto, NextName,
       Take, Ops, Idle, Contents, ControlRecord, AlreadyPublished
<1>10. ASSUME NEW p \in Procs, RemoveNothing(p) PROVE Prepared'
  BY <1>10, StoreConstants, FrameLogical, CountType DEF RemoveNothing, Inv, TypeOK,
       Holders, InFlight, Prepared, shownVars, storeVars, history, Goto, NextName,
       Take, Ops, Idle, Contents, ControlRecord, AlreadyPublished
<1>11. ASSUME NEW p \in Procs, Cut(p) PROVE Prepared'
  BY <1>11, StoreConstants, FrameLogical, CountType DEF Cut, Inv, TypeOK, Holders,
       InFlight, Prepared, shownVars, storeVars, history, Goto, NextName, Take, Ops,
       Idle, Contents, ControlRecord, AlreadyPublished
<1>12. ASSUME NEW p \in Procs, CompactNames(p) PROVE Prepared'
  BY <1>12, StoreConstants, FrameLogical, CountType DEF CompactNames, Inv, TypeOK,
       Holders, InFlight, Prepared, shownVars, storeVars, history, Goto, NextName,
       Take, Ops, Idle, Contents, ControlRecord, AlreadyPublished
<1>13. ASSUME NEW p \in Procs, NEW r \in Runs, CompactTakeRun(p, r) PROVE Prepared'
  BY <1>13, StoreConstants, FrameLogical, CountType DEF CompactTakeRun, Inv, TypeOK,
       Holders, InFlight, Prepared, shownVars, storeVars, history, Goto, NextName,
       Take, Ops, Idle, Contents, ControlRecord, AlreadyPublished
<1>14. ASSUME NEW p \in Procs, CompactTakeControl(p) PROVE Prepared'
  BY <1>14, StoreConstants, FrameLogical, CountType DEF CompactTakeControl, Inv,
       TypeOK, Holders, InFlight, Prepared, shownVars, storeVars, history, Goto,
       NextName, Take, Ops, Idle, Contents, ControlRecord, AlreadyPublished
<1>15. ASSUME NEW p \in Procs, CompactSkip(p) PROVE Prepared'
  BY <1>15, StoreConstants, FrameLogical, CountType DEF CompactSkip, Inv, TypeOK,
       Holders, InFlight, Prepared, shownVars, storeVars, history, Goto, NextName,
       Take, Ops, Idle, Contents, ControlRecord, AlreadyPublished
<1>16. ASSUME NEW p \in Procs, CompactFile(p) PROVE Prepared'
  <2>1. \A q \in Procs \ {p} :
          op[q].pc \notin {"pending", "append_file", "commit", "cut",
                          "compact_file", "compact_entry"}
    BY <1>16 DEF CompactFile, Inv, Holders

  <2>2. /\ \A q \in Procs \ {p} : op'[q] = op[q]
        /\ op'[p].pc = "compact_entry" /\ op'[p].run = op[p].run
    BY <1>16 DEF CompactFile, Goto, Inv, TypeOK, Ops
  <2>3. file'[op[p].run] = Logical'[op[p].run]
    BY <1>16, CompactLogical DEF Inv, TypeOK, Contents
  <2> QED BY <2>1, <2>2, <2>3 DEF Prepared
<1>17. ASSUME NEW p \in Procs, CompactEntry(p) PROVE Prepared'
  <2>1. \A q \in Procs \ {p} :
          op[q].pc \notin {"pending", "append_file", "commit", "cut",
                          "compact_file", "compact_entry"}
    BY <1>17 DEF CompactEntry, Inv, Holders

  <2>2. /\ \A q \in Procs \ {p} : op'[q] = op[q]
        /\ op'[p].pc \in {"idle", "compact"}
    BY <1>17 DEF CompactEntry, NextName, Idle, Inv, TypeOK, Ops
  <2> QED BY <2>1, <2>2 DEF Prepared
<1>18. ASSUME NEW p \in Procs, Abort(p) PROVE Prepared'
  BY <1>18, StoreConstants, FrameLogical, CountType DEF Abort, Inv, TypeOK, Holders,
       InFlight, Prepared, shownVars, storeVars, history, Goto, NextName, Take, Ops,
       Idle, Contents, ControlRecord, AlreadyPublished
<1>19. CASE UNCHANGED vars
  BY <1>19, StoreConstants, FrameLogical, CountType DEF vars, Inv, TypeOK, Holders,
       InFlight, Prepared, shownVars, storeVars, history, Goto, NextName, Take, Ops,
       Idle, Contents, ControlRecord, AlreadyPublished
<1> QED BY <1>1, <1>2, <1>3, <1>4, <1>5, <1>6, <1>7, <1>8, <1>9, <1>10, <1>11, <1>12,
     <1>13, <1>14, <1>15, <1>16, <1>17, <1>18, <1>19 DEF Move, Step, AppendStep,
     RemoveStep, CompactStep

\* The count is the same as long as the pending event's place is.
LEMMA SameCount ==
  ASSUME ctl'.count = ctl.count, ctl'.pending = ctl.pending,
         ctl.pending.event # NoEvent =>
            (ctl.pending.event \in file'[RunOf[ctl.pending.event]]
               <=> ctl.pending.event \in file[RunOf[ctl.pending.event]])
  PROVE  EffectiveCount' = EffectiveCount
  BY DEF EffectiveCount

LEMMA StepPendingKept ==
  ASSUME Inv, [Move]_vars
  PROVE  PendingKept'
<1>1. ASSUME NEW p \in Procs, NEW e \in Events, Publish(p, e) PROVE PendingKept'
  BY <1>1, StoreConstants, CountType DEF Publish, Inv, TypeOK, InFlight, Prepared,
       PendingKept, storeVars, history, ControlRecord
<1>2. ASSUME NEW p \in Procs, NEW want \in Targets, DismissWith(p,
     want) PROVE PendingKept'
  BY <1>2, DismissStep, StoreConstants, CountType DEF Inv, TypeOK, InFlight, Prepared,
       PendingKept, storeVars, history, ControlRecord
<1>3. ASSUME NEW p \in Procs, AppendTakeRun(p) PROVE PendingKept'
  BY <1>3, StoreConstants, CountType DEF AppendTakeRun, Inv, TypeOK, InFlight,
       Prepared, PendingKept, storeVars, history, ControlRecord
<1>4. ASSUME NEW p \in Procs, AppendTakeControl(p) PROVE PendingKept'
  BY <1>4, StoreConstants, CountType DEF AppendTakeControl, Inv, TypeOK, InFlight,
       Prepared, PendingKept, storeVars, history, ControlRecord
<1>5. ASSUME NEW p \in Procs, AppendSkip(p) PROVE PendingKept'
  BY <1>5, StoreConstants, CountType DEF AppendSkip, Inv, TypeOK, InFlight, Prepared,
       PendingKept, storeVars, history, ControlRecord
<1>6. ASSUME NEW p \in Procs, AppendPending(p) PROVE PendingKept'
  BY <1>6, StoreConstants, CountType DEF AppendPending, Inv, TypeOK, InFlight,
       Prepared, PendingKept, storeVars, history, ControlRecord
<1>7. ASSUME NEW p \in Procs, AppendFile(p) PROVE PendingKept'
  BY <1>7, StoreConstants, CountType, AppendLogical DEF AppendFile, Inv, TypeOK,
       InFlight, Prepared, PendingKept, storeVars, history, ControlRecord
<1>8. ASSUME NEW p \in Procs, AppendCommit(p) PROVE PendingKept'
  BY <1>8, StoreConstants, CountType DEF AppendCommit, Inv, TypeOK, InFlight,
       Prepared, PendingKept, storeVars, history, ControlRecord, NoPending
<1>9. ASSUME NEW p \in Procs, RemoveTakeControl(p) PROVE PendingKept'
  BY <1>9, StoreConstants, CountType DEF RemoveTakeControl, Inv, TypeOK, InFlight,
       Prepared, PendingKept, storeVars, history, ControlRecord
<1>10. ASSUME NEW p \in Procs, RemoveNothing(p) PROVE PendingKept'
  BY <1>10, StoreConstants, CountType DEF RemoveNothing, Inv, TypeOK, InFlight,
       Prepared, PendingKept, storeVars, history, ControlRecord
<1>11. ASSUME NEW p \in Procs, Cut(p) PROVE PendingKept'
  <2>1. ctl'.pending = ctl.pending /\ ctl.pending.event = NoEvent
    BY <1>11 DEF Cut, Inv, TypeOK, ControlRecord, Prepared
  <2>2. dismissed' \subseteq Events
    BY <1>11, LogicalType DEF Cut, Inv, TypeOK
  <2> QED BY <2>1, <2>2, StoreConstants DEF PendingKept
<1>12. ASSUME NEW p \in Procs, CompactNames(p) PROVE PendingKept'
  BY <1>12, StoreConstants, CountType DEF CompactNames, Inv, TypeOK, InFlight,
       Prepared, PendingKept, storeVars, history, ControlRecord
<1>13. ASSUME NEW p \in Procs, NEW r \in Runs, CompactTakeRun(p, r) PROVE PendingKept'
  BY <1>13, StoreConstants, CountType DEF CompactTakeRun, Inv, TypeOK, InFlight,
       Prepared, PendingKept, storeVars, history, ControlRecord
<1>14. ASSUME NEW p \in Procs, CompactTakeControl(p) PROVE PendingKept'
  BY <1>14, StoreConstants, CountType DEF CompactTakeControl, Inv, TypeOK, InFlight,
       Prepared, PendingKept, storeVars, history, ControlRecord
<1>15. ASSUME NEW p \in Procs, CompactSkip(p) PROVE PendingKept'
  BY <1>15, StoreConstants, CountType DEF CompactSkip, Inv, TypeOK, InFlight,
       Prepared, PendingKept, storeVars, history, ControlRecord
<1>16. ASSUME NEW p \in Procs, CompactFile(p) PROVE PendingKept'
  BY <1>16, StoreConstants, CountType, CompactLogical DEF CompactFile, Inv, TypeOK,
       InFlight, Prepared, PendingKept, storeVars, history, ControlRecord
<1>17. ASSUME NEW p \in Procs, CompactEntry(p) PROVE PendingKept'
  BY <1>17, StoreConstants, CountType, EntryLogical DEF CompactEntry, Inv, TypeOK,
       InFlight, Prepared, PendingKept, storeVars, history, ControlRecord
<1>18. ASSUME NEW p \in Procs, Abort(p) PROVE PendingKept'
  BY <1>18, StoreConstants, CountType DEF Abort, Inv, TypeOK, InFlight, Prepared,
       PendingKept, storeVars, history, ControlRecord
<1>19. CASE UNCHANGED vars
  BY <1>19, StoreConstants, CountType DEF vars, Inv, TypeOK, InFlight, Prepared,
       PendingKept, storeVars, history, ControlRecord
<1> QED BY <1>1, <1>2, <1>3, <1>4, <1>5, <1>6, <1>7, <1>8, <1>9, <1>10, <1>11, <1>12,
     <1>13, <1>14, <1>15, <1>16, <1>17, <1>18, <1>19 DEF Move, Step, AppendStep,
     RemoveStep, CompactStep

LEMMA StepCount ==
  ASSUME Inv, [Move]_vars
  PROVE  CountIsExact'
<1>1. ASSUME NEW p \in Procs, NEW e \in Events, Publish(p, e) PROVE CountIsExact'
  BY <1>1, StoreConstants, SameCount, CountType DEF Publish, Inv, TypeOK,
       CountIsExact, storeVars, history
<1>2. ASSUME NEW p \in Procs, NEW want \in Targets, DismissWith(p,
     want) PROVE CountIsExact'
  BY <1>2, DismissStep, StoreConstants, SameCount, CountType DEF Inv, TypeOK,
       CountIsExact, storeVars, history
<1>3. ASSUME NEW p \in Procs, AppendTakeRun(p) PROVE CountIsExact'
  BY <1>3, StoreConstants, SameCount, CountType DEF AppendTakeRun, Inv, TypeOK,
       CountIsExact, storeVars, history
<1>4. ASSUME NEW p \in Procs, AppendTakeControl(p) PROVE CountIsExact'
  BY <1>4, StoreConstants, SameCount, CountType DEF AppendTakeControl, Inv, TypeOK,
       CountIsExact, storeVars, history, EffectiveCount
<1>5. ASSUME NEW p \in Procs, AppendSkip(p) PROVE CountIsExact'
  BY <1>5, StoreConstants, SameCount, CountType DEF AppendSkip, Inv, TypeOK,
       CountIsExact, storeVars, history
<1>6. ASSUME NEW p \in Procs, AppendPending(p) PROVE CountIsExact'
  <2> DEFINE e == op[p].event
  <2>1. e \in Events /\ e # NoEvent /\ RunOf[e] \in Runs /\ e \notin file[RunOf[e]]
    BY <1>6, StoreConstants DEF AppendPending, Inv, TypeOK, InFlight, Placed
  <2>2. /\ ctl'.pending = [event |-> e, prior |-> EffectiveCount,
                          next |-> EffectiveCount + 1]
        /\ file' = file /\ batch' = batch
    BY <1>6 DEF AppendPending, Inv, TypeOK, ControlRecord, history
  <2>3. EffectiveCount' = EffectiveCount
    BY <2>1, <2>2 DEF EffectiveCount
  <2> QED BY <2>2, <2>3 DEF Inv, CountIsExact
<1>7. ASSUME NEW p \in Procs, AppendFile(p) PROVE CountIsExact'
  <2> DEFINE e == op[p].event
  <2>1. /\ e \in Events /\ e # NoEvent /\ e \notin accepted /\ RunOf[e] \in Runs
        /\ e \notin file[RunOf[e]] /\ e \notin batch
    BY <1>7, StoreConstants DEF AppendFile, Inv, TypeOK, InFlight, Placed
  <2>2. ctl.pending.event = e /\ ctl.pending.next = ctl.pending.prior + 1
    BY <1>7 DEF AppendFile, Inv, Prepared
  <2>3. /\ ctl' = ctl /\ batch' = batch \cup {e}
        /\ file'[RunOf[e]] = Logical[RunOf[e]] \cup {e}
    BY <1>7, <2>1 DEF AppendFile, Inv, TypeOK, Contents
  <2>4. EffectiveCount = ctl.pending.prior /\ EffectiveCount' = ctl.pending.next
    BY <2>1, <2>2, <2>3 DEF EffectiveCount
  <2>5. IsFiniteSet(batch)
    BY StoreConstants, FS_Subset DEF Inv, TypeOK
  <2>6. Cardinality(batch \cup {e}) = Cardinality(batch) + 1
    BY <2>1, <2>5, FS_AddElement
  <2> QED BY <2>2, <2>3, <2>4, <2>6 DEF Inv, CountIsExact
<1>8. ASSUME NEW p \in Procs, AppendCommit(p) PROVE CountIsExact'
  <2>1. /\ ctl.pending.event = op[p].event /\ op[p].event # NoEvent
        /\ op[p].event \in file[RunOf[op[p].event]]
    BY <1>8 DEF AppendCommit, Inv, Prepared, InFlight
  <2>2. /\ ctl'.count = ctl.pending.next /\ ctl'.pending.event = NoEvent
        /\ batch' = batch
    BY <1>8 DEF AppendCommit, Inv, TypeOK, ControlRecord, NoPending, history
  <2> QED BY <2>1, <2>2 DEF EffectiveCount, Inv, CountIsExact
<1>9. ASSUME NEW p \in Procs, RemoveTakeControl(p) PROVE CountIsExact'
  BY <1>9, StoreConstants, SameCount, CountType DEF RemoveTakeControl, Inv, TypeOK,
       CountIsExact, storeVars, history, EffectiveCount
<1>10. ASSUME NEW p \in Procs, RemoveNothing(p) PROVE CountIsExact'
  BY <1>10, StoreConstants, SameCount, CountType DEF RemoveNothing, Inv, TypeOK,
       CountIsExact, storeVars, history
<1>11. ASSUME NEW p \in Procs, Cut(p) PROVE CountIsExact'
  <2>1. ctl'.pending = ctl.pending /\ ctl.pending.event = NoEvent
    BY <1>11 DEF Cut, Inv, TypeOK, ControlRecord, Prepared
  <2>2. \/ ctl'.count = 0 /\ batch' = {}
        \/ ctl'.count = ctl.count /\ batch' = batch
    BY <1>11 DEF Cut, Inv, TypeOK, ControlRecord
  <2> QED BY <2>1, <2>2, FS_EmptySet DEF EffectiveCount, Inv, CountIsExact
<1>12. ASSUME NEW p \in Procs, CompactNames(p) PROVE CountIsExact'
  BY <1>12, StoreConstants, SameCount, CountType DEF CompactNames, Inv, TypeOK,
       CountIsExact, storeVars, history
<1>13. ASSUME NEW p \in Procs, NEW r \in Runs, CompactTakeRun(p, r) PROVE CountIsExact'
  BY <1>13, StoreConstants, SameCount, CountType DEF CompactTakeRun, Inv, TypeOK,
       CountIsExact, storeVars, history
<1>14. ASSUME NEW p \in Procs, CompactTakeControl(p) PROVE CountIsExact'
  BY <1>14, StoreConstants, SameCount, CountType DEF CompactTakeControl, Inv, TypeOK,
       CountIsExact, storeVars, history
<1>15. ASSUME NEW p \in Procs, CompactSkip(p) PROVE CountIsExact'
  BY <1>15, StoreConstants, SameCount, CountType DEF CompactSkip, Inv, TypeOK,
       CountIsExact, storeVars, history
<1>16. ASSUME NEW p \in Procs, CompactFile(p) PROVE CountIsExact'
  <2> DEFINE e == ctl.pending.event
  <2>1. ASSUME e # NoEvent PROVE e \in file'[RunOf[e]] <=> e \in file[RunOf[e]]
    <3>1. e \in Events /\ RunOf[e] \in Runs /\ e \notin dismissed
      BY <2>1, StoreConstants DEF Inv, TypeOK, ControlRecord, Pending, PendingKept
    <3>2. e \in Logical[RunOf[e]] <=> e \in file[RunOf[e]]
      BY <3>1 DEF Inv, Placed, Logical, Shown
    <3> QED BY <1>16, <3>1, <3>2, CompactLogical DEF Inv, TypeOK, Contents
  <2>2. ctl' = ctl /\ batch' = batch
    BY <1>16 DEF CompactFile, history
  <2>3. EffectiveCount' = EffectiveCount
    BY <2>1, <2>2, SameCount
  <2> QED BY <2>2, <2>3 DEF Inv, CountIsExact
<1>17. ASSUME NEW p \in Procs, CompactEntry(p) PROVE CountIsExact'
  BY <1>17, StoreConstants, SameCount, CountType DEF CompactEntry, Inv, TypeOK,
       CountIsExact, storeVars, history
<1>18. ASSUME NEW p \in Procs, Abort(p) PROVE CountIsExact'
  BY <1>18, StoreConstants, SameCount, CountType DEF Abort, Inv, TypeOK, CountIsExact,
       storeVars, history
<1>19. CASE UNCHANGED vars
  BY <1>19, StoreConstants, SameCount, CountType DEF vars, Inv, TypeOK, CountIsExact,
       storeVars, history
<1> QED BY <1>1, <1>2, <1>3, <1>4, <1>5, <1>6, <1>7, <1>8, <1>9, <1>10, <1>11, <1>12,
     <1>13, <1>14, <1>15, <1>16, <1>17, <1>18, <1>19 DEF Move, Step, AppendStep,
     RemoveStep, CompactStep

LEMMA InitInv ==
  ASSUME Init
  PROVE  Inv
<1>1. TypeOK
  BY StoreConstants, IdleType DEF Init, TypeOK, Nothing, Contents, ControlRecord,
     Tombstone, NoTombstone, Pending, NoPending, Scopes
<1>2. Holders /\ InFlight /\ Prepared
  BY IdleType DEF Init, Holders, InFlight, Prepared
<1>3. Placed /\ Kept /\ NoResurrection /\ PendingKept
  BY DEF Init, Nothing, NoTombstone, NoPending, Placed, Kept, NoResurrection,
       PendingKept
<1>4. \A r \in Runs : Logical[r] = {}
  BY DEF Init, Nothing, Logical, Shown
<1>5. ShownOnce
  BY <1>4 DEF ShownOnce
<1>6. CountIsExact
  BY FS_EmptySet DEF Init, NoPending, CountIsExact, EffectiveCount
<1> QED BY <1>1, <1>2, <1>3, <1>5, <1>6 DEF Inv

LEMMA StepInv ==
  ASSUME Inv, [Move]_vars
  PROVE  Inv'
<1>1. TypeOK'
  BY StepLockTypes, StepOpTypes, StepDataTypes, StepHistoryTypes
     DEF TypeOK, LockTypes, OpTypes, DataTypes, HistoryTypes
<1> QED BY <1>1, StepHolders, StepInFlight, StepPlaced, StepKept, StepPrepared,
           StepPendingKept, StepNoResurrection, StepShownOnce, StepCount DEF Inv

\* The invariant is inductive.
LEMMA InvHolds == Spec => []Inv
<1>1. Init => Inv
  BY InitInv
<1>2. Inv /\ [Next]_vars => Inv'
  BY StepInv, NextIsMove DEF Inv
<1> QED BY <1>1, <1>2, PTL DEF Spec

\* The state of the store is well formed in every reachable state.
THEOREM TypeCorrect == Spec => []TypeOK
<1>1. Inv => TypeOK
  BY DEF Inv
<1> QED BY <1>1, InvHolds, PTL

\* An accepted event that is not dismissed is in its file, and no tombstone
\* hides it.
LEMMA InvLosesNothing ==
  ASSUME Inv
  PROVE  NothingLost
<1> SUFFICES ASSUME NEW e \in accepted \ dismissed PROVE e \in Visible
  BY DEF NothingLost
<1>1. RunOf[e] \in Runs /\ e \in file[RunOf[e]]
  BY StoreConstants DEF Inv, TypeOK, Kept
<1>2. e \in Logical[RunOf[e]]
  BY <1>1 DEF Inv, Placed, Logical, Shown
<1> QED BY <1>1, <1>2 DEF Visible

\* No event that reached a mini-file (the write in
\* _compare_update_daemon_owner) disappears without a dismissal of it, however
\* appends, cuts, compactions and crashes interleave.
THEOREM NoEventIsLost == Spec => []NothingLost
<1>1. Inv => NothingLost
  BY InvLosesNothing
<1> QED BY <1>1, InvHolds, PTL

\* The visibility cut is final, also over a crash before or in the middle of
\* the compaction, in every run where no cut replaced a tombstone in force.
THEOREM CutIsFinal == Spec => []NoResurrection
<1>1. Inv => NoResurrection
  BY DEF Inv
<1> QED BY <1>1, InvHolds, PTL

\* The batch count survives a crash between any two writes of an append.
THEOREM BatchCountIsExact == Spec => []CountIsExact
<1>1. Inv => CountIsExact
  BY DEF Inv
<1> QED BY <1>1, InvHolds, PTL

\* A retried notice is not shown besides the first one.
THEOREM RetriesAreShownOnce == Spec => []ShownOnce
<1>1. Inv => ShownOnce
  BY DEF Inv
<1> QED BY <1>1, InvHolds, PTL

-----------------------------------------------------------------------------
(* The store as a log *)

\* The count the agent sees moves with the history of the batch only.
LEMMA CountFollowsBatch ==
  ASSUME Inv, [Move]_vars
  PROVE  /\ EffectiveCount = Cardinality(batch) /\ EffectiveCount' = Cardinality(batch')
         /\ batch' = batch => EffectiveCount' = EffectiveCount
  BY StepCount DEF Inv, CountIsExact

\* In every run a cut hides what it takes and nothing else; where it replaces a
\* tombstone in force it may bring other events of the file back.
LEMMA CutTakesGone ==
  ASSUME Inv, NEW p \in Procs, Cut(p), NEW r \in Runs
  PROVE  LET gone == Visible \cap op[p].want IN
         /\ Logical[r] \ gone \subseteq Logical'[r]
         /\ Logical'[r] \cap gone = {}
         /\ Logical'[r] \subseteq accepted
<1> DEFINE gone == Visible \cap op[p].want
<1>1. Logical'[r] = Shown(file[r], Extended(gone)[r])
  BY CutLogical DEF Logical
<1>2. Logical[r] = Shown(file[r], ctl.cleared[r])
  BY DEF Logical
<1>3. file[r] \subseteq accepted
  BY DEF Inv, Placed
<1>4. CASE Logical[r] \cap gone = {}
  BY <1>1, <1>2, <1>3, <1>4 DEF Extended, Shown
<1>5. CASE Logical[r] \cap gone # {}
  <2>1. Logical'[r] = file[r] \ (Logical[r] \cap gone)
    BY <1>1, <1>5 DEF Extended, Shown
  <2>2. Logical[r] \subseteq file[r]
    BY <1>2 DEF Shown
  <2>3. ASSUME NEW x \in file[r] \cap gone PROVE x \in Logical[r]
    <3>1. PICK q \in Runs : x \in Logical[q]
      BY <2>3 DEF Visible
    <3>2. x \in EventsOf(q) /\ x \in EventsOf(r)
      BY <2>3, <3>1, LogicalType DEF Inv, Placed
    <3> QED BY <3>1, <3>2 DEF EventsOf
  <2> QED BY <1>3, <2>1, <2>2, <2>3
<1> QED BY <1>4, <1>5

LEMMA AppendIsAppendEvent ==
  ASSUME Inv, NEW p \in Procs, AppendFile(p)
  PROVE  Log!AppendEvent(op[p].event)
<1> DEFINE e == op[p].event
<1>1. /\ e \in Events /\ e \notin accepted /\ RunOf[e] \in Runs
      /\ Logical' = [Logical EXCEPT ![RunOf[e]] = @ \cup {e}]
  BY AppendLogical
<1>2. \A x \in Logical[RunOf[e]] : KeyOf[x] # KeyOf[e]
  BY DEF AppendFile, Inv, Prepared, AlreadyPublished
<1>3. accepted' = accepted \cup {e} /\ batch' = batch \cup {e} /\ overlapped' = overlapped
  BY DEF AppendFile
<1>4. EffectiveCount' = EffectiveCount + 1
  <2>1. IsFiniteSet(batch) /\ e \notin batch
    BY <1>1, StoreConstants, FS_Subset DEF Inv, TypeOK
  <2>2. Cardinality(batch \cup {e}) = Cardinality(batch) + 1
    BY <2>1, FS_AddElement
  <2>3. [Move]_vars
    BY DEF Move, Step, AppendStep
  <2> QED BY <1>3, <2>2, <2>3, CountFollowsBatch
<1> QED BY <1>1, <1>2, <1>3, <1>4 DEF Log!AppendEvent

LEMMA CutIsDismissEvents ==
  ASSUME Inv, NEW p \in Procs, Cut(p)
  PROVE  Log!DismissEvents(Visible \cap op[p].want)
<1> DEFINE gone == Visible \cap op[p].want
<1>1. gone # {} /\ Log!All = Visible
  BY DEF Cut, Log!All, Visible
<1>2. /\ accepted' = accepted /\ overlapped \subseteq overlapped' /\ overlapped' \subseteq Runs
      /\ batch' = IF gone = Visible THEN {} ELSE batch
  BY DEF Cut, Inv, TypeOK
<1>3. \A r \in Runs : /\ Logical[r] \ gone \subseteq Logical'[r]
                      /\ Logical'[r] \cap gone = {}
                      /\ Logical'[r] \subseteq accepted
                      /\ r \notin overlapped' => Logical'[r] \subseteq Logical[r]
  <2>1. \A r \in Runs : r \notin overlapped' => Logical'[r] = Logical[r] \ gone
    BY CutLogical
  <2> QED BY <2>1, CutTakesGone
<1>4. Logical' \in [Runs -> SUBSET accepted]
  BY <1>3 DEF Logical
<1>5. EffectiveCount' = IF gone = Log!All THEN 0 ELSE EffectiveCount
  <2>1. [Move]_vars
    BY DEF Move, Step, RemoveStep
  <2> QED BY <1>1, <1>2, <2>1, CountFollowsBatch, FS_EmptySet
<1> QED BY <1>1, <1>2, <1>3, <1>4, <1>5 DEF Log!DismissEvents

LEMMA MovesImplementLog ==
  ASSUME Inv, [Move]_vars
  PROVE  [Log!Next]_Log!vars
<1>1. CASE UNCHANGED shownVars
  BY <1>1, FrameLogical, CountFollowsBatch DEF shownVars, Log!vars
<1>2. ASSUME NEW p \in Procs, AppendFile(p) PROVE [Log!Next]_Log!vars
  BY <1>2, AppendLogical, AppendIsAppendEvent DEF Log!Next
<1>3. ASSUME NEW p \in Procs, Cut(p) PROVE [Log!Next]_Log!vars
  BY <1>3, LogicalType, CutIsDismissEvents DEF Log!Next, Inv
<1>4. ASSUME NEW p \in Procs, CompactFile(p) PROVE [Log!Next]_Log!vars
  BY <1>4, CompactLogical, CountFollowsBatch DEF CompactFile, history, Log!vars
<1>5. ASSUME NEW p \in Procs, CompactEntry(p) PROVE [Log!Next]_Log!vars
  BY <1>5, EntryLogical, CountFollowsBatch DEF CompactEntry, history, Log!vars
<1> QED BY <1>1, <1>2, <1>3, <1>4, <1>5, MostlyFrame

LEMMA InitIsLogInit ==
  ASSUME Init
  PROVE  Log!Init
  BY DEF Init, Nothing, NoTombstone, NoPending, Log!Init, Logical, Shown, EffectiveCount

\* Every step of the store, deaths of processes included, appends one event to
\* the log, dismisses some at one instant, or changes nothing an agent can see.
THEOREM StoreImplementsLog == Spec => ImplementsLog
<1>1. Init => Log!Init
  BY InitIsLogInit
<1>2. Inv /\ [Next]_vars => [Log!Next]_Log!vars
  BY NextIsMove, MovesImplementLog DEF Inv
<1> QED BY <1>1, <1>2, InvHolds, PTL DEF Spec, ImplementsLog, Log!Spec

=============================================================================

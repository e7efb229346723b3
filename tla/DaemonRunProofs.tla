--------------------------- MODULE DaemonRunProofs ---------------------------
(***************************************************************************)
(* Proofs about DaemonRun for every number of agent processes and of       *)
(* refusals of the notification store.                                     *)
(***************************************************************************)
EXTENDS DaemonRun, TLAPS

\* Throughout, the groups of variables are expanded, and the tests of where a
\* thread is.
USE DEF disk, marks, lock, notice, agent, sup, vars, SupAt, WatchAt, ChildAt, Free,
        Threads, Verdicts

\* Only a terminal transaction keeps the lock to move the markers.
LockIsTerminal == lockedBy # None => fate # "running"

\* A run without a verdict has its running marker.
RunningIsMarked == fate = "running" => runningMark

\* What is on record of the child at each point of its supervisor, and that
\* the supervisor waits for a child it can terminate.
ChildOnRecord ==
  /\ agentPc = "launch" => supPc = "off"
  /\ supPc \in {"off", "boot", "spawn"} => childPc = "off" /\ execution = "none"
  /\ supPc \in {"check", "record"} => execution \in {"spawned", "registered"}
  /\ supPc \in {"await", "kill", "watch", "verdict"}
       => execution \in {"recorded", "registered"}
  /\ supPc = "verdict" => childPc = "ended"
  /\ supPc = "kill" => fate # "running"

\* Notices come after the verdict and tell it, receipts come after the notice.
NoticeAfterVerdict ==
  /\ agentPc \in {"remark", "publish", "confirm"} => fate # "running"
  /\ supPc = "confirm" \/ agentPc = "confirm" => posted > 0
  /\ event # None => event = fate /\ fate # "running" /\ posted > 0

\* The variables that are Boolean, which the proofs of TypeOK treat first.
FlagsOK ==
  {claimed, receipt, runningMark, pendingMark, torn, cancelEvent} \subseteq BOOLEAN

Inv ==
  /\ TypeOK /\ LockIsTerminal /\ RunningIsMarked /\ UnresolvedIsMarked
  /\ ChildOnRecord /\ PublisherLeavesNoChild /\ NoticeAfterVerdict

-----------------------------------------------------------------------------
\* A verdict is written once, and then the lock is kept; a second verdict
\* changes nothing.
LEMMA MarkTerminalFacts ==
  ASSUME TypeOK, NEW t \in Threads, NEW verdict \in Verdicts, NEW error,
         MarkTerminal(t, verdict, error)
  PROVE  /\ lockedBy = None /\ syncStep = "none"
         /\ fate' \in Verdicts /\ fate' # "running"
         /\ fate # "running" => fate' = fate
         /\ why' \in {why, error}
         /\ UNCHANGED <<owner, execution, claimed, receipt, runningMark,
                        pendingMark, torn>>
         /\ \/ lockedBy' = None /\ syncStep' = "none"
            \/ lockedBy' = t /\ syncStep' = "clearRunning"
  BY RunConstants DEF MarkTerminal, Persist, TypeOK

\* A transaction that leaves the verdict alone.
LEMMA PersistFacts ==
  ASSUME Inv, NEW t \in Threads, Free, fate' = fate, Persist(t)
  PROVE  /\ lockedBy = None /\ syncStep = "none" /\ torn' = torn
         /\ \/ /\ fate = "running" /\ runningMark' = TRUE /\ runningMark
               /\ pendingMark' = FALSE /\ lockedBy' = None /\ syncStep' = "none"
            \/ /\ fate # "running" /\ UNCHANGED <<runningMark, pendingMark>>
               /\ lockedBy' = t /\ syncStep' = "clearRunning"
  BY DEF Inv, TypeOK, RunningIsMarked, Persist

-----------------------------------------------------------------------------
(* Each step of the agent                                                  *)

LEMMA LaunchKeepsInv ==
  ASSUME Inv, Launch
  PROVE  Inv'
  <1> USE RunConstants, MarkTerminalFacts DEF Launch, Inv, TypeOK
  <1>1. TypeOK'
    <2>1. FlagsOK' BY DEF FlagsOK
    <2> QED BY <2>1 DEF FlagsOK, AgentPcs, SupPcs
  <1>2. LockIsTerminal' BY DEF LockIsTerminal
  <1>3. RunningIsMarked' BY DEF RunningIsMarked, LockIsTerminal
  <1>4. UnresolvedIsMarked' BY DEF UnresolvedIsMarked
  <1>5. ChildOnRecord' BY DEF ChildOnRecord
  <1>6. PublisherLeavesNoChild' BY DEF PublisherLeavesNoChild, ChildOnRecord
  <1>7. NoticeAfterVerdict' BY DEF NoticeAfterVerdict, PublisherLeavesNoChild
  <1> QED BY <1>1, <1>2, <1>3, <1>4, <1>5, <1>6, <1>7

LEMMA AwaitStartupKeepsInv ==
  ASSUME Inv, AwaitStartup
  PROVE  Inv'
  BY RunConstants, MarkTerminalFacts DEF AwaitStartup, Inv, TypeOK,
    LockIsTerminal, RunningIsMarked, UnresolvedIsMarked, ChildOnRecord,
    PublisherLeavesNoChild, NoticeAfterVerdict, AgentPcs, SupPcs

LEMMA RecoverRunningKeepsInv ==
  ASSUME Inv, RecoverRunning
  PROVE  Inv'
  <1> USE RunConstants DEF RecoverRunning, SupAlive, Inv, TypeOK
  <1>1. TypeOK'
    <2>1. FlagsOK' BY DEF FlagsOK
    <2> QED BY <2>1 DEF FlagsOK, AgentPcs, SupPcs
  <1>2. LockIsTerminal' BY DEF LockIsTerminal
  <1>3. RunningIsMarked' BY DEF RunningIsMarked, LockIsTerminal
  <1>4. UnresolvedIsMarked' BY DEF UnresolvedIsMarked
  <1>5. ChildOnRecord' BY DEF ChildOnRecord
  <1>6. PublisherLeavesNoChild' BY DEF PublisherLeavesNoChild, ChildOnRecord
  <1>7. NoticeAfterVerdict' BY DEF NoticeAfterVerdict, PublisherLeavesNoChild
  <1> QED BY <1>1, <1>2, <1>3, <1>4, <1>5, <1>6, <1>7

LEMMA RemarkPendingKeepsInv ==
  ASSUME Inv, RemarkPending
  PROVE  Inv'
  <1> USE RunConstants DEF RemarkPending, Inv, TypeOK
  <1>1. TypeOK'
    <2>1. FlagsOK' BY DEF FlagsOK
    <2> QED BY <2>1 DEF FlagsOK, AgentPcs, SupPcs
  <1>2. LockIsTerminal' BY DEF LockIsTerminal
  <1>3. RunningIsMarked' BY DEF RunningIsMarked, LockIsTerminal
  <1>4. UnresolvedIsMarked' BY DEF UnresolvedIsMarked
  <1>5. ChildOnRecord' BY DEF ChildOnRecord
  <1>6. PublisherLeavesNoChild' BY DEF PublisherLeavesNoChild, ChildOnRecord
  <1>7. NoticeAfterVerdict' BY DEF NoticeAfterVerdict, PublisherLeavesNoChild
  <1> QED BY <1>1, <1>2, <1>3, <1>4, <1>5, <1>6, <1>7

LEMMA ReapKeepsInv ==
  ASSUME Inv, Reap
  PROVE  Inv'
  BY RunConstants, MarkTerminalFacts DEF Reap, Inv, TypeOK, LockIsTerminal,
    RunningIsMarked, UnresolvedIsMarked, ChildOnRecord, PublisherLeavesNoChild,
    NoticeAfterVerdict, AgentPcs, SupPcs

LEMMA RecoverPendingKeepsInv ==
  ASSUME Inv, RecoverPending
  PROVE  Inv'
  <1> USE RunConstants DEF RecoverPending, Inv, TypeOK
  <1>1. TypeOK'
    <2>1. FlagsOK' BY DEF FlagsOK
    <2> QED BY <2>1 DEF FlagsOK, AgentPcs, SupPcs
  <1>2. LockIsTerminal' BY DEF LockIsTerminal
  <1>3. RunningIsMarked' BY DEF RunningIsMarked, LockIsTerminal
  <1>4. UnresolvedIsMarked' BY DEF UnresolvedIsMarked
  <1>5. ChildOnRecord' BY DEF ChildOnRecord
  <1>6. PublisherLeavesNoChild' BY DEF PublisherLeavesNoChild, ChildOnRecord
  <1>7. NoticeAfterVerdict' BY DEF NoticeAfterVerdict, PublisherLeavesNoChild
  <1> QED BY <1>1, <1>2, <1>3, <1>4, <1>5, <1>6, <1>7

LEMMA AgentPublishKeepsInv ==
  ASSUME Inv, AgentPublish
  PROVE  Inv'
  BY RunConstants DEF AgentPublish, StoreAccepts, StoreRefuses, Post, Inv, TypeOK,
    LockIsTerminal, RunningIsMarked, UnresolvedIsMarked, ChildOnRecord,
    PublisherLeavesNoChild, NoticeAfterVerdict, AgentPcs, SupPcs

LEMMA AgentConfirmKeepsInv ==
  ASSUME Inv, AgentConfirm
  PROVE  Inv'
  <1> USE RunConstants DEF AgentConfirm, Inv, TypeOK
  <1>1. TypeOK'
    <2>1. FlagsOK' BY DEF FlagsOK
    <2> QED BY <2>1 DEF FlagsOK, AgentPcs, SupPcs
  <1>2. LockIsTerminal' BY DEF LockIsTerminal
  <1>3. RunningIsMarked' BY DEF RunningIsMarked, LockIsTerminal
  <1>4. UnresolvedIsMarked' BY DEF UnresolvedIsMarked
  <1>5. ChildOnRecord' BY DEF ChildOnRecord
  <1>6. PublisherLeavesNoChild' BY DEF PublisherLeavesNoChild, ChildOnRecord
  <1>7. NoticeAfterVerdict' BY DEF NoticeAfterVerdict, PublisherLeavesNoChild
  <1> QED BY <1>1, <1>2, <1>3, <1>4, <1>5, <1>6, <1>7

LEMMA AgentReadyKeepsInv ==
  ASSUME Inv, AgentReady
  PROVE  Inv'
  BY RunConstants DEF AgentReady, Inv, TypeOK, LockIsTerminal, RunningIsMarked,
    UnresolvedIsMarked, ChildOnRecord, PublisherLeavesNoChild, NoticeAfterVerdict,
    AgentPcs, SupPcs

LEMMA RequestReclaimKeepsInv ==
  ASSUME Inv, RequestReclaim
  PROVE  Inv'
  BY RunConstants DEF RequestReclaim, SupAlive, Inv, TypeOK, LockIsTerminal,
    RunningIsMarked, UnresolvedIsMarked, ChildOnRecord, PublisherLeavesNoChild,
    NoticeAfterVerdict, AgentPcs, SupPcs

LEMMA DismissNoticeKeepsInv ==
  ASSUME Inv, DismissNotice
  PROVE  Inv'
  BY RunConstants DEF DismissNotice, Inv, TypeOK, LockIsTerminal, RunningIsMarked,
    UnresolvedIsMarked, ChildOnRecord, PublisherLeavesNoChild, NoticeAfterVerdict,
    AgentPcs, SupPcs

LEMMA AgentStartKeepsInv ==
  ASSUME Inv, AgentStart
  PROVE  Inv'
  BY RunConstants DEF AgentStart, Inv, TypeOK, LockIsTerminal, RunningIsMarked,
    UnresolvedIsMarked, ChildOnRecord, PublisherLeavesNoChild, NoticeAfterVerdict,
    AgentPcs, SupPcs

LEMMA AgentCrashKeepsInv ==
  ASSUME Inv, AgentCrash
  PROVE  Inv'
  <1> USE RunConstants DEF AgentCrash, DropLock, Inv, TypeOK
  <1>1. TypeOK'
    <2>1. FlagsOK' BY DEF FlagsOK
    <2> QED BY <2>1 DEF FlagsOK, AgentPcs, SupPcs
  <1>2. LockIsTerminal' BY DEF LockIsTerminal
  <1>3. RunningIsMarked' BY DEF RunningIsMarked, LockIsTerminal
  <1>4. UnresolvedIsMarked' BY DEF UnresolvedIsMarked
  <1>5. ChildOnRecord' BY DEF ChildOnRecord
  <1>6. PublisherLeavesNoChild' BY DEF PublisherLeavesNoChild, ChildOnRecord
  <1>7. NoticeAfterVerdict' BY DEF NoticeAfterVerdict, PublisherLeavesNoChild
  <1> QED BY <1>1, <1>2, <1>3, <1>4, <1>5, <1>6, <1>7

-----------------------------------------------------------------------------
(* Each step of the supervisor                                             *)

LEMMA SupRecordsItselfKeepsInv ==
  ASSUME Inv, SupRecordsItself
  PROVE  Inv'
  <1> USE RunConstants DEF SupRecordsItself, Inv, TypeOK
  <1>1. TypeOK'
    <2>1. FlagsOK' BY PersistFacts DEF FlagsOK
    <2>2. /\ lockedBy' \in Threads \union {None}
          /\ syncStep' \in {"none", "clearRunning", "settlePending"}
          /\ (lockedBy' = None) <=> (syncStep' = "none")
      BY PersistFacts
    <2> QED BY <2>1, <2>2 DEF FlagsOK, AgentPcs, SupPcs
  <1>2. LockIsTerminal' BY PersistFacts DEF LockIsTerminal
  <1>3. RunningIsMarked' BY PersistFacts DEF RunningIsMarked, LockIsTerminal
  <1>4. UnresolvedIsMarked' BY PersistFacts DEF UnresolvedIsMarked
  <1>5. ChildOnRecord' BY DEF ChildOnRecord
  <1>6. PublisherLeavesNoChild' BY DEF PublisherLeavesNoChild, ChildOnRecord
  <1>7. NoticeAfterVerdict' BY DEF NoticeAfterVerdict, PublisherLeavesNoChild
  <1> QED BY <1>1, <1>2, <1>3, <1>4, <1>5, <1>6, <1>7

LEMMA SupSpawnsKeepsInv ==
  ASSUME Inv, SupSpawns
  PROVE  Inv'
  <1> USE RunConstants, MarkTerminalFacts DEF SupSpawns, Inv, TypeOK
  <1>1. TypeOK'
    <2>1. FlagsOK' BY PersistFacts DEF FlagsOK
    <2>2. /\ lockedBy' \in Threads \union {None}
          /\ syncStep' \in {"none", "clearRunning", "settlePending"}
          /\ (lockedBy' = None) <=> (syncStep' = "none")
      BY PersistFacts
    <2> QED BY <2>1, <2>2 DEF FlagsOK, AgentPcs, SupPcs
  <1>2. LockIsTerminal' BY PersistFacts DEF LockIsTerminal
  <1>3. RunningIsMarked' BY PersistFacts DEF RunningIsMarked, LockIsTerminal
  <1>4. UnresolvedIsMarked' BY PersistFacts DEF UnresolvedIsMarked
  <1>5. ChildOnRecord' BY PersistFacts DEF ChildOnRecord
  <1>6. PublisherLeavesNoChild' BY PersistFacts DEF PublisherLeavesNoChild,
      ChildOnRecord
  <1>7. NoticeAfterVerdict' BY PersistFacts DEF NoticeAfterVerdict,
      PublisherLeavesNoChild
  <1> QED BY <1>1, <1>2, <1>3, <1>4, <1>5, <1>6, <1>7

LEMMA SupChecksKeepsInv ==
  ASSUME Inv, SupChecks
  PROVE  Inv'
  BY RunConstants DEF SupChecks, Inv, TypeOK, LockIsTerminal, RunningIsMarked,
    UnresolvedIsMarked, ChildOnRecord, PublisherLeavesNoChild, NoticeAfterVerdict,
    AgentPcs, SupPcs

LEMMA SupRecordsChildKeepsInv ==
  ASSUME Inv, SupRecordsChild
  PROVE  Inv'
  <1> USE RunConstants DEF SupRecordsChild, Inv, TypeOK
  <1>1. TypeOK'
    <2>1. FlagsOK' BY PersistFacts DEF FlagsOK
    <2>2. /\ lockedBy' \in Threads \union {None}
          /\ syncStep' \in {"none", "clearRunning", "settlePending"}
          /\ (lockedBy' = None) <=> (syncStep' = "none")
      BY PersistFacts
    <2> QED BY <2>1, <2>2 DEF FlagsOK, AgentPcs, SupPcs
  <1>2. LockIsTerminal' BY PersistFacts DEF LockIsTerminal
  <1>3. RunningIsMarked' BY PersistFacts DEF RunningIsMarked, LockIsTerminal
  <1>4. UnresolvedIsMarked' BY PersistFacts DEF UnresolvedIsMarked
  <1>5. ChildOnRecord' BY DEF ChildOnRecord
  <1>6. PublisherLeavesNoChild' BY DEF PublisherLeavesNoChild, ChildOnRecord
  <1>7. NoticeAfterVerdict' BY DEF NoticeAfterVerdict, PublisherLeavesNoChild
  <1> QED BY <1>1, <1>2, <1>3, <1>4, <1>5, <1>6, <1>7

LEMMA SupSeesRegistrationKeepsInv ==
  ASSUME Inv, SupSeesRegistration
  PROVE  Inv'
  BY RunConstants DEF SupSeesRegistration, Inv, TypeOK, LockIsTerminal,
    RunningIsMarked, UnresolvedIsMarked, ChildOnRecord, PublisherLeavesNoChild,
    NoticeAfterVerdict, AgentPcs, SupPcs

LEMMA SupGivesUpKeepsInv ==
  ASSUME Inv, SupGivesUp
  PROVE  Inv'
  BY RunConstants, MarkTerminalFacts DEF SupGivesUp, Inv, TypeOK, LockIsTerminal,
    RunningIsMarked, UnresolvedIsMarked, ChildOnRecord, PublisherLeavesNoChild,
    NoticeAfterVerdict, AgentPcs, SupPcs

LEMMA SupKillsKeepsInv ==
  ASSUME Inv, SupKills
  PROVE  Inv'
  <1> USE RunConstants DEF SupKills, TerminateChild, DropLock, Inv, TypeOK
  <1>1. TypeOK'
    <2>1. FlagsOK' BY DEF FlagsOK
    <2> QED BY <2>1 DEF FlagsOK, AgentPcs, SupPcs
  <1>2. LockIsTerminal' BY DEF LockIsTerminal
  <1>3. RunningIsMarked' BY DEF RunningIsMarked, LockIsTerminal
  <1>4. UnresolvedIsMarked' BY DEF UnresolvedIsMarked
  <1>5. ChildOnRecord' BY DEF ChildOnRecord
  <1>6. PublisherLeavesNoChild' BY DEF PublisherLeavesNoChild, ChildOnRecord
  <1>7. NoticeAfterVerdict' BY DEF NoticeAfterVerdict, PublisherLeavesNoChild
  <1> QED BY <1>1, <1>2, <1>3, <1>4, <1>5, <1>6, <1>7

LEMMA SupSeesExitKeepsInv ==
  ASSUME Inv, SupSeesExit
  PROVE  Inv'
  BY RunConstants DEF SupSeesExit, Inv, TypeOK, LockIsTerminal, RunningIsMarked,
    UnresolvedIsMarked, ChildOnRecord, PublisherLeavesNoChild, NoticeAfterVerdict,
    AgentPcs, SupPcs

LEMMA SupVerdictKeepsInv ==
  ASSUME Inv, SupVerdict
  PROVE  Inv'
  BY RunConstants, MarkTerminalFacts DEF SupVerdict, Inv, TypeOK, LockIsTerminal,
    RunningIsMarked, UnresolvedIsMarked, ChildOnRecord, PublisherLeavesNoChild,
    NoticeAfterVerdict, AgentPcs, SupPcs

LEMMA SupClaimsKeepsInv ==
  ASSUME Inv, SupClaims
  PROVE  Inv'
  <1> USE RunConstants DEF SupClaims, Inv, TypeOK
  <1>1. TypeOK'
    <2>1. FlagsOK' BY PersistFacts DEF FlagsOK
    <2>2. /\ lockedBy' \in Threads \union {None}
          /\ syncStep' \in {"none", "clearRunning", "settlePending"}
          /\ (lockedBy' = None) <=> (syncStep' = "none")
      BY PersistFacts
    <2> QED BY <2>1, <2>2 DEF FlagsOK, AgentPcs, SupPcs
  <1>2. LockIsTerminal' BY PersistFacts DEF LockIsTerminal
  <1>3. RunningIsMarked' BY PersistFacts DEF RunningIsMarked, LockIsTerminal
  <1>4. UnresolvedIsMarked' BY PersistFacts DEF UnresolvedIsMarked
  <1>5. ChildOnRecord' BY DEF ChildOnRecord
  <1>6. PublisherLeavesNoChild' BY DEF PublisherLeavesNoChild, ChildOnRecord
  <1>7. NoticeAfterVerdict' BY DEF NoticeAfterVerdict, PublisherLeavesNoChild
  <1> QED BY <1>1, <1>2, <1>3, <1>4, <1>5, <1>6, <1>7

LEMMA SupPublishesKeepsInv ==
  ASSUME Inv, SupPublishes
  PROVE  Inv'
  BY RunConstants DEF SupPublishes, StoreAccepts, StoreRefuses, Post, Inv, TypeOK,
    LockIsTerminal, RunningIsMarked, UnresolvedIsMarked, ChildOnRecord,
    PublisherLeavesNoChild, NoticeAfterVerdict, AgentPcs, SupPcs

LEMMA SupConfirmsKeepsInv ==
  ASSUME Inv, SupConfirms
  PROVE  Inv'
  <1> USE RunConstants DEF SupConfirms, Inv, TypeOK
  <1>1. TypeOK'
    <2>1. FlagsOK' BY PersistFacts DEF FlagsOK
    <2>2. /\ lockedBy' \in Threads \union {None}
          /\ syncStep' \in {"none", "clearRunning", "settlePending"}
          /\ (lockedBy' = None) <=> (syncStep' = "none")
      BY PersistFacts
    <2> QED BY <2>1, <2>2 DEF FlagsOK, AgentPcs, SupPcs
  <1>2. LockIsTerminal' BY PersistFacts DEF LockIsTerminal
  <1>3. RunningIsMarked' BY PersistFacts DEF RunningIsMarked, LockIsTerminal
  <1>4. UnresolvedIsMarked' BY PersistFacts DEF UnresolvedIsMarked
  <1>5. ChildOnRecord' BY DEF ChildOnRecord
  <1>6. PublisherLeavesNoChild' BY DEF PublisherLeavesNoChild, ChildOnRecord
  <1>7. NoticeAfterVerdict' BY DEF NoticeAfterVerdict, PublisherLeavesNoChild
  <1> QED BY <1>1, <1>2, <1>3, <1>4, <1>5, <1>6, <1>7

LEMMA SupUnclaimsKeepsInv ==
  ASSUME Inv, SupUnclaims
  PROVE  Inv'
  <1> USE RunConstants DEF SupUnclaims, Inv, TypeOK
  <1>1. TypeOK'
    <2>1. FlagsOK' BY PersistFacts DEF FlagsOK
    <2>2. /\ lockedBy' \in Threads \union {None}
          /\ syncStep' \in {"none", "clearRunning", "settlePending"}
          /\ (lockedBy' = None) <=> (syncStep' = "none")
      BY PersistFacts
    <2> QED BY <2>1, <2>2 DEF FlagsOK, AgentPcs, SupPcs
  <1>2. LockIsTerminal' BY PersistFacts DEF LockIsTerminal
  <1>3. RunningIsMarked' BY PersistFacts DEF RunningIsMarked, LockIsTerminal
  <1>4. UnresolvedIsMarked' BY PersistFacts DEF UnresolvedIsMarked
  <1>5. ChildOnRecord' BY DEF ChildOnRecord
  <1>6. PublisherLeavesNoChild' BY DEF PublisherLeavesNoChild, ChildOnRecord
  <1>7. NoticeAfterVerdict' BY DEF NoticeAfterVerdict, PublisherLeavesNoChild
  <1> QED BY <1>1, <1>2, <1>3, <1>4, <1>5, <1>6, <1>7

LEMMA SupExitsKeepsInv ==
  ASSUME Inv, SupExits
  PROVE  Inv'
  <1> USE RunConstants DEF SupExits, DropLock, Inv, TypeOK
  <1>1. TypeOK'
    <2>1. FlagsOK' BY DEF FlagsOK
    <2> QED BY <2>1 DEF FlagsOK, AgentPcs, SupPcs
  <1>2. LockIsTerminal' BY DEF LockIsTerminal
  <1>3. RunningIsMarked' BY DEF RunningIsMarked, LockIsTerminal
  <1>4. UnresolvedIsMarked' BY DEF UnresolvedIsMarked
  <1>5. ChildOnRecord' BY DEF ChildOnRecord
  <1>6. PublisherLeavesNoChild' BY DEF PublisherLeavesNoChild, ChildOnRecord
  <1>7. NoticeAfterVerdict' BY DEF NoticeAfterVerdict, PublisherLeavesNoChild
  <1> QED BY <1>1, <1>2, <1>3, <1>4, <1>5, <1>6, <1>7

LEMMA SupCrashKeepsInv ==
  ASSUME Inv, SupCrash
  PROVE  Inv'
  <1> USE RunConstants DEF SupCrash, DropLock, SupAlive, Inv, TypeOK
  <1>1. TypeOK'
    <2>1. FlagsOK' BY DEF FlagsOK
    <2> QED BY <2>1 DEF FlagsOK, AgentPcs, SupPcs
  <1>2. LockIsTerminal' BY DEF LockIsTerminal
  <1>3. RunningIsMarked' BY DEF RunningIsMarked, LockIsTerminal
  <1>4. UnresolvedIsMarked' BY DEF UnresolvedIsMarked
  <1>5. ChildOnRecord' BY DEF ChildOnRecord
  <1>6. PublisherLeavesNoChild' BY DEF PublisherLeavesNoChild, ChildOnRecord
  <1>7. NoticeAfterVerdict' BY DEF NoticeAfterVerdict, PublisherLeavesNoChild
  <1> QED BY <1>1, <1>2, <1>3, <1>4, <1>5, <1>6, <1>7

-----------------------------------------------------------------------------
(* Each step of the watcher                                                *)

LEMMA DeadlinePassesKeepsInv ==
  ASSUME Inv, DeadlinePasses
  PROVE  Inv'
  BY RunConstants, MarkTerminalFacts DEF DeadlinePasses, Inv, TypeOK,
    LockIsTerminal, RunningIsMarked, UnresolvedIsMarked, ChildOnRecord,
    PublisherLeavesNoChild, NoticeAfterVerdict, AgentPcs, SupPcs

LEMMA WatchReadsRequestKeepsInv ==
  ASSUME Inv, WatchReadsRequest
  PROVE  Inv'
  BY RunConstants DEF WatchReadsRequest, Inv, TypeOK, LockIsTerminal,
    RunningIsMarked, UnresolvedIsMarked, ChildOnRecord, PublisherLeavesNoChild,
    NoticeAfterVerdict, AgentPcs, SupPcs

LEMMA WatchCancelsKeepsInv ==
  ASSUME Inv, WatchCancels
  PROVE  Inv'
  BY RunConstants, MarkTerminalFacts DEF WatchCancels, Inv, TypeOK,
    LockIsTerminal, RunningIsMarked, UnresolvedIsMarked, ChildOnRecord,
    PublisherLeavesNoChild, NoticeAfterVerdict, AgentPcs, SupPcs

LEMMA WatchKillsKeepsInv ==
  ASSUME Inv, WatchKills
  PROVE  Inv'
  <1> USE RunConstants DEF WatchKills, TerminateChild, DropLock, Inv, TypeOK
  <1>1. TypeOK'
    <2>1. FlagsOK' BY DEF FlagsOK
    <2> QED BY <2>1 DEF FlagsOK, AgentPcs, SupPcs
  <1>2. LockIsTerminal' BY DEF LockIsTerminal
  <1>3. RunningIsMarked' BY DEF RunningIsMarked, LockIsTerminal
  <1>4. UnresolvedIsMarked' BY DEF UnresolvedIsMarked
  <1>5. ChildOnRecord' BY DEF ChildOnRecord
  <1>6. PublisherLeavesNoChild' BY DEF PublisherLeavesNoChild, ChildOnRecord
  <1>7. NoticeAfterVerdict' BY DEF NoticeAfterVerdict, PublisherLeavesNoChild
  <1> QED BY <1>1, <1>2, <1>3, <1>4, <1>5, <1>6, <1>7

LEMMA WatchStopsKeepsInv ==
  ASSUME Inv, WatchStops
  PROVE  Inv'
  BY RunConstants DEF WatchStops, Inv, TypeOK, LockIsTerminal, RunningIsMarked,
    UnresolvedIsMarked, ChildOnRecord, PublisherLeavesNoChild, NoticeAfterVerdict,
    AgentPcs, SupPcs

-----------------------------------------------------------------------------
(* Each step of the execution child                                        *)

LEMMA ChildRegistersKeepsInv ==
  ASSUME Inv, ChildRegisters
  PROVE  Inv'
  <1> USE RunConstants DEF ChildRegisters, Inv, TypeOK
  <1>1. TypeOK'
    <2>1. FlagsOK' BY PersistFacts DEF FlagsOK
    <2>2. /\ lockedBy' \in Threads \union {None}
          /\ syncStep' \in {"none", "clearRunning", "settlePending"}
          /\ (lockedBy' = None) <=> (syncStep' = "none")
      BY PersistFacts
    <2> QED BY <2>1, <2>2 DEF FlagsOK, AgentPcs, SupPcs
  <1>2. LockIsTerminal' BY PersistFacts DEF LockIsTerminal
  <1>3. RunningIsMarked' BY PersistFacts DEF RunningIsMarked, LockIsTerminal
  <1>4. UnresolvedIsMarked' BY PersistFacts DEF UnresolvedIsMarked
  <1>5. ChildOnRecord' BY DEF ChildOnRecord
  <1>6. PublisherLeavesNoChild' BY DEF PublisherLeavesNoChild, ChildOnRecord
  <1>7. NoticeAfterVerdict' BY DEF NoticeAfterVerdict, PublisherLeavesNoChild
  <1> QED BY <1>1, <1>2, <1>3, <1>4, <1>5, <1>6, <1>7

LEMMA ChildFinishesKeepsInv ==
  ASSUME Inv, ChildFinishes
  PROVE  Inv'
  BY RunConstants, MarkTerminalFacts DEF ChildFinishes, Inv, TypeOK,
    LockIsTerminal, RunningIsMarked, UnresolvedIsMarked, ChildOnRecord,
    PublisherLeavesNoChild, NoticeAfterVerdict, AgentPcs, SupPcs

LEMMA ChildExitsKeepsInv ==
  ASSUME Inv, ChildExits
  PROVE  Inv'
  BY RunConstants DEF ChildExits, Inv, TypeOK, LockIsTerminal, RunningIsMarked,
    UnresolvedIsMarked, ChildOnRecord, PublisherLeavesNoChild, NoticeAfterVerdict,
    AgentPcs, SupPcs

LEMMA ChildCrashKeepsInv ==
  ASSUME Inv, ChildCrash
  PROVE  Inv'
  <1> USE RunConstants DEF ChildCrash, DropLock, Inv, TypeOK
  <1>1. TypeOK'
    <2>1. FlagsOK' BY DEF FlagsOK
    <2> QED BY <2>1 DEF FlagsOK, AgentPcs, SupPcs
  <1>2. LockIsTerminal' BY DEF LockIsTerminal
  <1>3. RunningIsMarked' BY DEF RunningIsMarked, LockIsTerminal
  <1>4. UnresolvedIsMarked' BY DEF UnresolvedIsMarked
  <1>5. ChildOnRecord' BY DEF ChildOnRecord
  <1>6. PublisherLeavesNoChild' BY DEF PublisherLeavesNoChild, ChildOnRecord
  <1>7. NoticeAfterVerdict' BY DEF NoticeAfterVerdict, PublisherLeavesNoChild
  <1> QED BY <1>1, <1>2, <1>3, <1>4, <1>5, <1>6, <1>7

-----------------------------------------------------------------------------
\* The second half of a terminal transaction, of any of the four.
LEMMA SyncKeepsInv ==
  ASSUME Inv, NEW t \in Threads, SyncRecovery(t)
  PROVE  Inv'
  <1> USE RunConstants DEF SyncRecovery, Inv, TypeOK
  <1>1. TypeOK'
    <2>1. FlagsOK' BY DEF FlagsOK
    <2> QED BY <2>1 DEF FlagsOK, AgentPcs, SupPcs
  <1>2. LockIsTerminal' BY DEF LockIsTerminal
  <1>3. RunningIsMarked' BY DEF RunningIsMarked, LockIsTerminal
  <1>4. UnresolvedIsMarked' BY DEF UnresolvedIsMarked
  <1>5. ChildOnRecord' BY DEF ChildOnRecord
  <1>6. PublisherLeavesNoChild' BY DEF PublisherLeavesNoChild, ChildOnRecord
  <1>7. NoticeAfterVerdict' BY DEF NoticeAfterVerdict, PublisherLeavesNoChild
  <1> QED BY <1>1, <1>2, <1>3, <1>4, <1>5, <1>6, <1>7

-----------------------------------------------------------------------------
\* Every step of the system keeps the invariant.
LEMMA InvKept ==
  ASSUME Inv, [Next]_vars
  PROVE  Inv'
  <1>1. CASE Launch BY <1>1, LaunchKeepsInv
  <1>2. CASE AwaitStartup BY <1>2, AwaitStartupKeepsInv
  <1>3. CASE RecoverRunning BY <1>3, RecoverRunningKeepsInv
  <1>4. CASE RemarkPending BY <1>4, RemarkPendingKeepsInv
  <1>5. CASE Reap BY <1>5, ReapKeepsInv
  <1>6. CASE RecoverPending BY <1>6, RecoverPendingKeepsInv
  <1>7. CASE AgentPublish BY <1>7, AgentPublishKeepsInv
  <1>8. CASE AgentConfirm BY <1>8, AgentConfirmKeepsInv
  <1>9. CASE AgentReady BY <1>9, AgentReadyKeepsInv
  <1>10. CASE RequestReclaim BY <1>10, RequestReclaimKeepsInv
  <1>11. CASE DismissNotice BY <1>11, DismissNoticeKeepsInv
  <1>12. CASE AgentStart BY <1>12, AgentStartKeepsInv
  <1>13. CASE AgentCrash BY <1>13, AgentCrashKeepsInv
  <1>14. CASE SupRecordsItself BY <1>14, SupRecordsItselfKeepsInv
  <1>15. CASE SupSpawns BY <1>15, SupSpawnsKeepsInv
  <1>16. CASE SupChecks BY <1>16, SupChecksKeepsInv
  <1>17. CASE SupRecordsChild BY <1>17, SupRecordsChildKeepsInv
  <1>18. CASE SupSeesRegistration BY <1>18, SupSeesRegistrationKeepsInv
  <1>19. CASE SupGivesUp BY <1>19, SupGivesUpKeepsInv
  <1>20. CASE SupKills BY <1>20, SupKillsKeepsInv
  <1>21. CASE SupSeesExit BY <1>21, SupSeesExitKeepsInv
  <1>22. CASE SupVerdict BY <1>22, SupVerdictKeepsInv
  <1>23. CASE SupClaims BY <1>23, SupClaimsKeepsInv
  <1>24. CASE SupPublishes BY <1>24, SupPublishesKeepsInv
  <1>25. CASE SupConfirms BY <1>25, SupConfirmsKeepsInv
  <1>26. CASE SupUnclaims BY <1>26, SupUnclaimsKeepsInv
  <1>27. CASE SupExits BY <1>27, SupExitsKeepsInv
  <1>28. CASE SupCrash BY <1>28, SupCrashKeepsInv
  <1>29. CASE DeadlinePasses BY <1>29, DeadlinePassesKeepsInv
  <1>30. CASE WatchReadsRequest BY <1>30, WatchReadsRequestKeepsInv
  <1>31. CASE WatchCancels BY <1>31, WatchCancelsKeepsInv
  <1>32. CASE WatchKills BY <1>32, WatchKillsKeepsInv
  <1>33. CASE WatchStops BY <1>33, WatchStopsKeepsInv
  <1>34. CASE ChildRegisters BY <1>34, ChildRegistersKeepsInv
  <1>35. CASE ChildFinishes BY <1>35, ChildFinishesKeepsInv
  <1>36. CASE ChildExits BY <1>36, ChildExitsKeepsInv
  <1>37. CASE ChildCrash BY <1>37, ChildCrashKeepsInv
  <1>38. CASE \E t \in Threads : SyncRecovery(t) BY <1>38, SyncKeepsInv
  <1>39. CASE UNCHANGED vars BY <1>39 DEF Inv, TypeOK, LockIsTerminal,
      RunningIsMarked, UnresolvedIsMarked, ChildOnRecord, PublisherLeavesNoChild,
      NoticeAfterVerdict
  <1> QED BY <1>1, <1>2, <1>3, <1>4, <1>5, <1>6, <1>7, <1>8, <1>9, <1>10, <1>11,
      <1>12, <1>13, <1>14, <1>15, <1>16, <1>17, <1>18, <1>19, <1>20, <1>21, <1>22,
      <1>23, <1>24, <1>25, <1>26, <1>27, <1>28, <1>29, <1>30, <1>31, <1>32, <1>33,
      <1>34, <1>35, <1>36, <1>37, <1>38, <1>39 DEF Next, AgentStep, SupStep,
      WatchStep, ChildStep

\* The inductive invariant holds in every reachable state.
THEOREM Invariant == Spec => []Inv
  <1>1. Init => Inv
    <2> SUFFICES ASSUME Init PROVE Inv OBVIOUS
    <2> USE RunConstants DEF Init
    <2>1. FlagsOK BY DEF FlagsOK
    <2>2. agents \in 1..MaxAgents /\ storeFailures \in 0..MaxStoreFailures /\ posted \in Nat
      OBVIOUS
    <2>3. TypeOK BY <2>1, <2>2 DEF TypeOK, FlagsOK, AgentPcs, SupPcs
    <2> QED
      BY <2>3 DEF Inv, LockIsTerminal, RunningIsMarked, UnresolvedIsMarked,
        ChildOnRecord, PublisherLeavesNoChild, NoticeAfterVerdict
  <1>2. Inv /\ [Next]_vars => Inv' BY InvKept
  <1> QED BY <1>1, <1>2, PTL DEF Spec

\* The record, the markers and the positions of the threads are well formed, and
\* the run's file lock is held exactly while markers are being moved.
THEOREM TypeCorrect == Spec => []TypeOK
  <1>1. Inv => TypeOK BY DEF Inv
  <1> QED BY Invariant, <1>1, PTL

\* Whatever dies, a run without a receipt keeps a marker, so that the next start
\* of the agent finds it; but for a death between the two files of one
\* transaction of _sync_dispatch_recovery.
THEOREM UnresolvedRunsAreMarked == Spec => []UnresolvedIsMarked
  <1>1. Inv => UnresolvedIsMarked BY DEF Inv
  <1> QED BY Invariant, <1>1, PTL

\* A supervisor that publishes a notice leaves no working child behind, also
\* when the child registered at the moment it was given up.
THEOREM NoChildBehindTheNotice == Spec => []PublisherLeavesNoChild
  <1>1. Inv => PublisherLeavesNoChild BY DEF Inv
  <1> QED BY Invariant, <1>1, PTL

-----------------------------------------------------------------------------
\* Every step decides, announces, dismisses or acknowledges, or none of them.
LEMMA StepsImplementOutcome ==
  ASSUME Inv, [Next]_vars
  PROVE  [Outcome!Next]_Outcome!vars
  <1> USE DEF Inv, TypeOK, Outcome!Next, Outcome!vars
  <1>1. CASE Launch BY <1>1, MarkTerminalFacts DEF Launch, Outcome!Decide
  <1>2. CASE AwaitStartup BY <1>2, MarkTerminalFacts DEF AwaitStartup,
      Outcome!Decide
  <1>3. CASE RecoverRunning BY <1>3 DEF RecoverRunning
  <1>4. CASE RemarkPending BY <1>4 DEF RemarkPending
  <1>5. CASE Reap BY <1>5, MarkTerminalFacts DEF Reap, Outcome!Decide
  <1>6. CASE RecoverPending BY <1>6 DEF RecoverPending
  <1>7. CASE AgentPublish BY <1>7 DEF AgentPublish, StoreAccepts, StoreRefuses,
      Post, Outcome!Announce, NoticeAfterVerdict, PublisherLeavesNoChild
  <1>8. CASE AgentConfirm BY <1>8 DEF AgentConfirm, Outcome!Acknowledge,
      NoticeAfterVerdict
  <1>9. CASE AgentReady BY <1>9 DEF AgentReady
  <1>10. CASE RequestReclaim BY <1>10 DEF RequestReclaim
  <1>11. CASE DismissNotice BY <1>11 DEF DismissNotice, Outcome!Dismiss
  <1>12. CASE AgentStart BY <1>12 DEF AgentStart
  <1>13. CASE AgentCrash BY <1>13 DEF AgentCrash
  <1>14. CASE SupRecordsItself BY <1>14 DEF SupRecordsItself
  <1>15. CASE SupSpawns BY <1>15, MarkTerminalFacts DEF SupSpawns, Outcome!Decide
  <1>16. CASE SupChecks BY <1>16 DEF SupChecks
  <1>17. CASE SupRecordsChild BY <1>17 DEF SupRecordsChild
  <1>18. CASE SupSeesRegistration BY <1>18 DEF SupSeesRegistration
  <1>19. CASE SupGivesUp BY <1>19, MarkTerminalFacts DEF SupGivesUp,
      Outcome!Decide
  <1>20. CASE SupKills BY <1>20 DEF SupKills
  <1>21. CASE SupSeesExit BY <1>21 DEF SupSeesExit
  <1>22. CASE SupVerdict BY <1>22, MarkTerminalFacts DEF SupVerdict,
      Outcome!Decide
  <1>23. CASE SupClaims BY <1>23 DEF SupClaims
  <1>24. CASE SupPublishes BY <1>24 DEF SupPublishes, StoreAccepts, StoreRefuses,
      Post, Outcome!Announce, NoticeAfterVerdict, PublisherLeavesNoChild
  <1>25. CASE SupConfirms BY <1>25 DEF SupConfirms, Outcome!Acknowledge,
      NoticeAfterVerdict
  <1>26. CASE SupUnclaims BY <1>26 DEF SupUnclaims
  <1>27. CASE SupExits BY <1>27 DEF SupExits
  <1>28. CASE SupCrash BY <1>28 DEF SupCrash
  <1>29. CASE DeadlinePasses BY <1>29, MarkTerminalFacts DEF DeadlinePasses,
      Outcome!Decide
  <1>30. CASE WatchReadsRequest BY <1>30 DEF WatchReadsRequest
  <1>31. CASE WatchCancels BY <1>31, MarkTerminalFacts DEF WatchCancels,
      Outcome!Decide
  <1>32. CASE WatchKills BY <1>32 DEF WatchKills
  <1>33. CASE WatchStops BY <1>33 DEF WatchStops
  <1>34. CASE ChildRegisters BY <1>34 DEF ChildRegisters
  <1>35. CASE ChildFinishes BY <1>35, MarkTerminalFacts DEF ChildFinishes,
      Outcome!Decide
  <1>36. CASE ChildExits BY <1>36 DEF ChildExits
  <1>37. CASE ChildCrash BY <1>37 DEF ChildCrash
  <1>38. CASE \E t \in Threads : SyncRecovery(t) BY <1>38 DEF SyncRecovery
  <1>39. CASE UNCHANGED vars BY <1>39
  <1> QED BY <1>1, <1>2, <1>3, <1>4, <1>5, <1>6, <1>7, <1>8, <1>9, <1>10, <1>11,
      <1>12, <1>13, <1>14, <1>15, <1>16, <1>17, <1>18, <1>19, <1>20, <1>21, <1>22,
      <1>23, <1>24, <1>25, <1>26, <1>27, <1>28, <1>29, <1>30, <1>31, <1>32, <1>33,
      <1>34, <1>35, <1>36, <1>37, <1>38, <1>39 DEF Next, AgentStep, SupStep,
      WatchStep, ChildStep

\* The four parties, their crashes and the refusals of the store implement the
\* promise of RunOutcome: a final outcome, a notice that tells it, never two at a
\* time, a receipt that is true.
THEOREM RunImplementsOutcome == Spec => ImplementsOutcome
  <1>1. Init => Outcome!Init BY DEF Init, Outcome!Init
  <1>2. Inv /\ [Next]_vars => [Outcome!Next]_Outcome!vars BY StepsImplementOutcome
  <1> QED BY <1>1, <1>2, Invariant, PTL DEF Spec, ImplementsOutcome, Outcome!Spec
=============================================================================

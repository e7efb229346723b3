----------------------- MODULE NotificationReadProofs -----------------------
(***************************************************************************)
(* Proofs about NotificationRead for every set of runs and callers, every  *)
(* finite set of events and every number of removals and of attempts.      *)
(***************************************************************************)
EXTENDS NotificationRead, NotificationStoreProofs

\* The places an event can be missing from: it is dismissed by now.
Settled(contents, events) == \A r \in Runs : contents[r] \ events \subseteq dismissed

\* What the passes of the read have in hand.  A tombstone a pass goes by hides
\* dismissed events only; an event the first pass has seen and the second has
\* not was dismissed in between, however the files were rewritten meanwhile.
ReaderKnows ==
    /\ \A r \in Runs :
          /\ reader.cleared[r].keys \subseteq dismissed
          /\ reader.seen[r] \subseteq accepted \cap EventsOf(r)
          /\ reader.before[r] \subseteq accepted \cap EventsOf(r)
    /\ reader.pass = 2 /\ reader.pc = "files" =>
          \A r \in Runs \ reader.left : reader.before[r] \ reader.seen[r] \subseteq dismissed
    /\ reader.pass = 3 => Settled(reader.before, reader.payload)

\* The committed fingerprint covers only what was shown, or is dismissed.
TokenIsShown == Settled(delivered.fp, delivered.events)

\* So does the token a dismissal carries, from the call to the cut.
CallersKnow ==
    \A p \in Procs :
        op[p].pc \in {"remove_control", "cut"} /\ op[p].expected # Unconditional
            => Settled(op[p].expected, op[p].shown)

ReadInv == Inv /\ ReadTypeOK /\ ReaderKnows /\ TokenIsShown /\ CallersKnow

\* A step of the store below the reader.
StoreStep ==
    \E p \in Procs :
        \/ \E e \in Events : Publish(p, e)
        \/ \E want \in Targets : DismissShown(p, want)
        \/ Step(p)
        \/ Abort(p)

-----------------------------------------------------------------------------
LEMMA StoreStepIsMove ==
  ASSUME ReadTypeOK, StoreStep
  PROVE  Move
<1>1. delivered.fp \in Contents /\ delivered.events \in SUBSET Events
  BY DEF ReadTypeOK
<1>2. ASSUME NEW p \in Procs, NEW want \in Targets, DismissShown(p, want)
      PROVE  DismissWith(p, want)
  BY <1>1, <1>2 DEF DismissShown, DismissWith
<1> QED BY <1>2 DEF StoreStep, Move

\* The reader leaves the store alone.
LEMMA ReadLeavesStore ==
  ASSUME Read
  PROVE  UNCHANGED vars
  BY DEF Read, ReadControl, ReadList, ReadFile, ReadPass, ReadStable, ReadUnstable

LEMMA StoreInvKept ==
  ASSUME ReadInv, [ReadNext]_allVars
  PROVE  Inv'
<1>1. CASE Read
  BY <1>1, ReadLeavesStore, StepInv DEF ReadInv
<1>2. CASE StoreStep /\ UNCHANGED readVars
  BY <1>2, StoreStepIsMove, StepInv DEF ReadInv
<1>3. CASE UNCHANGED allVars
  BY <1>3, StepInv DEF ReadInv, allVars
<1> QED BY <1>1, <1>2, <1>3 DEF ReadNext, StoreStep

\* What was accepted or dismissed stays so.
LEMMA HistoryGrows ==
  ASSUME Inv, [Move]_vars
  PROVE  accepted \subseteq accepted' /\ dismissed \subseteq dismissed'
<1>1. CASE UNCHANGED shownVars
  BY <1>1 DEF shownVars
<1>2. ASSUME NEW p \in Procs, AppendFile(p) \/ Cut(p) \/ CompactFile(p) \/ CompactEntry(p)
      PROVE  accepted \subseteq accepted' /\ dismissed \subseteq dismissed'
  BY <1>2 DEF AppendFile, Cut, CompactFile, CompactEntry, history
<1> QED BY <1>1, <1>2, MostlyFrame

LEMMA SettledStays ==
  ASSUME Inv, [Move]_vars, NEW contents, NEW events, Settled(contents, events)
  PROVE  Settled(contents, events)'
  BY HistoryGrows DEF Settled

-----------------------------------------------------------------------------
(* Types *)

ReaderStates ==
    [pc : {"idle", "control", "list", "files"}, pass : 1..3,
     tries : 0..(ReadAttempts - 1), cleared : [Runs -> Tombstone],
     left : SUBSET Runs, seen : Contents,
     before : Contents, payload : SUBSET Events]

DeliveredStates == [fp : Contents, events : SUBSET Events]

LEMMA NotReadingType == NotReading \in ReaderStates /\ Nothing \in Contents
  BY AttemptsConstant DEF NotReading, ReaderStates, Nothing, Contents, Tombstone, NoTombstone

LEMMA ShownType ==
  ASSUME NEW content \in SUBSET Events, NEW tomb
  PROVE  Shown(content, tomb) \in SUBSET Events /\ Shown(content, tomb) \subseteq content
  BY DEF Shown

LEMMA ReaderTypeKept ==
  ASSUME Inv, reader \in ReaderStates, delivered \in DeliveredStates, Read
  PROVE  reader' \in ReaderStates /\ delivered' \in DeliveredStates
<1> USE DEF ReaderStates, DeliveredStates
<1>1. CASE ReadControl
  <2>1. ctl.cleared \in [Runs -> Tombstone]
    BY DEF Inv, TypeOK, ControlRecord
  <2> QED BY <1>1, <2>1, NotReadingType DEF ReadControl
<1>2. CASE ReadList
  BY <1>2 DEF ReadList
<1>3. ASSUME NEW r \in Runs, ReadFile(r)
      PROVE  reader' \in ReaderStates /\ delivered' \in DeliveredStates
  <2>1. Shown(file[r], reader.cleared[r]) \in SUBSET Events
    BY ShownType DEF Inv, TypeOK, Contents
  <2>2. [reader.seen EXCEPT ![r] = Shown(file[r], reader.cleared[r])] \in Contents
    BY <2>1 DEF Contents
  <2>3. reader.left \ {r} \in SUBSET Runs
    OBVIOUS
  <2>4. reader' = [reader EXCEPT !.left = reader.left \ {r},
                     !.seen = [reader.seen EXCEPT ![r] = Shown(file[r], reader.cleared[r])]]
    BY <1>3 DEF ReadFile
  <2> QED BY <1>3, <2>2, <2>3, <2>4 DEF ReadFile
<1>4. CASE ReadPass
  <2>1. Union(reader.seen) \in SUBSET Events
    BY DEF Union, Contents
  <2>2. reader.pass + 1 \in 1..3
    BY <1>4 DEF ReadPass
  <2> QED BY <1>4, <2>1, <2>2 DEF ReadPass
<1>5. CASE ReadStable
  BY <1>5, NotReadingType DEF ReadStable
<1>6. CASE ReadUnstable
  <2>1. reader.tries + 1 # ReadAttempts => reader.tries + 1 \in 0..(ReadAttempts - 1)
    BY AttemptsConstant
  <2>2. CASE reader.tries + 1 = ReadAttempts
    BY <1>6, <2>2, NotReadingType DEF ReadUnstable
  <2>3. CASE reader.tries + 1 # ReadAttempts
    <3>1. reader' = [NotReading EXCEPT !.pc = "control", !.tries = reader.tries + 1]
      BY <1>6, <2>3 DEF ReadUnstable
    <3> QED BY <1>6, <2>1, <2>3, <3>1, NotReadingType DEF ReadUnstable
  <2> QED BY <2>2, <2>3
<1> QED BY <1>1, <1>2, <1>3, <1>4, <1>5, <1>6 DEF Read

LEMMA ReadTypeKept ==
  ASSUME ReadInv, [ReadNext]_allVars
  PROVE  ReadTypeOK'
<1>1. TypeOK'
  BY StoreInvKept DEF Inv
<1>2. reader \in ReaderStates /\ delivered \in DeliveredStates
  BY DEF ReadInv, ReadTypeOK, ReaderStates, DeliveredStates
<1>3. reader' \in ReaderStates /\ delivered' \in DeliveredStates
  <2>1. CASE Read
    BY <2>1, <1>2, ReaderTypeKept DEF ReadInv
  <2>2. CASE UNCHANGED readVars
    BY <2>2, <1>2 DEF readVars
  <2> QED BY <2>1, <2>2 DEF ReadNext, allVars
<1> QED BY <1>1, <1>3 DEF ReadTypeOK, ReaderStates, DeliveredStates

-----------------------------------------------------------------------------
(* What the reader knows *)

\* Facts of the store the passes rely on: a tombstone hides what is dismissed,
\* a file has accepted events of its run, and one that is in no file although
\* it was accepted is dismissed.
LEMMA StoreFacts ==
  ASSUME Inv, NEW r \in Runs
  PROVE  /\ ctl.cleared[r].keys \subseteq dismissed
         /\ file[r] \subseteq accepted \cap EventsOf(r)
         /\ (accepted \cap EventsOf(r)) \ file[r] \subseteq dismissed
  BY DEF Inv, Placed, Kept, EventsOf

\* What a look at a file misses of the accepted events of its run is dismissed.
LEMMA LookMissesDismissed ==
  ASSUME Inv, ReaderKnows, NEW r \in Runs
  PROVE  LET look == Shown(file[r], reader.cleared[r]) IN
         /\ look \subseteq accepted \cap EventsOf(r)
         /\ (accepted \cap EventsOf(r)) \ look \subseteq dismissed
  BY StoreFacts DEF ReaderKnows, Shown

LEMMA ReadControlKnows ==
  ASSUME ReadInv, ReadControl
  PROVE  ReaderKnows'
<1>1. /\ reader' = [reader EXCEPT !.pc = "list", !.cleared = ctl.cleared, !.seen = Nothing]
      /\ UNCHANGED <<accepted, dismissed>>
  BY DEF ReadControl, vars, history
<1>2. /\ reader'.pc = "list" /\ reader'.pass = reader.pass
      /\ reader'.cleared = ctl.cleared /\ reader'.seen = Nothing
      /\ reader'.before = reader.before /\ reader'.payload = reader.payload
  BY <1>1 DEF ReadInv, ReadTypeOK
<1> QED BY <1>1, <1>2, StoreFacts DEF ReadInv, ReaderKnows, Nothing, Settled

LEMMA ReadListKnows ==
  ASSUME ReadInv, ReadList
  PROVE  ReaderKnows'
<1>1. /\ reader' = [reader EXCEPT !.pc = "files", !.left = {r \in Runs : file[r] # {}}]
      /\ UNCHANGED <<accepted, dismissed>>
  BY DEF ReadList, vars, history
<1>2. /\ reader'.pc = "files" /\ reader'.pass = reader.pass
      /\ reader'.cleared = reader.cleared /\ reader'.seen = reader.seen
      /\ reader'.before = reader.before /\ reader'.payload = reader.payload
      /\ reader'.left = {r \in Runs : file[r] # {}}
  BY <1>1 DEF ReadInv, ReadTypeOK
<1>3. ASSUME NEW r \in Runs \ reader'.left
      PROVE  reader'.before[r] \ reader'.seen[r] \subseteq dismissed'
  <2>1. file[r] = {}
    BY <1>2, <1>3
  <2>2. reader.before[r] \subseteq accepted \cap EventsOf(r)
    BY DEF ReadInv, ReaderKnows
  <2> QED BY <1>1, <1>2, <2>1, <2>2, StoreFacts DEF ReadInv
<1> QED BY <1>1, <1>2, <1>3 DEF ReadInv, ReaderKnows, Settled

LEMMA ReadFileKnows ==
  ASSUME ReadInv, NEW r \in Runs, ReadFile(r)
  PROVE  ReaderKnows'
<1> DEFINE look == Shown(file[r], reader.cleared[r])
<1>1. /\ reader.pc = "files" /\ reader.seen \in Contents
      /\ reader' = [reader EXCEPT !.left = reader.left \ {r},
                                  !.seen = [reader.seen EXCEPT ![r] = look]]
      /\ UNCHANGED <<accepted, dismissed>>
  BY DEF ReadFile, vars, history, ReadInv, ReadTypeOK
<1>2. /\ reader'.pc = reader.pc /\ reader'.pass = reader.pass
      /\ reader'.cleared = reader.cleared
      /\ reader'.seen = [reader.seen EXCEPT ![r] = look]
      /\ reader'.before = reader.before /\ reader'.payload = reader.payload
      /\ reader'.left = reader.left \ {r}
  BY <1>1 DEF ReadInv, ReadTypeOK
<1>3. reader'.seen[r] = look /\ \A q \in Runs \ {r} : reader'.seen[q] = reader.seen[q]
  BY <1>1, <1>2 DEF Contents
<1>4. /\ look \subseteq accepted \cap EventsOf(r)
      /\ (accepted \cap EventsOf(r)) \ look \subseteq dismissed
  BY LookMissesDismissed DEF ReadInv
<1>5. ASSUME reader'.pass = 2, NEW q \in Runs \ reader'.left
      PROVE  reader'.before[q] \ reader'.seen[q] \subseteq dismissed'
  <2>1. CASE q = r
    <3>1. reader.before[r] \subseteq accepted \cap EventsOf(r)
      BY DEF ReadInv, ReaderKnows
    <3> QED BY <1>1, <1>2, <1>3, <1>4, <2>1, <3>1
  <2>2. CASE q # r
    BY <1>1, <1>2, <1>3, <1>5, <2>2 DEF ReadInv, ReaderKnows
  <2> QED BY <2>1, <2>2
<1>6. \A q \in Runs : reader'.seen[q] \subseteq accepted \cap EventsOf(q)
  BY <1>3, <1>4 DEF ReadInv, ReaderKnows
<1> QED BY <1>1, <1>2, <1>5, <1>6 DEF ReadInv, ReaderKnows, Settled

\* The end of a pass: what the second has not seen of the first is dismissed.
LEMMA ReadPassKnows ==
  ASSUME ReadInv, ReadPass
  PROVE  ReaderKnows'
<1>1. /\ reader.pc = "files" /\ reader.left = {} /\ reader.pass \in {1, 2}
      /\ reader' = [reader EXCEPT
              !.pc = "control", !.pass = reader.pass + 1,
              !.before = IF reader.pass = 1 THEN reader.seen ELSE reader.before,
              !.payload = IF reader.pass = 2 THEN Union(reader.seen) ELSE reader.payload]
      /\ UNCHANGED <<accepted, dismissed>>
  BY DEF ReadPass, vars, history, ReadInv, ReadTypeOK
<1>2. /\ reader'.pc = "control" /\ reader'.pass = reader.pass + 1
      /\ reader'.cleared = reader.cleared /\ reader'.seen = reader.seen
      /\ reader'.before = IF reader.pass = 1 THEN reader.seen ELSE reader.before
      /\ reader'.payload = IF reader.pass = 2 THEN Union(reader.seen) ELSE reader.payload
  BY <1>1 DEF ReadInv, ReadTypeOK
<1>3. ASSUME reader'.pass = 3 PROVE Settled(reader.before, reader.payload)'
  <2>1. reader.pass = 2 /\ reader'.before = reader.before /\ reader'.payload = Union(reader.seen)
    BY <1>1, <1>2, <1>3
  <2>2. \A r \in Runs : reader.seen[r] \subseteq Union(reader.seen)
    BY DEF Union
  <2>3. \A r \in Runs : reader.before[r] \ reader.seen[r] \subseteq dismissed
    BY <1>1, <2>1 DEF ReadInv, ReaderKnows
  <2>4. Settled(reader.before, Union(reader.seen))
    BY <2>2, <2>3 DEF Settled
  <2> QED BY <1>1, <2>1, <2>4 DEF Settled
<1> QED BY <1>1, <1>2, <1>3 DEF ReadInv, ReaderKnows

\* A new read has seen nothing yet.
LEMMA NothingKnown ==
  ASSUME ReadInv, reader' \in {NotReading} \cup
            {[NotReading EXCEPT !.pc = "control", !.tries = n] : n \in Nat},
         UNCHANGED <<accepted, dismissed>>
  PROVE  ReaderKnows'
<1>1. /\ reader'.pass = 1
      /\ \A r \in Runs : /\ reader'.cleared[r] = NoTombstone
                         /\ reader'.seen[r] = {} /\ reader'.before[r] = {}
  <2>1. \A n \in Nat : LET z == [NotReading EXCEPT !.pc = "control", !.tries = n] IN
          /\ z.pass = 1 /\ z.cleared = NotReading.cleared
          /\ z.seen = NotReading.seen /\ z.before = NotReading.before
    BY DEF NotReading
  <2>2. /\ reader'.pass = 1 /\ reader'.cleared = NotReading.cleared
        /\ reader'.seen = NotReading.seen /\ reader'.before = NotReading.before
    BY <2>1 DEF NotReading
  <2> QED BY <2>2 DEF NotReading, Nothing
<1>2. NoTombstone.keys = {}
  BY DEF NoTombstone
<1> QED BY <1>1, <1>2 DEF ReaderKnows, Settled

LEMMA ReadUnstableKnows ==
  ASSUME ReadInv, ReadUnstable
  PROVE  ReaderKnows'
<1>1. reader.tries + 1 \in Nat
  BY AttemptsConstant DEF ReadInv, ReadTypeOK
<1> QED BY <1>1, NothingKnown DEF ReadUnstable, vars, history

\* The bookends agree, so the committed token is the one the payload settles.
LEMMA ReadStableKnows ==
  ASSUME ReadInv, ReadStable
  PROVE  ReaderKnows' /\ TokenIsShown'
<1>1. ReaderKnows'
  BY NothingKnown DEF ReadStable, vars, history
<1>2. Settled(reader.seen, reader.payload)
  BY DEF ReadStable, ReadInv, ReaderKnows
<1>3. TokenIsShown'
  BY <1>2 DEF ReadStable, vars, history, TokenIsShown, Settled
<1> QED BY <1>1, <1>3

LEMMA ReadKnows ==
  ASSUME ReadInv, Read
  PROVE  ReaderKnows' /\ TokenIsShown' /\ CallersKnow'
<1>1. CallersKnow'
  BY ReadLeavesStore DEF ReadInv, CallersKnow, Settled, vars, storeVars, history
<1>2. ASSUME UNCHANGED <<vars, delivered>> PROVE TokenIsShown'
  BY <1>2 DEF ReadInv, TokenIsShown, Settled, vars, history
<1>3. CASE ReadControl
  BY <1>1, <1>2, <1>3, ReadControlKnows DEF ReadControl
<1>4. CASE ReadList
  BY <1>1, <1>2, <1>4, ReadListKnows DEF ReadList
<1>5. CASE \E r \in Runs : ReadFile(r)
  BY <1>1, <1>2, <1>5, ReadFileKnows DEF ReadFile
<1>6. CASE ReadPass
  BY <1>1, <1>2, <1>6, ReadPassKnows DEF ReadPass
<1>7. CASE ReadStable
  BY <1>1, <1>7, ReadStableKnows
<1>8. CASE ReadUnstable
  BY <1>1, <1>2, <1>8, ReadUnstableKnows DEF ReadUnstable
<1> QED BY <1>3, <1>4, <1>5, <1>6, <1>7, <1>8 DEF Read

-----------------------------------------------------------------------------
(* Steps of the store *)

\* The history only grows, and the reader goes by the history.
LEMMA StoreStepKnows ==
  ASSUME ReadInv, StoreStep, UNCHANGED readVars
  PROVE  ReaderKnows' /\ TokenIsShown'
<1>1. accepted \subseteq accepted' /\ dismissed \subseteq dismissed'
  BY StoreStepIsMove, HistoryGrows DEF ReadInv
<1>2. reader' = reader /\ delivered' = delivered
  BY DEF readVars
<1>3. ReaderKnows'
  BY <1>1, <1>2 DEF ReadInv, ReaderKnows, Settled
<1>4. TokenIsShown'
  BY <1>1, <1>2 DEF ReadInv, TokenIsShown, Settled
<1> QED BY <1>3, <1>4

\* A caller that is in a removal took its token when it began.
LEMMA TokensKept ==
  ASSUME ReadInv, NEW p \in Procs, Step(p) \/ Abort(p) \/ (\E e \in Events : Publish(p, e)),
         NEW q \in Procs, op'[q].pc \in {"remove_control", "cut"}
  PROVE  /\ op[q].pc \in {"remove_control", "cut"}
         /\ op'[q].expected = op[q].expected /\ op'[q].shown = op[q].shown
<1> USE DEF ReadInv, Inv, TypeOK, Ops, Idle, Goto
<1>1. CASE \E e \in Events : Publish(p, e)
  <2>1. op'[p].pc = "append_run"
    BY <1>1 DEF Publish
  <2>2. q # p => op'[q] = op[q]
    BY <1>1 DEF Publish
  <2> QED BY <2>1, <2>2
<1>2. CASE Abort(p)
  BY <1>2 DEF Abort
<1>3. CASE AppendStep(p)
  BY <1>3 DEF AppendStep, AppendTakeRun, AppendTakeControl, AppendSkip, AppendPending,
              AppendFile, AppendCommit
<1>4. CASE RemoveStep(p)
  BY <1>4 DEF RemoveStep, RemoveTakeControl, RemoveNothing, Cut
<1>5. CASE CompactStep(p)
  <2>1. CASE CompactNames(p)
    BY <2>1 DEF CompactNames
  <2>2. CASE \E r \in Runs : CompactTakeRun(p, r)
    BY <2>2 DEF CompactTakeRun
  <2>3. CASE CompactTakeControl(p) \/ CompactFile(p)
    BY <2>3 DEF CompactTakeControl, CompactFile
  <2>4. CASE CompactSkip(p) \/ CompactEntry(p)
    <3>1. PICK left : op' = [op EXCEPT ![p] =
            IF left = {} THEN Idle ELSE [Idle EXCEPT !.pc = "compact", !.todo = left]]
      BY <2>4 DEF CompactSkip, CompactEntry, NextName
    <3>2. op'[p].pc \in {"idle", "compact"}
      BY <3>1
    <3>3. q # p => op'[q] = op[q]
      BY <3>1
    <3> QED BY <3>2, <3>3
  <2> QED BY <1>5, <2>1, <2>2, <2>3, <2>4 DEF CompactStep
<1> QED BY <1>1, <1>2, <1>3, <1>4, <1>5 DEF Step

LEMMA CallersKept ==
  ASSUME ReadInv, StoreStep, UNCHANGED readVars
  PROVE  CallersKnow'
<1>1. [Move]_vars /\ Inv
  BY StoreStepIsMove DEF ReadInv
<1> SUFFICES ASSUME NEW q \in Procs, op'[q].pc \in {"remove_control", "cut"},
                    op'[q].expected # Unconditional
             PROVE  Settled(op[q].expected, op[q].shown)'
  BY DEF CallersKnow
<1>2. PICK p \in Procs :
        \/ Step(p) \/ Abort(p) \/ \E e \in Events : Publish(p, e)
        \/ \E want \in Targets : DismissShown(p, want)
  BY DEF StoreStep
<1>3. CASE Step(p) \/ Abort(p) \/ \E e \in Events : Publish(p, e)
  <2>1. /\ op[q].pc \in {"remove_control", "cut"}
        /\ op'[q].expected = op[q].expected /\ op'[q].shown = op[q].shown
    BY <1>3, TokensKept
  <2>2. Settled(op[q].expected, op[q].shown)
    BY <2>1 DEF ReadInv, CallersKnow
  <2> QED BY <1>1, <2>1, <2>2, HistoryGrows DEF Settled
<1>4. CASE \E want \in Targets : DismissShown(p, want)
  <2>1. PICK want \in Targets : DismissShown(p, want)
    BY <1>4
  <2>2. \A r \in Procs \ {p} : op'[r] = op[r]
    BY <2>1 DEF DismissShown, Dismiss, ReadInv, Inv, TypeOK
  <2>3. CASE q # p
    BY <1>1, <2>2, <2>3, HistoryGrows DEF ReadInv, CallersKnow, Settled
  <2>4. CASE q = p
    <3>1. op'[p].expected = delivered.fp /\ op'[p].shown = delivered.events
      BY <2>1, <2>4 DEF DismissShown, Dismiss, ReadInv, Inv, TypeOK, Ops, Idle
    <3> QED BY <1>1, <2>4, <3>1, HistoryGrows DEF ReadInv, TokenIsShown, Settled
  <2> QED BY <2>3, <2>4
<1> QED BY <1>2, <1>3, <1>4

-----------------------------------------------------------------------------
LEMMA ReadInitInv ==
  ASSUME ReadInit
  PROVE  ReadInv
<1>1. Inv
  BY InitInv DEF ReadInit
<1>2. ReadTypeOK
  <2>1. reader \in ReaderStates /\ delivered \in DeliveredStates
    BY NotReadingType DEF ReadInit, DeliveredStates
  <2> QED BY <1>1, <2>1 DEF Inv, ReadTypeOK, ReaderStates, DeliveredStates
<1>3. ReaderKnows /\ TokenIsShown
  BY DEF ReadInit, NotReading, NoTombstone, Nothing, ReaderKnows, TokenIsShown, Settled
<1>4. CallersKnow
  BY IdleType DEF ReadInit, Init, CallersKnow
<1> QED BY <1>1, <1>2, <1>3, <1>4 DEF ReadInv

LEMMA ReadStepInv ==
  ASSUME ReadInv, [ReadNext]_allVars
  PROVE  ReadInv'
<1>1. Inv' /\ ReadTypeOK'
  BY StoreInvKept, ReadTypeKept
<1>2. ReaderKnows' /\ TokenIsShown' /\ CallersKnow'
  <2>1. CASE Read
    BY <2>1, ReadKnows
  <2>2. CASE StoreStep /\ UNCHANGED readVars
    BY <2>2, StoreStepKnows, CallersKept
  <2>3. CASE UNCHANGED allVars
    BY <2>3 DEF allVars, vars, storeVars, history, readVars, ReadInv, ReaderKnows,
                TokenIsShown, CallersKnow, Settled
  <2> QED BY <2>1, <2>2, <2>3 DEF ReadNext, StoreStep
<1> QED BY <1>1, <1>2 DEF ReadInv

LEMMA ReadInvHolds == ReadSpec => []ReadInv
<1>1. ReadInit => ReadInv
  BY ReadInitInv
<1>2. ReadInv /\ [ReadNext]_allVars => ReadInv'
  BY ReadStepInv
<1> QED BY <1>1, <1>2, PTL DEF ReadSpec

\* For the store a step of the reader is none, and any other one of its own.
LEMMA ReadNextIsMove ==
  ASSUME ReadInv, [ReadNext]_allVars
  PROVE  [Move]_vars
<1>1. CASE Read
  BY <1>1, ReadLeavesStore
<1>2. CASE StoreStep
  BY <1>2, StoreStepIsMove DEF ReadInv
<1> QED BY <1>1, <1>2 DEF ReadNext, StoreStep, allVars

\* At its cut a caller holds the control scope, so that whatever is dismissed
\* then is dismissed by it; and what it finds is what its token says.
LEMMA CutTakesShown ==
  ASSUME ReadInv, [ReadNext]_allVars, NEW p \in Procs,
         op[p].pc = "cut", op[p].expected # Unconditional
  PROVE  dismissed' \ dismissed \subseteq op[p].shown
<1>1. CASE dismissed' = dismissed
  BY <1>1
<1>2. ASSUME NEW q \in Procs, Cut(q) PROVE dismissed' \ dismissed \subseteq op[p].shown
  <2>1. q = p
    BY <1>2, StoreConstants DEF Cut, ReadInv, Inv, Holders
  <2>2. op[p].expected = Logical
    BY <1>2, <2>1 DEF Cut, Current
  <2>3. dismissed' \ dismissed \subseteq Visible \ dismissed
    BY <1>2 DEF Cut
  <2>4. ASSUME NEW x \in Visible \ dismissed PROVE x \in op[p].shown
    <3>1. PICK r \in Runs : x \in Logical[r]
      BY <2>4 DEF Visible
    <3>2. op[p].expected[r] \ op[p].shown \subseteq dismissed
      BY DEF ReadInv, CallersKnow, Settled
    <3> QED BY <2>2, <2>4, <3>1, <3>2
  <2> QED BY <2>3, <2>4
<1>3. [Move]_vars
  BY ReadNextIsMove
<1>4. dismissed' = dismissed \/ \E q \in Procs : Cut(q)
  <2>1. ASSUME NEW q \in Procs, AppendFile(q) \/ CompactFile(q) \/ CompactEntry(q)
        PROVE  dismissed' = dismissed
    BY <2>1 DEF AppendFile, CompactFile, CompactEntry, history
  <2> QED BY <1>3, <2>1, MostlyFrame DEF ReadInv, shownVars
<1> QED BY <1>1, <1>2, <1>4

\* Store, reader and token are well formed in every reachable state.
THEOREM ReadTypeCorrect == ReadSpec => []ReadTypeOK
<1>1. ReadInv => ReadTypeOK
  BY DEF ReadInv
<1> QED BY <1>1, ReadInvHolds, PTL

\* What the store promises of retried notices it also promises an agent that
\* reads without a lock and dismisses by what it read.
THEOREM ShownOnceToReader == ReadSpec => []ShownOnce
<1>1. ReadInv => ShownOnce
  BY DEF ReadInv, Inv
<1> QED BY <1>1, ReadInvHolds, PTL

\* No accepted event is lost to such an agent either.
THEOREM NothingLostToReader == ReadSpec => []NothingLost
<1>1. ReadInv => NothingLost
  BY InvLosesNothing DEF ReadInv
<1> QED BY <1>1, ReadInvHolds, PTL

\* Nor does such an agent see more of the store than a log: its dismissals are
\* compared with what it read, and each still takes effect at one instant.
THEOREM ReadImplementsLog == ReadSpec => ImplementsLog
<1>1. ReadInit => Log!Init
  BY InitIsLogInit DEF ReadInit
<1>2. ReadInv /\ [ReadNext]_allVars => [Log!Next]_Log!vars
  BY ReadNextIsMove, MovesImplementLog DEF ReadInv
<1> QED BY <1>1, <1>2, ReadInvHolds, PTL DEF ReadSpec, ImplementsLog, Log!Spec

\* The token of the coherent read (coherent_attention_read) stands for what
\* was shown: it covers no other event that is still to be dismissed.
THEOREM TokenCoversOnlyShown == ReadSpec => []TokenIsShown
<1>1. ReadInv => TokenIsShown
  BY DEF ReadInv
<1> QED BY <1>1, ReadInvHolds, PTL

\* A dismissal by such a token dismisses nothing the agent was not shown, though
\* the read took no lock and producers, cuts and compactions went on during it.
THEOREM DismissesOnlyShown == ReadSpec => OnlyShownDismissed
<1> DEFINE A == \A p \in Procs :
                  op[p].pc = "cut" /\ op[p].expected # Unconditional
                      => dismissed' \ dismissed \subseteq op[p].shown
<1>1. ReadInv /\ [ReadNext]_allVars => [A]_allVars
  BY CutTakesShown
<1> QED BY <1>1, ReadInvHolds, PTL DEF ReadSpec, OnlyShownDismissed
=============================================================================

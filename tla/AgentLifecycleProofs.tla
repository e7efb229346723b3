----------------------- MODULE AgentLifecycleProofs -----------------------
(***************************************************************************)
(* Proofs about AgentLifecycle for any number of notices, messages, tool   *)
(* rounds and retries, and whatever may fail or put the agent to sleep.    *)
(***************************************************************************)
EXTENDS AgentLifecycle, SequenceTheorems, FiniteSetTheorems, TLAPS

-----------------------------------------------------------------------------
(* The inductive invariant, in parts.                                      *)

\* The types of the Boolean variables.
FlagsOK ==
  /\ asleep \in BOOLEAN /\ cancel \in BOOLEAN /\ shutdown \in BOOLEAN
  /\ ofPair \in BOOLEAN /\ stray \in BOOLEAN /\ roused \in BOOLEAN

\* The types of the other variables, and that a batch runs below the fuse only.
ValuesOK ==
  /\ state \in States
  /\ inbox \in Seq({Request, Wake})
  /\ disk \in 0..MaxVersions /\ published \in 0..MaxVersions
  /\ sent \in 0..MaxRequests
  /\ fp \in 0..MaxVersions
  /\ wire \in Tails
  /\ fate \in [Versions -> Fates]
  /\ pairs \in [Versions -> 0..2]
  /\ again \subseteq Versions /\ resets \in 0..MaxResets
  /\ pc \in LoopStates /\ after \in {"top", "send", "response", "post"}
  /\ msg \in {None, Request, Wake}
  /\ rounds \in 0..MaxRounds /\ attempts \in 0..MaxAttempts
  /\ reply \in {"text", "calls"}
  /\ read \in 0..MaxVersions
  /\ rest \in {"IDLE", "ASLEEP"}
  /\ beat \in BeatStates
  /\ syncBy \in Threads \union {None}
  /\ syncPc \in SyncStates
  /\ seen \in 0..MaxVersions
  /\ pc = "tools" => rounds < MaxRounds

TypeInv == FlagsOK /\ ValuesOK

\* Who holds the lock is inside, with a version in hand, and the loop waits for
\* it; the loop has one too when it is about to commit a stamp.
HoldInv ==
  /\ syncBy = None <=> syncPc = "out"
  /\ syncPc # "out" => seen \in Versions
  /\ syncBy = "loop" => pc = "sync"
  /\ pc = "commit" => read \in Versions

\* A version is known before its fingerprint is committed, and some version is
\* when a pair is on the history.
KnownInv ==
  /\ ofPair => \E v \in Versions : fate[v] # "unseen"
  /\ syncPc \in {"wake", "commit"} => fate[seen] # "unseen"
  /\ CommittedMeansKnown

\* A pair nothing was appended behind is the tail of the history.
ShownOnTop == \A v \in Versions : fate[v] = "shown" => wire = "results"

\* Versions only grow: what is present, in hand or committed was published, and
\* the present one is the last.
VersionInv ==
  /\ disk \in {0, published}
  /\ seen <= published /\ read <= published /\ fp <= published
  /\ \A v \in Versions : fate[v] # "unseen" => v <= published

\* The steps between the branch on the state and the commit.
Injecting ==
  {"rouse", "inject", "append", "heal", "reinject", "reappend", "wake", "commit"}

\* A batch that has read the store while the turn was on commits the newest
\* version that is known, or about to be injected, and none older than the
\* committed one.
StampInv ==
  pc = "commit" /\ state = "ACTIVE" =>
    /\ fp <= read
    /\ \A v \in Versions : fate[v] # "unseen" => v <= read
    /\ syncPc \in Injecting => seen <= read

\* A sync at work never has an older version in hand than the committed one.
SeenInv == ~stray /\ syncPc # "out" => fp <= seen

\* A sync injects what is not known in any way, or is due again, because the last
\* version that was published, once known, stays the committed one or is being
\* committed, or came up again.
FateInv ==
  ~stray =>
    /\ \A v \in Versions :
         fate[v] # "unseen" => \/ v < published \/ v = fp \/ disk = 0
                               \/ v \in again
                               \/ syncPc \in {"wake", "commit"} /\ v = seen
    /\ syncPc \notin {"out", "wake", "commit"} =>
         fate[seen] = "unseen" \/ seen \in again
    /\ syncPc # "out" => fp # published

\* A version with a pair is known and not due again, and no version is injected
\* twice.
PairInv ==
  \A v \in Versions :
    /\ pairs[v] # 0 => fate[v] # "unseen" /\ v \notin again
    /\ ~stray => pairs[v] <= 1

-----------------------------------------------------------------------------
(* Queues.                                                                 *)

Texts == {Request, Wake}

\* Taking the head leaves a queue with every other element in it.
LEMMA QueueTail ==
  ASSUME NEW q \in Seq(Texts), q # <<>>
  PROVE  /\ Head(q) \in Texts
         /\ Tail(q) \in Seq(Texts)
         /\ \A m : InQueue(q, m) => m = Head(q) \/ InQueue(Tail(q), m)
<1>1. /\ Head(q) \in Texts /\ Tail(q) \in Seq(Texts)
      /\ Len(Tail(q)) = Len(q) - 1
      /\ \A i \in 1..Len(Tail(q)) : Tail(q)[i] = q[i + 1]
  BY HeadTailProperties
<1>2. Len(q) \in Nat /\ Len(q) # 0 /\ DOMAIN q = 1..Len(q)
  BY LenProperties, EmptySeq
<1>3. DOMAIN Tail(q) = 1..Len(Tail(q))
  BY <1>1, LenProperties
<1>4. Head(q) = q[1]
  OBVIOUS
<1>5. ASSUME NEW i \in DOMAIN q, i # 1
      PROVE  i - 1 \in DOMAIN Tail(q) /\ Tail(q)[i - 1] = q[i]
  <2>1. i - 1 \in 1..Len(Tail(q))
    BY <1>1, <1>2, <1>5
  <2> QED BY <1>1, <1>3, <2>1
<1> QED BY <1>1, <1>4, <1>5 DEF InQueue

\* Appending adds one element and keeps the others.
LEMMA QueueAppend ==
  ASSUME NEW q \in Seq(Texts), NEW m \in Texts
  PROVE  /\ Append(q, m) \in Seq(Texts)
         /\ InQueue(Append(q, m), m)
         /\ \A n : InQueue(q, n) => InQueue(Append(q, m), n)
<1>1. /\ Append(q, m) \in Seq(Texts) /\ Len(Append(q, m)) = Len(q) + 1
      /\ \A i \in 1..Len(q) : Append(q, m)[i] = q[i]
      /\ Append(q, m)[Len(q) + 1] = m
  BY AppendProperties
<1>2. /\ Len(q) \in Nat /\ DOMAIN q = 1..Len(q)
      /\ DOMAIN Append(q, m) = 1..Len(Append(q, m))
  BY <1>1, LenProperties
<1> QED BY <1>1, <1>2 DEF InQueue

\* A merge keeps the wakes.
LEMMA MergeKeepsWakes ==
  ASSUME NEW q \in Seq(Texts)
  PROVE  /\ WithoutTexts(q) \in Seq(Texts)
         /\ InQueue(q, Wake) => InQueue(WithoutTexts(q), Wake)
<1> DEFINE W == {j \in DOMAIN q : q[j] = Wake}
<1>1. Len(q) \in Nat /\ DOMAIN q = 1..Len(q)
  BY LenProperties
<1>2. IsFiniteSet(DOMAIN q)
  BY <1>1, FS_Interval
<1>3. IsFiniteSet(W) /\ Cardinality(W) \in Nat
  BY <1>2, FS_Subset, FS_CardinalityType
<1>4. WithoutTexts(q) = [i \in 1..Cardinality(W) |-> Wake]
  BY DEF WithoutTexts
<1>5. [i \in 1..Cardinality(W) |-> Wake] \in Seq(Texts)
  BY <1>3 DEF Texts
<1>6. ASSUME InQueue(q, Wake) PROVE InQueue(WithoutTexts(q), Wake)
  <2>1. W # {}
    BY <1>6 DEF InQueue
  <2>2. Cardinality(W) # 0
    BY <1>3, <2>1, FS_EmptySet
  <2>3. 1 \in 1..Cardinality(W)
    BY <1>3, <2>2
  <2> HIDE DEF W
  <2> QED BY <1>4, <2>3 DEF InQueue
<1> QED BY <1>4, <1>5, <1>6

-----------------------------------------------------------------------------
(* Type correctness.                                                       *)

\* The initial values have their types.
LEMMA InitTypeInv == Init => TypeInv
<1>1. Init => FlagsOK
  BY Zenon DEF Init, FlagsOK
<1>2. Init => ValuesOK
  BY ConstantsAssumption
     DEF ConstantsAssumption, Init, ValuesOK, States, Tails, Fates,
         LoopStates, SyncStates, BeatStates, Versions, Threads, None
<1> QED BY <1>1, <1>2 DEF TypeInv

\* An update by a value of the range keeps the type of a function.
LEMMA ExceptTyped ==
  ASSUME NEW S, NEW T, NEW f \in [S -> T], NEW x, NEW y \in T
  PROVE  [f EXCEPT ![x] = y] \in [S -> T]
  OBVIOUS

\* Closing calls keeps the types, whether or not a replay is redacted.
LEMMA HealValues ==
  ASSUME ValuesOK, NEW w \in Tails, Replay(w)
  PROVE  /\ Healed(w) \in Tails
         /\ fp' \in 0..MaxVersions /\ pairs' \in [Versions -> 0..2]
         /\ again' \subseteq Versions /\ resets' \in 0..MaxResets
<1> USE ConstantsAssumption DEF ConstantsAssumption, ValuesOK, Versions
<1>1. Healed(w) \in Tails
  BY DEF Healed, Tails
<1>2. CASE UNCHANGED renewal
  BY <1>1, <1>2 DEF renewal
<1>3. CASE Reset /\ resets < MaxResets
  BY <1>1, <1>3 DEF Reset
<1> QED BY Zenon, <1>2, <1>3 DEF Replay

\* The sync keeps the types.
LEMMA SyncValues ==
  ASSUME ValuesOK, NEW t \in Threads, SyncStep(t)
  PROVE  ValuesOK'
<1> USE ConstantsAssumption
    DEF ConstantsAssumption, ValuesOK, States, Tails, Fates, LoopStates,
        SyncStates, BeatStates, Versions, Threads, None,
        notices, events, delivery, renewal, locals, sync
<1>1. CASE SyncEnter(t)
  BY <1>1 DEF SyncEnter, CallsSync, LockFree, Return
<1>2. CASE SyncBranch
  BY <1>2 DEF SyncBranch, Within
<1>3. CASE SyncRouse
  BY <1>3 DEF SyncRouse, Within
<1>4. CASE SyncInject
  BY <1>4 DEF SyncInject, Within
<1>5. CASE SyncAppend
  <2>1. fate' \in [Versions -> Fates]
    BY <1>5 DEF SyncAppend, Moved
  <2>2. pairs' \in [Versions -> 0..2]
    <3>1. pairs' = [pairs EXCEPT ![seen] = IF pairs[seen] = 0 THEN 1 ELSE 2]
      BY Zenon, <1>5 DEF SyncAppend
    <3>2. (IF pairs[seen] = 0 THEN 1 ELSE 2) \in 0..2
      OBVIOUS
    <3> QED BY Zenon, <3>1, <3>2, ExceptTyped
  <2>3. /\ wire' \in Tails /\ pc' = pc /\ beat' = beat /\ syncPc' = "wake"
        /\ again' \subseteq Versions
    BY <1>5 DEF SyncAppend, Within
  <2> QED BY <1>5, <2>1, <2>2, <2>3 DEF SyncAppend
<1>6. CASE SyncHeal
  <2>1. wire' = Healed(wire) /\ Replay(wire) /\ wire \in Tails
    BY <1>6 DEF SyncHeal, Heal
  <2>2. /\ wire' \in Tails
        /\ fp' \in 0..MaxVersions /\ pairs' \in [Versions -> 0..2]
        /\ again' \subseteq Versions /\ resets' \in 0..MaxResets
    BY <2>1, HealValues
  <2> QED BY <1>6, <2>2 DEF SyncHeal, Within
<1>7. CASE SyncWake
  BY <1>7, QueueAppend DEF SyncWake, Within, Texts
<1>8. CASE SyncCommit
  BY <1>8 DEF SyncCommit, Leave, Return
<1>9. CASE SyncDegrade
  <2>1. fate' \in [Versions -> Fates] /\ again' \subseteq Versions
    BY <1>9 DEF SyncDegrade, Moved
  <2>2. inbox' \in Seq({Request, Wake})
    BY <1>9, QueueAppend DEF SyncDegrade, Texts
  <2>3. /\ fp' \in 0..MaxVersions /\ pc' \in LoopStates /\ beat' \in BeatStates
        /\ pc' = pc \/ pc' \in {"top", "send", "response", "post"}
    BY <1>9 DEF SyncDegrade, Leave, Return
  <2>4. syncBy' = None /\ syncPc' = "out" /\ seen' = 0
    BY <1>9 DEF SyncDegrade, Leave
  <2> QED BY <1>9, <2>1, <2>2, <2>3, <2>4 DEF SyncDegrade
<1>10. CASE SyncPass
  <2>1. /\ again' \subseteq Versions /\ fp' \in 0..MaxVersions
        /\ UNCHANGED <<state, inbox, notices, wire, pairs, resets, locals>>
    BY <1>10 DEF SyncPass
  <2>2. fate' \in [Versions -> Fates]
    <3>1. PICK y \in {"dropped", fate[seen]} :
            fate' = fate \/ fate' = [fate EXCEPT ![seen] = y]
      BY <1>10 DEF SyncPass, CommitsUninjected
    <3> QED BY <3>1
  <2>3. /\ pc' = pc \/ pc' \in {"top", "send", "response", "post"}
        /\ beat' \in BeatStates
        /\ syncBy' = None /\ syncPc' = "out" /\ seen' = 0
    BY <1>10 DEF SyncPass, Leave, Return
  <2> QED BY <2>1, <2>2, <2>3
<1> QED BY <1>1, <1>2, <1>3, <1>4, <1>5, <1>6, <1>7, <1>8, <1>9, <1>10
        DEF SyncStep

\* What a heal may change, typed.
Renewed ==
  /\ wire \in Tails /\ fp \in 0..MaxVersions /\ pairs \in [Versions -> 0..2]
  /\ again \subseteq Versions /\ resets \in 0..MaxResets

\* The run loop keeps the types.
LEMMA LoopValues ==
  ASSUME ValuesOK, LoopStep
  PROVE  ValuesOK'
<1> USE ConstantsAssumption
    DEF ConstantsAssumption, ValuesOK, States, Tails, Fates, LoopStates,
        SyncStates, BeatStates, Versions, Threads, None, LoopFrame, Quiet,
        notices, events, delivery, renewal, locals, sync
<1>1. CASE Top
  <2>1. wire \in Tails /\ (UNCHANGED <<wire, renewal>> \/ Heal(wire))
    BY <1>1 DEF Top, SleepHealed
  <2>2. Renewed'
    BY <2>1, HealValues DEF Heal, Renewed
  <2> QED BY <1>1, <2>2 DEF Top, Goto, Renewed
<1>2. CASE Get
  <2>1. inbox # <<>> => /\ Head(inbox) \in {Request, Wake}
                        /\ Tail(inbox) \in Seq({Request, Wake})
    BY QueueTail DEF Texts
  <2>2. /\ inbox' \in Seq({Request, Wake}) /\ msg' \in {None, Request, Wake}
        /\ pc' \in {"woke", "clear", "top", "ended"}
    BY <1>2, <2>1 DEF Get, Take, Goto
  <2> QED BY <1>2, <2>2 DEF Get
<1>3. CASE WakeUp
  BY <1>3 DEF WakeUp, Goto
<1>4. CASE ClearCancel
  BY <1>4 DEF ClearCancel, Goto
<1>5. CASE Activate
  BY <1>5 DEF Activate, Goto
<1>6. CASE Merge
  BY <1>6, MergeKeepsWakes DEF Merge, Goto, Texts
<1>7. CASE Handle
  BY <1>7 DEF Handle
<1>8. CASE Send
  <2>1. /\ wire \in Tails /\ (UNCHANGED renewal \/ Replay(wire))
        /\ wire' \in {wire, "text", "over"}
    BY <1>8 DEF Send
  <2>2. Renewed'
    BY <2>1, HealValues DEF Renewed
  <2>3. fate' \in [Versions -> Fates]
    BY <1>8 DEF Send, Advance
  <2> QED BY <1>8, <2>2, <2>3 DEF Send, Goto, Renewed
<1>9. CASE Answer
  BY <1>9 DEF Answer, Advance
<1>10. CASE Response
  <2>1. wire \in Tails /\ (UNCHANGED <<wire, renewal>> \/ Heal(wire))
    BY <1>10 DEF Response
  <2>2. Renewed'
    BY <2>1, HealValues DEF Heal, Renewed
  <2> QED BY <1>10, <2>2 DEF Response, Renewed
<1>11. CASE Tools
  BY <1>11 DEF Tools
<1>12. CASE Nap
  BY <1>12 DEF Nap, Goto
<1>13. CASE Stamp
  BY <1>13 DEF Stamp
<1>14. CASE CommitStamp
  <2>1. fate' \in [Versions -> Fates] /\ again' \subseteq Versions
    BY <1>14 DEF CommitStamp, Moved
  <2>2. fp' \in 0..MaxVersions /\ read' = 0 /\ pc' = "batch"
    BY <1>14 DEF CommitStamp, CommitsRead, Goto
  <2> QED BY <1>14, <2>1, <2>2 DEF CommitStamp
<1>15. CASE Batch
  BY <1>15 DEF Batch, Advance
<1>16. CASE End
  BY <1>16 DEF End
<1>17. CASE Stuck
  BY <1>17 DEF Stuck, Resend, MayResend
<1>18. CASE Park
  BY <1>18 DEF Park, Goto
<1>19. CASE Post
  BY <1>19 DEF Post, Goto
<1>20. CASE Settle
  BY <1>20 DEF Settle, Goto
<1>21. CASE Boundary
  BY <1>21 DEF Boundary
<1>22. ASSUME NEW kind \in ErrorKinds, Fail(kind) PROVE ValuesOK'
  <2>1. Dropped \in Tails
    BY DEF Dropped
  <2>2. \/ Heal(Dropped)
        \/ wire' = Dropped /\ UNCHANGED renewal
    BY Zenon, <1>22 DEF Fail, LeaveDropped
  <2>3. Renewed'
    BY <2>1, <2>2, HealValues DEF Heal, Renewed
  <2>4. fate' \in [Versions -> Fates]
    BY <1>22 DEF Fail, Advance
  <2>5. /\ state' \in States /\ rest' \in {"IDLE", "ASLEEP"}
        /\ pc' \in {"sync", "post", "park", "stuck"}
        /\ after' \in {"top", "send", "response", "post"}
        /\ msg' \in {None, Request, Wake}
        /\ rounds' \in 0..MaxRounds /\ attempts' \in 0..MaxAttempts
    BY <1>22 DEF Fail, Resend, MayResend
  <2> QED BY <1>22, <2>3, <2>4, <2>5 DEF Fail, Renewed
<1> QED BY <1>1, <1>2, <1>3, <1>4, <1>5, <1>6, <1>7, <1>8, <1>9, <1>10, <1>11,
           <1>12, <1>13, <1>14, <1>15, <1>16, <1>17, <1>18, <1>19, <1>20, <1>21,
           <1>22 DEF LoopStep

\* The heartbeat, the world outside and a stutter keep the types.
LEMMA OtherValues ==
  ASSUME ValuesOK,
         BeatStep \/ Publish \/ Dismiss \/ SendRequest \/ Stop \/ UNCHANGED vars
  PROVE  ValuesOK'
<1> USE ConstantsAssumption
    DEF ConstantsAssumption, ValuesOK, States, Tails, Fates, LoopStates,
        SyncStates, BeatStates, Versions, Threads, None, Outside, BeatFrame,
        Beat, notices, events, delivery, renewal, locals, sync
<1>1. CASE Tick
  BY <1>1 DEF Tick
<1>2. CASE Suspend
  BY <1>2 DEF Suspend
<1>3. CASE Check
  BY <1>3 DEF Check
<1>4. CASE PublishAsleep
  BY <1>4 DEF PublishAsleep
<1>5. CASE SetAsleep
  BY <1>5 DEF SetAsleep
<1>6. CASE Publish
  BY <1>6 DEF Publish
<1>7. CASE Dismiss
  BY <1>7 DEF Dismiss
<1>8. CASE SendRequest
  BY <1>8, QueueAppend DEF SendRequest, Texts
<1>9. CASE Stop
  BY <1>9 DEF Stop
<1>10. CASE UNCHANGED vars
  BY <1>10 DEF vars
<1> QED BY <1>1, <1>2, <1>3, <1>4, <1>5, <1>6, <1>7, <1>8, <1>9, <1>10
        DEF BeatStep

\* Every step is one of a few kinds.
LEMMA StepKinds ==
  [Next]_vars =>
    \/ LoopStep \/ BeatStep \/ Publish \/ Dismiss \/ SendRequest \/ Stop
    \/ \E t \in Threads : SyncStep(t)
    \/ UNCHANGED vars
  BY DEF Next, Rest, Threads

\* No step turns an event or another flag into something else.
LEMMA FlagsStep ==
  ASSUME FlagsOK, [Next]_vars
  PROVE  FlagsOK'
<1> USE DEF FlagsOK, notices, events, delivery, renewal, locals, sync
<1>1. ASSUME NEW t \in Threads, SyncEnter(t) PROVE FlagsOK'
  BY Zenon, <1>1 DEF SyncEnter
<1>2. CASE SyncBranch
  BY Zenon, <1>2 DEF SyncBranch
<1>3. CASE SyncRouse
  BY Zenon, <1>3 DEF SyncRouse
<1>4. CASE SyncInject
  BY Zenon, <1>4 DEF SyncInject
<1>5. CASE SyncAppend
  BY Zenon, <1>5 DEF SyncAppend
<1>6. CASE SyncHeal
  BY Zenon, <1>6 DEF SyncHeal
<1>7. CASE SyncWake
  BY Zenon, <1>7 DEF SyncWake
<1>8. CASE SyncCommit
  BY Zenon, <1>8 DEF SyncCommit, Leave
<1>9. CASE SyncDegrade
  BY Zenon, <1>9 DEF SyncDegrade, Leave
<1>10. CASE SyncPass
  BY Zenon, <1>10 DEF SyncPass, Leave
<1>11. CASE WakeUp \/ ClearCancel \/ Nap \/ Park \/ CommitStamp
  BY Zenon, <1>11 DEF WakeUp, ClearCancel, Nap, Park, CommitStamp, LoopFrame
<1>12. CASE Top \/ Get \/ Activate \/ Merge \/ Handle \/ Send \/ Answer
  BY Zenon, <1>12 DEF Top, Get, Activate, Merge, Handle, Send, Answer, LoopFrame,
     Quiet
<1>13. CASE Response \/ Tools \/ Stamp \/ Batch \/ End \/ Stuck \/ Post
  BY Zenon, <1>13 DEF Response, Tools, Stamp, Batch, End, Stuck, Post, LoopFrame,
     Quiet
<1>14. CASE Settle \/ Boundary
  BY Zenon, <1>14 DEF Settle, Boundary, LoopFrame, Quiet
<1>15. ASSUME NEW kind \in ErrorKinds, Fail(kind) PROVE FlagsOK'
  BY Zenon, <1>15 DEF Fail, LoopFrame
<1>16. CASE BeatStep
  BY Zenon, <1>16 DEF BeatStep, Tick, Suspend, Check, PublishAsleep, SetAsleep,
     BeatFrame
<1>17. CASE Publish \/ Dismiss \/ SendRequest \/ Stop
  BY Zenon, <1>17 DEF Publish, Dismiss, SendRequest, Stop, Outside
<1>18. CASE UNCHANGED vars
  BY Zenon, <1>18 DEF vars
<1>19. CASE LoopStep
  BY <1>19, <1>11, <1>12, <1>13, <1>14, <1>15 DEF LoopStep
<1>20. ASSUME NEW t \in Threads, SyncStep(t) PROVE FlagsOK'
  BY <1>20, <1>1, <1>2, <1>3, <1>4, <1>5, <1>6, <1>7, <1>8, <1>9, <1>10
     DEF SyncStep
<1> QED BY StepKinds, <1>16, <1>17, <1>18, <1>19, <1>20

\* The types are preserved ...
LEMMA TypingStep == TypeInv /\ [Next]_vars => TypeInv'
  BY StepKinds, FlagsStep, SyncValues, LoopValues, OtherValues DEF TypeInv

\* ... so every variable keeps its type in every execution.
THEOREM TypeCorrect == Spec => []TypeOK
<1>1. TypeInv => TypeOK
  BY DEF TypeInv, FlagsOK, ValuesOK, TypeOK
<1> QED BY <1>1, InitTypeInv, TypingStep, PTL DEF Spec
-----------------------------------------------------------------------------
(* Frames.                                                                 *)

Inside ==
  \/ SyncBranch \/ SyncRouse \/ SyncInject \/ SyncAppend \/ SyncHeal \/ SyncWake
Leaving == SyncCommit \/ SyncDegrade \/ SyncPass

\* What a step of the sync is.
LEMMA SyncKinds ==
  ASSUME NEW t \in Threads, SyncStep(t)
  PROVE  SyncEnter(t) \/ Inside \/ Leaving
  BY DEF SyncStep, Inside, Leaving

\* A loop step leaves the notices and the sync alone.
LEMMA LoopLeaves == LoopStep => UNCHANGED <<notices, sync>>
<1> USE DEF LoopFrame, Quiet, delivery, locals, notices, sync
<1>1. Top \/ Get \/ WakeUp \/ ClearCancel \/ Activate \/ Merge \/ Handle
        => UNCHANGED <<notices, sync>>
  BY DEF Top, Get, WakeUp, ClearCancel, Activate, Merge, Handle
<1>2. Send \/ Answer \/ Response \/ Tools \/ Nap \/ Stamp \/ CommitStamp
        => UNCHANGED <<notices, sync>>
  BY DEF Send, Answer, Response, Tools, Nap, Stamp, CommitStamp
<1>3. Batch \/ End \/ Stuck \/ Park \/ Post \/ Settle \/ Boundary
        => UNCHANGED <<notices, sync>>
  BY DEF Batch, End, Stuck, Park, Post, Settle, Boundary
<1>4. ASSUME NEW kind \in ErrorKinds, Fail(kind)
      PROVE  UNCHANGED <<notices, sync>>
  BY <1>4 DEF Fail
<1> QED BY <1>1, <1>2, <1>3, <1>4 DEF LoopStep

\* What a loop step makes of the fates.
LEMMA LoopFates ==
  LoopStep =>
    \/ CommitStamp \/ UNCHANGED fate
    \/ Advance({"shown", "stamped", "left"}, "told")
    \/ Advance({"shown"}, "left") \/ Advance({"stamped"}, "left")
<1>1. Top \/ Get \/ WakeUp \/ ClearCancel \/ Activate \/ Merge \/ Handle
        => UNCHANGED fate
  BY DEF Top, Get, WakeUp, ClearCancel, Activate, Merge, Handle, Quiet, delivery
<1>2. Response \/ Tools \/ Nap \/ Stamp \/ End \/ Stuck \/ Park => UNCHANGED fate
  BY DEF Response, Tools, Nap, Stamp, End, Stuck, Park, Quiet, delivery
<1>3. Post \/ Settle \/ Boundary => UNCHANGED fate
  BY DEF Post, Settle, Boundary, Quiet, delivery
<1>4. Send => Advance({"shown", "stamped", "left"}, "told")
  BY DEF Send
<1>5. Answer => Advance({"shown"}, "left")
  BY DEF Answer
<1>6. Batch => Advance({"stamped"}, "left") \/ UNCHANGED fate
  BY DEF Batch
<1>7. ASSUME NEW kind \in ErrorKinds, Fail(kind) PROVE Advance({"shown"}, "left")
  BY <1>7 DEF Fail
<1> QED BY <1>1, <1>2, <1>3, <1>4, <1>5, <1>6, <1>7 DEF LoopStep

\* The heartbeat leaves everything but itself and the events alone, and the
\* world outside touches the notices, the queue and shutdown.
LEMMA BeatLeaves ==
  BeatStep => UNCHANGED <<inbox, notices, delivery, pc, locals, sync>>
  BY DEF BeatStep, Tick, Suspend, Check, PublishAsleep, SetAsleep, BeatFrame

Outer == Publish \/ Dismiss \/ SendRequest \/ Stop
\* The world outside leaves the agent's own state alone.
LEMMA OuterLeaves == Outer => UNCHANGED <<state, delivery, pc, locals, sync>>
  BY DEF Outer, Publish, Dismiss, SendRequest, Stop, Outside

\* Every step belongs to the loop, to a sync, or to what leaves both alone.
LEMMA StepSplit ==
  [Next]_vars =>
    \/ LoopStep
    \/ \E t \in Threads : SyncEnter(t)
    \/ Inside
    \/ Leaving
    \/ BeatStep \/ Outer \/ UNCHANGED vars
  BY StepKinds, SyncKinds DEF Outer

-----------------------------------------------------------------------------
(* The lock, and what its holder carries.                                  *)

\* A sync that goes on stays inside with the version it took.
LEMMA InsideStays ==
  Inside => /\ syncPc # "out" /\ syncPc' # "out"
            /\ UNCHANGED <<syncBy, seen, pc, locals, published, disk, stray>>
            /\ fp' \in {fp, 0}
<1>1. SyncHeal => fp' \in {fp, 0} /\ stray' = stray
  BY DEF SyncHeal, Heal, Replay, Reset, renewal
<1>2. SyncBranch \/ SyncRouse \/ SyncInject \/ SyncAppend \/ SyncWake
        => UNCHANGED <<fp, stray>>
  BY DEF SyncBranch, SyncRouse, SyncInject, SyncAppend, SyncWake, delivery, renewal
<1> QED
  BY <1>1, <1>2
     DEF Inside, SyncBranch, SyncRouse, SyncInject, SyncAppend, SyncHeal,
         SyncWake, Within, notices

\* A sync that leaves gives the lock back and takes the loop where it was going.
LEMMA LeavingEnds ==
  Leaving => /\ syncPc # "out" /\ syncPc' = "out" /\ syncBy' = None
             /\ UNCHANGED <<locals, notices, wire, pairs, stray>>
             /\ pc' \in {pc, after}
  BY DEF Leaving, SyncCommit, SyncDegrade, SyncPass, Leave, Return

\* Only the stamp takes the loop to the commit, and it has read a version.
LEMMA OnlyStampCommits ==
  ASSUME TypeInv, LoopStep, pc' = "commit"
  PROVE  Stamp
<1>1. after # "commit"
  BY DEF TypeInv, ValuesOK
<1>2. pc' # "commit" \/ Stamp
  <2>1. Top \/ Get \/ WakeUp \/ ClearCancel \/ Activate \/ Merge \/ Handle
          => pc' # "commit"
    BY DEF Top, Get, WakeUp, ClearCancel, Activate, Merge, Handle, Goto, Take
  <2>2. Send \/ Answer \/ Response \/ Tools \/ Nap \/ CommitStamp
          => pc' # "commit"
    BY DEF Send, Answer, Response, Tools, Nap, CommitStamp, Goto
  <2>3. Batch \/ End \/ Stuck \/ Park \/ Post \/ Settle \/ Boundary
          => pc' # "commit"
    BY DEF Batch, End, Stuck, Park, Post, Settle, Boundary, Goto, Resend
  <2>4. ASSUME NEW kind \in ErrorKinds, Fail(kind) PROVE pc' # "commit"
    BY <2>4 DEF Fail, Resend
  <2> QED BY <2>1, <2>2, <2>3, <2>4 DEF LoopStep
<1> QED BY <1>2

\* The loop takes no step of its own while it waits for its sync.
LEMMA LoopElsewhere == LoopStep => pc # "sync"
<1>1. Top \/ Get \/ WakeUp \/ ClearCancel \/ Activate \/ Merge \/ Handle
        => pc # "sync"
  BY DEF Top, Get, WakeUp, ClearCancel, Activate, Merge, Handle, Goto
<1>2. Send \/ Answer \/ Response \/ Tools \/ Nap \/ Stamp \/ CommitStamp
        => pc # "sync"
  BY DEF Send, Answer, Response, Tools, Nap, Stamp, CommitStamp, Goto
<1>3. Batch \/ End \/ Stuck \/ Park \/ Post \/ Settle \/ Boundary => pc # "sync"
  BY DEF Batch, End, Stuck, Park, Post, Settle, Boundary, Goto
<1>4. ASSUME NEW kind \in ErrorKinds, Fail(kind) PROVE pc # "sync"
  BY <1>4 DEF Fail
<1> QED BY <1>1, <1>2, <1>3, <1>4 DEF LoopStep

\* HoldInv holds in every step.
LEMMA HoldStep ==
  ASSUME TypeInv, HoldInv, [Next]_vars
  PROVE  HoldInv'
<1>0. ValuesOK /\ None \notin Threads /\ None # "loop" /\ after # "commit"
  BY DEF TypeInv, ValuesOK, Threads, None
<1>1. ASSUME NEW t \in Threads, SyncEnter(t) PROVE HoldInv'
  <2>1. disk # 0 => disk \in Versions
    BY <1>0, ConstantsAssumption DEF ValuesOK, Versions, ConstantsAssumption
  <2>2. pc' \in {pc, after} /\ read' = read /\ syncBy = None
    BY <1>1 DEF SyncEnter, Return, locals, LockFree
  <2>3. \/ UNCHANGED <<syncBy, syncPc, seen>>
        \/ /\ syncBy' = t /\ syncPc' = "branch" /\ seen' \in Versions
           /\ pc' = pc /\ (t = "loop" => pc = "sync")
    BY <1>1, <2>1 DEF SyncEnter, sync, CallsSync
  <2> QED BY <1>0, <2>2, <2>3 DEF HoldInv
<1>2. CASE Inside
  BY <1>2, InsideStays DEF HoldInv, locals
<1>3. CASE Leaving
  BY <1>0, <1>3, LeavingEnds DEF HoldInv, locals
<1>4. CASE LoopStep
  <2>1. UNCHANGED <<syncBy, syncPc, seen>> /\ syncBy # "loop"
    BY <1>4, LoopLeaves, LoopElsewhere DEF sync, HoldInv
  <2>2. CASE Stamp
    BY <1>0, <2>1, <2>2, ConstantsAssumption
       DEF Stamp, HoldInv, ValuesOK, Versions, ConstantsAssumption
  <2>3. CASE pc' # "commit"
    BY <2>1, <2>3 DEF HoldInv
  <2> QED BY <1>4, <2>2, <2>3, OnlyStampCommits
<1>5. CASE BeatStep \/ Outer \/ UNCHANGED vars
  BY <1>5, BeatLeaves, OuterLeaves DEF HoldInv, vars, sync, locals
<1> QED BY <1>1, <1>2, <1>3, <1>4, <1>5, StepSplit

-----------------------------------------------------------------------------
(* Committed means known.                                                  *)

\* What is known of a version is never forgotten.
LEMMA KnownStays ==
  ASSUME TypeInv, [Next]_vars, NEW v \in Versions, fate[v] # "unseen"
  PROVE  fate'[v] # "unseen"
<1>0. fate \in [Versions -> Fates]
  BY DEF TypeInv, ValuesOK
<1>2. ASSUME NEW t \in Threads, SyncEnter(t) PROVE fate' = fate
  BY <1>2 DEF SyncEnter
<1>3. CASE Inside
  <2>1. CASE SyncAppend
    BY <1>0, <2>1 DEF SyncAppend, Moved
  <2>2. CASE SyncBranch \/ SyncRouse \/ SyncInject \/ SyncHeal \/ SyncWake
    BY <2>2 DEF SyncBranch, SyncRouse, SyncInject, SyncHeal, SyncWake, delivery
  <2> QED BY <1>3, <2>1, <2>2 DEF Inside
<1>4. CASE Leaving
  BY <1>0, <1>4 DEF Leaving, SyncCommit, SyncDegrade, SyncPass, Moved
<1>5. CASE LoopStep
  <2>1. CASE CommitStamp
    BY <1>0, <2>1 DEF CommitStamp, Moved
  <2> QED BY <1>0, <1>5, <2>1, LoopFates DEF Advance
<1>6. CASE BeatStep \/ Outer \/ UNCHANGED vars
  BY <1>6, BeatLeaves, OuterLeaves DEF vars, delivery
<1> QED BY <1>2, <1>3, <1>4, <1>5, <1>6, StepSplit

\* Only the version a thread has in hand becomes known: at the append of its pair,
\* at its commit by a sync that injects nothing, and at the commit of a stamp.
LEMMA MadeKnown ==
  ASSUME TypeInv, [Next]_vars, NEW v \in Versions,
         fate[v] = "unseen", fate'[v] # "unseen"
  PROVE  \/ SyncAppend /\ v = seen
         \/ (SyncDegrade \/ SyncPass) /\ v = seen /\ fp' = seen
         \/ CommitStamp /\ v = read
<1>0. fate \in [Versions -> Fates] /\ fate' # fate
  BY DEF TypeInv, ValuesOK
<1>1. ASSUME NEW t \in Threads, SyncEnter(t) PROVE FALSE
  BY <1>0, <1>1 DEF SyncEnter
<1>2. CASE Inside
  <2>1. SyncAppend
    BY <1>0, <1>2 DEF Inside, SyncBranch, SyncRouse, SyncInject, SyncHeal,
                      SyncWake, delivery
  <2> QED BY <1>0, <2>1 DEF SyncAppend
<1>3. CASE Leaving
  BY <1>0, <1>3 DEF Leaving, SyncCommit, SyncDegrade, SyncPass
<1>4. CASE LoopStep
  <2>1. CommitStamp
    BY <1>0, <1>4, LoopFates DEF Advance
  <2> QED BY <1>0, <2>1 DEF CommitStamp
<1>5. CASE BeatStep \/ Outer \/ UNCHANGED vars
  BY <1>0, <1>5, BeatLeaves, OuterLeaves DEF vars, delivery
<1> QED BY <1>1, <1>2, <1>3, <1>4, <1>5, StepSplit

\* Only the stamp commits from the loop; a heal may reset.
LEMMA LoopCommits ==
  LoopStep => \/ CommitStamp
              \/ stray' = stray /\ (UNCHANGED renewal \/ Reset)
<1> DEFINE Keeps == stray' = stray /\ (UNCHANGED renewal \/ Reset)
<1>1. Get \/ WakeUp \/ ClearCancel \/ Activate \/ Merge \/ Handle \/ Answer => Keeps
  BY DEF Get, WakeUp, ClearCancel, Activate, Merge, Handle, Answer, Quiet, delivery
<1>2. Tools \/ Nap \/ Stamp \/ Batch \/ End => Keeps
  BY DEF Tools, Nap, Stamp, Batch, End, Quiet, delivery
<1>3. Stuck \/ Park \/ Post \/ Settle \/ Boundary => Keeps
  BY DEF Stuck, Park, Post, Settle, Boundary, Quiet, delivery
<1>4. Top \/ Send \/ Response => Keeps
  BY Zenon DEF Top, Send, Response, SleepHealed, Heal, Replay
<1>5. ASSUME NEW kind \in ErrorKinds, Fail(kind) PROVE Keeps
  BY Zenon, <1>5 DEF Fail, LeaveDropped, Heal, Replay
<1> QED BY <1>1, <1>2, <1>3, <1>4, <1>5 DEF LoopStep

\* Outside CommitStamp the loop leaves the fingerprint alone or clears it.
LEMMA LoopClears ==
  ASSUME LoopStep, ~CommitStamp
  PROVE  stray' = stray /\ fp' \in {fp, 0}
  BY LoopCommits DEF Reset, renewal

\* Only the append of a pair puts its calls on the tail.
LEMMA OnlyAppendTails ==
  ASSUME [Next]_vars, ofPair', ~SyncAppend, FlagsOK
  PROVE  ofPair
<1>1. ASSUME NEW t \in Threads, SyncEnter(t) PROVE ofPair
  BY Zenon, <1>1 DEF SyncEnter
<1>2. CASE Inside
  BY <1>2 DEF Inside, SyncBranch, SyncRouse, SyncInject, SyncHeal, SyncWake,
              delivery
<1>3. CASE Leaving
  BY <1>3 DEF Leaving, SyncCommit, SyncDegrade, SyncPass
<1>4. CASE LoopStep
  <2>1. Top \/ Get \/ WakeUp \/ ClearCancel \/ Activate \/ Merge \/ Handle \/ Send
          => ofPair' = ofPair
    BY DEF Top, Get, WakeUp, ClearCancel, Activate, Merge, Handle, Send, Quiet,
           delivery
  <2>2. Response \/ Tools \/ Nap \/ Stamp \/ CommitStamp \/ End => ofPair' = ofPair
    BY DEF Response, Tools, Nap, Stamp, CommitStamp, End, Quiet, delivery
  <2>3. Stuck \/ Park \/ Post \/ Settle \/ Boundary => ofPair' = ofPair
    BY DEF Stuck, Park, Post, Settle, Boundary, Quiet, delivery
  <2>4. Answer \/ Batch => ofPair' = FALSE
    BY Zenon DEF Answer, Batch
  <2>5. ASSUME NEW kind \in ErrorKinds, Fail(kind) PROVE ofPair' = ofPair
    BY <2>5 DEF Fail
  <2> QED BY <1>4, <2>1, <2>2, <2>3, <2>4, <2>5 DEF LoopStep
<1>5. CASE BeatStep \/ Outer \/ UNCHANGED vars
  BY Zenon, <1>5, BeatLeaves, OuterLeaves DEF vars, delivery
<1> QED BY <1>1, <1>2, <1>3, <1>4, <1>5, StepSplit

\* KnownInv holds in every step.
LEMMA KnownStep ==
  ASSUME TypeInv, HoldInv, KnownInv, [Next]_vars
  PROVE  KnownInv'
<1>0. fate \in [Versions -> Fates] /\ fp \in 0..MaxVersions
  BY DEF TypeInv, ValuesOK
<1>1. fp # 0 => fp \in Versions
  BY <1>0, ConstantsAssumption DEF ConstantsAssumption, Versions
<1>t. ofPair' => \E v \in Versions : fate'[v] # "unseen"
  <2>1. CASE SyncAppend
    BY <1>0, <2>1 DEF SyncAppend, Within, HoldInv, Moved
  <2>2. CASE ~SyncAppend
    BY <2>2, OnlyAppendTails, KnownStays DEF KnownInv, TypeInv
  <2> QED BY <2>1, <2>2
<1>2. CASE fp' \in {fp, 0} /\ seen' = seen /\ (syncPc' \in {"wake", "commit"}
                                          => syncPc \in {"wake", "commit"})
  <2>1. fp' # 0 => fate'[fp'] # "unseen"
    BY <1>1, <1>2, KnownStays DEF KnownInv, CommittedMeansKnown
  <2>2. syncPc' \in {"wake", "commit"} => fate'[seen'] # "unseen"
    BY <1>2, KnownStays DEF KnownInv, HoldInv
  <2> QED BY <1>t, <2>1, <2>2 DEF KnownInv, CommittedMeansKnown
<1>3. ASSUME NEW t \in Threads, SyncEnter(t) PROVE KnownInv'
  <2>1. \/ fp' \in {fp, 0} /\ UNCHANGED <<syncPc, seen>>
        \/ fp' = fp /\ syncPc' = "branch"
    BY <1>3 DEF SyncEnter, sync
  <2>2. CASE fp' = fp /\ syncPc' = "branch"
    BY <1>1, <1>t, <2>2, KnownStays DEF KnownInv, CommittedMeansKnown
  <2> QED BY <1>2, <2>1, <2>2
<1>4. CASE Inside
  <2>1. CASE SyncAppend
    <3>1. seen \in Versions
      BY <2>1 DEF SyncAppend, Within, HoldInv
    <3>2. fate'[seen] # "unseen" /\ UNCHANGED <<fp, seen>>
      BY <1>0, <2>1, <3>1 DEF SyncAppend, Moved
    <3> QED BY <1>1, <1>t, <3>2, KnownStays DEF KnownInv, CommittedMeansKnown
  <2>2. CASE SyncBranch \/ SyncRouse \/ SyncInject \/ SyncHeal
    <3>1. syncPc' \notin {"wake", "commit"} /\ seen' = seen
      BY <2>2 DEF SyncBranch, SyncRouse, SyncInject, SyncHeal, Within
    <3> QED BY <1>2, <1>4, <3>1, InsideStays
  <2>3. CASE SyncWake
    BY <1>2, <2>3 DEF SyncWake, Within, delivery, renewal
  <2> QED BY <1>4, <2>1, <2>2, <2>3 DEF Inside
<1>5. CASE Leaving
  <2>1. syncPc' = "out" /\ seen \in Versions
    BY <1>5, LeavingEnds DEF HoldInv
  <2>2. fp' # 0 => fate'[fp'] # "unseen"
    <3>1. CASE SyncCommit
      BY <2>1, <3>1, KnownStays DEF SyncCommit, Leave, KnownInv
    <3>2. CASE SyncDegrade
      BY <1>0, <2>1, <3>2 DEF SyncDegrade, Moved
    <3>3. CASE SyncPass
      <4>1. CASE CommitsUninjected
        BY <1>0, <2>1, <3>3, <4>1 DEF SyncPass, CommitsUninjected
      <4>2. CASE ~CommitsUninjected
        BY <1>1, <3>3, <4>2 DEF SyncPass, KnownInv, CommittedMeansKnown
      <4> QED BY <4>1, <4>2
    <3> QED BY <1>5, <3>1, <3>2, <3>3 DEF Leaving
  <2> QED BY <1>t, <2>1, <2>2 DEF KnownInv, CommittedMeansKnown
<1>6. CASE LoopStep
  <2>1. UNCHANGED <<syncPc, seen>>
    BY <1>6, LoopLeaves DEF sync
  <2>2. CASE CommitStamp
    <3>1. read \in Versions /\ fp' = read
      BY <2>2 DEF CommitStamp, Goto, CommitsRead, HoldInv
    <3>2. fate'[read] # "unseen"
      BY <1>0, <2>2, <3>1 DEF CommitStamp, Moved
    <3>3. syncPc' \in {"wake", "commit"} => fate'[seen'] # "unseen"
      BY <2>1, KnownStays DEF KnownInv, HoldInv
    <3> QED BY <1>t, <3>1, <3>2, <3>3 DEF KnownInv, CommittedMeansKnown
  <2> QED BY <1>2, <1>6, <2>1, <2>2, LoopClears
<1>7. CASE BeatStep \/ Outer \/ UNCHANGED vars
  BY <1>2, <1>7, BeatLeaves, OuterLeaves DEF vars, delivery, renewal, sync
<1> QED BY <1>3, <1>4, <1>5, <1>6, <1>7, StepSplit

-----------------------------------------------------------------------------
(* The tail of the history.                                                *)

\* What a step on behalf of a version makes of the fate of any version.
LEMMA AdvanceLeaves ==
  ASSUME TypeInv, NEW from, NEW to, to # "shown", Advance(from, to)
  PROVE  \A v \in Versions :
           /\ fate'[v] = "shown" => fate[v] = "shown"
           /\ "shown" \in from => fate'[v] # "shown"
<1>1. \A v \in Versions : fate'[v] = IF fate[v] \in from THEN to ELSE fate[v]
  BY DEF Advance
<1> QED BY <1>1

\* Only SyncAppend shows a version.
LEMMA OnlyAppendShows ==
  ASSUME TypeInv, HoldInv, [Next]_vars, NEW v \in Versions,
         fate'[v] = "shown", ~SyncAppend
  PROVE  fate[v] = "shown"
<1>0. fate \in [Versions -> Fates]
  BY DEF TypeInv, ValuesOK
<1>1. ASSUME NEW t \in Threads, SyncEnter(t) PROVE fate' = fate
  BY <1>1 DEF SyncEnter
<1>2. CASE Inside
  BY <1>2 DEF Inside, SyncBranch, SyncRouse, SyncInject, SyncHeal, SyncWake,
              delivery
<1>3. CASE Leaving
  BY <1>0, <1>3 DEF Leaving, SyncCommit, SyncDegrade, SyncPass, Moved
<1>4. CASE LoopStep
  <2>1. CASE CommitStamp
    BY <1>0, <2>1 DEF CommitStamp, Moved
  <2> QED BY <1>4, <2>1, LoopFates DEF Advance
<1>5. CASE BeatStep \/ Outer \/ UNCHANGED vars
  BY <1>5, BeatLeaves, OuterLeaves DEF vars, delivery
<1> QED BY <1>1, <1>2, <1>3, <1>4, <1>5, StepSplit

\* A sync puts no call on the tail, and takes no result away from it.
LEMMA SyncTail ==
  ASSUME NEW t \in Threads, SyncEnter(t) \/ Inside \/ Leaving
  PROVE  /\ wire = "results" => wire' = "results"
         /\ wire' = "calls" => wire = "calls"
         /\ pc' \in {pc, after}
<1>1. CASE SyncEnter(t)
  BY <1>1 DEF SyncEnter, Return
<1>2. CASE Inside
  BY <1>2, InsideStays DEF Inside, SyncBranch, SyncRouse, SyncInject, SyncAppend,
     SyncHeal, SyncWake, Heal, Healed, delivery
<1>3. CASE Leaving
  BY <1>3, LeavingEnds
<1> QED BY <1>1, <1>2, <1>3

\* A loop step takes a result off the tail only when a call carries it, or is
\* answered, or fails.
LEMMA LoopTail ==
  ASSUME LoopStep, wire = "results", wire' # "results"
  PROVE  Send \/ Answer \/ \E kind \in ErrorKinds : Fail(kind)
<1>1. Top \/ Get \/ WakeUp \/ ClearCancel \/ Activate \/ Merge \/ Handle
        => wire' = "results"
  BY DEF Top, Get, WakeUp, ClearCancel, Activate, Merge, Handle, SleepHealed,
         Heal, Healed, Quiet, delivery
<1>2. Response \/ Tools \/ Nap \/ Stamp \/ CommitStamp => wire' = "results"
  BY DEF Response, Tools, Nap, Stamp, CommitStamp, Heal, Healed, Quiet, delivery
<1>3. Batch \/ End \/ Stuck \/ Park \/ Post \/ Settle \/ Boundary
        => wire' = "results"
  BY DEF Batch, End, Stuck, Park, Post, Settle, Boundary, Quiet, delivery
<1> QED BY <1>1, <1>2, <1>3 DEF LoopStep

\* No shown version survives a call, its answer or its failure.
LEMMA CallsLeaveNoneShown ==
  ASSUME TypeInv, Send \/ Answer \/ \E kind \in ErrorKinds : Fail(kind)
  PROVE  \A v \in Versions : fate'[v] # "shown"
<1>1. CASE Send
  BY <1>1, AdvanceLeaves DEF Send
<1>2. CASE Answer
  BY <1>2, AdvanceLeaves DEF Answer
<1>3. ASSUME NEW kind \in ErrorKinds, Fail(kind)
      PROVE  \A v \in Versions : fate'[v] # "shown"
  BY <1>3, AdvanceLeaves DEF Fail
<1> QED BY <1>1, <1>2, <1>3

\* ShownOnTop holds in every step.
LEMMA ShownStep ==
  ASSUME TypeInv, HoldInv, ShownOnTop, [Next]_vars
  PROVE  ShownOnTop'
<1> SUFFICES ASSUME NEW v \in Versions, fate'[v] = "shown"
             PROVE  wire' = "results"
  BY DEF ShownOnTop
<1>1. CASE SyncAppend
  BY <1>1 DEF SyncAppend
<1>2. CASE ~SyncAppend
  <2>1. wire = "results"
    BY <1>2, OnlyAppendShows DEF ShownOnTop
  <2>2. ASSUME NEW t \in Threads, SyncEnter(t) PROVE wire' = "results"
    BY <2>1, <2>2, SyncTail
  <2>3. CASE Inside \/ Leaving
    BY <2>1, <2>3, SyncTail DEF Threads
  <2>4. CASE LoopStep
    BY <2>1, <2>4, LoopTail, CallsLeaveNoneShown
  <2>5. CASE BeatStep \/ Outer \/ UNCHANGED vars
    BY <2>1, <2>5, BeatLeaves, OuterLeaves DEF vars, delivery
  <2> QED BY <2>2, <2>3, <2>4, <2>5, StepSplit
<1> QED BY <1>1, <1>2

\* Only the head of the loop goes to sleep on the inbox.
LEMMA OnlyTopSleeps ==
  ASSUME LoopStep, pc' = "asleepGet"
  PROVE  Top
<1>1. Get \/ WakeUp \/ ClearCancel \/ Activate \/ Merge \/ Handle
        => pc' # "asleepGet"
  BY DEF Get, WakeUp, ClearCancel, Activate, Merge, Handle, Goto, Take
<1>2. Send \/ Answer \/ Response \/ Tools \/ Nap \/ Stamp \/ CommitStamp
        => pc' # "asleepGet"
  BY DEF Send, Answer, Response, Tools, Nap, Stamp, CommitStamp, Goto
<1>3. Batch \/ End \/ Stuck \/ Park \/ Post \/ Settle \/ Boundary
        => pc' # "asleepGet"
  BY DEF Batch, End, Stuck, Park, Post, Settle, Boundary, Goto, Resend
<1>4. ASSUME NEW kind \in ErrorKinds, Fail(kind) PROVE pc' # "asleepGet"
  BY <1>4 DEF Fail, Resend
<1> QED BY <1>1, <1>2, <1>3, <1>4 DEF LoopStep

\* AsleepWireAppendable holds in every step.
LEMMA AsleepStep ==
  ASSUME TypeInv, AsleepWireAppendable, [Next]_vars
  PROVE  AsleepWireAppendable'
<1>1. after # "asleepGet"
  BY DEF TypeInv, ValuesOK
<1>2. ASSUME NEW t \in Threads, SyncEnter(t) \/ Inside \/ Leaving
      PROVE  AsleepWireAppendable'
  BY <1>1, <1>2, SyncTail DEF AsleepWireAppendable
<1>3. CASE LoopStep
  <2>1. Top /\ pc' = "asleepGet" => wire' # "calls"
    BY DEF Top, Goto, SleepHealed, Heal, Healed
  <2> QED BY <1>3, <2>1, OnlyTopSleeps DEF AsleepWireAppendable
<1>4. CASE BeatStep \/ Outer \/ UNCHANGED vars
  BY <1>4, BeatLeaves, OuterLeaves DEF AsleepWireAppendable, vars, delivery
<1> QED BY <1>2, <1>3, <1>4, StepSplit DEF Threads

-----------------------------------------------------------------------------
(* A pair is driven.                                                       *)

\* The steps of the loop from the dequeue of a wake to the call it makes.
Driving == {"woke", "wokeClear", "wokeActive", "wokeMerge", "clear", "merge",
            "active", "handle", "send"}

Driven ==
  \/ InQueue(inbox, Wake) \/ syncPc = "wake"
  \/ msg = Wake /\ pc \in Driving

\* PairIsDriven in terms of Driven.
LEMMA DrivenDef ==
  PairIsDriven <=> \A v \in Versions : fate[v] = "shown" /\ ~shutdown => Driven
  BY DEF PairIsDriven, Driven, Driving

\* No step takes a stop back.
LEMMA ShutdownStays ==
  ASSUME [Next]_vars, shutdown
  PROVE  shutdown'
<1> USE DEF events
<1>1. ASSUME NEW t \in Threads, SyncEnter(t) PROVE shutdown'
  BY <1>1 DEF SyncEnter
<1>2. CASE Inside
  BY <1>2 DEF Inside, SyncBranch, SyncRouse, SyncInject, SyncAppend, SyncHeal,
              SyncWake
<1>3. CASE Leaving
  BY <1>3 DEF Leaving, SyncCommit, SyncDegrade, SyncPass
<1>4. CASE LoopStep
  <2>1. CASE Top \/ Get \/ WakeUp \/ ClearCancel \/ Activate \/ Merge \/ Handle
    BY <2>1 DEF Top, Get, WakeUp, ClearCancel, Activate, Merge, Handle, Quiet
  <2>2. CASE Send \/ Answer \/ Response \/ Tools \/ Nap \/ Stamp \/ CommitStamp
    BY <2>2 DEF Send, Answer, Response, Tools, Nap, Stamp, CommitStamp, Quiet
  <2>3. CASE Batch \/ End \/ Stuck \/ Park \/ Post \/ Settle \/ Boundary
    BY <2>3 DEF Batch, End, Stuck, Park, Post, Settle, Boundary, Quiet
  <2>4. ASSUME NEW kind \in ErrorKinds, Fail(kind) PROVE shutdown'
    BY <2>4 DEF Fail
  <2> QED BY <1>4, <2>1, <2>2, <2>3, <2>4 DEF LoopStep
<1>5. CASE BeatStep
  BY <1>5 DEF BeatStep, Tick, Suspend, Check, PublishAsleep, SetAsleep
<1>6. CASE Outer \/ UNCHANGED vars
  BY <1>6 DEF Outer, Publish, Dismiss, SendRequest, Stop, vars
<1> QED BY <1>1, <1>2, <1>3, <1>4, <1>5, <1>6, StepSplit

\* A loop step that leaves some version shown leaves it driven.
LEMMA LoopDrives ==
  ASSUME TypeInv, Driven, LoopStep, wire = "results", ~shutdown,
         NEW v \in Versions, fate'[v] = "shown"
  PROVE  Driven'
<1>0. inbox \in Seq(Texts) /\ syncPc' = syncPc
  BY LoopLeaves DEF TypeInv, ValuesOK, Texts, sync
<1>1. ~(Send \/ Answer \/ \E kind \in ErrorKinds : Fail(kind))
  BY CallsLeaveNoneShown
<1>2. CASE Get
  <2>1. pc \notin Driving
    BY <1>2 DEF Get, Goto, Driving
  <2>2. CASE inbox # <<>> /\ msg' = Head(inbox) /\ inbox' = Tail(inbox)
               /\ pc' \in {"woke", "clear"}
    BY <1>0, <2>1, <2>2, QueueTail DEF Driven, Driving
  <2>3. CASE UNCHANGED <<msg, inbox>>
    BY <1>0, <2>1, <2>3 DEF Driven, InQueue
  <2> QED BY <1>2, <2>2, <2>3 DEF Get, Take
<1>3. CASE WakeUp \/ ClearCancel \/ Activate
  <2>1. pc' \in Driving /\ UNCHANGED <<inbox, msg>>
    BY <1>3 DEF WakeUp, ClearCancel, Activate, Goto, Driving, locals
  <2> QED BY <1>0, <2>1 DEF Driven, InQueue
<1>4. CASE Merge
  <2>1. /\ pc' \in Driving /\ msg' = msg
        /\ InQueue(inbox, Wake) => InQueue(inbox', Wake)
    BY <1>0, <1>4, MergeKeepsWakes DEF Merge, Goto, Driving, locals
  <2> QED BY <1>0, <2>1 DEF Driven, InQueue
<1>5. CASE Handle
  <2>1. /\ msg = Wake => pc' = "send"
        /\ UNCHANGED <<inbox, msg>>
    BY <1>5 DEF Handle, Quiet, Wake, Request
  <2> QED BY <1>0, <2>1 DEF Driven, InQueue, Driving
<1>6. CASE Top \/ Response \/ Tools \/ Nap \/ Stamp \/ CommitStamp
  <2>1. inbox' = inbox /\ pc \notin Driving
    BY <1>6 DEF Top, Response, Tools, Nap, Stamp, CommitStamp, Goto, Driving, Quiet
  <2> QED BY <1>0, <2>1 DEF Driven, InQueue
<1>7. CASE Batch \/ End \/ Stuck \/ Park \/ Post \/ Settle \/ Boundary
  <2>1. inbox' = inbox /\ pc \notin Driving
    BY <1>7 DEF Batch, End, Stuck, Park, Post, Settle, Boundary, Goto, Driving,
                Quiet
  <2> QED BY <1>0, <2>1 DEF Driven, InQueue
<1> QED BY <1>1, <1>2, <1>3, <1>4, <1>5, <1>6, <1>7 DEF LoopStep

\* PairIsDriven holds in every step.
LEMMA DrivenStep ==
  ASSUME TypeInv, HoldInv, ShownOnTop, PairIsDriven, [Next]_vars
  PROVE  PairIsDriven'
<1> SUFFICES ASSUME NEW v \in Versions, fate'[v] = "shown", ~shutdown'
             PROVE  Driven'
  BY DEF PairIsDriven, Driven, Driving
<1>0. inbox \in Seq(Texts) /\ ~shutdown
  BY ShutdownStays DEF TypeInv, ValuesOK, Texts
<1>1. CASE SyncAppend
  BY <1>1 DEF SyncAppend, Within, Driven
<1>2. CASE ~SyncAppend
  <2>1. Driven /\ wire = "results"
    BY <1>0, <1>2, OnlyAppendShows, DrivenDef DEF ShownOnTop
  <2>2. ASSUME NEW t \in Threads, SyncEnter(t) PROVE Driven'
    <3>1. syncPc = "out" /\ UNCHANGED <<inbox, msg>>
      BY <2>2 DEF SyncEnter, LockFree, HoldInv, locals
    <3>2. pc' = pc \/ pc = "sync"
      BY <2>2 DEF SyncEnter, Return, CallsSync
    <3> QED BY <2>1, <3>1, <3>2 DEF Driven, InQueue, Driving
  <2>3. CASE Inside
    <3>1. CASE SyncWake
      BY <1>0, <3>1, QueueAppend DEF SyncWake, Driven, Texts
    <3>2. CASE SyncBranch \/ SyncRouse \/ SyncInject \/ SyncHeal
      <4>1. syncPc # "wake" /\ UNCHANGED <<inbox, msg, pc>>
        BY <3>2 DEF SyncBranch, SyncRouse, SyncInject, SyncHeal, Within, locals
      <4> QED BY <2>1, <4>1 DEF Driven, InQueue
    <3> QED BY <1>2, <2>3, <3>1, <3>2 DEF Inside
  <2>4. CASE Leaving
    <3>1. syncPc # "wake" /\ msg' = msg
      BY <2>4 DEF Leaving, SyncCommit, SyncDegrade, SyncPass, Leave, locals
    <3>2. pc' = pc \/ pc = "sync"
      BY <2>4 DEF Leaving, SyncCommit, SyncDegrade, SyncPass, Leave, Return, HoldInv
    <3>3. InQueue(inbox, Wake) => InQueue(inbox', Wake)
      BY <1>0, <2>4, QueueAppend
         DEF Leaving, SyncCommit, SyncDegrade, SyncPass, Texts
    <3> QED BY <2>1, <3>1, <3>2, <3>3 DEF Driven, InQueue, Driving
  <2>5. CASE LoopStep
    BY <1>0, <2>1, <2>5, LoopDrives
  <2>6. CASE BeatStep \/ UNCHANGED vars
    BY <2>1, <2>6, BeatLeaves DEF Driven, InQueue, vars, locals, sync
  <2>7. CASE Outer
    <3>1. InQueue(inbox, Wake) => InQueue(inbox', Wake)
      BY <1>0, <2>7, QueueAppend
         DEF Outer, Publish, Dismiss, SendRequest, Stop, Texts
    <3> QED BY <2>1, <2>7, <3>1, OuterLeaves DEF Driven, InQueue, locals, sync
  <2> QED BY <2>2, <2>3, <2>4, <2>5, <2>6, <2>7, StepSplit
<1> QED BY <1>1, <1>2

-----------------------------------------------------------------------------
(* No version is injected twice.                                           *)

\* Only the stamp reads the store, and only its commit forgets what was read.
LEMMA LoopReads ==
  LoopStep => Stamp \/ CommitStamp \/ read' = read
<1> USE DEF Quiet, locals
<1>1. Top \/ Get \/ WakeUp \/ ClearCancel \/ Activate \/ Merge \/ Handle \/ Send
        => read' = read
  BY DEF Top, Get, WakeUp, ClearCancel, Activate, Merge, Handle, Send
<1>2. Answer \/ Response \/ Tools \/ Nap \/ Batch \/ End => read' = read
  BY DEF Answer, Response, Tools, Nap, Batch, End
<1>3. Stuck \/ Park \/ Post \/ Settle \/ Boundary => read' = read
  BY DEF Stuck, Park, Post, Settle, Boundary
<1>4. ASSUME NEW kind \in ErrorKinds, Fail(kind) PROVE read' = read
  BY <1>4 DEF Fail
<1> QED BY <1>1, <1>2, <1>3, <1>4 DEF LoopStep

\* What every invariant about versions needs of the types.
Numbers ==
  /\ disk \in Nat /\ published \in Nat /\ fp \in Nat /\ seen \in Nat
  /\ read \in Nat /\ Versions \subseteq Nat
  /\ pairs \in [Versions -> 0..2] /\ fate \in [Versions -> Fates]
  /\ again \subseteq Versions

\* The types give them.
LEMMA TypedNumbers == TypeInv => Numbers
  BY ConstantsAssumption
     DEF ConstantsAssumption, TypeInv, ValuesOK, Numbers, Versions

\* Whatever moves between the store and the threads was published.
LEMMA BoundedStep ==
  ASSUME TypeInv, HoldInv, VersionInv, [Next]_vars
  PROVE  /\ disk' \in {0, published'} /\ published <= published'
         /\ seen' <= published' /\ read' <= published' /\ fp' <= published'
<1>0. Numbers
  BY TypedNumbers
<1>1. ASSUME NEW t \in Threads, SyncEnter(t)
      PROVE  /\ disk' \in {0, published'} /\ published <= published'
             /\ seen' <= published' /\ read' <= published' /\ fp' <= published'
  <2>1. /\ UNCHANGED <<disk, published, read>>
        /\ seen' \in {seen, disk} /\ fp' \in {fp, 0}
    BY <1>1 DEF SyncEnter, sync, notices, locals
  <2> QED BY <1>0, <2>1 DEF VersionInv, Numbers
<1>2. CASE Inside
  <2>1. UNCHANGED <<disk, published, read, seen>> /\ fp' \in {fp, 0}
    BY <1>2, InsideStays DEF locals
  <2> QED BY <1>0, <2>1 DEF VersionInv, Numbers
<1>3. CASE Leaving
  <2>1. UNCHANGED <<disk, published, read>>
    BY <1>3, LeavingEnds DEF notices, locals
  <2>2. fp' \in {fp, seen} /\ seen' = 0
    BY <1>3 DEF Leaving, SyncCommit, SyncDegrade, SyncPass, Leave
  <2> QED BY <1>0, <2>1, <2>2 DEF VersionInv, Numbers
<1>4. CASE LoopStep
  <2>1. UNCHANGED <<disk, published, seen>>
    BY <1>4, LoopLeaves DEF notices, sync
  <2>2. CASE Stamp
    BY <1>0, <2>1, <2>2 DEF Stamp, Quiet, delivery, renewal, VersionInv, Numbers
  <2>3. CASE CommitStamp
    <3>1. fp' = read /\ read' = 0
      BY <2>3 DEF CommitStamp, CommitsRead
    <3> QED BY <1>0, <2>1, <3>1 DEF VersionInv, Numbers
  <2>4. CASE fp' \in {fp, 0} /\ read' = read
    BY <1>0, <2>1, <2>4 DEF VersionInv, Numbers
  <2> QED BY <1>4, <2>2, <2>3, <2>4, LoopReads, LoopClears
<1>5. CASE BeatStep \/ UNCHANGED vars
  <2>1. UNCHANGED <<notices, seen, read, fp>>
    BY <1>5, BeatLeaves DEF vars, delivery, renewal, locals, sync
  <2> QED BY <1>0, <2>1 DEF VersionInv, Numbers, notices
<1>6. CASE Outer
  <2>1. UNCHANGED <<seen, read, fp>>
    BY <1>6, OuterLeaves DEF delivery, renewal, locals, sync
  <2>2. \/ disk' = published' /\ published' = published + 1
        \/ disk' \in {disk, 0} /\ published' = published
    BY <1>6 DEF Outer, Publish, Dismiss, SendRequest, Stop, notices
  <2> QED BY <1>0, <2>1, <2>2 DEF VersionInv, Numbers
<1> QED BY <1>1, <1>2, <1>3, <1>4, <1>5, <1>6, StepSplit

\* VersionInv holds in every step.
LEMMA VersionStep ==
  ASSUME TypeInv, HoldInv, VersionInv, [Next]_vars
  PROVE  VersionInv'
<1>0. Numbers /\ published' \in Nat
  BY TypedNumbers, TypingStep, ConstantsAssumption
     DEF TypeInv, ValuesOK, ConstantsAssumption
<1>1. ASSUME NEW v \in Versions, fate'[v] # "unseen" PROVE v <= published'
  <2>1. v <= published
    BY <1>0, <1>1, MadeKnown DEF VersionInv
  <2> QED BY <1>0, <2>1, BoundedStep DEF Numbers
<1> QED BY <1>1, BoundedStep DEF VersionInv

\* Only the loop makes the agent active.
LEMMA OnlyLoopActivates ==
  ASSUME [Next]_vars, state' = "ACTIVE", ~LoopStep
  PROVE  state = "ACTIVE"
<1>1. ASSUME NEW t \in Threads, SyncEnter(t) PROVE state = "ACTIVE"
  BY <1>1 DEF SyncEnter
<1>2. CASE Inside
  BY <1>2 DEF Inside, SyncBranch, SyncRouse, SyncInject, SyncAppend, SyncHeal,
              SyncWake
<1>3. CASE Leaving
  BY <1>3 DEF Leaving, SyncCommit, SyncDegrade, SyncPass
<1>4. CASE BeatStep
  BY <1>4 DEF BeatStep, Tick, Suspend, Check, PublishAsleep, SetAsleep
<1>5. CASE Outer \/ UNCHANGED vars
  BY <1>5, OuterLeaves DEF vars
<1> QED BY <1>1, <1>2, <1>3, <1>4, <1>5, StepSplit

\* StampInv holds in every step.
LEMMA StampStep ==
  ASSUME TypeInv, HoldInv, VersionInv, StampInv, [Next]_vars
  PROVE  StampInv'
<1> SUFFICES ASSUME pc' = "commit", state' = "ACTIVE"
             PROVE  /\ fp' <= read'
                    /\ \A v \in Versions : fate'[v] # "unseen" => v <= read'
                    /\ syncPc' \in Injecting => seen' <= read'
  BY DEF StampInv
<1>0. Numbers /\ after # "commit"
  BY TypedNumbers DEF TypeInv, ValuesOK
<1>1. CASE LoopStep
  <2>1. Stamp
    BY <1>1, OnlyStampCommits
  <2>2. read' = published
    BY <2>1 DEF Stamp, VersionInv
  <2>3. seen' = seen
    BY <1>1, LoopLeaves DEF sync
  <2>4. UNCHANGED <<fp, fate>>
    BY <2>1 DEF Stamp, Quiet, delivery, renewal
  <2> QED BY <2>2, <2>3, <2>4 DEF VersionInv
<1>2. CASE ~LoopStep
  <2>0. state = "ACTIVE"
    BY <1>2, OnlyLoopActivates
  <2>1. ASSUME pc = "commit"
        PROVE  /\ fp <= read
               /\ \A v \in Versions : fate[v] # "unseen" => v <= read
               /\ syncPc \in Injecting => seen <= read
    BY <2>0, <2>1 DEF StampInv
  <2>2. ASSUME NEW t \in Threads, SyncEnter(t)
        PROVE  /\ fp' <= read'
               /\ \A v \in Versions : fate'[v] # "unseen" => v <= read'
               /\ syncPc' \in Injecting => seen' <= read'
    <3>1. pc = "commit" /\ UNCHANGED <<fate, read>>
      BY <1>0, <2>2 DEF SyncEnter, Return, locals
    <3>2. syncPc' = "branch" \/ UNCHANGED <<syncPc, seen>>
      BY <2>2 DEF SyncEnter, sync
    <3>3. fp' \in {fp, 0}
      BY <2>2 DEF SyncEnter
    <3> QED BY <1>0, <2>1, <3>1, <3>2, <3>3 DEF Injecting, Numbers
  <2>3. CASE Inside
    <3>1. pc = "commit" /\ UNCHANGED <<read, seen>> /\ fp' \in {fp, 0}
      BY <2>3, InsideStays DEF locals
    <3>f. fp' <= read'
      BY <1>0, <2>1, <3>1 DEF Numbers
    <3>2. CASE SyncAppend
      <4>1. syncPc \in Injecting
        BY <3>2 DEF SyncAppend, Within, Injecting
      <4>2. \A v \in Versions : v # seen => fate'[v] = fate[v]
        BY <1>0, <3>2 DEF SyncAppend, Numbers
      <4> QED BY <2>1, <3>1, <3>f, <4>1, <4>2
    <3>3. CASE SyncBranch
      <4>1. syncPc' \in {"test", "pass"} /\ fate' = fate
        BY <2>0, <3>3 DEF SyncBranch, Within, delivery
      <4> QED BY <2>1, <3>1, <3>f, <4>1 DEF Injecting
    <3>4. CASE SyncRouse \/ SyncInject \/ SyncHeal \/ SyncWake
      <4>1. syncPc \in Injecting /\ fate' = fate
        BY <3>4 DEF SyncRouse, SyncInject, SyncHeal, SyncWake, Within, delivery,
                    Injecting
      <4> QED BY <2>1, <3>1, <3>f, <4>1
    <3> QED BY <2>3, <3>2, <3>3, <3>4 DEF Inside
  <2>4. CASE Leaving
    <3>1. pc = "commit" /\ syncPc' = "out" /\ read' = read
      BY <1>0, <2>4, LeavingEnds DEF locals
    <3>2. \/ UNCHANGED <<fp, fate>>
          \/ /\ fp' = seen /\ syncPc \in Injecting
             /\ \A v \in Versions : v # seen => fate'[v] = fate[v]
      BY <1>0, <2>0, <2>4 DEF Leaving, SyncCommit, SyncDegrade, SyncPass, Leave,
                              CommitsUninjected, Injecting, Numbers
    <3> QED BY <2>1, <3>1, <3>2 DEF Injecting
  <2>5. CASE BeatStep \/ Outer \/ UNCHANGED vars
    <3>1. UNCHANGED <<pc, fp, fate, read, syncPc, seen>>
      BY <2>5, BeatLeaves, OuterLeaves DEF vars, delivery, renewal, locals, sync
    <3> QED BY <2>1, <3>1
  <2> QED BY <1>2, <2>2, <2>3, <2>4, <2>5, StepSplit
<1> QED BY <1>1, <1>2

\* SeenInv holds in every step: the version taken in hand is the last one, and
\* no one else commits before the lock is released but a stray batch.
LEMMA SeenStep ==
  ASSUME TypeInv, HoldInv, VersionInv, SeenInv, [Next]_vars
  PROVE  SeenInv'
<1> SUFFICES ASSUME ~stray', syncPc' # "out"
             PROVE  fp' <= seen'
  BY DEF SeenInv
<1>0. Numbers
  BY TypedNumbers
<1>1. ASSUME NEW t \in Threads, SyncEnter(t) PROVE fp' <= seen'
  <2>1. syncPc = "out"
    BY <1>1 DEF SyncEnter, LockFree, HoldInv
  <2>2. disk # 0 /\ seen' = disk /\ fp' = fp
    BY <1>1, <2>1 DEF SyncEnter, sync
  <2> QED BY <1>0, <2>2 DEF VersionInv, Numbers
<1>2. CASE Inside
  <2>1. UNCHANGED <<stray, seen>> /\ syncPc # "out" /\ fp' \in {fp, 0}
    BY <1>2, InsideStays
  <2> QED BY <1>0, <2>1 DEF SeenInv, Numbers
<1>3. CASE Leaving
  BY <1>3, LeavingEnds
<1>4. CASE LoopStep
  <2>1. UNCHANGED <<syncPc, seen>>
    BY <1>4, LoopLeaves DEF sync
  <2>2. ~CommitStamp
    BY <2>1 DEF CommitStamp, HoldInv
  <2>3. stray' = stray /\ fp' \in {fp, 0}
    BY <1>4, <2>2, LoopClears
  <2> QED BY <1>0, <2>1, <2>3 DEF SeenInv, Numbers
<1>5. CASE BeatStep \/ Outer \/ UNCHANGED vars
  BY <1>5, BeatLeaves, OuterLeaves DEF SeenInv, vars, delivery, renewal, sync
<1> QED BY <1>1, <1>2, <1>3, <1>4, <1>5, StepSplit

\* A reset keeps FateInv: what was committed, if it is up, is due again.
LEMMA ResetFates ==
  ASSUME Numbers, HoldInv, VersionInv, FateInv, Reset,
         UNCHANGED <<stray, published, disk, seen>>,
         \A v \in Versions : fate'[v] # "unseen" <=> fate[v] # "unseen",
         \/ syncPc' = syncPc
         \/ syncPc \notin {"out", "wake", "commit"}
            /\ syncPc' \notin {"out", "wake", "commit"}
  PROVE  FateInv'
<1>1. /\ fp' = 0 /\ again \subseteq again'
      /\ disk # 0 => disk = published /\ disk \in again'
  BY DEF Reset, VersionInv
<1>2. syncPc # "out" => seen \in Versions /\ published # 0
  BY ConstantsAssumption
     DEF HoldInv, VersionInv, Numbers, Versions, ConstantsAssumption
<1>3. ASSUME ~stray, NEW v \in Versions, fate[v] # "unseen"
      PROVE  \/ v < published \/ disk = 0 \/ v \in again'
             \/ syncPc' \in {"wake", "commit"} /\ v = seen
  <2>1. v <= published
    BY <1>3 DEF VersionInv
  <2> QED BY <1>1, <1>3, <2>1 DEF FateInv, Numbers
<1>4. ~stray /\ syncPc' \notin {"out", "wake", "commit"} =>
        fate'[seen] = "unseen" \/ seen \in again'
  BY <1>1, <1>2 DEF FateInv
<1> QED BY <1>1, <1>2, <1>3, <1>4 DEF FateInv

\* FateInv holds in every step.
LEMMA FateStep ==
  ASSUME TypeInv, HoldInv, VersionInv, StampInv, FateInv, [Next]_vars
  PROVE  FateInv'
<1>0. Numbers
  BY TypedNumbers
<1>1. ASSUME NEW t \in Threads, SyncEnter(t) PROVE FateInv'
  <2>0. syncPc = "out" /\ UNCHANGED <<stray, fate, again, published, disk>>
    BY <1>1 DEF SyncEnter, LockFree, HoldInv, notices
  <2>1. CASE UNCHANGED <<fp, syncPc, seen>>
    BY <2>0, <2>1 DEF FateInv
  <2>2. CASE disk = 0 /\ UNCHANGED <<syncPc, seen>>
    BY <2>0, <2>2 DEF FateInv
  <2>3. CASE /\ disk # fp /\ disk # 0 /\ fp' = fp
             /\ syncPc' = "branch" /\ seen' = disk
    <3>1. disk = published /\ published \in Versions /\ published # fp
      BY <1>0, <1>1, <2>3, ConstantsAssumption
         DEF VersionInv, TypeInv, ValuesOK, Versions, ConstantsAssumption
    <3>2. ~stray => fate[published] = "unseen" \/ published \in again
      BY <1>0, <2>0, <2>3, <3>1 DEF FateInv, Numbers
    <3> QED BY <2>0, <2>3, <3>1, <3>2 DEF FateInv
  <2> QED BY <1>1, <2>1, <2>2, <2>3 DEF SyncEnter, sync
<1>2. CASE Inside
  <2>0. seen \in Versions /\ UNCHANGED <<seen, stray, published, disk>>
    BY <1>2, InsideStays DEF HoldInv
  <2>1. CASE SyncAppend
    <3>1. /\ fp' = fp /\ syncPc' = "wake" /\ again' = again \ {seen}
          /\ syncPc \notin {"out", "wake", "commit"}
          /\ \A v \in Versions : v # seen => fate'[v] = fate[v]
      BY <1>0, <2>0, <2>1 DEF SyncAppend, Within, Numbers
    <3> QED BY <2>0, <3>1 DEF FateInv
  <2>2. CASE SyncWake
    <3>1. /\ UNCHANGED <<fp, again, fate>>
          /\ syncPc = "wake" /\ syncPc' = "commit"
      BY <2>2 DEF SyncWake, Within, delivery, renewal
    <3> QED BY <2>0, <3>1 DEF FateInv
  <2>3. CASE SyncBranch \/ SyncRouse \/ SyncInject \/ SyncHeal
    <3>1. /\ fate' = fate
          /\ syncPc \notin {"out", "wake", "commit"}
          /\ syncPc' \notin {"out", "wake", "commit"}
          /\ UNCHANGED renewal \/ Reset
      BY <2>3 DEF SyncBranch, SyncRouse, SyncInject, SyncHeal, Within, delivery,
                  Heal, Replay
    <3>2. CASE UNCHANGED renewal
      BY <2>0, <3>1, <3>2 DEF FateInv, renewal
    <3>3. CASE Reset
      BY <1>0, <2>0, <3>1, <3>3, ResetFates
    <3> QED BY <3>1, <3>2, <3>3
  <2> QED BY <1>2, <2>1, <2>2, <2>3 DEF Inside
<1>3. CASE Leaving
  <2>1. /\ UNCHANGED <<stray, published, disk>>
        /\ syncPc # "out" /\ syncPc' = "out"
    BY <1>3, LeavingEnds DEF notices
  <2>2. \/ /\ fp' = seen /\ again' = again \ {seen}
           /\ \A v \in Versions : v # seen => fate'[v] = fate[v]
        \/ UNCHANGED <<fp, again, fate>> /\ syncPc = "pass"
    BY <1>0, <1>3 DEF Leaving, SyncCommit, SyncDegrade, SyncPass, Leave, Numbers
  <2>3. ASSUME ~stray, NEW v \in Versions, fate'[v] # "unseen"
        PROVE  v < published \/ v = fp' \/ disk = 0 \/ v \in again'
    <3>1. v = fp => v < published
      BY <1>0, <2>1, <2>3 DEF FateInv, VersionInv, Numbers
    <3> QED BY <2>1, <2>2, <2>3, <3>1 DEF FateInv
  <2> QED BY <2>1, <2>3 DEF FateInv
<1>4. CASE LoopStep
  <2>1. UNCHANGED <<published, disk, syncPc, seen>>
    BY <1>4, LoopLeaves DEF notices, sync
  <2>2. CASE CommitStamp
    <3> SUFFICES ASSUME ~stray' PROVE FateInv'
      BY DEF FateInv
    <3>1. /\ ~stray /\ state = "ACTIVE" /\ syncPc = "out" /\ fp' = read
          /\ pc = "commit"
      BY <2>2 DEF CommitStamp, CommitsRead, HoldInv, Goto
    <3>2. \A v \in Versions : v # read => fate'[v] = fate[v]
      BY <1>0, <2>2 DEF CommitStamp, Numbers
    <3>3. \A v \in Versions : fate'[v] # "unseen" => v < published \/ v = read
      BY <1>0, <3>1, <3>2 DEF StampInv, VersionInv, Numbers
    <3> QED BY <2>1, <3>1, <3>3 DEF FateInv
  <2>3. CASE ~CommitStamp
    <3>1. stray' = stray /\ (UNCHANGED renewal \/ Reset)
      BY <1>4, <2>3, LoopCommits
    <3>2. \A v \in Versions : fate'[v] # "unseen" <=> fate[v] # "unseen"
      BY <1>4, <2>3, LoopFates DEF Advance
    <3>3. syncPc # "out" => seen \in Versions
      BY DEF HoldInv
    <3>4. CASE UNCHANGED renewal
      BY <2>1, <3>1, <3>2, <3>3, <3>4 DEF FateInv, renewal
    <3>5. CASE Reset
      BY <1>0, <2>1, <3>1, <3>2, <3>5, ResetFates
    <3> QED BY <3>1, <3>4, <3>5
  <2> QED BY <2>2, <2>3
<1>5. CASE BeatStep \/ UNCHANGED vars
  BY <1>5, BeatLeaves DEF FateInv, vars, notices, delivery, renewal, locals, sync
<1>6. CASE Outer
  <2>1. UNCHANGED <<fp, again, stray, fate, syncPc, seen>>
    BY <1>6, OuterLeaves DEF delivery, renewal, sync
  <2>2. CASE published' = published + 1
    BY <1>0, <2>1, <2>2 DEF FateInv, VersionInv, Numbers
  <2>3. CASE published' = published /\ disk' \in {disk, 0}
    BY <2>1, <2>3 DEF FateInv
  <2>4. published' = published + 1 \/ (published' = published /\ disk' \in {disk, 0})
    BY <1>6 DEF Outer, Publish, Dismiss, SendRequest, Stop, notices
  <2> QED BY <2>2, <2>3, <2>4
<1> QED BY <1>1, <1>2, <1>3, <1>4, <1>5, <1>6, StepSplit

\* Once a batch was stray, stray it is.
LEMMA StrayStays ==
  ASSUME [Next]_vars, stray
  PROVE  stray'
<1>1. ASSUME NEW t \in Threads, SyncEnter(t) PROVE stray'
  BY Zenon, <1>1 DEF SyncEnter
<1>2. CASE Inside
  BY Zenon, <1>2, InsideStays
<1>3. CASE Leaving
  BY Zenon, <1>3, LeavingEnds
<1>4. CASE LoopStep
  <2>1. CommitStamp => stray'
    BY Zenon DEF CommitStamp
  <2> QED BY Zenon, <1>4, <2>1, LoopCommits
<1>5. CASE BeatStep \/ Outer \/ UNCHANGED vars
  BY Zenon, <1>5, BeatLeaves, OuterLeaves DEF vars, delivery
<1> QED BY Zenon, <1>1, <1>2, <1>3, <1>4, <1>5, StepSplit

\* Only the append of a pair counts one, and only a reset makes a version due again.
LEMMA OnlyAppendPairs ==
  ASSUME [Next]_vars, ~SyncAppend
  PROVE  Reset \/ (pairs' = pairs /\ again' \subseteq again)
<1>1. ASSUME NEW t \in Threads, SyncEnter(t) PROVE UNCHANGED <<pairs, again>>
  BY <1>1 DEF SyncEnter
<1>2. CASE Inside
  BY <1>2 DEF Inside, SyncBranch, SyncRouse, SyncInject, SyncHeal, SyncWake,
              Heal, Replay, delivery, renewal
<1>3. CASE Leaving
  BY <1>3 DEF Leaving, SyncCommit, SyncDegrade, SyncPass
<1>4. CASE LoopStep
  <2>1. CommitStamp => pairs' = pairs /\ again' \subseteq again
    BY DEF CommitStamp
  <2> QED BY <1>4, <2>1, LoopCommits DEF renewal
<1>5. CASE BeatStep \/ Outer \/ UNCHANGED vars
  BY <1>5, BeatLeaves, OuterLeaves DEF vars, delivery, renewal
<1> QED BY <1>1, <1>2, <1>3, <1>4, <1>5, StepSplit

\* PairInv holds in every step.
LEMMA PairStep ==
  ASSUME TypeInv, HoldInv, FateInv, PairInv, [Next]_vars
  PROVE  PairInv'
<1>0. Numbers
  BY TypedNumbers
<1>1. CASE SyncAppend
  <2>1. /\ syncPc \notin {"out", "wake", "commit"} /\ stray' = stray
        /\ pairs' = [pairs EXCEPT ![seen] = IF pairs[seen] = 0 THEN 1 ELSE 2]
        /\ fate' = [fate EXCEPT ![seen] = Moved(seen, "shown")]
        /\ again' = again \ {seen}
    BY Zenon, <1>1 DEF SyncAppend, Within
  <2>2. seen \in Versions
    BY <2>1 DEF HoldInv
  <2>3. ~stray => pairs[seen] = 0
    BY <2>1, <2>2 DEF FateInv, PairInv
  <2>4. fate'[seen] # "unseen"
    BY <1>0, <2>1, <2>2 DEF Moved, Numbers
  <2> QED BY <1>0, <2>1, <2>2, <2>3, <2>4 DEF PairInv, Numbers
<1>2. CASE ~SyncAppend
  <2>1. CASE pairs' = pairs /\ again' \subseteq again
    BY <2>1, KnownStays, StrayStays DEF PairInv
  <2>2. CASE Reset
    BY <1>0, <2>2, KnownStays, StrayStays DEF Reset, PairInv, Numbers
  <2> QED BY <1>2, <2>1, <2>2, OnlyAppendPairs
<1> QED BY <1>1, <1>2

-----------------------------------------------------------------------------
(* The theorems.                                                           *)

IInv ==
  /\ TypeInv /\ HoldInv /\ KnownInv /\ ShownOnTop /\ PairIsDriven
  /\ AsleepWireAppendable /\ VersionInv /\ StampInv /\ SeenInv
  /\ FateInv /\ PairInv

\* The initial states satisfy the inductive invariant ...
LEMMA InitIInv == Init => IInv
<1> SUFFICES ASSUME Init PROVE IInv
  OBVIOUS
<1>1. TypeInv
  BY InitTypeInv
<1>2. /\ HoldInv /\ KnownInv /\ ShownOnTop /\ PairIsDriven
      /\ AsleepWireAppendable
  BY DEF Init, HoldInv, KnownInv, CommittedMeansKnown, ShownOnTop, PairIsDriven,
         AsleepWireAppendable, None
<1>3. VersionInv /\ StampInv /\ SeenInv
  BY DEF Init, VersionInv, StampInv, SeenInv
<1>4. FateInv /\ PairInv
  BY DEF Init, FateInv, PairInv
<1> QED BY <1>1, <1>2, <1>3, <1>4 DEF IInv

\* ... and every step keeps it.
LEMMA IInvStep == IInv /\ [Next]_vars => IInv'
  BY TypingStep, HoldStep, KnownStep, ShownStep, DrivenStep, AsleepStep,
     VersionStep, StampStep, SeenStep, FateStep, PairStep DEF IInv

\* The inductive invariant holds in every reachable state.
THEOREM Invariance == Spec => []IInv
  BY InitIInv, IInvStep, PTL DEF Spec

\* The fingerprint never swallows a version: what is committed is on the wire,
\* named in a degraded message, or dropped in a state that cannot inject.
THEOREM NothingSwallowed == Spec => []CommittedMeansKnown
<1>1. IInv => CommittedMeansKnown
  BY DEF IInv, KnownInv
<1> QED BY <1>1, Invariance, PTL

\* A pair on the tail of the history always has a wake coming, or a turn about to
\* make the call that carries it.
THEOREM EveryPairDriven == Spec => []PairIsDriven
<1>1. IInv => PairIsDriven
  BY DEF IInv
<1> QED BY <1>1, Invariance, PTL

\* A sleeping agent's history can always be appended to.
THEOREM SleepsAppendable == Spec => []AsleepWireAppendable
<1>1. IInv => AsleepWireAppendable
  BY DEF IInv
<1> QED BY <1>1, Invariance, PTL

\* The heartbeat and the run loop never both inject one version: between two resets
\* by a redacted replay it gets one pair at most, unless a batch was stamped outside
\* a turn or against a sync in progress.
THEOREM NeverPairedTwice == Spec => []PairedOnce
<1>1. IInv => PairedOnce
  BY DEF IInv, PairInv, PairedOnce
<1> QED BY <1>1, Invariance, PTL

\* A step from a state of the invariant does not set the fingerprint back.
LEMMA FingerprintStep ==
  ASSUME IInv, [Next]_vars
  PROVE  fp' >= fp \/ fp' = 0 \/ stray'
<1>0. Numbers /\ HoldInv /\ StampInv /\ SeenInv
  BY TypedNumbers DEF IInv
<1>1. ASSUME NEW t \in Threads, SyncEnter(t) PROVE fp' >= fp \/ fp' = 0
  BY <1>0, <1>1 DEF SyncEnter, Numbers
<1>2. CASE Inside
  <2>1. fp' \in {fp, 0}
    BY <1>2, InsideStays
  <2> QED BY <1>0, <2>1 DEF Numbers
<1>3. CASE Leaving
  <2>1. syncPc # "out" /\ fp' \in {fp, seen} /\ stray' = stray
    BY <1>3 DEF Leaving, SyncCommit, SyncDegrade, SyncPass, Leave
  <2> QED BY <1>0, <2>1 DEF SeenInv, Numbers
<1>4. CASE LoopStep
  <2>1. CASE CommitStamp
    <3>1. fp' = read /\ pc = "commit" /\ (state = "ACTIVE" \/ stray')
      BY <2>1 DEF CommitStamp, CommitsRead, Goto
    <3> QED BY <1>0, <3>1 DEF StampInv, Numbers
  <2>2. CASE fp' \in {fp, 0}
    BY <1>0, <2>2 DEF Numbers
  <2> QED BY <1>4, <2>1, <2>2, LoopClears
<1>5. CASE BeatStep \/ Outer \/ UNCHANGED vars
  <2>1. fp' = fp
    BY <1>5, BeatLeaves, OuterLeaves DEF vars, delivery, renewal
  <2> QED BY <1>0, <2>1 DEF Numbers
<1> QED BY <1>1, <1>2, <1>3, <1>4, <1>5, StepSplit

\* The committed fingerprint only moves forward or is cleared, unless a batch was
\* stamped outside a turn or against a sync in progress.
THEOREM FingerprintHolds == Spec => FingerprintNeverRegresses
<1>1. IInv /\ [Next]_vars => [fp' >= fp \/ fp' = 0 \/ stray']_vars
  BY FingerprintStep
<1> QED BY <1>1, Invariance, PTL DEF Spec, FingerprintNeverRegresses

-----------------------------------------------------------------------------
(* The promise about notices.                                              *)

\* The life cycle begins where the promise does.
LEMMA NoticesInit == Init => Notices!Init
  BY DEF Init, Notices!Init, Versions

\* A heal that resets redacts: a pair is on the history, so some version is known.
LEMMA ResetRedacts ==
  ASSUME IInv, ofPair, Reset, UNCHANGED <<disk, published, stray>>,
         \/ fate' = fate /\ \A v \in Versions : fate[v] # "shown"
         \/ Advance({"shown"}, "left")
         \/ Advance({"shown", "stamped", "left"}, "told")
  PROVE  Notices!Redact
<1>1. \E v \in 1..MaxVersions : fate[v] # "unseen"
  BY DEF IInv, KnownInv, Versions
<1>2. fate' \in {Notices!Told, Notices!Passed({"shown"}, "left")}
  <2>1. CASE fate' = fate /\ \A v \in Versions : fate[v] # "shown"
    BY <2>1, TypedNumbers DEF IInv, Numbers, Notices!Passed, Versions
  <2>2. CASE Advance({"shown"}, "left") \/ Advance({"shown", "stamped", "left"}, "told")
    BY <2>2 DEF Advance, Notices!Told, Notices!Passed, Versions
  <2> QED BY <2>1, <2>2
<1>3. /\ fp' = 0 /\ again' = again \union ({disk} \ {0})
      /\ UNCHANGED <<disk, published, stray>>
  BY DEF Reset
<1> QED BY Zenon, <1>1, <1>2, <1>3 DEF Notices!Redact, Notices!Published

\* A step of a sync that goes on injects, redacts, or shows nothing.
LEMMA InsideNotices ==
  ASSUME IInv, Inside
  PROVE  [Notices!Next]_(Notices!vars)
<1>0. Numbers /\ HoldInv /\ VersionInv /\ SeenInv /\ FateInv
  BY TypedNumbers DEF IInv
<1>1. seen \in Versions /\ seen \in 1..MaxVersions /\ seen \in 1..published
  BY <1>0, InsideStays DEF HoldInv, VersionInv, Numbers, Versions
<1>2. UNCHANGED <<disk, published, stray>>
  BY InsideStays
<1>3. CASE SyncAppend
  <2>1. /\ syncPc \notin {"out", "wake", "commit"} /\ fp' = fp
        /\ fate' = [fate EXCEPT ![seen] = Moved(seen, "shown")]
        /\ again' = again \ {seen}
    BY Zenon, <1>3 DEF SyncAppend, Within
  <2>2. CASE fate[seen] = "told" /\ seen \notin again
    <3>1. fate' = fate /\ again' = again
      BY <1>0, <2>1, <2>2 DEF Numbers, Moved
    <3> QED BY <1>2, <2>1, <3>1 DEF Notices!vars
  <2>3. CASE fate[seen] # "told" \/ seen \in again
    <3>1. stray \/ (seen >= fp /\ (fate[seen] = "unseen" \/ seen \in again))
      BY <1>0, <2>1 DEF SeenInv, FateInv, Numbers
    <3>2. fate' = [fate EXCEPT ![seen] = "shown"]
      BY <2>1, <2>3 DEF Moved
    <3>3. Notices!Offer(seen)
      BY <1>1, <1>2, <2>1, <2>3, <3>1, <3>2
         DEF Notices!Offer, Notices!Due, Notices!Published
    <3> QED BY <1>1, <3>3 DEF Notices!Next
  <2> QED BY <2>2, <2>3
<1>4. CASE SyncBranch \/ SyncRouse \/ SyncInject \/ SyncWake
  BY <1>2, <1>4 DEF SyncBranch, SyncRouse, SyncInject, SyncWake, delivery, renewal,
                    Notices!vars
<1>5. CASE SyncHeal
  <2>1. /\ fate' = fate
        /\ UNCHANGED renewal \/ (wire = "calls" /\ ofPair /\ Reset)
    BY Zenon, <1>5 DEF SyncHeal, Heal, Replay
  <2>2. CASE UNCHANGED renewal
    BY <1>2, <2>1, <2>2 DEF renewal, Notices!vars
  <2>3. CASE wire = "calls" /\ ofPair /\ Reset
    <3>1. \A v \in Versions : fate[v] # "shown"
      BY <2>3 DEF IInv, ShownOnTop
    <3>2. Notices!Redact
      BY <1>2, <2>1, <2>3, <3>1, ResetRedacts
    <3> QED BY <3>2 DEF Notices!Next
  <2> QED BY <2>1, <2>2, <2>3
<1> QED BY <1>3, <1>4, <1>5 DEF Inside

\* A sync that leaves takes what it injected, gives up what it did not, or neither.
LEMMA LeavingNotices ==
  ASSUME IInv, Leaving
  PROVE  [Notices!Next]_(Notices!vars)
<1>0. Numbers /\ HoldInv /\ VersionInv /\ SeenInv /\ FateInv /\ KnownInv
  BY TypedNumbers DEF IInv
<1>1. syncPc # "out" /\ UNCHANGED <<disk, published, stray>>
  BY LeavingEnds DEF notices
<1>2. /\ seen \in 1..MaxVersions /\ seen \in 1..published
      /\ stray \/ seen >= fp
  BY <1>0, <1>1 DEF HoldInv, VersionInv, SeenInv, Numbers, Versions
<1>3. ASSUME fp' = seen, again' = again \ {seen}, fate' = fate, fate[seen] # "unseen"
      PROVE  Notices!Next
  <2>1. Notices!Take(seen)
    BY <1>1, <1>2, <1>3 DEF Notices!Take, Notices!Published
  <2> QED BY <1>2, <2>1 DEF Notices!Next
<1>4. ASSUME fp' = seen, again' = again \ {seen},
             fate[seen] # "told" \/ seen \in again,
             stray \/ fate[seen] = "unseen" \/ seen \in again,
             NEW why \in {"pointed", "dropped"}, fate' = [fate EXCEPT ![seen] = why]
      PROVE  Notices!Next
  <2>1. Notices!GiveUp(seen)
    BY <1>1, <1>2, <1>4 DEF Notices!GiveUp, Notices!Due, Notices!Published
  <2> QED BY <1>2, <2>1 DEF Notices!Next
<1>5. CASE SyncCommit
  BY <1>0, <1>3, <1>5 DEF SyncCommit, Leave, KnownInv
<1>6. CASE SyncDegrade
  <2>1. /\ syncPc = "reinject" /\ fp' = seen /\ again' = again \ {seen}
        /\ fate' = [fate EXCEPT ![seen] = Moved(seen, "pointed")]
    BY Zenon, <1>6 DEF SyncDegrade, Leave
  <2>2. stray \/ fate[seen] = "unseen" \/ seen \in again
    BY <1>0, <2>1 DEF FateInv
  <2>3. CASE fate[seen] = "told" /\ seen \notin again
    <3>1. fate' = fate
      BY <1>0, <2>1, <2>3 DEF Numbers, Moved
    <3> QED BY <1>3, <2>1, <2>3, <3>1
  <2>4. CASE fate[seen] # "told" \/ seen \in again
    <3>1. fate' = [fate EXCEPT ![seen] = "pointed"]
      BY <2>1, <2>4 DEF Moved
    <3> QED BY <1>4, <2>1, <2>2, <2>4, <3>1
  <2> QED BY <2>3, <2>4
<1>7. CASE SyncPass /\ ~CommitsUninjected
  BY <1>1, <1>7 DEF SyncPass, Notices!vars
<1>8. CASE SyncPass /\ CommitsUninjected
  <2>1. /\ fp' = seen /\ again' = again \ {seen}
        /\ fate' = [fate EXCEPT ![seen] =
                       IF fate[seen] = "unseen" \/ seen \in again THEN "dropped"
                                                               ELSE fate[seen]]
    BY <1>8 DEF SyncPass, CommitsUninjected
  <2>2. CASE fate[seen] = "unseen" \/ seen \in again
    <3>1. fate' = [fate EXCEPT ![seen] = "dropped"]
      BY <2>1, <2>2
    <3> QED BY <1>4, <2>1, <2>2, <3>1
  <2>3. CASE fate[seen] # "unseen" /\ seen \notin again
    <3>1. fate' = fate
      BY <1>0, <2>1, <2>3 DEF Numbers
    <3> QED BY <1>3, <2>1, <2>3, <3>1
  <2> QED BY <2>2, <2>3
<1> QED BY <1>5, <1>6, <1>7, <1>8 DEF Leaving

\* A loop step that resets has a pair on the history, and finds nothing shown on
\* it, or moves that on.
LEMMA LoopResets ==
  ASSUME IInv, LoopStep, ~CommitStamp
  PROVE  \/ UNCHANGED renewal
         \/ /\ ofPair /\ Reset
            /\ \/ fate' = fate /\ \A v \in Versions : fate[v] # "shown"
               \/ Advance({"shown"}, "left")
               \/ Advance({"shown", "stamped", "left"}, "told")
<1>0. wire = "calls" => \A v \in Versions : fate[v] # "shown"
  BY DEF IInv, ShownOnTop
<1>1. Get \/ WakeUp \/ ClearCancel \/ Activate \/ Merge \/ Handle \/ Answer
        => UNCHANGED renewal
  BY DEF Get, WakeUp, ClearCancel, Activate, Merge, Handle, Answer, Quiet, delivery
<1>2. Tools \/ Nap \/ Stamp \/ Batch \/ End => UNCHANGED renewal
  BY DEF Tools, Nap, Stamp, Batch, End, Quiet, delivery
<1>3. Stuck \/ Park \/ Post \/ Settle \/ Boundary => UNCHANGED renewal
  BY DEF Stuck, Park, Post, Settle, Boundary, Quiet, delivery
<1>4. Top \/ Response =>
        UNCHANGED renewal \/ (wire = "calls" /\ ofPair /\ Reset /\ fate' = fate)
  <2>1. Top \/ Response => fate' = fate
    BY DEF Top, Response
  <2> QED BY Zenon, <2>1 DEF Top, Response, SleepHealed, Heal, Replay
<1>5. Send =>
        /\ UNCHANGED renewal \/ (ofPair /\ Reset)
        /\ Advance({"shown", "stamped", "left"}, "told")
  BY Zenon DEF Send, Replay
<1>6. ASSUME NEW kind \in ErrorKinds, Fail(kind)
      PROVE  /\ UNCHANGED renewal \/ (ofPair /\ Reset)
             /\ Advance({"shown"}, "left")
  BY Zenon, <1>6 DEF Fail, LeaveDropped, Heal, Replay
<1> QED BY Zenon, <1>0, <1>1, <1>2, <1>3, <1>4, <1>5, <1>6 DEF LoopStep

\* The loop stamps, tells, redacts, gets ahead of a notice, or does nothing to one.
LEMMA LoopNotices ==
  ASSUME IInv, LoopStep
  PROVE  [Notices!Next]_(Notices!vars)
<1>0. Numbers /\ HoldInv /\ VersionInv /\ StampInv /\ stray \in BOOLEAN
  BY TypedNumbers DEF IInv, TypeInv, FlagsOK
<1>1. UNCHANGED <<disk, published>>
  BY LoopLeaves DEF notices
<1>2. CASE CommitStamp
  <2>1. pc = "commit" /\ fp' = read /\ (state = "ACTIVE" \/ stray')
    BY <1>2 DEF CommitStamp, CommitsRead, Goto
  <2>2. read \in 1..MaxVersions /\ read \in 1..published
    BY <1>0, <2>1 DEF HoldInv, VersionInv, Numbers, Versions
  <2>3. stray' \/ read >= fp
    BY <1>0, <2>1 DEF StampInv, Numbers
  <2>4. /\ fate' = [fate EXCEPT ![read] =
                      IF \/ fate[read] = "shown"
                         \/ fate[read] = "told" /\ read \notin again
                        THEN fate[read] ELSE "stamped"]
        /\ again' = again \ {read}
    BY <1>2 DEF CommitStamp, Moved
  <2>5. stray' \in {stray, TRUE}
    BY Zenon, <1>0, <1>2 DEF CommitStamp
  <2>6. Notices!Stamp(read)
    BY <1>1, <2>1, <2>2, <2>3, <2>4, <2>5 DEF Notices!Stamp, Notices!Published
  <2> QED BY <2>2, <2>6 DEF Notices!Next
<1>3. CASE ~CommitStamp
  <2>1. stray' = stray
    BY <1>3, LoopClears
  <2>2. CASE UNCHANGED renewal
    <3>1. UNCHANGED <<fp, again>>
      BY <2>2 DEF renewal
    <3>2. CASE UNCHANGED fate
      BY <1>1, <2>1, <3>1, <3>2 DEF Notices!vars
    <3>3. CASE Advance({"shown", "stamped", "left"}, "told")
      <4>1. Notices!Tell
        BY <1>1, <2>1, <3>1, <3>3
           DEF Notices!Tell, Notices!Told, Notices!Passed, Notices!Published,
               Advance, Versions
      <4> QED BY <4>1 DEF Notices!Next
    <3>4. ASSUME NEW of \in {"shown", "stamped"}, Advance({of}, "left")
          PROVE  Notices!Next
      <4>1. Notices!GetAhead(of)
        BY <1>1, <2>1, <3>1, <3>4
           DEF Notices!GetAhead, Notices!Passed, Notices!Published, Advance, Versions
      <4> QED BY <4>1 DEF Notices!Next
    <3> QED BY <1>3, <3>2, <3>3, <3>4, LoopFates
  <2>3. CASE ~UNCHANGED renewal
    <3>1. Notices!Redact
      BY <1>1, <1>3, <2>1, <2>3, LoopResets, ResetRedacts
    <3> QED BY <3>1 DEF Notices!Next
  <2> QED BY <2>2, <2>3
<1> QED BY <1>2, <1>3

\* Every step is a step of the promise, or none.
LEMMA NoticesStep ==
  ASSUME IInv, [Next]_vars
  PROVE  [Notices!Next]_(Notices!vars)
<1>1. ASSUME NEW t \in Threads, SyncEnter(t) PROVE [Notices!Next]_(Notices!vars)
  <2>1. UNCHANGED <<disk, published, fate, again, stray>>
    BY <1>1 DEF SyncEnter, notices
  <2>2. fp' = fp \/ (disk = 0 /\ fp' = 0)
    BY <1>1 DEF SyncEnter
  <2> QED BY <2>1, <2>2 DEF Notices!Next, Notices!Forget, Notices!vars
<1>2. CASE BeatStep \/ UNCHANGED vars
  BY <1>2, BeatLeaves DEF vars, notices, delivery, renewal, Notices!vars
<1>3. CASE Outer
  <2>1. UNCHANGED <<fp, fate, again, stray>>
    BY <1>3, OuterLeaves DEF delivery, renewal
  <2>2. CASE Publish
    BY <2>1, <2>2 DEF Publish, Notices!Publish, Notices!Next
  <2>3. CASE Dismiss
    BY <2>1, <2>3 DEF Dismiss, Notices!Dismiss, Notices!Next
  <2>4. CASE SendRequest \/ Stop
    BY <2>1, <2>4 DEF SendRequest, Stop, notices, Notices!vars
  <2> QED BY <1>3, <2>2, <2>3, <2>4 DEF Outer
<1> QED BY <1>1, <1>2, <1>3, InsideNotices, LeavingNotices, LoopNotices, StepSplit

\* Whoever delivers a notice, loop or heartbeat, it is put before the model once,
\* and once more when a pair came back redacted, in order, and is never taken for
\* delivered without being known: the life cycle implements NoticeDelivery.
THEOREM NoticesDelivered == Spec => ImplementsNotices
<1>1. Init => Notices!Init
  BY NoticesInit
<1>2. IInv /\ [Next]_vars => [Notices!Next]_(Notices!vars)
  BY NoticesStep
<1> QED BY <1>1, <1>2, Invariance, PTL DEF Spec, ImplementsNotices, Notices!Spec
=============================================================================

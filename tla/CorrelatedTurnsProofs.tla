------------------------ MODULE CorrelatedTurnsProofs ------------------------
(***************************************************************************)
(* Proofs about CorrelatedTurns for every set of handles, every assignment *)
(* of correlation ids and every bound.                                     *)
(***************************************************************************)
EXTENDS CorrelatedTurns, SequenceTheorems, TLAPS

-----------------------------------------------------------------------------
(* The inductive invariant, in parts.                                      *)

Beyond == {"registered", "withdrawing", "accepted"}

\* The registry holds unclaimed controls under their own ids, and every
\* control past registration is either in it or claimed.
RegistryInv ==
  /\ \A h \in Handles : controls[IdOf[h]] = h => ~claimed[h]
  /\ \A id \in Ids : controls[id] # None => IdOf[controls[id]] = id
  /\ \A h \in Handles : submitter[h] \in Beyond /\ ~claimed[h]
                          => controls[IdOf[h]] = h
  /\ \A h \in Handles : submitter[h] \in {"new", "checked"}
                          => controls[IdOf[h]] # h /\ ~claimed[h]

\* A claim decides, a request before it decides for cancellation, and the
\* Future carries what was decided.
VerdictInv ==
  \A h \in Handles :
    /\ claimed[h] <=> verdict[h] # Pending
    /\ cancelRequested[h] /\ claimed[h] => verdict[h] = Cancelled
    /\ future[h] # Pending => future[h] = verdict[h]

\* Whoever claimed a control owes its delivery, alone.
OwesInv ==
  /\ \A h \in Handles :
       (claimed[h] /\ future[h] = Pending) <=> h \in loopOwes \union stopOwes
  /\ loopOwes \intersect stopOwes = {}
  /\ loopOwes # {} => pc \in {"publish", "crashPublish", "drain"}
  /\ pc \in {"publish", "crashPublish"} => loopOwes = {turn}
  /\ stopOwes # {} => stopPc \in {"latch", "publish"}

\* Envelopes travel only for handles their callers were given.
Accepted == {h \in Handles : submitter[h] = "accepted"}
CarriesOnly(q, S) == \A i \in DOMAIN q : q[i] \in Handles => q[i] \in S

EnvelopeInv ==
  /\ CarriesOnly(inbox, Accepted)
  /\ CarriesOnly(held, Accepted)
  /\ msg \in Handles => msg \in Accepted

\* The states of the loop that work on a control have one.
TurnOK ==
  pc \in {"latch", "bind", "observe", "settle", "crashSettle", "publish",
          "crashPublish"} => turn \in Handles

\* The current control is the loop's turn until somebody claims it.
TurnInv ==
  /\ turn \in Handles => submitter[turn] = "accepted"
  /\ pc \in {"poll", "get", "recheck", "clear", "merge", "putback", "begin"}
       => turn = None
  /\ TurnOK
  /\ current # None =>
       /\ turn = current /\ ~claimed[current]
       /\ pc \in (InTurn \ {"begin"}) \union {"crashed", "crashSettle"}
  /\ pc \in InTurn /\ turn \in Handles /\ ~claimed[turn] => current = turn

\* A stop past its claim leaves an empty registry, which _shutdown keeps empty.
StopInv ==
  /\ stopPc # "idle" => shutdown
  /\ stopPc \in {"latch", "publish", "wake", "join", "stopped"}
       => \A id \in Ids : controls[id] = None
  /\ stopPc = "stopped" => pc = "dead"

\* A barred handle has been asked to cancel and is not about to be dispatched.
BarredInv ==
  /\ \A h \in barred : cancelRequested[h]
  /\ pc = "call" => turn \notin barred
  /\ \A h \in dispatched : claimed[h] \/ current = h
  /\ PendingCancelNeverDispatched

-----------------------------------------------------------------------------
(* Queues.                                                                 *)

\* Taking the head leaves a queue of elements that were queued before.
LEMMA QueueTail ==
  ASSUME NEW q \in Seq(Messages), q # <<>>
  PROVE  /\ Head(q) \in Messages
         /\ Tail(q) \in Seq(Messages)
         /\ \E i \in DOMAIN q : Head(q) = q[i]
         /\ \A i \in DOMAIN Tail(q) : \E j \in DOMAIN q : Tail(q)[i] = q[j]
<1>1. /\ Head(q) \in Messages /\ Tail(q) \in Seq(Messages)
      /\ Len(Tail(q)) = Len(q) - 1
      /\ \A i \in 1..Len(Tail(q)) : Tail(q)[i] = q[i + 1]
  BY HeadTailProperties
<1>2. Len(q) \in Nat /\ Len(q) # 0 /\ DOMAIN q = 1..Len(q)
  BY LenProperties, EmptySeq
<1>3. DOMAIN Tail(q) = 1..Len(Tail(q))
  BY <1>1, LenProperties
<1>4. Head(q) = q[1]
  OBVIOUS
<1> QED BY <1>1, <1>2, <1>3, <1>4

\* Appending adds one element and keeps the others.
LEMMA QueueAppend ==
  ASSUME NEW q \in Seq(Messages), NEW m \in Messages
  PROVE  /\ Append(q, m) \in Seq(Messages)
         /\ \A i \in DOMAIN Append(q, m) :
              Append(q, m)[i] = m \/ \E j \in DOMAIN q : Append(q, m)[i] = q[j]
<1>1. /\ Append(q, m) \in Seq(Messages) /\ Len(Append(q, m)) = Len(q) + 1
      /\ \A i \in 1..Len(q) : Append(q, m)[i] = q[i]
      /\ Append(q, m)[Len(q) + 1] = m
  BY AppendProperties
<1>2. /\ Len(q) \in Nat /\ DOMAIN q = 1..Len(q)
      /\ DOMAIN Append(q, m) = 1..Len(Append(q, m))
  BY <1>1, LenProperties
<1> QED BY <1>1, <1>2

\* What a queue carries after its head is taken, and after an append.
LEMMA CarriesTail ==
  ASSUME NEW q \in Seq(Messages), q # <<>>, NEW S, CarriesOnly(q, S)
  PROVE  /\ CarriesOnly(Tail(q), S)
         /\ Head(q) \in Handles => Head(q) \in S
  BY QueueTail DEF CarriesOnly

\* An append of an allowed element keeps what the queue may carry.
LEMMA CarriesAppend ==
  ASSUME NEW q \in Seq(Messages), NEW m \in Messages, NEW S,
         CarriesOnly(q, S), m \in Handles => m \in S
  PROVE  CarriesOnly(Append(q, m), S)
  BY QueueAppend DEF CarriesOnly

\* A queue that carries only A also carries only a larger B.
LEMMA CarriesMore ==
  ASSUME NEW q, NEW S, NEW T, S \subseteq T, CarriesOnly(q, S)
  PROVE  CarriesOnly(q, T)
  BY DEF CarriesOnly

-----------------------------------------------------------------------------
(* Type correctness.                                                       *)

\* The initial values have their types.
LEMMA InitTypeOK == Init => TypeOK
<1> SUFFICES ASSUME Init PROVE TypeOK
  OBVIOUS
<1> USE ConstantsAssumption DEF ConstantsAssumption, Init
<1>1. /\ inbox \in Seq(Messages) /\ held \in Seq(Messages)
      /\ plainSent \in 0..MaxPlain /\ attempts \in 0..MaxAttempts
      /\ stops \in 0..MaxStops
  OBVIOUS
<1>2. /\ controls \in [Ids -> Handles \union {None}]
      /\ claimed \in [Handles -> BOOLEAN]
      /\ cancelRequested \in [Handles -> BOOLEAN]
      /\ callback \in [Handles -> BOOLEAN]
      /\ asking \in [Handles -> BOOLEAN]
  OBVIOUS
<1>3. /\ verdict \in [Handles -> Outcomes \union {Pending}]
      /\ future \in [Handles -> Outcomes \union {Pending}]
      /\ submitter \in [Handles -> SubmitterStates]
  BY DEF SubmitterStates
<1> QED
  BY <1>1, <1>2, <1>3 DEF TypeOK, LoopStates, StopStates, Outcomes

\* The cancellers, the submitters and the messages other parts send.
LEMMA CallerTypeOK ==
  ASSUME TypeOK,
         \/ \E h \in Handles : SubmitStep(h) \/ HandleCancelRead(h)
                                 \/ HandleCancelCall(h)
         \/ \E id \in Ids : CancelById(id)
         \/ PlainSend \/ Interrupt \/ RaiseShutdown
  PROVE  TypeOK'
<1> USE ConstantsAssumption DEF ConstantsAssumption
<1>1. ASSUME NEW h \in Handles, SubmitStep(h) PROVE TypeOK'
  <2>1. CASE SubmitCheck(h)
    BY <2>1 DEF SubmitCheck, TypeOK, registry, latch, loopVars, stopVars,
       history, SubmitterStates
  <2>2. CASE Register(h)
    <3>1. controls' \in [Ids -> Handles \union {None}]
      BY <2>2 DEF Register, TypeOK
    <3>2. callback' \in [Handles -> BOOLEAN]
      BY <2>2 DEF Register, TypeOK
    <3>3. submitter' \in [Handles -> SubmitterStates]
      BY <2>2 DEF Register, TypeOK, SubmitterStates
    <3> QED
      BY <2>2, <3>1, <3>2, <3>3 DEF Register, TypeOK, latch, loopVars,
         stopVars, history
  <2>3. CASE Enqueue(h)
    <3>1. inbox' \in Seq(Messages)
      <4>1. h \in Messages /\ inbox \in Seq(Messages)
        BY DEF Messages, TypeOK
      <4>2. inbox' = inbox \/ inbox' = Append(inbox, h)
        BY <2>3 DEF Enqueue
      <4> QED BY <4>1, <4>2, QueueAppend
    <3>2. submitter' \in [Handles -> SubmitterStates]
      BY <2>3 DEF Enqueue, TypeOK, SubmitterStates
    <3> QED
      BY <2>3, <3>1, <3>2 DEF Enqueue, TypeOK, registry, latch, loopVars,
         stopVars, history
  <2>4. CASE Withdraw(h)
    BY <2>4 DEF Withdraw, Unregister, TypeOK, registry, latch, loopVars,
       stopVars, history, SubmitterStates
  <2> QED BY <1>1, <2>1, <2>2, <2>3, <2>4 DEF SubmitStep
<1>2. ASSUME NEW h \in Handles, HandleCancelRead(h) PROVE TypeOK'
  BY <1>2 DEF HandleCancelRead, TypeOK, registry, latch, loopVars, stopVars,
     history
<1>3. ASSUME NEW id \in Ids, CancelTurn(id)
      PROVE  /\ cancelRequested' \in [Handles -> BOOLEAN]
             /\ cancelEvent' \in BOOLEAN
             /\ latchedBy' \subseteq Handles
             /\ barred' \subseteq Handles
  <2>1. cancelRequested' \in [Handles -> BOOLEAN]
    BY <1>3 DEF CancelTurn, TypeOK
  <2>2. cancelEvent' \in BOOLEAN
    BY <1>3 DEF CancelTurn, TypeOK, latch
  <2>3. latchedBy' \subseteq Handles
    BY <1>3 DEF CancelTurn, TypeOK, latch
  <2>4. barred' \subseteq Handles
    BY <1>3 DEF CancelTurn, TypeOK
  <2> QED BY <2>1, <2>2, <2>3, <2>4
<1>4. ASSUME NEW h \in Handles, HandleCancelCall(h) PROVE TypeOK'
  <2>1. IdOf[h] \in Ids  OBVIOUS
  <2>2. CancelTurn(IdOf[h])  BY <1>4 DEF HandleCancelCall
  <2> QED
    BY <1>3, <1>4, <2>1, <2>2 DEF HandleCancelCall, TypeOK, loopVars, stopVars
<1>5. ASSUME NEW id \in Ids, CancelById(id) PROVE TypeOK'
  <2>1. CancelTurn(id)  BY <1>5 DEF CancelById
  <2> QED
    BY <1>3, <1>5, <2>1 DEF CancelById, TypeOK, loopVars, stopVars, callers
<1>6. CASE PlainSend
  BY <1>6 DEF PlainSend, TypeOK, registry, latch, loopVars, stopVars, history,
     Messages
<1>7. CASE Interrupt
  BY <1>7 DEF Interrupt, TypeOK, registry, callers, loopVars, stopVars, history
<1>8. CASE RaiseShutdown
  BY <1>8 DEF RaiseShutdown, TypeOK, registry, latch, callers, loopVars,
     stopVars, history
<1> QED BY <1>1, <1>2, <1>4, <1>5, <1>6, <1>7, <1>8

\* The pieces of the registry that several threads use.
LEMMA DeliverTypeOK ==
  ASSUME TypeOK, NEW h \in Handles, Deliver(h)
  PROVE  future' \in [Handles -> Outcomes \union {Pending}]
  BY DEF Deliver, TypeOK

\* The locked section of cancel_all_turns is well typed.
LEMMA ClaimAllTypeOK ==
  ASSUME TypeOK, ClaimAll
  PROVE  /\ TypeOK!1' /\ TypeOK!2' /\ TypeOK!3' /\ TypeOK!4' /\ TypeOK!5'
         /\ TypeOK!6' /\ barred' \subseteq Handles
<1>1. claimed' \in [Handles -> BOOLEAN] /\ callback' \in [Handles -> BOOLEAN]
  BY DEF ClaimAll, TypeOK
<1>2. cancelRequested' \in [Handles -> BOOLEAN]
  BY DEF ClaimAll, TypeOK
<1>3. verdict' \in [Handles -> Outcomes \union {Pending}]
  BY DEF ClaimAll, TypeOK, Outcomes
<1>4. controls' \in [Ids -> Handles \union {None}]
  BY DEF ClaimAll
<1>5. current' \in Handles \union {None} /\ barred' \subseteq Handles
  BY DEF ClaimAll, TypeOK, Live
<1> QED BY <1>1, <1>2, <1>3, <1>4, <1>5

\* settle_turn, won or lost, is well typed.
LEMMA SettleTypeOK ==
  ASSUME TypeOK, NEW from \in LoopStates, NEW to \in LoopStates,
         NEW other \in LoopStates, SettleAt(from, to, other), turn \in Handles
  PROVE  TypeOK'
<1> USE DEF SettleAt, latch, callers, stopVars, history
<1>1. CASE Claims(turn)
  <2> USE <1>1 DEF Claim
  <2>1. claimed' \in [Handles -> BOOLEAN] /\ callback' \in [Handles -> BOOLEAN]
    BY DEF TypeOK
  <2>2. verdict' \in [Handles -> Outcomes \union {Pending}]
    BY DEF TypeOK, Verdict, Outcomes
  <2>3. controls' \in [Ids -> Handles \union {None}]
    BY DEF TypeOK
  <2> QED BY <2>1, <2>2, <2>3 DEF TypeOK
<1>2. CASE ~Claims(turn)
  BY <1>2 DEF TypeOK, registry
<1> QED BY <1>1, <1>2

\* Publishing a settled outcome is well typed.
LEMMA PublishTypeOK ==
  ASSUME TypeOK, NEW from \in LoopStates, NEW to \in LoopStates,
         PublishAt(from, to), turn \in Handles
  PROVE  TypeOK'
  BY DeliverTypeOK DEF PublishAt, Goto, TypeOK, registry, latch, callers,
     stopVars, history

\* The run loop.
LEMMA LoopTypeOK ==
  ASSUME TypeOK, TurnOK, LoopStep \/ Crash
  PROVE  TypeOK'
<1> USE ConstantsAssumption DEF ConstantsAssumption
<1> USE DEF LoopOnly, Goto, registry, latch, callers, stopVars, history
<1>0. inbox \in Seq(Messages) /\ held \in Seq(Messages)
  BY DEF TypeOK
<1>1. CASE Poll
  BY <1>1 DEF Poll, TypeOK, LoopStates
<1>2. CASE Get
  <2>1. CASE inbox = <<>>
    BY <1>2, <2>1 DEF Get, TypeOK, LoopStates
  <2>2. CASE inbox # <<>>
    <3>1. inbox' \in Seq(Messages) /\ msg' \in Messages
      BY <1>2, <2>2, <1>0, QueueTail DEF Get
    <3> QED BY <1>2, <2>2, <3>1 DEF Get, TypeOK, LoopStates
  <2> QED BY <2>1, <2>2
<1>3. CASE Recheck
  BY <1>3 DEF Recheck, TypeOK, LoopStates
<1>4. CASE Clear
  BY <1>4 DEF Clear, ClearLatch, TypeOK, LoopStates
<1>5. CASE Merge
  <2>1. CASE msg # Request \/ inbox = <<>>
    BY <1>5, <2>1 DEF Merge, TypeOK, LoopStates
  <2>2. CASE msg = Request /\ inbox # <<>>
    <3>1. Head(inbox) \in Messages /\ Tail(inbox) \in Seq(Messages)
      BY <1>0, <2>2, QueueTail
    <3>2. inbox' \in Seq(Messages)
      BY <1>5, <2>2, <3>1 DEF Merge
    <3>3. held' \in Seq(Messages)
      BY <1>0, <1>5, <2>2, <3>1, QueueAppend DEF Merge
    <3> QED BY <1>5, <2>2, <3>2, <3>3 DEF Merge, TypeOK, LoopStates
  <2> QED BY <2>1, <2>2
<1>6. CASE Putback
  <2>1. CASE held = <<>>
    BY <1>6, <2>1 DEF Putback, TypeOK, LoopStates
  <2>2. CASE held # <<>>
    <3>1. Head(held) \in Messages /\ held' \in Seq(Messages)
      BY <1>0, <1>6, <2>2, QueueTail DEF Putback
    <3>2. inbox' \in Seq(Messages)
      BY <1>0, <1>6, <2>2, <3>1, QueueAppend DEF Putback
    <3> QED BY <1>6, <2>2, <3>1, <3>2 DEF Putback, TypeOK, LoopStates
  <2> QED BY <2>1, <2>2
<1>7. CASE Begin
  <2>1. current' \in Handles \union {None} /\ turn' \in Handles \union {None}
    BY <1>7 DEF Begin, TypeOK
  <2>2. pc' \in LoopStates
    BY <1>7 DEF Begin, LoopStates
  <2> QED BY <1>7, <2>1, <2>2 DEF Begin, TypeOK
<1>8. CASE Latch
  <2>1. latchedBy' \subseteq Handles
    BY <1>8 DEF Latch, TypeOK, TurnOK
  <2> QED BY <1>8, <2>1 DEF Latch, TypeOK, LoopStates
<1>9. CASE Readmit
  <2>1. pc' \in LoopStates /\ candidate' \in Outcomes /\ cooperative' \in BOOLEAN
    BY <1>9 DEF Readmit, TypeOK, LoopStates, Outcomes
  <2> QED BY <1>9, <2>1 DEF Readmit, TypeOK
<1>10. CASE Work
  BY <1>10 DEF Work, TypeOK, LoopStates, Outcomes
<1>11. CASE Dispatch
  BY <1>11 DEF Dispatch, TypeOK, LoopStates
<1>12. CASE Provider
  <2>1. attempts' \in 0..MaxAttempts
    BY <1>12 DEF Provider, MayResend, TypeOK
  <2> QED BY <1>12, <2>1 DEF Provider, TypeOK, LoopStates, Outcomes
<1>13. CASE PostTurn
  BY <1>13 DEF PostTurn, TypeOK, LoopStates
<1>14. CASE ObserveLatch
  BY <1>14 DEF ObserveLatch, TypeOK, LoopStates
<1>15. CASE Settle \/ CrashSettle
  <2>1. turn \in Handles
    BY <1>15 DEF Settle, CrashSettle, SettleAt, TurnOK
  <2>2. CASE Settle
    BY <2>1, <2>2, SettleTypeOK DEF Settle, LoopStates
  <2>3. CASE CrashSettle
    BY <2>1, <2>3, SettleTypeOK DEF CrashSettle, LoopStates
  <2> QED BY <1>15, <2>2, <2>3
<1>16. CASE Publish \/ CrashPublish
  <2>1. turn \in Handles
    BY <1>16 DEF Publish, CrashPublish, PublishAt, TurnOK
  <2>2. CASE Publish
    BY <2>1, <2>2, PublishTypeOK DEF Publish, LoopStates
  <2>3. CASE CrashPublish
    BY <2>1, <2>3, PublishTypeOK DEF CrashPublish, LoopStates
  <2> QED BY <1>16, <2>2, <2>3
<1>17. CASE Crashed
  BY <1>17 DEF Crashed, TypeOK, LoopStates, Outcomes
<1>18. CASE Finally
  <2>1. ClaimAll
    BY <1>18 DEF Finally
  <2>2. pc' \in LoopStates /\ loopOwes' \subseteq Handles
    BY <1>18 DEF Finally, LoopStates, Live
  <2>3. dispatched' \subseteq Handles
    BY <2>1 DEF ClaimAll, TypeOK
  <2>4. held' \in Seq(Messages) /\ turn' = None /\ msg' = None
    BY <1>18 DEF Finally
  <2> QED BY <1>18, <2>1, <2>2, <2>3, <2>4, ClaimAllTypeOK DEF Finally, TypeOK
<1>19. CASE Drain
  <2>1. future' \in [Handles -> Outcomes \union {Pending}] /\ loopOwes' \subseteq Handles
    BY <1>19, DeliverTypeOK DEF Drain, TypeOK
  <2>2. pc' \in LoopStates
    BY <1>19 DEF Drain, LoopStates
  <2> QED BY <1>19, <2>1, <2>2 DEF Drain, TypeOK
<1>20. CASE Crash
  BY <1>20 DEF Crash, TypeOK, LoopStates
<1> QED
  BY <1>1, <1>2, <1>3, <1>4, <1>5, <1>6, <1>7, <1>8, <1>9, <1>10, <1>11,
     <1>12, <1>13, <1>14, <1>15, <1>16, <1>17, <1>18, <1>19, <1>20 DEF LoopStep

\* Agent.stop.
LEMMA StopTypeOK ==
  ASSUME TypeOK, StopBegin \/ StopStep
  PROVE  TypeOK'
<1> USE ConstantsAssumption DEF ConstantsAssumption
<1> USE DEF StopOnly, registry, latch, callers, loopVars, history
<1>1. CASE StopBegin
  <2>1. stops' \in 0..MaxStops
    BY <1>1 DEF StopBegin, TypeOK
  <2> QED BY <1>1, <2>1 DEF StopBegin, TypeOK, StopStates
<1>2. CASE StopClaim
  <2>1. ClaimAll
    BY <1>2 DEF StopClaim
  <2>2. stopPc' \in StopStates /\ stopOwes' \subseteq Handles
    BY <1>2 DEF StopClaim, StopStates, Live
  <2>3. dispatched' \subseteq Handles
    BY <2>1 DEF ClaimAll, TypeOK
  <2> QED BY <1>2, <2>1, <2>2, <2>3, ClaimAllTypeOK DEF StopClaim, TypeOK
<1>3. CASE StopLatch
  BY <1>3 DEF StopLatch, TypeOK, StopStates
<1>4. CASE StopPublish
  <2>1. future' \in [Handles -> Outcomes \union {Pending}]
    BY <1>4, DeliverTypeOK DEF StopPublish, TypeOK
  <2>2. stopPc' \in StopStates /\ stopOwes' \subseteq Handles
    BY <1>4 DEF StopPublish, TypeOK, StopStates
  <2> QED BY <1>4, <2>1, <2>2 DEF StopPublish, TypeOK
<1>5. CASE StopWake
  <2>1. inbox \in Seq(Messages) /\ Wake \in Messages
    BY DEF TypeOK, Messages
  <2>2. inbox' \in Seq(Messages)
    BY <1>5, <2>1, QueueAppend DEF StopWake
  <2> QED BY <1>5, <2>2 DEF StopWake, TypeOK, StopStates
<1>6. CASE StopJoin
  BY <1>6 DEF StopJoin, TypeOK, StopStates
<1> QED BY <1>1, <1>2, <1>3, <1>4, <1>5, <1>6 DEF StopStep

\* The steps that leave the loop alone.
Others ==
  \/ \E h \in Handles : SubmitStep(h) \/ HandleCancelRead(h)
                          \/ HandleCancelCall(h)
  \/ \E id \in Ids : CancelById(id)
  \/ PlainSend \/ Interrupt \/ RaiseShutdown
  \/ StopBegin \/ StopStep
  \/ UNCHANGED vars

\* Only the run loop writes its own locals.
LEMMA OthersLeaveLoop == Others => UNCHANGED loopVars
  BY DEF Others, SubmitStep, SubmitCheck, Register, Enqueue, Withdraw,
     HandleCancelRead, HandleCancelCall, CancelById, PlainSend, Interrupt,
     RaiseShutdown, StopBegin, StopStep, StopClaim, StopLatch, StopPublish,
     StopWake, StopJoin, StopOnly, vars

\* A step is the run loop's, an escaping exception, or somebody else's.
LEMMA NextSplit == [Next]_vars => LoopStep \/ Crash \/ Others
  BY DEF Next, Others, Rest

\* Every step keeps the types.
LEMMA TypingStep ==
  ASSUME TypeOK, TurnOK, [Next]_vars
  PROVE  TypeOK' /\ TurnOK'
<1>1. TypeOK'
  <2>1. CASE UNCHANGED vars
    BY <2>1 DEF TypeOK, vars, registry, latch, callers, loopVars, stopVars,
       history
  <2> QED
    BY <2>1, CallerTypeOK, LoopTypeOK, StopTypeOK DEF Next, Rest
<1>2. TurnOK'
  <2>1. CASE Others
    BY <2>1, OthersLeaveLoop DEF TurnOK, loopVars
  <2>2. CASE Crash
    BY <2>2 DEF Crash, TurnOK
  <2>3. CASE LoopStep
    BY <2>3 DEF LoopStep, TurnOK, TypeOK, Goto, Poll, Get, Recheck, Clear,
       Merge, Putback, Begin, Latch, Readmit, Work, Dispatch, Provider,
       PostTurn, ObserveLatch, Settle, Publish, SettleAt, PublishAt, Crashed,
       CrashSettle, CrashPublish, Finally, Drain
  <2> QED BY <2>1, <2>2, <2>3, NextSplit
<1> QED BY <1>1, <1>2

\* Every variable keeps its type in every behaviour.
THEOREM TypeCorrect == Spec => []TypeOK
<1>1. Init => TypeOK /\ TurnOK
  BY InitTypeOK DEF Init, TurnOK
<1>2. TypeOK /\ TurnOK /\ [Next]_vars => TypeOK' /\ TurnOK'
  BY TypingStep
<1> QED BY <1>1, <1>2, PTL DEF Spec

-----------------------------------------------------------------------------
(* The registry invariants.                                                *)

\* A cancellation, whether it came through a handle or by id.
Cancelling(id) ==
  /\ CancelTurn(id)
  /\ UNCHANGED <<controls, current, claimed, verdict, future, shutdown, inbox,
                 submitter, loopVars, stopVars, dispatched>>

Settling ==
  \/ SettleAt("settle", "publish", "poll")
  \/ SettleAt("crashSettle", "crashPublish", "finally")

Delivering ==
  Publish \/ CrashPublish \/ Drain \/ StopPublish

\* Every step is one that touches the registry in one of these ways, or none.
LEMMA StepKinds ==
  ASSUME [Next]_vars, IdOf \in [Handles -> Ids]
  PROVE  \/ \E h \in Handles : Register(h) \/ Withdraw(h)
         \/ \E h \in Handles : SubmitCheck(h) \/ Enqueue(h)
         \/ \E id \in Ids : Cancelling(id)
         \/ Begin
         \/ Settling
         \/ Finally \/ StopClaim
         \/ Delivering
         \/ UNCHANGED <<registry, future, submitter>>
<1>1. CASE Others
  <2>1. ASSUME NEW h \in Handles, HandleCancelCall(h)
        PROVE  \E id \in Ids : Cancelling(id)
    BY <2>1 DEF HandleCancelCall, Cancelling
  <2>2. ASSUME NEW id \in Ids, CancelById(id) PROVE Cancelling(id)
    BY <2>2 DEF CancelById, Cancelling, callers
  <2> QED
    BY <1>1, <2>1, <2>2 DEF Others, SubmitStep, HandleCancelRead, PlainSend,
       Interrupt, RaiseShutdown, StopBegin, StopStep, StopLatch, StopWake,
       StopJoin, StopOnly, callers, vars, Delivering
<1>2. CASE LoopStep \/ Crash
  BY <1>2 DEF LoopStep, Crash, LoopOnly, Goto, Poll, Get, Recheck, Clear, Merge,
     Putback, Latch, Readmit, Work, Dispatch, Provider, PostTurn, ObserveLatch,
     Settle, Crashed, CrashSettle, Settling, Delivering, callers
<1> QED BY <1>1, <1>2, NextSplit

\* The registry stays one-to-one: a registered control is live under its own
\* id, and every way of touching the registry keeps it so.
LEMMA RegistryStep ==
  ASSUME TypeOK, RegistryInv, TurnInv, [Next]_vars
  PROVE  RegistryInv'
<1> USE ConstantsAssumption DEF ConstantsAssumption
<1>1. ASSUME NEW h \in Handles, Register(h) PROVE RegistryInv'
  <2>1. CASE MayRegister(h)
    <3> USE <1>1, <2>1 DEF Register, MayRegister, RegistryInv, TypeOK
    <3>1. /\ controls' = [controls EXCEPT ![IdOf[h]] = h]
          /\ submitter' = [submitter EXCEPT ![h] = "registered"]
          /\ claimed' = claimed /\ submitter[h] = "checked"
      OBVIOUS
    <3>2. \A g \in Handles : controls'[IdOf[g]] = g => ~claimed'[g]
      BY <3>1
    <3>3. \A id \in Ids : controls'[id] # None => IdOf[controls'[id]] = id
      BY <3>1
    <3>4. \A g \in Handles : submitter'[g] \in Beyond /\ ~claimed'[g]
                               => controls'[IdOf[g]] = g
      BY <3>1 DEF Beyond
    <3>5. \A g \in Handles : submitter'[g] \in {"new", "checked"}
                               => controls'[IdOf[g]] # g /\ ~claimed'[g]
      BY <3>1
    <3> QED BY <3>2, <3>3, <3>4, <3>5
  <2>2. CASE ~MayRegister(h)
    BY <1>1, <2>2 DEF Register, RegistryInv, TypeOK, Beyond
  <2> QED BY <2>1, <2>2
<1>2. ASSUME NEW h \in Handles, Withdraw(h) PROVE RegistryInv'
  BY <1>2 DEF Withdraw, Unregister, RegistryInv, TypeOK, Beyond, SubmitterStates
<1>3. ASSUME NEW h \in Handles, SubmitCheck(h) \/ Enqueue(h) PROVE RegistryInv'
  BY <1>3 DEF SubmitCheck, Enqueue, RegistryInv, TypeOK, Beyond,
     SubmitterStates, registry
<1>4. CASE Settling
  <2>1. turn \in Handles /\ submitter[turn] = "accepted"
    BY <1>4 DEF Settling, SettleAt, TurnOK, TurnInv
  <2>2. CASE ~Claims(turn)
    BY <1>4, <2>2 DEF Settling, SettleAt, RegistryInv, registry, callers
  <2>3. CASE Claims(turn)
    <3>1. /\ controls' = [controls EXCEPT ![IdOf[turn]] =
                            IF @ = turn THEN None ELSE @]
          /\ claimed' = [claimed EXCEPT ![turn] = TRUE]
          /\ submitter' = submitter
      BY <1>4, <2>3 DEF Settling, SettleAt, Claim, callers
    <3> USE <2>1, <3>1 DEF RegistryInv, TypeOK
    <3>2. \A g \in Handles : controls'[IdOf[g]] = g => ~claimed'[g]
      OBVIOUS
    <3>3. \A id \in Ids : controls'[id] # None => IdOf[controls'[id]] = id
      OBVIOUS
    <3>4. ASSUME NEW g \in Handles, submitter'[g] \in Beyond, ~claimed'[g]
          PROVE  controls'[IdOf[g]] = g
      <4>1. g # turn /\ ~claimed[g]
        BY <3>4
      <4>2. controls[IdOf[g]] = g
        BY <3>4, <4>1
      <4> QED BY <4>1, <4>2
    <3>5. \A g \in Handles : submitter'[g] \in {"new", "checked"}
                               => controls'[IdOf[g]] # g /\ ~claimed'[g]
      OBVIOUS
    <3> QED BY <3>2, <3>3, <3>4, <3>5
  <2> QED BY <2>2, <2>3
<1>5. CASE Finally \/ StopClaim
  <2>1. ClaimAll /\ UNCHANGED submitter
    BY <1>5 DEF Finally, StopClaim, StopOnly, callers
  <2> QED BY <2>1 DEF ClaimAll, Live, RegistryInv, TypeOK, Beyond
<1>6. CASE UNCHANGED <<controls, claimed, submitter>>
  BY <1>6 DEF RegistryInv
<1>7. (\E id \in Ids : Cancelling(id)) => UNCHANGED <<controls, claimed, submitter>>
  BY DEF Cancelling
<1>8. Begin \/ Delivering => UNCHANGED <<controls, claimed, submitter>>
  BY DEF Begin, Delivering, Publish, CrashPublish, PublishAt, Drain,
     StopPublish, registry, callers
<1> QED
  BY <1>1, <1>2, <1>3, <1>4, <1>5, <1>6, <1>7, <1>8, StepKinds DEF registry

\* A caller that has its handle keeps it.
LEMMA AcceptedStays ==
  ASSUME TypeOK, [Next]_vars, NEW h \in Handles, submitter[h] = "accepted"
  PROVE  submitter'[h] = "accepted"
<1>1. ASSUME NEW g \in Handles, SubmitStep(g) PROVE submitter'[h] = "accepted"
  BY <1>1 DEF SubmitStep, SubmitCheck, Register, Enqueue, Withdraw, TypeOK
<1>2. CASE Others
  BY <1>1, <1>2 DEF Others, HandleCancelRead, HandleCancelCall, CancelById,
     PlainSend, Interrupt, RaiseShutdown, StopBegin, StopStep, StopClaim,
     StopLatch, StopPublish, StopWake, StopJoin, StopOnly, callers, vars
<1>3. CASE LoopStep \/ Crash
  BY <1>3 DEF LoopStep, Crash, LoopOnly, Goto, Poll, Get, Recheck, Clear, Merge,
     Putback, Begin, Latch, Readmit, Work, Dispatch, Provider, PostTurn,
     ObserveLatch, Settle, Publish, SettleAt, PublishAt, Crashed, CrashSettle,
     CrashPublish, Finally, Drain, callers
<1> QED BY <1>2, <1>3, NextSplit

-----------------------------------------------------------------------------
(* What travels.                                                           *)

\* Envelopes travel from submit_turn through the inbox, held and msg only as
\* accepted handles, each in one place.
LEMMA EnvelopeStep ==
  ASSUME TypeOK, EnvelopeInv, [Next]_vars
  PROVE  EnvelopeInv'
<1> USE ConstantsAssumption DEF ConstantsAssumption
<1> DEFINE A == Accepted'
<1>0. inbox \in Seq(Messages) /\ held \in Seq(Messages) /\ Request \in Messages
      /\ Wake \in Messages /\ Handles \subseteq Messages
  BY DEF TypeOK, Messages
<1>1. Accepted \subseteq A
  BY AcceptedStays DEF Accepted
<1>2. /\ CarriesOnly(inbox, A) /\ CarriesOnly(held, A)
      /\ msg \in Handles => msg \in A
  BY <1>1, CarriesMore DEF EnvelopeInv
<1>3. SUFFICES /\ CarriesOnly(inbox', A) /\ CarriesOnly(held', A)
               /\ msg' \in Handles => msg' \in A
  BY DEF EnvelopeInv, CarriesOnly
<1> HIDE DEF A
<1>4. ASSUME inbox' = Append(inbox, Request) \/ inbox' = Append(inbox, Wake)
      PROVE  CarriesOnly(inbox', A)
  BY <1>0, <1>2, <1>4, CarriesAppend
<1>5. CASE Others
  <2>1. UNCHANGED <<held, msg>>
    BY <1>5, OthersLeaveLoop DEF loopVars
  <2>2. ASSUME NEW h \in Handles, Enqueue(h) PROVE CarriesOnly(inbox', A)
    <3>1. CASE inbox' = inbox
      BY <1>2, <3>1
    <3>2. CASE inbox' = Append(inbox, h) /\ submitter' = [submitter EXCEPT ![h] = "accepted"]
      <4>1. h \in A
        BY <3>2 DEF A, Accepted, TypeOK
      <4> QED BY <1>0, <1>2, <3>2, <4>1, CarriesAppend
    <3> QED BY <2>2, <3>1, <3>2 DEF Enqueue
  <2>3. CASE UNCHANGED inbox \/ PlainSend \/ StopWake
    BY <1>2, <1>4, <2>1, <2>3 DEF PlainSend, StopWake
  <2>4. CarriesOnly(inbox', A)
    BY <1>5, <2>2, <2>3 DEF Others, SubmitStep, SubmitCheck, Register, Withdraw,
       HandleCancelRead, HandleCancelCall, CancelById, Interrupt,
       RaiseShutdown, StopBegin, StopStep, StopClaim, StopLatch, StopPublish,
       StopJoin, StopOnly, vars
  <2> QED BY <1>2, <2>1, <2>4
<1>6. CASE Get
  <2>1. CASE inbox # <<>>
    BY <1>0, <1>2, <1>6, <2>1, CarriesTail DEF Get, loopVars
  <2>2. CASE inbox = <<>>
    BY <1>2, <1>6, <2>2 DEF Get
  <2> QED BY <2>1, <2>2
<1>7. CASE Merge
  <2>1. CASE msg = Request /\ inbox # <<>>
    <3>1. /\ Head(inbox) \in Messages /\ CarriesOnly(Tail(inbox), A)
          /\ Head(inbox) \in Handles => Head(inbox) \in A
      BY <1>0, <1>2, <2>1, QueueTail, CarriesTail
    <3>2. CarriesOnly(Append(held, Head(inbox)), A)
      BY <1>0, <1>2, <3>1, CarriesAppend
    <3> QED BY <1>2, <1>7, <2>1, <3>1, <3>2 DEF Merge
  <2>2. CASE msg # Request \/ inbox = <<>>
    BY <1>2, <1>7, <2>2 DEF Merge
  <2> QED BY <2>1, <2>2
<1>8. CASE Putback
  <2>1. CASE held = <<>>
    BY <1>2, <1>8, <2>1 DEF Putback
  <2>2. CASE held # <<>>
    <3>1. /\ Head(held) \in Messages /\ CarriesOnly(Tail(held), A)
          /\ Head(held) \in Handles => Head(held) \in A
      BY <1>0, <1>2, <2>2, QueueTail, CarriesTail
    <3>2. CarriesOnly(Append(inbox, Head(held)), A)
      BY <1>0, <1>2, <3>1, CarriesAppend
    <3> QED BY <1>2, <1>8, <2>2, <3>1, <3>2 DEF Putback
  <2> QED BY <2>1, <2>2
<1>9. CASE Finally
  BY <1>2, <1>9 DEF Finally, CarriesOnly
<1>10. CASE UNCHANGED <<inbox, held, msg>>
  BY <1>2, <1>10
<1>11. LoopStep \/ Crash => Get \/ Merge \/ Putback \/ Finally
                            \/ UNCHANGED <<inbox, held, msg>>
  BY DEF LoopStep, Crash, LoopOnly, Goto, Poll, Recheck, Clear, Begin, Latch,
     Readmit, Work, Dispatch, Provider, PostTurn, ObserveLatch, Settle, Publish,
     SettleAt, PublishAt, Crashed, CrashSettle, CrashPublish, Drain
<1> QED
  BY <1>5, <1>6, <1>7, <1>8, <1>9, <1>10, <1>11, NextSplit

-----------------------------------------------------------------------------
(* The loop's turn.                                                        *)

\* The loop steps that touch neither the registry nor the loop's turn.
MovesOnly ==
  \/ Poll \/ Get \/ Recheck \/ Clear \/ Merge \/ Putback \/ Latch \/ Readmit
  \/ Work \/ Dispatch \/ Provider \/ PostTurn \/ ObserveLatch \/ Crash

\* The bound turn and _current_turn_control keep agreeing.
LEMMA TurnStep ==
  ASSUME TypeOK, RegistryInv, EnvelopeInv, TurnInv, [Next]_vars
  PROVE  TurnInv'
<1> USE ConstantsAssumption DEF ConstantsAssumption
<1>0. \A h \in Handles : submitter[h] = "accepted" => submitter'[h] = "accepted"
  BY AcceptedStays
<1>1. CASE MovesOnly
  <2>1. UNCHANGED <<current, claimed, turn, submitter>>
    BY <1>1 DEF MovesOnly, Poll, Get, Recheck, Clear, Merge, Putback, Latch,
       Readmit, Work, Dispatch, Provider, PostTurn, ObserveLatch, Crash,
       LoopOnly, registry, callers
  <2>2. /\ pc' \in {"poll", "get", "recheck", "clear", "merge", "putback",
                     "begin"} => turn = None
        /\ TurnOK'
    BY <1>1, <2>1 DEF MovesOnly, Goto, Poll, Get, Recheck, Clear, Merge, Putback,
       Latch, Readmit, Work, Dispatch, Provider, PostTurn, ObserveLatch, Crash,
       TurnInv, TurnOK, TypeOK
  <2>3. current # None => pc' \in (InTurn \ {"begin"}) \union {"crashed", "crashSettle"}
    BY <1>1 DEF MovesOnly, Goto, Poll, Get, Recheck, Clear, Merge, Putback,
       Latch, Readmit, Work, Dispatch, Provider, PostTurn, ObserveLatch, Crash,
       TurnInv, InTurn
  <2>4. pc' \in InTurn /\ turn \in Handles => pc \in InTurn
    BY <1>1 DEF MovesOnly, Goto, Poll, Get, Recheck, Clear, Merge, Putback,
       Latch, Readmit, Work, Dispatch, Provider, PostTurn, ObserveLatch, Crash,
       TurnInv, InTurn
  <2> QED BY <2>1, <2>2, <2>3, <2>4 DEF TurnInv
<1>2. CASE Begin
  <2>1. turn = None /\ current = None
    BY <1>2 DEF Begin, TurnInv, InTurn
  <2>2. CASE msg \in Handles /\ Binds(msg)
    <3>1. /\ current' = msg /\ turn' = msg /\ pc' \in {"latch", "bind"}
          /\ UNCHANGED <<claimed, submitter>>
      BY <1>2, <2>2 DEF Begin, callers
    <3>2. submitter[msg] = "accepted" /\ ~claimed[msg]
      BY <2>2 DEF EnvelopeInv, Accepted, Binds
    <3> QED BY <2>2, <3>1, <3>2 DEF TurnInv, TurnOK, InTurn
  <2>3. CASE ~(msg \in Handles /\ Binds(msg))
    BY <1>2, <2>1, <2>3 DEF Begin, TurnInv, TurnOK, InTurn
  <2> QED BY <2>2, <2>3
<1>3. CASE Settling
  <2>1. turn \in Handles /\ UNCHANGED submitter
    BY <1>3 DEF Settling, SettleAt, TurnInv, TurnOK, callers
  <2>2. current # None => current = turn /\ ~claimed[turn]
    BY DEF TurnInv
  <2>3. CASE Claims(turn)
    <3>1. /\ current' = None /\ turn' = turn
          /\ pc' \in {"publish", "crashPublish"}
      BY <1>3, <2>2, <2>3 DEF Settling, SettleAt, Claim
    <3> QED BY <1>0, <2>1, <3>1 DEF TurnInv, TurnOK, InTurn
  <2>4. CASE ~Claims(turn)
    <3>1. current' = None /\ turn' = None /\ pc' \in {"poll", "finally"}
      BY <1>3, <2>2, <2>4 DEF Settling, SettleAt, Claims, registry
    <3> QED BY <3>1 DEF TurnInv, TurnOK, InTurn
  <2> QED BY <2>3, <2>4
<1>4. CASE Publish \/ CrashPublish \/ Finally \/ Drain
  <2>1. current' = None /\ pc' \in {"poll", "finally", "drain", "dead"}
    BY <1>4 DEF Publish, CrashPublish, PublishAt, Finally, ClaimAll, Drain, Goto,
       registry, TurnInv, InTurn
  <2>2. turn' = None \/ (Drain /\ turn' = turn)
    BY <1>4 DEF Publish, CrashPublish, PublishAt, Finally, Drain
  <2>3. Drain => pc' \in {"drain", "dead"}
    BY DEF Drain
  <2> QED BY <1>0, <2>1, <2>2, <2>3 DEF TurnInv, TurnOK, InTurn
<1>5. CASE Crashed
  <2>1. /\ turn' = current /\ UNCHANGED <<current, claimed, submitter>>
        /\ pc' = IF current = None THEN "finally" ELSE "crashSettle"
    BY <1>5 DEF Crashed, LoopOnly, registry, callers
  <2> QED BY <2>1 DEF TurnInv, TurnOK, InTurn, TypeOK
<1>6. CASE Others
  <2>1. UNCHANGED <<pc, turn>>
    BY <1>6, OthersLeaveLoop DEF loopVars
  <2>2. CASE UNCHANGED <<current, claimed>>
    BY <1>0, <2>1, <2>2 DEF TurnInv, TurnOK
  <2>3. CASE StopClaim
    <3>1. /\ current' = None /\ UNCHANGED submitter
          /\ claimed' = [h \in Handles |-> claimed[h] \/ h \in Live]
      BY <2>3 DEF StopClaim, ClaimAll, StopOnly, callers
    <3>2. turn \in Handles => claimed'[turn]
      BY <3>1 DEF TurnInv, RegistryInv, Live, Beyond
    <3> QED BY <2>1, <3>1, <3>2 DEF TurnInv, TurnOK
  <2> QED
    BY <1>6, <2>2, <2>3 DEF Others, SubmitStep, SubmitCheck, Register, Enqueue,
       Withdraw, HandleCancelRead, HandleCancelCall, CancelById, PlainSend,
       Interrupt, RaiseShutdown, StopBegin, StopStep, StopLatch, StopPublish,
       StopWake, StopJoin, vars, registry
<1> QED
  BY <1>1, <1>2, <1>3, <1>4, <1>5, <1>6, NextSplit DEF LoopStep, MovesOnly,
     Settle, CrashSettle, Settling

-----------------------------------------------------------------------------
(* Decisions and deliveries.                                               *)

\* A verdict, once decided, honours the cancellation and never changes.
LEMMA VerdictStep ==
  ASSUME TypeOK, TurnOK, VerdictInv, [Next]_vars
  PROVE  VerdictInv'
<1> USE ConstantsAssumption DEF ConstantsAssumption, Outcomes, Pending, Normal,
        Cancelled, Failed
<1>1. ASSUME NEW id \in Ids, Cancelling(id) PROVE VerdictInv'
  BY <1>1 DEF Cancelling, CancelTurn, VerdictInv, TypeOK
<1>2. CASE Settling
  <2>1. turn \in Handles /\ future' = future
    BY <1>2 DEF Settling, SettleAt, TurnOK
  <2>2. CASE Claims(turn)
    <3>1. /\ claimed' = [claimed EXCEPT ![turn] = TRUE]
          /\ verdict' = [verdict EXCEPT ![turn] =
                           Verdict(turn, candidate, cooperative)]
          /\ cancelRequested' = cancelRequested
      BY <1>2, <2>2 DEF Settling, SettleAt, Claim
    <3>2. /\ Verdict(turn, candidate, cooperative) # Pending
          /\ cancelRequested[turn] => Verdict(turn, candidate, cooperative) = Cancelled
      BY DEF Verdict, TypeOK
    <3>3. future[turn] = Pending
      BY <2>1, <2>2 DEF Claims, VerdictInv
    <3> QED BY <2>1, <3>1, <3>2, <3>3 DEF VerdictInv, TypeOK
  <2>3. CASE ~Claims(turn)
    BY <1>2, <2>1, <2>3 DEF Settling, SettleAt, registry, VerdictInv
  <2> QED BY <2>2, <2>3
<1>3. CASE Finally \/ StopClaim
  <2>1. ClaimAll /\ UNCHANGED future
    BY <1>3 DEF Finally, StopClaim, StopOnly
  <2> QED BY <2>1 DEF ClaimAll, Live, VerdictInv, TypeOK
<1>4. CASE Delivering
  <2>1. UNCHANGED <<claimed, verdict, cancelRequested>>
    BY <1>4 DEF Delivering, Publish, CrashPublish, PublishAt, Drain, StopPublish,
       registry
  <2>2. future' = future \/ \E h \in Handles : Deliver(h)
    <3>1. CASE Publish \/ CrashPublish
      BY <3>1 DEF Publish, CrashPublish, PublishAt, Goto, TurnOK
    <3>2. CASE Drain
      BY <3>2 DEF Drain, TypeOK
    <3>3. CASE StopPublish
      BY <3>3 DEF StopPublish, TypeOK
    <3> QED BY <1>4, <3>1, <3>2, <3>3 DEF Delivering
  <2> QED BY <2>1, <2>2 DEF Deliver, VerdictInv, TypeOK
<1>5. CASE UNCHANGED <<claimed, verdict, cancelRequested, future>>
  BY <1>5 DEF VerdictInv
<1>6. (\E h \in Handles : Register(h) \/ Withdraw(h) \/ SubmitCheck(h) \/ Enqueue(h))
        \/ Begin \/ UNCHANGED <<registry, future, submitter>>
      => UNCHANGED <<claimed, verdict, cancelRequested, future>>
  BY DEF Register, Withdraw, SubmitCheck, Enqueue, Begin, registry
<1> QED
  BY <1>1, <1>2, <1>3, <1>4, <1>5, <1>6, StepKinds

\* The loop and stop owe results to different, decided, unpublished handles.
LEMMA OwesStep ==
  ASSUME TypeOK, TurnOK, VerdictInv, OwesInv, [Next]_vars
  PROVE  OwesInv'
<1> USE ConstantsAssumption DEF ConstantsAssumption
<1>0. \A h \in Handles : ~claimed[h] => future[h] = Pending
                           /\ h \notin loopOwes \union stopOwes
  BY DEF VerdictInv, OwesInv
<1>1. CASE Settling
  <2>1. /\ turn \in Handles /\ loopOwes = {} /\ UNCHANGED <<future, stopOwes, stopPc>>
    BY <1>1 DEF Settling, SettleAt, TurnOK, OwesInv, stopVars
  <2>2. CASE Claims(turn)
    <3>1. /\ claimed' = [claimed EXCEPT ![turn] = TRUE]
          /\ loopOwes' = {turn} /\ turn' = turn
          /\ pc' \in {"publish", "crashPublish"}
      BY <1>1, <2>2 DEF Settling, SettleAt, Claim
    <3>2. turn \notin stopOwes /\ future[turn] = Pending
      BY <1>0, <2>1, <2>2 DEF Claims
    <3> QED BY <2>1, <3>1, <3>2 DEF OwesInv, TypeOK
  <2>3. CASE ~Claims(turn)
    BY <1>1, <2>1, <2>3 DEF Settling, SettleAt, registry, OwesInv
  <2> QED BY <2>2, <2>3
<1>2. CASE Finally
  <2>1. /\ claimed' = [h \in Handles |-> claimed[h] \/ h \in Live]
        /\ loopOwes' = Live /\ loopOwes = {} /\ pc' = "drain"
        /\ UNCHANGED <<future, stopOwes, stopPc>>
    BY <1>2 DEF Finally, ClaimAll, Goto, OwesInv, stopVars
  <2>2. \A h \in Live : h \in Handles /\ ~claimed[h]
    BY DEF Live
  <2> QED BY <1>0, <2>1, <2>2 DEF OwesInv, TypeOK
<1>3. CASE StopClaim
  <2>1. /\ claimed' = [h \in Handles |-> claimed[h] \/ h \in Live]
        /\ stopOwes' = Live /\ stopOwes = {} /\ stopPc' \in {"latch", "publish"}
        /\ UNCHANGED <<future, loopOwes, pc, turn>>
    BY <1>3 DEF StopClaim, ClaimAll, StopOnly, OwesInv, loopVars
  <2>2. \A h \in Live : h \in Handles /\ ~claimed[h]
    BY DEF Live
  <2> QED BY <1>0, <2>1, <2>2 DEF OwesInv, TypeOK
<1>4. CASE Publish \/ CrashPublish
  <2>1. /\ turn \in Handles /\ loopOwes = {turn} /\ loopOwes' = {}
        /\ pc' \in {"poll", "finally"}
        /\ future' = [future EXCEPT ![turn] = verdict[turn]]
        /\ UNCHANGED <<claimed, stopOwes, stopPc>>
    BY <1>4 DEF Publish, CrashPublish, PublishAt, Goto, Deliver, TurnOK, OwesInv,
       registry, stopVars
  <2>2. verdict[turn] # Pending /\ turn \notin stopOwes
    BY <2>1 DEF OwesInv, VerdictInv
  <2> QED BY <2>1, <2>2 DEF OwesInv, TypeOK
<1>5. CASE Drain
  <2>1. CASE loopOwes = {} /\ UNCHANGED <<future, loopOwes>>
    BY <1>5, <2>1 DEF Drain, OwesInv, registry, stopVars
  <2>2. ASSUME NEW h \in loopOwes, Deliver(h), loopOwes' = loopOwes \ {h}, pc' = pc
        PROVE  OwesInv'
    <3>1. h \in Handles /\ verdict[h] # Pending /\ h \notin stopOwes
      BY <2>2 DEF OwesInv, VerdictInv, TypeOK
    <3>2. pc = "drain" /\ UNCHANGED <<claimed, stopOwes, stopPc, turn>>
      BY <1>5 DEF Drain, registry, stopVars
    <3> QED BY <2>2, <3>1, <3>2 DEF Deliver, OwesInv, TypeOK
  <2> QED BY <1>5, <2>1, <2>2 DEF Drain
<1>6. CASE StopPublish
  <2>1. CASE stopOwes = {} /\ UNCHANGED <<future, stopOwes>>
    BY <1>6, <2>1 DEF StopPublish, OwesInv, registry, loopVars
  <2>2. ASSUME NEW h \in stopOwes, Deliver(h), stopOwes' = stopOwes \ {h},
               stopPc' = stopPc
        PROVE  OwesInv'
    <3>1. h \in Handles /\ verdict[h] # Pending /\ h \notin loopOwes
      BY <2>2 DEF OwesInv, VerdictInv, TypeOK
    <3>2. stopPc = "publish" /\ UNCHANGED <<claimed, loopOwes, pc, turn>>
      BY <1>6 DEF StopPublish, registry, loopVars
    <3> QED BY <2>2, <3>1, <3>2 DEF Deliver, OwesInv, TypeOK
  <2> QED BY <1>6, <2>1, <2>2 DEF StopPublish
<1>7. CASE UNCHANGED <<claimed, future, loopOwes, stopOwes>>
  <2>1. CASE Others
    <3>1. UNCHANGED <<pc, turn>>
      BY <2>1, OthersLeaveLoop DEF loopVars
    <3>2. stopOwes # {} => stopPc' \in {"latch", "publish"}
      BY <1>6, <2>1 DEF Others, SubmitStep, SubmitCheck, Register, Enqueue,
         Withdraw, HandleCancelRead, HandleCancelCall, CancelById, PlainSend,
         Interrupt, RaiseShutdown, StopBegin, StopStep, StopClaim, StopLatch,
         StopPublish, StopWake, StopJoin, vars, stopVars, OwesInv
    <3> QED BY <1>7, <3>1, <3>2 DEF OwesInv
  <2>2. CASE LoopStep \/ Crash
    <3>1. stopPc' = stopPc
      BY <2>2 DEF LoopStep, Crash, LoopOnly, Goto, Poll, Get, Recheck, Clear,
         Merge, Putback, Begin, Latch, Readmit, Work, Dispatch, Provider,
         PostTurn, ObserveLatch, Settle, Publish, SettleAt, PublishAt, Crashed,
         CrashSettle, CrashPublish, Finally, Drain, stopVars
    <3>2. CASE Settling \/ Publish \/ CrashPublish \/ Finally \/ Drain
      BY <1>1, <1>2, <1>4, <1>5, <3>2
    <3>3. CASE MovesOnly \/ Begin \/ Crashed
      <4>1. pc \notin {"publish", "crashPublish", "drain"}
            /\ pc' \notin {"publish", "crashPublish"}
        BY <3>3 DEF MovesOnly, Goto, Poll, Get, Recheck, Clear, Merge, Putback,
           Begin, Latch, Readmit, Work, Dispatch, Provider, PostTurn,
           ObserveLatch, Crash, Crashed
      <4> QED BY <1>7, <3>1, <4>1 DEF OwesInv
    <3> QED BY <2>2, <3>2, <3>3 DEF LoopStep, MovesOnly, Settle, CrashSettle,
               Settling
  <2> QED BY <2>1, <2>2, NextSplit
<1>8. LoopStep \/ Crash \/ Others =>
        \/ Settling \/ Finally \/ StopClaim \/ Publish \/ CrashPublish \/ Drain
        \/ StopPublish \/ UNCHANGED <<claimed, future, loopOwes, stopOwes>>
  <2>1. Others => StopClaim \/ StopPublish
                    \/ UNCHANGED <<claimed, future, loopOwes, stopOwes>>
    BY DEF Others, SubmitStep, SubmitCheck, Register, Enqueue, Withdraw,
       HandleCancelRead, HandleCancelCall, CancelById, PlainSend, Interrupt,
       RaiseShutdown, StopBegin, StopStep, StopLatch, StopWake, StopJoin,
       StopOnly, vars, registry, loopVars, stopVars
  <2>2. LoopStep \/ Crash => Settling \/ Finally \/ Publish \/ CrashPublish \/ Drain
                    \/ UNCHANGED <<claimed, future, loopOwes, stopOwes>>
    BY DEF LoopStep, Crash, LoopOnly, Poll, Get, Recheck, Clear, Merge, Putback,
       Begin, Latch, Readmit, Work, Dispatch, Provider, PostTurn, ObserveLatch,
       Settle, Crashed, CrashSettle, Settling, registry, stopVars
  <2> QED BY <2>1, <2>2
<1> QED
  BY <1>1, <1>2, <1>3, <1>4, <1>5, <1>6, <1>7, <1>8, NextSplit

-----------------------------------------------------------------------------
(* Agent.stop.                                                             *)

\* _shutdown is never lowered.
LEMMA ShutdownStays == [Next]_vars /\ shutdown => shutdown'
<1>1. Others /\ shutdown => shutdown'
  BY DEF Others, SubmitStep, SubmitCheck, Register, Enqueue, Withdraw,
     HandleCancelRead, HandleCancelCall, CancelById, PlainSend, Interrupt,
     RaiseShutdown, StopBegin, StopStep, StopClaim, StopLatch, StopPublish,
     StopWake, StopJoin, vars
<1>2. LoopStep \/ Crash => UNCHANGED shutdown
  BY DEF LoopStep, Crash, LoopOnly, Goto, Poll, Get, Recheck, Clear, Merge,
     Putback, Begin, Latch, Readmit, Work, Dispatch, Provider, PostTurn,
     ObserveLatch, Settle, Publish, SettleAt, PublishAt, Crashed, CrashSettle,
     CrashPublish, Finally, Drain
<1> QED BY <1>1, <1>2, NextSplit

\* The run loop does not move the thread inside stop.
LEMMA LoopLeavesStop == LoopStep \/ Crash => UNCHANGED stopVars
  BY DEF LoopStep, Crash, LoopOnly, Goto, Poll, Get, Recheck, Clear, Merge,
     Putback, Begin, Latch, Readmit, Work, Dispatch, Provider, PostTurn,
     ObserveLatch, Settle, Publish, SettleAt, PublishAt, Crashed, CrashSettle,
     CrashPublish, Finally, Drain

\* Once the registry is empty it stays so: _shutdown refuses the next control.
LEMMA EmptyStays ==
  ASSUME TypeOK, TurnOK, [Next]_vars, shutdown, \A id \in Ids : controls[id] = None
  PROVE  \A id \in Ids : controls'[id] = None
<1> USE ConstantsAssumption DEF ConstantsAssumption
<1>1. ASSUME NEW h \in Handles, Register(h) \/ Withdraw(h)
      PROVE  \A id \in Ids : controls'[id] = None
  <2>1. CASE Register(h)
    BY <1>1, <2>1 DEF Register, MayRegister
  <2>2. CASE Withdraw(h)
    <3>1. controls' = [controls EXCEPT ![IdOf[h]] = IF @ = h THEN None ELSE @]
      BY <2>2 DEF Withdraw, Unregister
    <3> QED BY <3>1 DEF TypeOK
  <2> QED BY <1>1, <2>1, <2>2
<1>2. CASE Settling
  <2>1. \/ controls' = controls
        \/ controls' = [controls EXCEPT ![IdOf[turn]] =
                          IF @ = turn THEN None ELSE @]
    BY <1>2 DEF Settling, SettleAt, Claim, registry
  <2> QED BY <2>1 DEF TypeOK
<1>3. CASE Finally \/ StopClaim
  BY <1>3 DEF Finally, StopClaim, ClaimAll
<1>4. CASE UNCHANGED controls
  BY <1>4
<1>5. (\E h \in Handles : SubmitCheck(h) \/ Enqueue(h))
        \/ (\E id \in Ids : Cancelling(id)) \/ Begin \/ Delivering
        \/ UNCHANGED <<registry, future, submitter>>
      => UNCHANGED controls
  BY DEF SubmitCheck, Enqueue, Cancelling, Begin, Delivering, Publish,
     CrashPublish, PublishAt, Drain, StopPublish, registry
<1> QED
  BY <1>1, <1>2, <1>3, <1>4, <1>5, StepKinds

\* Once stop has claimed, the registry is empty for good and what stop owes is
\* settled before it reports STOPPED.
LEMMA StopInvStep ==
  ASSUME TypeOK, TurnOK, StopInv, [Next]_vars
  PROVE  StopInv'
<1> USE ConstantsAssumption DEF ConstantsAssumption
<1> DEFINE Emptied == {"latch", "publish", "wake", "join", "stopped"}
<1>1. CASE StopClaim
  <2>1. /\ stopPc = "claim" /\ stopPc' \in {"latch", "publish"}
        /\ \A id \in Ids : controls'[id] = None
    BY <1>1 DEF StopClaim, ClaimAll
  <2> QED BY <2>1, ShutdownStays DEF StopInv
<1>2. CASE StopBegin
  BY <1>2 DEF StopBegin, StopInv
<1>3. CASE (stopPc' \in Emptied => stopPc \in Emptied)
           /\ (stopPc' # "idle" => stopPc # "idle")
           /\ (stopPc' = "stopped" => pc = "dead")
  <2>1. stopPc' # "idle" => shutdown'
    BY <1>3, ShutdownStays DEF StopInv
  <2>2. stopPc' \in Emptied => \A id \in Ids : controls'[id] = None
    <3>1. CASE stopPc \in Emptied
      BY <3>1, EmptyStays DEF StopInv
    <3> QED BY <1>3, <3>1
  <2>3. pc = "dead" => pc' = "dead"
    <3>1. LoopStep \/ Crash => pc # "dead"
      BY DEF LoopStep, Crash, Goto, Poll, Get, Recheck, Clear, Merge, Putback,
         Begin, Latch, Readmit, Work, Dispatch, Provider, PostTurn,
         ObserveLatch, Settle, Publish, SettleAt, PublishAt, Crashed,
         CrashSettle, CrashPublish, Finally, Drain
    <3> QED BY <3>1, NextSplit, OthersLeaveLoop DEF loopVars
  <2> QED BY <1>3, <2>1, <2>2, <2>3 DEF StopInv
<1>4. Others => \/ StopClaim \/ StopBegin
                \/ /\ stopPc' \in Emptied => stopPc \in Emptied
                   /\ stopPc' # "idle" => stopPc # "idle"
                   /\ stopPc' = "stopped" => pc = "dead"
  BY DEF Others, SubmitStep, SubmitCheck, Register, Enqueue, Withdraw,
     HandleCancelRead, HandleCancelCall, CancelById, PlainSend, Interrupt,
     RaiseShutdown, StopStep, StopLatch, StopPublish, StopWake, StopJoin, vars,
     stopVars, StopInv
<1>5. LoopStep \/ Crash => UNCHANGED stopPc
  BY LoopLeavesStop DEF stopVars
<1> QED
  BY <1>1, <1>2, <1>3, <1>4, <1>5, NextSplit DEF StopInv

-----------------------------------------------------------------------------
(* Cancelled handles and the provider; the latch.                          *)

\* A handle barred before its bind stays out of the provider.
LEMMA BarredStep ==
  ASSUME TypeOK, RegistryInv, TurnInv, BarredInv, [Next]_vars
  PROVE  BarredInv'
<1> USE ConstantsAssumption DEF ConstantsAssumption
<1> USE DEF PendingCancelNeverDispatched
<1>1. ASSUME NEW id \in Ids, Cancelling(id) PROVE BarredInv'
  <2> DEFINE h == controls[id]
  <2>1. UNCHANGED <<current, claimed, pc, turn, dispatched>>
    BY <1>1 DEF Cancelling, loopVars
  <2>2. CASE h # None /\ ~claimed[h]
    <3>1. h \in Handles /\ cancelRequested' = [cancelRequested EXCEPT ![h] = TRUE]
          /\ barred' = IF current = h THEN barred ELSE barred \union {h}
      BY <1>1, <2>2 DEF Cancelling, CancelTurn, TypeOK
    <3>2. \A g \in barred' : cancelRequested'[g]
      BY <3>1 DEF BarredInv, TypeOK
    <3>3. pc = "call" /\ turn = h => current = h
      BY <2>2, <3>1 DEF TurnInv, InTurn
    <3>4. current # h => h \notin dispatched
      BY <2>2, <3>1 DEF BarredInv
    <3> QED BY <2>1, <3>1, <3>2, <3>3, <3>4 DEF BarredInv
  <2>3. CASE ~(h # None /\ ~claimed[h])
    BY <1>1, <2>1, <2>3 DEF Cancelling, CancelTurn, BarredInv
  <2> QED BY <2>2, <2>3
<1>2. CASE Finally \/ StopClaim
  <2>1. /\ ClaimAll
        /\ pc' = "call" => pc = "call" /\ turn' = turn
    BY <1>2 DEF Finally, StopClaim, StopOnly, loopVars, Goto
  <2>2. /\ cancelRequested' = [h \in Handles |-> cancelRequested[h] \/ h \in Live]
        /\ claimed' = [h \in Handles |-> claimed[h] \/ h \in Live]
        /\ current' = None /\ barred' = barred \union (Live \ {current})
        /\ dispatched' = dispatched
    BY <2>1 DEF ClaimAll
  <2>3. \A h \in Live : h \in Handles /\ ~claimed[h]
    BY DEF Live
  <2>4. \A h \in barred' : cancelRequested'[h]
    BY <2>2, <2>3 DEF BarredInv, TypeOK
  <2>5. pc' = "call" => turn' \notin barred'
    <3>1. pc = "call" /\ turn \in Live => current = turn
      BY <2>3 DEF TurnInv, InTurn
    <3> QED BY <2>1, <2>2, <3>1 DEF BarredInv
  <2>6. current # None => current \in Live
    BY DEF TurnInv, RegistryInv, Live, Beyond, TypeOK
  <2>7. \A h \in dispatched' : claimed'[h] \/ current' = h
    BY <2>2, <2>6 DEF BarredInv, TypeOK
  <2>8. \A h \in Live \ {current} : h \notin dispatched
    BY <2>3 DEF BarredInv
  <2> QED BY <2>2, <2>4, <2>5, <2>7, <2>8 DEF BarredInv
<1>3. CASE Settling
  <2>1. /\ turn \in Handles /\ UNCHANGED <<cancelRequested, barred, dispatched>>
        /\ pc' # "call"
    BY <1>3 DEF Settling, SettleAt, Claim, TurnInv, TurnOK, registry, history
  <2>2. \A h \in Handles : claimed[h] \/ current = h => claimed'[h] \/ current' = h
    BY <1>3, <2>1 DEF Settling, SettleAt, Claim, registry, TypeOK, TurnInv
  <2> QED BY <2>1, <2>2 DEF BarredInv, TypeOK
<1>4. CASE Dispatch
  <2>1. pc = "call" /\ UNCHANGED <<claimed, current, cancelRequested, barred>>
        /\ pc' = "provider"
        /\ dispatched' = IF turn = None THEN dispatched ELSE dispatched \union {turn}
    BY <1>4 DEF Dispatch, Goto, registry
  <2>2. turn # None => turn \in Handles /\ (claimed[turn] \/ current = turn)
    BY <2>1 DEF TurnInv, InTurn, TypeOK
  <2> QED BY <2>1, <2>2 DEF BarredInv
<1>5. CASE Begin
  <2>1. current = None /\ pc' # "call"
        /\ UNCHANGED <<claimed, cancelRequested, barred, dispatched>>
    BY <1>5 DEF Begin, TurnInv, InTurn, history
  <2>2. \A h \in dispatched : claimed[h]
    BY <2>1 DEF BarredInv, TypeOK
  <2> QED BY <2>1, <2>2 DEF BarredInv
<1>6. CASE Work
  <2>1. /\ UNCHANGED <<claimed, current, cancelRequested, barred, dispatched>>
        /\ pc' = "call" => turn = None \/ ~cancelRequested[turn]
        /\ turn' = turn
    BY <1>6 DEF Work, SkipsProvider, LoopOnly, registry, history
  <2>2. None \notin barred
    BY DEF TypeOK
  <2> QED BY <2>1, <2>2 DEF BarredInv
<1>7. CASE /\ UNCHANGED <<claimed, current, cancelRequested, barred, dispatched>>
           /\ pc' = "call" => pc = "call" /\ turn' = turn
  BY <1>7 DEF BarredInv
<1>8. Others => \/ \E id \in Ids : Cancelling(id)
                \/ StopClaim
                \/ /\ UNCHANGED <<claimed, current, cancelRequested, barred, dispatched>>
                   /\ UNCHANGED <<pc, turn>>
  BY DEF Others, SubmitStep, SubmitCheck, Register, Enqueue, Withdraw,
     HandleCancelRead, HandleCancelCall, CancelById, Cancelling, PlainSend,
     Interrupt, RaiseShutdown, StopBegin, StopStep, StopLatch, StopPublish,
     StopWake, StopJoin, StopOnly, vars, registry, history, loopVars, callers
<1>9. LoopStep \/ Crash =>
        \/ Finally \/ Settling \/ Dispatch \/ Begin \/ Work
        \/ /\ UNCHANGED <<claimed, current, cancelRequested, barred, dispatched>>
           /\ pc' = "call" => pc = "call" /\ turn' = turn
  BY DEF LoopStep, Crash, LoopOnly, Goto, Poll, Get, Recheck, Clear, Merge,
     Putback, Latch, Readmit, Provider, PostTurn, ObserveLatch, Settle, Publish,
     PublishAt, Crashed, CrashSettle, CrashPublish, Drain, Settling, registry,
     history
<1> QED
  BY <1>1, <1>2, <1>3, <1>4, <1>5, <1>6, <1>7, <1>8, <1>9, NextSplit

\* No step brings another handle's cancellation into the latch of a turn.
LEMMA LatchStep ==
  ASSUME TypeOK, TurnInv, NoCancelLeak, [Next]_vars
  PROVE  NoCancelLeak'
<1> USE ConstantsAssumption DEF ConstantsAssumption
<1> DEFINE Watched == InTurn \union {"merge", "putback"}
<1>1. CASE Others
  <2>1. UNCHANGED <<pc, turn>>
    BY <1>1, OthersLeaveLoop DEF loopVars
  <2>2. latchedBy' = latchedBy \/ (current # None /\ latchedBy' = latchedBy \union {current})
    BY <1>1 DEF Others, SubmitStep, SubmitCheck, Register, Enqueue, Withdraw,
       HandleCancelRead, HandleCancelCall, CancelById, CancelTurn, Latches,
       PlainSend, Interrupt, RaiseShutdown, StopBegin, StopStep, StopClaim,
       StopLatch, StopPublish, StopWake, StopJoin, vars, latch
  <2>3. current # None => current = turn
    BY DEF TurnInv
  <2> QED BY <2>1, <2>2, <2>3 DEF NoCancelLeak
<1>2. CASE Clear
  BY <1>2 DEF Clear, ClearLatch, NoCancelLeak
<1>3. CASE Begin
  <2>1. pc = "begin" /\ turn = None /\ latchedBy' = latchedBy
    BY <1>3 DEF Begin, TurnInv, latch
  <2>2. latchedBy = {}
    BY <2>1 DEF NoCancelLeak, InTurn, TypeOK
  <2> QED BY <2>1, <2>2 DEF NoCancelLeak
<1>4. CASE Latch
  BY <1>4 DEF Latch, Goto, NoCancelLeak, InTurn
<1>5. CASE /\ UNCHANGED <<latchedBy, turn>>
           /\ pc' \in Watched => pc \in Watched
  BY <1>5 DEF NoCancelLeak
<1>6. CASE latchedBy' = latchedBy /\ pc' \notin Watched
  BY <1>6 DEF NoCancelLeak
<1>7. LoopStep \/ Crash =>
        \/ Clear \/ Begin \/ Latch
        \/ UNCHANGED <<latchedBy, turn>> /\ (pc' \in Watched => pc \in Watched)
        \/ latchedBy' = latchedBy /\ pc' \notin Watched
  BY DEF LoopStep, Crash, LoopOnly, Goto, Poll, Get, Recheck, Merge, Putback,
     Readmit, Work, Dispatch, Provider, PostTurn, ObserveLatch, Settle, Publish,
     SettleAt, PublishAt, Crashed, CrashSettle, CrashPublish, Finally, Drain,
     latch, InTurn
<1> QED BY <1>1, <1>2, <1>3, <1>4, <1>5, <1>6, <1>7, NextSplit

-----------------------------------------------------------------------------
(* The inductive invariant and what follows from it.                       *)

\* The inductive invariant: the parts above, the types and the latch.
IInv ==
  /\ TypeOK /\ RegistryInv /\ VerdictInv /\ OwesInv /\ EnvelopeInv /\ TurnInv
  /\ StopInv /\ BarredInv /\ NoCancelLeak

\* The inductive invariant holds initially ...
LEMMA InitIInv == Init => IInv
<1> SUFFICES ASSUME Init PROVE IInv
  OBVIOUS
<1> USE ConstantsAssumption DEF ConstantsAssumption
<1>1. TypeOK
  BY InitTypeOK
<1>2. RegistryInv /\ VerdictInv /\ OwesInv
  BY DEF Init, RegistryInv, VerdictInv, OwesInv, Beyond
<1>3. EnvelopeInv /\ TurnInv
  BY DEF Init, EnvelopeInv, CarriesOnly, TurnInv, TurnOK, InTurn
<1>4. StopInv /\ BarredInv /\ NoCancelLeak
  BY DEF Init, StopInv, BarredInv, PendingCancelNeverDispatched, NoCancelLeak
<1> QED BY <1>1, <1>2, <1>3, <1>4 DEF IInv

\* ... and every step keeps it.
LEMMA IInvStep == IInv /\ [Next]_vars => IInv'
<1> SUFFICES ASSUME IInv, [Next]_vars PROVE IInv'
  OBVIOUS
<1>1. TurnOK
  BY DEF IInv, TurnInv
<1>2. TypeOK'
  BY <1>1, TypingStep DEF IInv
<1>3. RegistryInv' /\ EnvelopeInv' /\ TurnInv'
  BY RegistryStep, EnvelopeStep, TurnStep DEF IInv
<1>4. VerdictInv' /\ OwesInv' /\ StopInv'
  BY <1>1, VerdictStep, OwesStep, StopInvStep DEF IInv
<1>5. BarredInv' /\ NoCancelLeak'
  BY BarredStep, LatchStep DEF IInv
<1> QED BY <1>2, <1>3, <1>4, <1>5 DEF IInv

\* The inductive invariant holds in every reachable state.
THEOREM Invariance == Spec => []IInv
  BY InitIInv, IInvStep, PTL DEF Spec

\* A cancellation accepted before the claim is what the Future shows.
THEOREM CancellationWinsAlways == Spec => []CancellationWins
<1>1. IInv => CancellationWins
  BY DEF IInv, VerdictInv, CancellationWins
<1> QED BY <1>1, Invariance, PTL

\* No other handle's cancellation is in the latch while a turn runs.
THEOREM NoLeakAlways == Spec => []NoCancelLeak
<1>1. IInv => NoCancelLeak
  BY DEF IInv
<1> QED BY <1>1, Invariance, PTL

\* A handle cancelled or torn down while it waited never meets the provider.
THEOREM PendingCancelBars == Spec => []PendingCancelNeverDispatched
<1>1. IInv => PendingCancelNeverDispatched
  BY DEF IInv, BarredInv
<1> QED BY <1>1, Invariance, PTL

\* STOPPED leaves no live control and no handle without a result.
THEOREM StopSettles == Spec => []StoppedMeansSettled
<1>1. ASSUME IInv PROVE StoppedMeansSettled
  <2>1. SUFFICES ASSUME stopPc = "stopped"
                 PROVE  /\ Live = {}
                        /\ \A h \in Handles : submitter[h] \in {"registered", "accepted"}
                                             => future[h] # Pending
    BY DEF StoppedMeansSettled
  <2>2. \A id \in Ids : controls[id] = None
    BY <1>1, <2>1 DEF IInv, StopInv
  <2>3. \A h \in Handles : controls[IdOf[h]] # h
    BY <2>2, ConstantsAssumption DEF ConstantsAssumption
  <2>4. loopOwes = {} /\ stopOwes = {}
    BY <1>1, <2>1 DEF IInv, StopInv, OwesInv
  <2>5. \A h \in Handles : submitter[h] \in {"registered", "accepted"} => claimed[h]
    BY <1>1, <2>3 DEF IInv, RegistryInv, Beyond
  <2>6. \A h \in Handles : claimed[h] => future[h] # Pending
    BY <1>1, <2>4 DEF IInv, OwesInv
  <2> QED BY <2>3, <2>5, <2>6 DEF Live
<1> QED BY <1>1, Invariance, PTL

\* Nobody gives a Future a second result.
THEOREM OneResult == Spec => []SettledOnce
<1>1. IInv => SettledOnce
  BY DEF IInv, OwesInv, SettledOnce, TypeOK
<1> QED BY <1>1, Invariance, PTL

-----------------------------------------------------------------------------
(* The registry, the loop and stop together implement TurnReceipt.         *)

ReceiptVars == <<Live, {h \in Handles : submitter[h] = "accepted"},
                 {h \in Handles : cancelRequested[h]}, verdict, future>>

\* Every step of the registry is a step of the receipt, or a stutter.
LEMMA ReceiptStep ==
  ASSUME IInv, [Next]_vars
  PROVE  Receipt!Next \/ UNCHANGED ReceiptVars
<1> USE ConstantsAssumption DEF ConstantsAssumption
<1>0. TypeOK /\ RegistryInv /\ VerdictInv /\ OwesInv /\ TurnInv /\ TurnOK
  BY DEF IInv, TurnInv
<1>1. ASSUME NEW h \in Handles, Register(h)
      PROVE  Receipt!Accept(h) \/ UNCHANGED ReceiptVars
  <2>1. CASE MayRegister(h)
    <3>1. /\ controls' = [controls EXCEPT ![IdOf[h]] = h]
          /\ submitter' = [submitter EXCEPT ![h] = "registered"]
          /\ submitter[h] = "checked" /\ controls[IdOf[h]] = None
          /\ UNCHANGED <<claimed, verdict, cancelRequested, future>>
      BY <1>1, <2>1 DEF Register, MayRegister
    <3>2. verdict[h] = Pending /\ ~claimed[h]
      BY <1>0, <3>1 DEF RegistryInv, VerdictInv
    <3>3. h \notin Live
      BY <3>1 DEF Live
    <3>4. Live' = Live \union {h}
      BY <1>0, <3>1, <3>2 DEF Live, TypeOK
    <3>5. {g \in Handles : submitter[g] = "accepted"}'
            = {g \in Handles : submitter[g] = "accepted"}
      BY <1>0, <3>1 DEF TypeOK
    <3> QED BY <3>1, <3>2, <3>3, <3>4, <3>5 DEF Receipt!Accept
  <2>2. CASE ~MayRegister(h)
    BY <1>0, <1>1, <2>2 DEF Register, ReceiptVars, Live, TypeOK
  <2> QED BY <2>1, <2>2
<1>2. ASSUME NEW h \in Handles, Withdraw(h) PROVE Receipt!Withdraw(h)
  <2>1. /\ controls' = [controls EXCEPT ![IdOf[h]] = IF @ = h THEN None ELSE @]
        /\ submitter' = [submitter EXCEPT ![h] = "rejected"]
        /\ submitter[h] = "withdrawing"
        /\ UNCHANGED <<claimed, verdict, cancelRequested, future>>
    BY <1>2 DEF Withdraw, Unregister
  <2>2. Live' = Live \ {h}
    BY <1>0, <2>1 DEF Live, TypeOK
  <2>3. {g \in Handles : submitter[g] = "accepted"}'
          = {g \in Handles : submitter[g] = "accepted"}
    BY <1>0, <2>1 DEF TypeOK
  <2> QED BY <2>1, <2>2, <2>3 DEF Receipt!Withdraw
<1>3. ASSUME NEW h \in Handles, SubmitCheck(h) \/ Enqueue(h)
      PROVE  Receipt!Give(h) \/ UNCHANGED ReceiptVars
  <2>1. Live' = Live /\ UNCHANGED <<verdict, cancelRequested, future>>
    BY <1>3 DEF SubmitCheck, Enqueue, registry, Live
  <2>2. CASE submitter' = [submitter EXCEPT ![h] = "accepted"] /\ submitter[h] = "registered"
    <3>1. h \in Live \/ verdict[h] # Pending
      BY <1>0, <2>2 DEF RegistryInv, VerdictInv, Live, Beyond
    <3>2. {g \in Handles : submitter[g] = "accepted"}'
            = {g \in Handles : submitter[g] = "accepted"} \union {h}
      BY <1>0, <2>2 DEF TypeOK
    <3> QED BY <2>1, <3>1, <3>2 DEF Receipt!Give
  <2>3. CASE /\ submitter[h] # "accepted"
             /\ \E state \in {"checked", "rejected", "withdrawing"} :
                  submitter' = [submitter EXCEPT ![h] = state]
    BY <1>0, <2>1, <2>3 DEF ReceiptVars, TypeOK
  <2> QED BY <1>3, <2>2, <2>3 DEF SubmitCheck, Enqueue
<1>4. ASSUME NEW id \in Ids, Cancelling(id)
      PROVE  (\E h \in Handles : Receipt!Cancel(h)) \/ UNCHANGED ReceiptVars
  <2> DEFINE h == controls[id]
  <2>1. Live' = Live /\ UNCHANGED <<submitter, verdict, future>>
    BY <1>4 DEF Cancelling, Live
  <2>2. CASE h # None /\ ~claimed[h]
    <3>1. h \in Live
      BY <1>0, <2>2 DEF Live, RegistryInv, TypeOK
    <3>2. cancelRequested' = [cancelRequested EXCEPT ![h] = TRUE]
      BY <1>4, <2>2 DEF Cancelling, CancelTurn
    <3>3. {g \in Handles : cancelRequested[g]}'
            = {g \in Handles : cancelRequested[g]} \union {h}
      BY <1>0, <3>1, <3>2 DEF TypeOK, Live
    <3>4. h \in Handles
      BY <3>1 DEF Live
    <3> HIDE DEF h
    <3> QED BY <2>1, <3>1, <3>3, <3>4 DEF Receipt!Cancel
  <2>3. CASE ~(h # None /\ ~claimed[h])
    <3>1. cancelRequested' = cancelRequested
      BY <1>4, <2>3 DEF Cancelling, CancelTurn
    <3> QED BY <2>1, <3>1 DEF ReceiptVars
  <2> QED BY <2>2, <2>3
<1>5. CASE Begin
  BY <1>5 DEF Begin, ReceiptVars, Live, callers
<1>6. CASE Settling
  <2>1. turn \in Handles /\ submitter[turn] = "accepted" /\ UNCHANGED <<submitter, future>>
    BY <1>0, <1>6 DEF Settling, SettleAt, TurnOK, TurnInv, callers
  <2>2. CASE Claims(turn)
    <3> DEFINE outcome == [g \in Handles |-> Verdict(turn, candidate, cooperative)]
    <3>1. /\ claimed' = [claimed EXCEPT ![turn] = TRUE]
          /\ verdict' = [verdict EXCEPT ![turn] =
                           Verdict(turn, candidate, cooperative)]
          /\ controls' = [controls EXCEPT ![IdOf[turn]] =
                            IF @ = turn THEN None ELSE @]
          /\ cancelRequested' = cancelRequested
      BY <1>6, <2>2 DEF Settling, SettleAt, Claim
    <3>2. turn \in Live
      BY <1>0, <2>1, <2>2 DEF Claims, RegistryInv, Beyond, Live
    <3>3. Live' = Live \ {turn}
      BY <1>0, <2>1, <3>1 DEF Live, TypeOK
    <3>4. outcome \in [Handles -> Outcomes]
      BY <1>0 DEF Verdict, TypeOK, Outcomes
    <3>5. cancelRequested[turn] => outcome[turn] = Cancelled
      BY <2>1 DEF Verdict
    <3>6. verdict' = [g \in Handles |-> IF g \in {turn} THEN outcome[g] ELSE verdict[g]]
      BY <1>0, <2>1, <3>1 DEF TypeOK
    <3>7. PICK S \in SUBSET Handles : S = {turn}
      BY <2>1
    <3>8. PICK o \in [Handles -> Outcomes] : o = outcome
      BY <3>4
    <3> HIDE DEF outcome
    <3>9. Receipt!Decide(S, o)
      BY <2>1, <3>1, <3>2, <3>3, <3>5, <3>6, <3>7, <3>8 DEF Receipt!Decide
    <3> QED BY <3>9 DEF Receipt!Next
  <2>3. CASE ~Claims(turn)
    <3>1. UNCHANGED registry
      BY <1>6, <2>3 DEF Settling, SettleAt
    <3>2. Live' = Live
      BY <3>1 DEF registry, Live
    <3>3. verdict' = verdict /\ cancelRequested' = cancelRequested
      BY <3>1 DEF registry
    <3>4. UNCHANGED ReceiptVars
      BY <2>1, <3>2, <3>3 DEF ReceiptVars
    <3> QED BY <3>4
  <2> QED BY <2>2, <2>3
<1>7. CASE Finally \/ StopClaim
  <2> DEFINE outcome == [g \in Handles |-> Cancelled]
  <2>1. ClaimAll /\ UNCHANGED <<submitter, future>>
    BY <1>7 DEF Finally, StopClaim, StopOnly, callers
  <2>2. Live \subseteq Handles /\ Live' = Live \ Live
    BY <2>1 DEF ClaimAll, Live
  <2>3. verdict' = [g \in Handles |-> IF g \in Live THEN outcome[g] ELSE verdict[g]]
    BY <2>1 DEF ClaimAll
  <2>4. {g \in Handles : cancelRequested[g]}'
          = {g \in Handles : cancelRequested[g]} \union Live
    BY <1>0, <2>1, <2>2 DEF ClaimAll, TypeOK
  <2>5. outcome \in [Handles -> Outcomes]
    BY DEF Outcomes
  <2>6. Receipt!Decide(Live, outcome)
    BY <2>1, <2>2, <2>3, <2>4 DEF Receipt!Decide
  <2> QED BY <2>2, <2>5, <2>6 DEF Receipt!Next
<1>8. CASE Delivering
  <2>1. Live' = Live /\ UNCHANGED <<submitter, verdict, cancelRequested>>
    BY <1>8 DEF Delivering, Publish, CrashPublish, PublishAt, Drain, StopPublish,
       registry, callers, Live
  <2>2. future' = future \/ \E h \in loopOwes \union stopOwes : Deliver(h)
    <3>1. CASE Publish \/ CrashPublish
      BY <1>0, <3>1 DEF Publish, CrashPublish, PublishAt, Goto, OwesInv
    <3>2. CASE Drain
      BY <3>2 DEF Drain
    <3>3. CASE StopPublish
      BY <3>3 DEF StopPublish
    <3> QED BY <1>8, <3>1, <3>2, <3>3 DEF Delivering
  <2>3. CASE future' = future
    BY <2>1, <2>3 DEF ReceiptVars
  <2>4. ASSUME NEW h \in loopOwes \union stopOwes, Deliver(h) PROVE Receipt!Next
    <3>1. h \in Handles /\ verdict[h] # Pending /\ future[h] = Pending
      BY <1>0, <2>4 DEF OwesInv, VerdictInv, TypeOK
    <3>2. Receipt!Deliver(h)
      BY <2>1, <2>4, <3>1 DEF Deliver, Receipt!Deliver
    <3> QED BY <3>1, <3>2 DEF Receipt!Next
  <2> QED BY <2>2, <2>3, <2>4
<1>9. CASE UNCHANGED <<registry, future, submitter>>
  BY <1>9 DEF registry, ReceiptVars, Live
<1> QED
  BY <1>1, <1>2, <1>3, <1>4, <1>5, <1>6, <1>7, <1>8, <1>9, StepKinds
     DEF Receipt!Next

\* Whatever threads do, a caller sees what TurnReceipt promises: one decision,
\* that an earlier cancellation wins, delivered once.
THEOREM ReceiptImplemented == Spec => ImplementsReceipt
<1>1. Init => Receipt!Init
  BY ConstantsAssumption DEF ConstantsAssumption, Init, Receipt!Init, Live
<1>2. IInv /\ [Next]_vars => [Receipt!Next]_(Receipt!vars)
  BY ReceiptStep DEF ReceiptVars, Receipt!vars
<1> QED BY <1>1, <1>2, Invariance, PTL DEF Spec, ImplementsReceipt, Receipt!Spec

-----------------------------------------------------------------------------
(* No handle is lost between submission and settlement.                    *)

\* Messages are set aside only while a text message is being merged.
HeldInv ==
  held # <<>> =>
    \/ msg = Request /\ pc \in {"merge", "putback"}
    \/ pc \in {"crashed", "crashSettle", "crashPublish", "finally"}

\* What a queue holds is its head or in its tail, and an append keeps it.
LEMMA QueuedStays ==
  ASSUME NEW q \in Seq(Messages), NEW h, InQueue(q, h)
  PROVE  /\ q # <<>>
         /\ h = Head(q) \/ InQueue(Tail(q), h)
         /\ \A m \in Messages : InQueue(Append(q, m), h)
<1>1. PICK i \in DOMAIN q : q[i] = h
  BY DEF InQueue
<1>2. Len(q) \in Nat /\ DOMAIN q = 1..Len(q) /\ i \in 1..Len(q)
  BY <1>1, LenProperties
<1>3. q # <<>>
  BY <1>2, EmptySeq
<1>4. h = Head(q) \/ InQueue(Tail(q), h)
  <2>1. /\ Tail(q) \in Seq(Messages) /\ Len(Tail(q)) = Len(q) - 1
        /\ \A j \in 1..Len(Tail(q)) : Tail(q)[j] = q[j + 1]
    BY <1>3, HeadTailProperties
  <2>2. DOMAIN Tail(q) = 1..Len(Tail(q))
    BY <2>1, LenProperties
  <2>3. CASE i = 1
    BY <1>1, <2>3
  <2>4. CASE i # 1
    <3>1. i - 1 \in DOMAIN Tail(q) /\ Tail(q)[i - 1] = h
      BY <1>1, <1>2, <2>1, <2>2, <2>4
    <3> QED BY <3>1 DEF InQueue
  <2> QED BY <2>3, <2>4
<1>5. ASSUME NEW m \in Messages PROVE InQueue(Append(q, m), h)
  <2>1. /\ Append(q, m) \in Seq(Messages) /\ Len(Append(q, m)) = Len(q) + 1
        /\ \A j \in 1..Len(q) : Append(q, m)[j] = q[j]
    BY AppendProperties
  <2>2. DOMAIN Append(q, m) = 1..(Len(q) + 1)
    BY <2>1, LenProperties
  <2>3. i \in DOMAIN Append(q, m) /\ Append(q, m)[i] = h
    BY <1>1, <1>2, <2>1, <2>2
  <2> QED BY <2>3 DEF InQueue
<1> QED BY <1>3, <1>4, <1>5

\* What is appended is queued.
LEMMA Queued ==
  ASSUME NEW q \in Seq(Messages), NEW m \in Messages
  PROVE  InQueue(Append(q, m), m)
<1>1. /\ Append(q, m) \in Seq(Messages) /\ Len(Append(q, m)) = Len(q) + 1
      /\ Append(q, m)[Len(q) + 1] = m
  BY AppendProperties
<1>2. Len(q) \in Nat /\ DOMAIN Append(q, m) = 1..(Len(q) + 1)
  BY <1>1, LenProperties
<1> QED BY <1>1, <1>2 DEF InQueue

\* What a merge sets aside is put back before the loop leaves the merge.
LEMMA HeldStep ==
  ASSUME TypeOK, HeldInv, TurnInv, [Next]_vars
  PROVE  HeldInv'
<1> USE DEF HeldInv
<1>1. CASE Others
  BY <1>1, OthersLeaveLoop DEF loopVars
<1>2. CASE Merge \/ Putback
  BY <1>2 DEF Merge, Putback
<1>3. CASE Finally
  BY <1>3 DEF Finally
<1>4. CASE Get
  <2>1. held = <<>> /\ held' = held
    BY <1>4 DEF Get
  <2> QED BY <2>1
<1>5. CASE /\ UNCHANGED <<held, msg>>
           /\ pc \in {"merge", "putback"} => pc' = "crashed"
           /\ pc \in {"crashed", "crashSettle", "crashPublish", "finally"}
                => pc' \in {"crashed", "crashSettle", "crashPublish", "finally"}
  BY <1>5
<1>6. LoopStep \/ Crash =>
        \/ Merge \/ Putback \/ Finally \/ Get
        \/ /\ UNCHANGED <<held, msg>>
           /\ pc \in {"merge", "putback"} => pc' = "crashed"
           /\ pc \in {"crashed", "crashSettle", "crashPublish", "finally"}
                => pc' \in {"crashed", "crashSettle", "crashPublish", "finally"}
  BY DEF LoopStep, Crash, LoopOnly, Goto, Poll, Recheck, Clear, Begin, Latch,
     Readmit, Work, Dispatch, Provider, PostTurn, ObserveLatch, Settle, Publish,
     SettleAt, PublishAt, Crashed, CrashSettle, CrashPublish, Drain
<1> QED BY <1>1, <1>2, <1>3, <1>4, <1>5, <1>6, NextSplit

\* A handle that is live and given out was so before, or is enqueued just now.
LEMMA NewlyGiven ==
  ASSUME TypeOK, TurnInv, [Next]_vars, NEW h \in Handles, h \in Live',
         submitter'[h] = "accepted"
  PROVE  \/ h \in Live /\ submitter[h] = "accepted"
         \/ inbox' = Append(inbox, h)
<1> USE ConstantsAssumption DEF ConstantsAssumption, TypeOK, Live
<1>1. ASSUME NEW g \in Handles, Register(g) \/ Withdraw(g)
      PROVE  h \in Live /\ submitter[h] = "accepted"
  <2>1. submitter[h] = "accepted" /\ claimed' = claimed
    BY <1>1 DEF Register, Withdraw
  <2>2. h # g \/ submitter'[g] # "accepted"
    BY <1>1 DEF Register, Withdraw
  <2>3. controls'[IdOf[h]] = h => controls[IdOf[h]] = h
    BY <1>1, <2>2 DEF Register, Withdraw, Unregister
  <2> QED BY <2>1, <2>3
<1>2. ASSUME NEW g \in Handles, SubmitCheck(g) \/ Enqueue(g)
      PROVE  \/ h \in Live /\ submitter[h] = "accepted"
             \/ inbox' = Append(inbox, h)
  BY <1>2 DEF SubmitCheck, Enqueue, registry
<1>3. CASE Settling
  BY <1>3 DEF Settling, SettleAt, Claim, registry, callers, TurnInv, TurnOK
<1>4. CASE Finally \/ StopClaim
  BY <1>4 DEF Finally, StopClaim, ClaimAll
<1>5. CASE UNCHANGED <<controls, claimed, submitter>>
  BY <1>5
<1>6. (\E id \in Ids : Cancelling(id)) \/ Begin \/ Delivering
        \/ UNCHANGED <<registry, future, submitter>>
      => UNCHANGED <<controls, claimed, submitter>>
  BY DEF Cancelling, Begin, Delivering, Publish, CrashPublish, PublishAt, Drain,
     StopPublish, registry, callers
<1> QED BY <1>1, <1>2, <1>3, <1>4, <1>5, <1>6, StepKinds

\* A live, accepted handle stays on its way.
LEMMA OrphanStep ==
  ASSUME TypeOK, TurnInv, HeldInv, NoOrphanedHandle, [Next]_vars
  PROVE  NoOrphanedHandle'
<1> USE ConstantsAssumption DEF ConstantsAssumption
<1> SUFFICES ASSUME NEW h \in Handles, h \in Live', submitter'[h] = "accepted"
             PROVE  OnItsWay(h)'
  BY DEF NoOrphanedHandle, Live
<1>0. /\ inbox \in Seq(Messages) /\ held \in Seq(Messages) /\ h \in Messages
      /\ Request \in Messages /\ Wake \in Messages /\ h # Request /\ h # None
  BY DEF TypeOK, Messages
<1>1. CASE inbox' = Append(inbox, h)
  BY <1>0, <1>1, Queued DEF OnItsWay, InQueue
<1>2. CASE h \in Live /\ submitter[h] = "accepted"
  <2>1. OnItsWay(h)
    BY <1>2 DEF NoOrphanedHandle
  <2>2. ASSUME InQueue(inbox', h) PROVE OnItsWay(h)'
    BY <2>2 DEF OnItsWay, InQueue
  <2>3. CASE pc' \in {"crashed", "crashSettle", "crashPublish", "finally"}
    BY <2>3 DEF OnItsWay
  <2>4. CASE Others
    <3>1. UNCHANGED <<held, msg, pc, turn>>
      BY <2>4, OthersLeaveLoop DEF loopVars
    <3>2. \/ inbox' = inbox
          \/ \E m \in Messages : inbox' = Append(inbox, m)
      BY <2>4 DEF Others, SubmitStep, SubmitCheck, Register, Enqueue, Withdraw,
         HandleCancelRead, HandleCancelCall, CancelById, PlainSend, Interrupt,
         RaiseShutdown, StopBegin, StopStep, StopClaim, StopLatch, StopPublish,
         StopWake, StopJoin, StopOnly, vars, Messages
    <3>3. InQueue(inbox, h) => InQueue(inbox', h)
      BY <1>0, <3>2, QueuedStays
    <3>4. CASE InQueue(inbox, h)
      BY <2>2, <3>3, <3>4
    <3>5. CASE ~InQueue(inbox, h)
      BY <2>1, <3>1, <3>5 DEF OnItsWay, InQueue
    <3> QED BY <3>4, <3>5
  <2>5. CASE Get
    <3>1. CASE InQueue(inbox, h)
      <4>1. inbox # <<>> /\ (h = Head(inbox) \/ InQueue(Tail(inbox), h))
        BY <1>0, <3>1, QueuedStays
      <4>2. inbox' = Tail(inbox) /\ msg' = Head(inbox) /\ pc' = "recheck"
        BY <2>5, <4>1 DEF Get
      <4>3. CASE InQueue(Tail(inbox), h)
        BY <2>2, <4>2, <4>3
      <4>4. CASE h = Head(inbox)
        BY <4>2, <4>4 DEF OnItsWay
      <4> QED BY <4>1, <4>3, <4>4
    <3>2. CASE ~InQueue(inbox, h)
      BY <2>1, <2>5, <3>2 DEF Get, OnItsWay, InTurn
    <3> QED BY <3>1, <3>2
  <2>6. CASE Merge
    <3>1. CASE msg # Request
      <4>1. pc' = "begin" /\ UNCHANGED <<inbox, held, msg, turn>> /\ held = <<>>
        BY <2>6, <3>1 DEF Merge, HeldInv
      <4>2. pc = "merge" /\ ~InQueue(held, h)
        BY <1>0, <2>6, <4>1, QueuedStays DEF Merge
      <4> QED BY <2>1, <4>1, <4>2 DEF OnItsWay, InQueue, InTurn
    <3>2. CASE msg = Request /\ inbox = <<>>
      <4>1. pc' = "putback" /\ UNCHANGED <<inbox, held, msg, turn>> /\ pc = "merge"
        BY <2>6, <3>2 DEF Merge
      <4> QED BY <1>0, <2>1, <3>2, <4>1 DEF OnItsWay, InQueue, InTurn
    <3>3. CASE msg = Request /\ inbox # <<>>
      <4>1. /\ pc = "merge" /\ pc' = "merge" /\ inbox' = Tail(inbox)
            /\ Head(inbox) \in Messages
            /\ held' = IF Head(inbox) # Request THEN Append(held, Head(inbox)) ELSE held
        BY <1>0, <2>6, <3>3, QueueTail DEF Merge, SetAside
      <4>2. CASE InQueue(Tail(inbox), h)
        BY <2>2, <4>1, <4>2
      <4>3. CASE h = Head(inbox)
        <5>1. InQueue(held', h)
          BY <1>0, <4>1, <4>3, Queued
        <5> QED BY <4>1, <5>1 DEF OnItsWay, InQueue
      <4>4. CASE InQueue(held, h)
        <5>1. InQueue(held', h)
          BY <1>0, <4>1, <4>4, QueuedStays
        <5> QED BY <4>1, <5>1 DEF OnItsWay, InQueue
      <4>5. InQueue(inbox, h) \/ InQueue(held, h)
        BY <1>0, <2>1, <3>3, <4>1 DEF OnItsWay, InTurn
      <4> QED BY <1>0, <4>2, <4>3, <4>4, <4>5, QueuedStays
    <3> QED BY <3>1, <3>2, <3>3
  <2>7. CASE Putback
    <3>0. InQueue(inbox, h) \/ InQueue(held, h)
      BY <2>1, <2>7 DEF Putback, OnItsWay, InTurn
    <3>1. CASE held = <<>>
      <4>1. inbox' = inbox /\ InQueue(inbox, h)
        BY <1>0, <2>7, <3>0, <3>1, QueuedStays DEF Putback
      <4> QED BY <2>2, <4>1
    <3>2. CASE held # <<>>
      <4>1. /\ pc' = "putback" /\ inbox' = Append(inbox, Head(held))
            /\ held' = Tail(held) /\ Head(held) \in Messages
        BY <1>0, <2>7, <3>2, QueueTail DEF Putback
      <4>2. CASE InQueue(Tail(held), h)
        BY <4>1, <4>2 DEF OnItsWay, InQueue
      <4>3. CASE h = Head(held)
        BY <1>0, <2>2, <4>1, <4>3, Queued
      <4>4. CASE InQueue(inbox, h)
        BY <1>0, <2>2, <4>1, <4>4, QueuedStays
      <4> QED BY <1>0, <3>0, <4>2, <4>3, <4>4, QueuedStays
    <3> QED BY <3>1, <3>2
  <2>8. CASE Begin
    <3>1. pc = "begin" /\ turn = None /\ UNCHANGED <<inbox, held, msg>>
      BY <2>8 DEF Begin, TurnInv
    <3>2. CASE msg = h
      <4>1. Binds(h)
        BY <1>2 DEF Live, Binds
      <4> QED BY <2>8, <3>2, <4>1 DEF Begin, OnItsWay, InTurn
    <3>3. CASE msg # h
      BY <1>0, <2>1, <2>2, <3>1, <3>3 DEF OnItsWay
    <3> QED BY <3>2, <3>3
  <2>9. CASE Settling \/ Publish
    <3>1. /\ pc \in {"settle", "publish", "crashSettle"}
          /\ UNCHANGED <<inbox, held, msg>>
      BY <2>9 DEF Settling, SettleAt, Publish, PublishAt, Goto
    <3>2. CASE Settling
      <4>1. claimed'[turn] /\ turn \in Handles
        BY <2>9, <3>2 DEF Settling, SettleAt, Claims, Claim, TypeOK, TurnInv,
           TurnOK, registry
      <4>2. turn # h
        BY <4>1 DEF Live
      <4> QED BY <2>1, <2>2, <2>3, <2>9, <3>1, <4>2, <3>2 DEF Settling, SettleAt,
                 OnItsWay
    <3>3. CASE Publish
      BY <2>1, <2>2, <3>3 DEF Publish, PublishAt, Goto, OnItsWay, InTurn
    <3> QED BY <2>9, <3>2, <3>3
  <2>10. CASE Finally
    <3>1. Live' = {}
      BY <2>10 DEF Finally, ClaimAll, Live
    <3> QED BY <3>1
  <2>11. CASE /\ UNCHANGED <<inbox, held, msg, turn>>
              /\ pc' \notin {"crashed", "crashSettle", "crashPublish", "finally"}
              /\ pc \notin {"merge", "putback", "crashed", "crashSettle",
                           "crashPublish", "finally"}
              /\ pc \in {"recheck", "clear", "begin"}
                   => pc' \in {"recheck", "clear", "merge", "begin"}
              /\ pc \in InTurn /\ turn \in Handles => pc' \in InTurn
    BY <2>1, <2>11 DEF OnItsWay, InQueue
  <2>12. LoopStep \/ Crash =>
           \/ Get \/ Merge \/ Putback \/ Begin \/ Settling \/ Publish \/ Finally
           \/ pc' \in {"crashed", "crashSettle", "crashPublish", "finally"}
           \/ Drain
           \/ /\ UNCHANGED <<inbox, held, msg, turn>>
              /\ pc' \notin {"crashed", "crashSettle", "crashPublish", "finally"}
              /\ pc \notin {"merge", "putback", "crashed", "crashSettle",
                           "crashPublish", "finally"}
              /\ pc \in {"recheck", "clear", "begin"}
                   => pc' \in {"recheck", "clear", "merge", "begin"}
              /\ pc \in InTurn /\ turn \in Handles => pc' \in InTurn
    BY DEF LoopStep, Crash, LoopOnly, Goto, Poll, Recheck, Clear, Latch, Readmit,
       Work, Dispatch, Provider, PostTurn, ObserveLatch, Settle, Crashed,
       CrashSettle, CrashPublish, PublishAt, Settling, InTurn
  <2>13. CASE Drain
    BY <2>1, <2>2, <2>13 DEF Drain, OnItsWay, InTurn
  <2> QED
    BY <2>3, <2>4, <2>5, <2>6, <2>7, <2>8, <2>9, <2>10, <2>11, <2>12, <2>13,
       NextSplit
<1> QED BY <1>1, <1>2, NewlyGiven

\* No handle is lost: neither a merge, a retry nor a race leaves one behind.
THEOREM NothingOrphaned == Spec => []NoOrphanedHandle
<1>1. Init => HeldInv /\ NoOrphanedHandle
  BY ConstantsAssumption
     DEF ConstantsAssumption, Init, HeldInv, NoOrphanedHandle, Live
<1>2. IInv /\ HeldInv /\ NoOrphanedHandle /\ [Next]_vars
        => HeldInv' /\ NoOrphanedHandle'
  BY HeldStep, OrphanStep DEF IInv
<1> QED BY <1>1, <1>2, Invariance, PTL DEF Spec
=============================================================================

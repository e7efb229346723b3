--------------------------- MODULE CorrelatedTurns ---------------------------
(***************************************************************************)
(* The correlated inbound-turn boundary of one agent process: the registry *)
(* of live turn controls (kernel/turns.py), the run loop that dequeues and *)
(* settles them (kernel/base_agent/turn.py) and Agent.stop                 *)
(* (kernel/base_agent/lifecycle.py).                                       *)
(*                                                                         *)
(* Threads: one submitter per handle, any number of cancellers, the run    *)
(* loop, and the thread that stops the agent.  A section of the code that  *)
(* holds _turn_controls_lock is one action; everything outside the lock    *)
(* interleaves.  The ASLEEP and the awake branch of the loop do the same   *)
(* to these variables and are one path here.                               *)
(***************************************************************************)
EXTENDS Naturals, Sequences, FiniteSets

CONSTANTS
  Handles,      \* turn controls, one per call of submit_turn
  Ids,          \* correlation ids
  IdOf,         \* the id each call of submit_turn asks for; ids may repeat
  None,         \* Python's None
  Request,      \* a fire-and-forget text message (MSG_REQUEST)
  Wake,         \* MSG_TC_WAKE: a notification wake, or the sentinel of stop
  MaxPlain,     \* bound: Request and Wake messages other parts enqueue
  MaxAttempts,  \* bound: resends of one turn by the retry branches
  MaxStops,     \* bound: calls of Agent.stop
  MayCrash      \* may an exception escape the run loop outside the retry try?

ASSUME ConstantsAssumption ==
  /\ IdOf \in [Handles -> Ids]
  /\ None \notin Handles
  /\ Request \notin Handles
  /\ Wake \notin Handles
  /\ None \notin {Request, Wake}
  /\ Request # Wake
  /\ MaxPlain \in Nat /\ MaxAttempts \in Nat /\ MaxStops \in Nat
  /\ MayCrash \in BOOLEAN

Normal    == "normal"
Cancelled == "cancelled"
Failed    == "failed"
Outcomes  == {Normal, Cancelled, Failed}
Pending   == "pending"      \* a Future without a result

Messages  == Handles \union {Request, Wake}

VARIABLES
  \* kernel/turns.py: the registry and the fields of each _TurnControl
  controls,         \* _turn_controls: the live control of each id, or None
  current,          \* _current_turn_control
  claimed,          \* settlement_claimed
  verdict,          \* the TurnResult the claim decided on
  cancelRequested,  \* cancel_requested
  callback,         \* cancel_callback is not None
  future,           \* the outcome the Future was given, or Pending
  \* BaseAgent: the two events and the inbox queue
  shutdown, cancelEvent, inbox,
  \* the submitters and the callers inside TurnHandle.cancel
  submitter, asking, plainSent,
  \* the run loop: where it is, and its locals
  pc, msg, held, turn, candidate, cooperative, attempts, loopOwes,
  \* the thread inside Agent.stop
  stopPc, stopOwes, stops,
  \* history: whose cancellation set the latch since it was last cleared; the
  \* handles cancelled or claimed before they were bound; the handles whose
  \* turn reached the provider
  latchedBy, barred, dispatched

registry  == <<controls, current, claimed, verdict, cancelRequested, callback>>
loopVars  == <<pc, msg, held, turn, candidate, cooperative, attempts, loopOwes>>
stopVars  == <<stopPc, stopOwes, stops>>
callers   == <<submitter, asking, plainSent>>
latch     == <<cancelEvent, latchedBy>>
history   == <<barred, dispatched>>
vars      == <<registry, future, shutdown, latch, inbox, callers, loopVars,
               stopVars, history>>

SubmitterStates == {"new", "checked", "registered", "withdrawing", "accepted",
                    "rejected"}
LoopStates == {"poll", "get", "recheck", "clear", "merge", "putback", "begin",
               "latch", "bind", "work", "call", "provider", "post",
               "observe", "settle", "publish", "crashed", "crashSettle",
               "crashPublish", "finally", "drain", "dead"}
StopStates == {"idle", "claim", "latch", "publish", "wake", "join", "stopped"}

\* The controls the registry holds and nobody has claimed.
Live == {h \in Handles : controls[IdOf[h]] = h /\ ~claimed[h]}

\* Where the loop works on the message it dequeued: from the bind to the claim.
InTurn == {"begin", "latch", "bind", "work", "call", "provider",
           "post", "observe", "settle"}

Init ==
  /\ controls = [id \in Ids |-> None]
  /\ current = None
  /\ claimed = [h \in Handles |-> FALSE]
  /\ verdict = [h \in Handles |-> Pending]
  /\ cancelRequested = [h \in Handles |-> FALSE]
  /\ callback = [h \in Handles |-> FALSE]
  /\ future = [h \in Handles |-> Pending]
  /\ shutdown = FALSE /\ cancelEvent = FALSE /\ inbox = <<>>
  /\ submitter = [h \in Handles |-> "new"]
  /\ asking = [h \in Handles |-> FALSE]
  /\ plainSent = 0
  /\ pc = "poll" /\ msg = None /\ held = <<>> /\ turn = None
  /\ candidate = Failed /\ cooperative = FALSE /\ attempts = 0
  /\ loopOwes = {}
  /\ stopPc = "idle" /\ stopOwes = {} /\ stops = 0
  /\ latchedBy = {} /\ barred = {} /\ dispatched = {}

-----------------------------------------------------------------------------
(* submit_turn: each call runs on a thread of its own.                     *)

\* The unlocked check of _shutdown, then admit_turn_origin, whose policy is
\* outside the kernel and may say either.
SubmitCheck(h) ==
  /\ submitter[h] = "new"
  /\ \E admitted \in BOOLEAN :
       submitter' = [submitter EXCEPT ![h] =
                       IF ~shutdown /\ admitted THEN "checked" ELSE "rejected"]
  /\ UNCHANGED <<registry, future, shutdown, latch, inbox, asking, plainSent,
                 loopVars, stopVars, history>>

\* Under the lock: _shutdown is checked again, a live id is refused.
MayRegisterUnchecked(h) == controls[IdOf[h]] = None
MayRegister(h) == ~shutdown /\ controls[IdOf[h]] = None

Register(h) ==
  /\ submitter[h] = "checked"
  /\ IF MayRegister(h)
       THEN /\ submitter' = [submitter EXCEPT ![h] = "registered"]
            /\ controls' = [controls EXCEPT ![IdOf[h]] = h]
            /\ callback' = [callback EXCEPT ![h] = TRUE]
       ELSE /\ submitter' = [submitter EXCEPT ![h] = "rejected"]
            /\ UNCHANGED <<controls, callback>>
  /\ UNCHANGED <<current, claimed, verdict, cancelRequested, future, shutdown,
                 latch, inbox, asking, plainSent, loopVars, stopVars, history>>

\* inbox.put is the acceptance boundary; it may raise, and the nap wake that
\* follows cannot undo it.
Enqueue(h) ==
  /\ submitter[h] = "registered"
  /\ \/ /\ inbox' = Append(inbox, h)
        /\ submitter' = [submitter EXCEPT ![h] = "accepted"]
     \/ /\ submitter' = [submitter EXCEPT ![h] = "withdrawing"]
        /\ inbox' = inbox
  /\ UNCHANGED <<registry, future, shutdown, latch, asking, plainSent,
                 loopVars, stopVars, history>>

\* Drop the control only if it is still the one registered under its id: stop
\* may have claimed it in the meantime.
UnregisterById(h) == controls' = [controls EXCEPT ![IdOf[h]] = None]
Unregister(h) ==
  controls' = [controls EXCEPT ![IdOf[h]] = IF @ = h THEN None ELSE @]

\* The except branch of submit_turn: unregister and clear the callback under
\* the lock, then raise.
Withdraw(h) ==
  /\ submitter[h] = "withdrawing"
  /\ submitter' = [submitter EXCEPT ![h] = "rejected"]
  /\ Unregister(h)
  /\ callback' = [callback EXCEPT ![h] = FALSE]
  /\ UNCHANGED <<current, claimed, verdict, cancelRequested, future, shutdown,
                 latch, inbox, asking, plainSent, loopVars, stopVars, history>>

SubmitStep(h) == SubmitCheck(h) \/ Register(h) \/ Enqueue(h) \/ Withdraw(h)

\* Mail, the notification sync and others put messages without a control.
PlainSend ==
  /\ plainSent < MaxPlain
  /\ plainSent' = plainSent + 1
  /\ \E m \in {Request, Wake} : inbox' = Append(inbox, m)
  /\ UNCHANGED <<registry, future, shutdown, latch, submitter, asking,
                 loopVars, stopVars, history>>

-----------------------------------------------------------------------------
(* Cancellation.                                                           *)

\* Only the current turn's cancellation may touch the process-wide latch.
AlwaysLatches(h) == TRUE
Latches(h) == current = h

\* cancel_turn, entirely under the lock: mark the live control of this id, and
\* set the process-wide latch only when that control is the current turn.
CancelTurn(id) ==
  LET h == controls[id] IN
  IF h # None /\ ~claimed[h]
    THEN /\ cancelRequested' = [cancelRequested EXCEPT ![h] = TRUE]
         /\ IF Latches(h)
              THEN /\ cancelEvent' = TRUE
                   /\ latchedBy' = latchedBy \union {h}
              ELSE UNCHANGED latch
         /\ barred' = IF current = h THEN barred ELSE barred \union {h}
    ELSE UNCHANGED <<cancelRequested, latch, barred>>

\* BaseAgent.cancel_turn(correlation_id), by anyone who knows the id.
CancelById(id) ==
  /\ CancelTurn(id)
  /\ UNCHANGED <<controls, current, claimed, verdict, callback, future,
                 shutdown, inbox, callers, loopVars, stopVars, dispatched>>

\* TurnHandle.cancel reads the callback without the lock ...
HandleCancelRead(h) ==
  /\ submitter[h] = "accepted" /\ callback[h] /\ ~asking[h]
  /\ asking' = [asking EXCEPT ![h] = TRUE]
  /\ UNCHANGED <<registry, future, shutdown, latch, inbox, submitter,
                 plainSent, loopVars, stopVars, history>>

\* ... and then calls it with the correlation id.
HandleCancelCall(h) ==
  /\ asking[h]
  /\ asking' = [asking EXCEPT ![h] = FALSE]
  /\ CancelTurn(IdOf[h])
  /\ UNCHANGED <<controls, current, claimed, verdict, callback, future,
                 shutdown, inbox, submitter, plainSent, loopVars, stopVars,
                 dispatched>>

\* .interrupt, or a direct _request_turn_cancel: the latch without a control.
Interrupt ==
  /\ ~cancelEvent
  /\ cancelEvent' = TRUE
  /\ UNCHANGED <<registry, future, shutdown, latchedBy, inbox, callers,
                 loopVars, stopVars, history>>

\* .suspend, a completed refresh and the CLI's signal handler raise _shutdown.
RaiseShutdown ==
  /\ ~shutdown
  /\ shutdown' = TRUE
  /\ UNCHANGED <<registry, future, latch, inbox, callers, loopVars, stopVars,
                 history>>

-----------------------------------------------------------------------------
(* Settlement: the two claims and the delivery of what they decided.       *)

\* A cancellation linearized before the claim wins over the candidate.
VerdictIgnoringRequest(h, outcome, coop) == IF coop THEN Cancelled ELSE outcome
Verdict(h, outcome, coop) ==
  IF cancelRequested[h] \/ coop THEN Cancelled ELSE outcome

\* settle_turn, the section under the lock, when the claim succeeds.
Claim(h, outcome, coop) ==
  /\ claimed' = [claimed EXCEPT ![h] = TRUE]
  /\ callback' = [callback EXCEPT ![h] = FALSE]
  /\ verdict' = [verdict EXCEPT ![h] = Verdict(h, outcome, coop)]
  /\ controls' = [controls EXCEPT ![IdOf[h]] = IF @ = h THEN None ELSE @]
  /\ current' = IF current = h THEN None ELSE current
  /\ UNCHANGED cancelRequested

\* cancel_all_turns, the section under the lock.
ClaimAll ==
  /\ cancelRequested' = [h \in Handles |-> cancelRequested[h] \/ h \in Live]
  /\ claimed' = [h \in Handles |-> claimed[h] \/ h \in Live]
  /\ callback' = [h \in Handles |-> callback[h] /\ h \notin Live]
  /\ verdict' = [h \in Handles |-> IF h \in Live THEN Cancelled ELSE verdict[h]]
  /\ controls' = [id \in Ids |-> None]
  /\ current' = None
  /\ barred' = barred \union (Live \ {current})
  /\ UNCHANGED dispatched

Deliver(h) == future' = [future EXCEPT ![h] = verdict[h]]

-----------------------------------------------------------------------------
(* The run loop (_run_loop and _run_loop_body).                            *)

\* A loop step that moves only the loop's own variables.
LoopOnly == UNCHANGED <<registry, future, shutdown, latch, inbox, callers,
                        stopVars, history>>

Goto(from, to) == pc = from /\ pc' = to

\* while not agent._shutdown.is_set()
Poll ==
  /\ Goto("poll", IF shutdown THEN "finally" ELSE "get")
  /\ LoopOnly
  /\ UNCHANGED <<msg, held, turn, candidate, cooperative, attempts, loopOwes>>

\* inbox.get(timeout=...): a message, or queue.Empty and another poll.
Get ==
  /\ pc = "get"
  /\ IF inbox = <<>>
       THEN pc' = "poll" /\ UNCHANGED <<inbox, msg>>
       ELSE pc' = "recheck" /\ msg' = Head(inbox) /\ inbox' = Tail(inbox)
  /\ UNCHANGED <<registry, future, shutdown, latch, callers, stopVars, history,
                 held, turn, candidate, cooperative, attempts, loopOwes>>

\* A stop that came while the loop waited consumes the message.
Recheck ==
  /\ Goto("recheck", IF shutdown THEN "finally" ELSE "clear")
  /\ LoopOnly
  /\ UNCHANGED <<msg, held, turn, candidate, cooperative, attempts, loopOwes>>

\* A fresh dequeue drops the latch an earlier turn left behind.
ClearLatch == cancelEvent' = FALSE /\ latchedBy' = {}

Clear ==
  /\ Goto("clear", "merge")
  /\ ClearLatch
  /\ UNCHANGED <<registry, future, shutdown, inbox, callers, stopVars, history,
                 msg, held, turn, candidate, cooperative, attempts, loopOwes>>

\* _concat_queued_messages drains the inbox, message by message, when a text
\* message leads: the other texts become part of msg, the rest is set aside ...
SetAsideNothing(m) == FALSE
SetAside(m) == m # Request

Merge ==
  /\ pc = "merge"
  /\ \/ /\ msg # Request
        /\ pc' = "begin" /\ UNCHANGED <<inbox, held>>
     \/ /\ msg = Request /\ inbox = <<>>
        /\ pc' = "putback" /\ UNCHANGED <<inbox, held>>
     \/ /\ msg = Request /\ inbox # <<>>
        /\ pc' = "merge" /\ inbox' = Tail(inbox)
        /\ held' = IF SetAside(Head(inbox)) THEN Append(held, Head(inbox))
                                            ELSE held
  /\ UNCHANGED <<registry, future, shutdown, latch, callers, stopVars, history,
                 msg, turn, candidate, cooperative, attempts, loopOwes>>

\* ... and put back one by one, behind whatever arrived in the meantime.
Putback ==
  /\ pc = "putback"
  /\ IF held = <<>>
       THEN pc' = "begin" /\ UNCHANGED <<inbox, held>>
       ELSE /\ pc' = "putback" /\ inbox' = Append(inbox, Head(held))
            /\ held' = Tail(held)
  /\ UNCHANGED <<registry, future, shutdown, latch, callers, stopVars, history,
                 msg, turn, candidate, cooperative, attempts, loopOwes>>

\* begin_turn binds a live envelope only.
Binds(h) == controls[IdOf[h]] = h /\ ~claimed[h]

Begin ==
  /\ pc = "begin"
  /\ attempts' = 0
  /\ \/ /\ msg \in Handles /\ Binds(msg)
        /\ current' = msg /\ turn' = msg
        /\ pc' = IF cancelRequested[msg] THEN "latch" ELSE "bind"
     \/ /\ msg \in Handles /\ ~Binds(msg)      \* a stale envelope is skipped
        /\ pc' = IF shutdown THEN "finally" ELSE "poll"
        /\ UNCHANGED <<current, turn>>
     \/ /\ msg \notin Handles
        /\ pc' = "work" /\ turn' = None /\ UNCHANGED current
  /\ UNCHANGED <<controls, claimed, verdict, cancelRequested, callback, future,
                 shutdown, latch, inbox, callers, stopVars, history, msg, held,
                 candidate, cooperative, loopOwes>>

\* A turn cancelled while it waited sets the latch after the lock is released.
Latch ==
  /\ Goto("latch", "bind")
  /\ cancelEvent' = TRUE /\ latchedBy' = latchedBy \union {turn}
  /\ UNCHANGED <<registry, future, shutdown, inbox, callers, stopVars, history,
                 msg, held, turn, candidate, cooperative, attempts, loopOwes>>

\* The origin is admitted a second time; a refusal settles FAILED without
\* looking at the latch.
Readmit ==
  /\ pc = "bind"
  /\ \/ pc' = "work" /\ UNCHANGED <<candidate, cooperative>>
     \/ pc' = "settle" /\ candidate' = Failed /\ cooperative' = FALSE
  /\ LoopOnly
  /\ UNCHANGED <<msg, held, turn, attempts, loopOwes>>

\* The head of the retry loop: a cancelled turn never reaches the provider.
NeverSkips == FALSE
SkipsProvider == turn # None /\ cancelRequested[turn]

Work ==
  /\ pc = "work"
  /\ IF SkipsProvider
       THEN pc' = "post" /\ candidate' = Normal
       ELSE pc' = "call" /\ UNCHANGED candidate
  /\ LoopOnly
  /\ UNCHANGED <<msg, held, turn, cooperative, attempts, loopOwes>>

Dispatch ==
  /\ Goto("call", "provider")
  /\ dispatched' = IF turn = None THEN dispatched ELSE dispatched \union {turn}
  /\ UNCHANGED <<registry, future, shutdown, latch, inbox, callers, stopVars,
                 barred, msg, held, turn, candidate, cooperative, attempts,
                 loopOwes>>

\* The retry branches have budgets; MaxAttempts stands for all of them.
MayResend == attempts < MaxAttempts

\* _handle_message returns a result, fails for good, or fails and is resent.
Provider ==
  /\ pc = "provider"
  /\ \/ pc' = "post" /\ candidate' \in {Normal, Failed} /\ UNCHANGED attempts
     \/ /\ MayResend
        /\ pc' = "work" /\ attempts' = attempts + 1 /\ UNCHANGED candidate
  /\ LoopOnly
  /\ UNCHANGED <<msg, held, turn, cooperative, loopOwes>>

\* State, notification check and save; then a plain turn is over, a correlated
\* one reads the latch outside the lock.
PostTurn ==
  /\ Goto("post", IF turn = None THEN "poll" ELSE "observe")
  /\ LoopOnly
  /\ UNCHANGED <<msg, held, turn, candidate, cooperative, attempts, loopOwes>>

ObserveLatch ==
  /\ Goto("observe", "settle")
  /\ cooperative' = cancelEvent
  /\ LoopOnly
  /\ UNCHANGED <<msg, held, turn, candidate, attempts, loopOwes>>

\* settle_turn: nothing when stop claimed the control first.
AlwaysClaims(h) == TRUE
Claims(h) == ~claimed[h]

SettleAt(from, claimedTo, elseTo) ==
  /\ pc = from
  /\ IF Claims(turn)
       THEN /\ Claim(turn, candidate, cooperative)
            /\ pc' = claimedTo /\ loopOwes' = {turn} /\ UNCHANGED turn
       ELSE /\ pc' = elseTo /\ turn' = None
            /\ UNCHANGED <<registry, loopOwes>>
  /\ UNCHANGED <<future, shutdown, latch, inbox, callers, stopVars, history,
                 msg, held, candidate, cooperative, attempts>>

PublishAt(from, to) ==
  /\ Goto(from, to)
  /\ Deliver(turn)
  /\ turn' = None /\ loopOwes' = {}
  /\ UNCHANGED <<registry, shutdown, latch, inbox, callers, stopVars, history,
                 msg, held, candidate, cooperative, attempts>>

Settle  == SettleAt("settle", "publish", "poll")
Publish == PublishAt("publish", "poll")

\* An exception outside the retry loop's try, such as a failing manifest write
\* in _set_state: before the bind, between bind and work, or after the turn.
Crash ==
  /\ MayCrash
  /\ pc \in {"merge", "bind", "post"}
  /\ pc' = "crashed"
  /\ LoopOnly
  /\ UNCHANGED <<msg, held, turn, candidate, cooperative, attempts, loopOwes>>

\* The except clause settles the current control FAILED ...
Crashed ==
  /\ pc = "crashed"
  /\ turn' = current
  /\ pc' = IF current = None THEN "finally" ELSE "crashSettle"
  /\ candidate' = Failed /\ cooperative' = cancelEvent
  /\ LoopOnly
  /\ UNCHANGED <<msg, held, attempts, loopOwes>>

CrashSettle  == SettleAt("crashSettle", "crashPublish", "finally")
CrashPublish == PublishAt("crashPublish", "finally")

\* ... and the finally clause claims every control that is still live.  The
\* latch it may set afterwards is read by nobody: the loop is gone.
Finally ==
  /\ Goto("finally", "drain")
  /\ ClaimAll
  /\ loopOwes' = Live
  /\ turn' = None /\ msg' = None /\ held' = <<>>
  /\ UNCHANGED <<future, shutdown, latch, inbox, callers, stopVars, candidate,
                 cooperative, attempts>>

Drain ==
  /\ pc = "drain"
  /\ \/ /\ loopOwes = {} /\ pc' = "dead"
        /\ UNCHANGED <<future, loopOwes>>
     \/ \E h \in loopOwes :
          /\ Deliver(h) /\ loopOwes' = loopOwes \ {h} /\ pc' = pc
  /\ UNCHANGED <<registry, shutdown, latch, inbox, callers, stopVars, history,
                 msg, held, turn, candidate, cooperative, attempts>>

LoopStep ==
  \/ Poll \/ Get \/ Recheck \/ Clear \/ Merge \/ Putback \/ Begin \/ Latch
  \/ Readmit \/ Work \/ Dispatch \/ Provider \/ PostTurn \/ ObserveLatch
  \/ Settle \/ Publish \/ Crashed \/ CrashSettle \/ CrashPublish \/ Finally
  \/ Drain

-----------------------------------------------------------------------------
(* Agent.stop (_stop), which may time out and be called again.             *)

StopOnly == UNCHANGED <<future, inbox, callers, loopVars>>

StopBegin ==
  /\ stopPc = "idle" /\ stops < MaxStops
  /\ shutdown' = TRUE
  /\ stopPc' = "claim" /\ stops' = stops + 1
  /\ StopOnly /\ UNCHANGED <<registry, latch, history, stopOwes>>

StopClaim ==
  /\ stopPc = "claim"
  /\ ClaimAll
  /\ stopOwes' = Live
  /\ stopPc' = IF current \in Live THEN "latch" ELSE "publish"
  /\ StopOnly /\ UNCHANGED <<shutdown, latch, stops>>

\* had_current: the latch is set after the lock was released.
StopLatch ==
  /\ stopPc = "latch" /\ stopPc' = "publish"
  /\ cancelEvent' = TRUE
  /\ StopOnly
  /\ UNCHANGED <<registry, shutdown, latchedBy, history, stopOwes, stops>>

StopPublish ==
  /\ stopPc = "publish"
  /\ \/ /\ stopOwes = {} /\ stopPc' = "wake"
        /\ UNCHANGED <<future, stopOwes>>
     \/ \E h \in stopOwes :
          /\ Deliver(h) /\ stopOwes' = stopOwes \ {h} /\ stopPc' = stopPc
  /\ UNCHANGED <<registry, shutdown, latch, inbox, callers, loopVars, history,
                 stops>>

\* The sentinel that ends a blocking get.
StopWake ==
  /\ stopPc = "wake" /\ stopPc' = "join"
  /\ inbox' = Append(inbox, Wake)
  /\ UNCHANGED <<registry, future, shutdown, latch, callers, loopVars, history,
                 stopOwes, stops>>

\* thread.join(timeout): STOPPED only when the loop thread has ended,
\* otherwise TIMED_OUT and the owner may call stop again.
StopJoin ==
  /\ stopPc = "join"
  /\ stopPc' = IF pc = "dead" THEN "stopped" ELSE "idle"
  /\ StopOnly
  /\ UNCHANGED <<registry, shutdown, latch, history, stopOwes, stops>>

StopStep == StopClaim \/ StopLatch \/ StopPublish \/ StopWake \/ StopJoin

-----------------------------------------------------------------------------

\* Everything has come to rest: the loop ended and nobody is in a call.
Rest ==
  /\ pc = "dead" /\ stopPc \in {"idle", "stopped"}
  /\ UNCHANGED vars

Next ==
  \/ \E h \in Handles : SubmitStep(h) \/ HandleCancelRead(h) \/ HandleCancelCall(h)
  \/ \E id \in Ids : CancelById(id)
  \/ PlainSend \/ Interrupt \/ RaiseShutdown
  \/ LoopStep \/ Crash
  \/ StopBegin \/ StopStep
  \/ Rest

Spec == Init /\ [][Next]_vars

\* Threads are scheduled: a submitter past the lock, the run loop and a stop
\* that has begun keep going.  Nobody is forced to submit, cancel or stop.
Fairness ==
  /\ \A h \in Handles : WF_vars(Enqueue(h)) /\ WF_vars(Withdraw(h))
  /\ WF_vars(LoopStep)
  /\ WF_vars(StopStep)

FairSpec == Spec /\ Fairness
-----------------------------------------------------------------------------
(* Properties.                                                             *)

TypeOK ==
  /\ controls \in [Ids -> Handles \union {None}]
  /\ current \in Handles \union {None}
  /\ claimed \in [Handles -> BOOLEAN]
  /\ verdict \in [Handles -> Outcomes \union {Pending}]
  /\ cancelRequested \in [Handles -> BOOLEAN]
  /\ callback \in [Handles -> BOOLEAN]
  /\ future \in [Handles -> Outcomes \union {Pending}]
  /\ shutdown \in BOOLEAN /\ cancelEvent \in BOOLEAN
  /\ inbox \in Seq(Messages)
  /\ submitter \in [Handles -> SubmitterStates]
  /\ asking \in [Handles -> BOOLEAN]
  /\ plainSent \in 0..MaxPlain
  /\ pc \in LoopStates
  /\ msg \in Messages \union {None}
  /\ held \in Seq(Messages)
  /\ turn \in Handles \union {None}
  /\ candidate \in Outcomes /\ cooperative \in BOOLEAN
  /\ attempts \in 0..MaxAttempts
  /\ loopOwes \subseteq Handles
  /\ stopPc \in StopStates
  /\ stopOwes \subseteq Handles
  /\ stops \in 0..MaxStops
  /\ latchedBy \subseteq Handles
  /\ barred \subseteq Handles
  /\ dispatched \subseteq Handles

\* "Cancellation linearized before settlement wins": whatever the provider
\* produced, a handle whose cancel was accepted reads CANCELLED.
CancellationWins ==
  \A h \in Handles :
    cancelRequested[h] /\ future[h] # Pending => future[h] = Cancelled

\* "Cancelling a pending handle MUST NOT set the latch for the turn ahead", and
\* the delayed set the comment in cancel_turn fears: between the clear at the
\* dequeue and the settlement, no other handle's cancellation is in the latch.
NoCancelLeak ==
  pc \in InTurn \union {"merge", "putback"} => latchedBy \subseteq {turn}

\* A handle cancelled, or claimed by teardown, before its envelope was bound
\* never reaches the provider: "a terminal stale envelope never reaches
\* provider work".
PendingCancelNeverDispatched == barred \intersect dispatched = {}

InQueue(q, h) == \E i \in DOMAIN q : q[i] = h

\* A handle the caller holds and nobody has settled is still on its way: its
\* envelope is queued, set aside by a merge that is still running, or in the
\* loop's hands, or the loop is about to claim every live handle.
OnItsWay(h) ==
  \/ InQueue(inbox, h)
  \/ InQueue(held, h) /\ pc \in {"merge", "putback"}
  \/ msg = h /\ pc \in {"recheck", "clear", "merge", "begin"}
  \/ turn = h /\ pc \in InTurn
  \/ pc \in {"crashed", "crashSettle", "crashPublish", "finally"}

NoOrphanedHandle == \A h \in Live : submitter[h] = "accepted" => OnItsWay(h)

\* "Agent stop settles all live handles": once stop has reported STOPPED, every
\* handle ever given out has its result, also those whose submission raced the
\* shutdown, and no control is left behind.
StoppedMeansSettled ==
  stopPc = "stopped" =>
    /\ Live = {}
    /\ \A h \in Handles :
         submitter[h] \in {"registered", "accepted"} => future[h] # Pending

\* set_result raises in the thread that calls it a second time: whoever is on
\* the way to a Future finds it without a result, and is the only one.
SettledOnce ==
  /\ loopOwes \intersect stopOwes = {}
  /\ \A h \in loopOwes \union stopOwes : future[h] = Pending

\* "Run-loop exit and Agent stop settle all live handles so waiters cannot hang
\* across teardown": every handle given out while the loop thread has not passed
\* its last claim is settled.  Neither a wait in the inbox nor a
\* merge, a refused admission, a shutdown or an exception that ends
\* the loop leaves its waiter hanging.
AcceptedByLiveLoopSettles ==
  \A h \in Handles :
    submitter[h] = "accepted" /\ pc \notin {"drain", "dead"}
      ~> future[h] # Pending

\* The registry implements the promise of TurnHandle.
Receipt == INSTANCE TurnReceipt WITH
  live <- Live, given <- {h \in Handles : submitter[h] = "accepted"},
  wanted <- {h \in Handles : cancelRequested[h]}

ImplementsReceipt == Receipt!Spec
=============================================================================

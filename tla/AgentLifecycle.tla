---------------------------- MODULE AgentLifecycle ----------------------------
(***************************************************************************)
(* The life of one agent process and the delivery of its notifications:    *)
(* the run loop (kernel/base_agent/turn.py), the heartbeat thread          *)
(* (kernel/base_agent/lifecycle.py) and the notification sync both of them *)
(* call (kernel/base_agent/__init__.py, kernel/meta_block.py).             *)
(*                                                                         *)
(* What is on disk under .notification/ is one version number, 0 when no   *)
(* channel is present; the chat history is its tail and, for each version, *)
(* how far it got on its way to the model.  Correlated turns, worker hangs *)
(* (a poisoned interface) and the legacy tc_inbox are left out.            *)
(***************************************************************************)
EXTENDS Naturals, Sequences, FiniteSets

CONSTANTS
  MaxVersions,  \* bound: versions producers publish
  MaxRequests,  \* bound: text messages others send
  MaxRounds,    \* bound: tool batches in one turn (LoopGuard's fuse)
  MaxAttempts,  \* bound: retries of one turn after provider errors
  MaxResets,    \* bound: replays of a redacted pair
  Errors,       \* the ways a provider call may fail
  Sleeps,       \* who may put the agent to sleep, besides signals and errors
  Signals       \* the signal files that may appear, and "stop"

ErrorKinds  == {"retry", "partial", "limited", "terminal", "aed"}
SleepKinds  == {"self", "forced", "idleTimeout", "aedTimeout"}
SignalKinds == {"interrupt", "suspend", "sleep", "stop"}

ASSUME ConstantsAssumption ==
  /\ MaxVersions \in Nat /\ MaxRequests \in Nat
  /\ MaxRounds \in Nat /\ MaxAttempts \in Nat /\ MaxResets \in Nat
  /\ Errors \subseteq ErrorKinds
  /\ Sleeps \subseteq SleepKinds
  /\ Signals \subseteq SignalKinds

Versions == 1..MaxVersions
None     == "none"
Request  == "request"     \* MSG_REQUEST, any text message
Wake     == "wake"        \* MSG_TC_WAKE

VARIABLES
  \* BaseAgent: _state, the three events, the inbox queue
  state, asleep, cancel, shutdown, inbox,
  \* .notification/: the version present, and the last one published; the text
  \* messages sent
  disk, published, sent,
  \* _notification_fp, the tail of the ChatInterface, and whether the calls at
  \* the tail, answered or not, are those of a notification pair
  fp, wire, ofPair,
  \* history: how far each version got, how many pairs were injected for it,
  \* the versions that became due again because a pair came back redacted,
  \* whether a tool batch committed a version while the state said that no turn
  \* was running, and how many replays were redacted
  fate, pairs, again, stray, resets,
  \* the run loop: where it is, and its locals
  pc, msg, rounds, attempts, reply, read, rest, after,
  \* the heartbeat: where it is in its tick
  beat,
  \* inside _sync_notifications: which thread, where, and its locals
  syncBy, syncPc, seen, roused

notices  == <<disk, published, sent>>
events   == <<asleep, cancel, shutdown>>
renewal  == <<fp, pairs, again, resets>>
delivery == <<wire, ofPair, fate, stray, renewal>>
locals   == <<msg, rounds, attempts, reply, read, rest, after>>
sync     == <<syncBy, syncPc, seen, roused>>
vars     == <<state, events, inbox, notices, delivery, pc, locals, beat, sync>>

States == {"IDLE", "ACTIVE", "STUCK", "ASLEEP", "SUSPENDED"}

\* The tail of the history: calls nobody answered, results, the user text of a
\* request on top of results, or anything else.
Tails  == {"text", "calls", "results", "over"}

\* unseen: not on the wire.  dropped: its fingerprint was committed in a state
\* that cannot inject.  pointed: the degraded message names it.  shown: on the
\* wire in a pair.  stamped: on the wire in the results of a tool batch.  left:
\* an answer or the end of the turn came before a call carried it.  told: some
\* provider call carried it.
Fates  == {"unseen", "dropped", "pointed", "shown", "stamped", "left", "told"}

LoopStates ==
  {"top", "asleepGet", "woke", "wokeClear", "wokeActive", "wokeMerge", "get",
   "clear", "merge", "active", "handle", "sync", "send", "call", "response",
   "tools", "napState", "napSet", "napCancel", "stamp", "commit", "batch",
   "end", "stuck", "park", "post", "settle", "boundary", "ended"}
BeatStates ==
  {"tick", "suspendState", "suspendStop", "sleepState", "sleepSet", "idle",
   "idleState", "idleSet", "sync", "aed", "aedState", "aedSet"}
SyncStates ==
  {"out", "branch", "test", "rouse", "inject", "append", "heal", "reinject",
   "reappend", "wake", "commit", "pass"}

Init ==
  /\ \/ state = "ASLEEP" /\ asleep = TRUE      \* cli.py boots into ASLEEP
     \/ state = "IDLE" /\ asleep = FALSE
  /\ cancel = FALSE /\ shutdown = FALSE /\ inbox = <<>>
  /\ disk = 0 /\ published = 0 /\ sent = 0
  /\ fp = 0 /\ wire = "text" /\ ofPair = FALSE
  /\ fate = [v \in Versions |-> "unseen"]
  /\ pairs = [v \in Versions |-> 0]
  /\ again = {} /\ stray = FALSE /\ resets = 0
  /\ pc = "top" /\ msg = None /\ rounds = 0 /\ attempts = 0
  /\ reply = "text" /\ read = 0 /\ rest = "IDLE" /\ after = "top"
  /\ beat = "tick"
  /\ syncBy = None /\ syncPc = "out" /\ seen = 0 /\ roused = FALSE

-----------------------------------------------------------------------------
(* The world outside: producers and whoever sends a message.               *)

Outside == UNCHANGED <<state, delivery, pc, locals, beat, sync>>

Publish ==
  /\ published < MaxVersions
  /\ published' = published + 1 /\ disk' = published + 1
  /\ Outside /\ UNCHANGED <<events, inbox, sent>>

\* Dismissal by the agent's tool or by the producer.
Dismiss ==
  /\ disk # 0 /\ disk' = 0
  /\ Outside /\ UNCHANGED <<events, inbox, published, sent>>

SendRequest ==
  /\ sent < MaxRequests /\ sent' = sent + 1
  /\ inbox' = Append(inbox, Request)
  /\ Outside /\ UNCHANGED <<events, disk, published>>

\* Agent.stop and the CLI's signal handler.
Stop ==
  /\ "stop" \in Signals /\ ~shutdown
  /\ shutdown' = TRUE
  /\ Outside /\ UNCHANGED <<asleep, cancel, inbox, notices>>

-----------------------------------------------------------------------------
(* The chat history.                                                       *)

\* close_pending_tool_calls: the calls without results get what the event log
\* has of them, or a placeholder.
Healed(w) == IF w = "calls" THEN "results" ELSE w

ResetForgotten ==
  /\ fp' = fp
  /\ again' = again \union ({disk} \ {0})
  /\ pairs' = [v \in Versions |-> IF v = disk THEN 0 ELSE pairs[v]]
  /\ resets' = resets + 1

\* _recover_pending_tool_result: the logged result of a pair may be redacted.  A
\* replay of it tells the model less than the pair did, so the fingerprint is
\* reset, and the next sync injects what is up once more.
Reset ==
  /\ fp' = 0
  /\ again' = again \union ({disk} \ {0})
  /\ pairs' = [v \in Versions |-> IF v = disk THEN 0 ELSE pairs[v]]
  /\ resets' = resets + 1

Replay(w) ==
  \/ UNCHANGED renewal
  \/ w = "calls" /\ ofPair /\ resets < MaxResets /\ Reset

Heal(w) == wire' = Healed(w) /\ Replay(w)

\* Every version on the wire moves on when the loop does.
Advance(from, to) ==
  fate' = [v \in Versions |-> IF fate[v] \in from THEN to ELSE fate[v]]

\* What becomes of a version on the wire once more: what was told stays so,
\* unless it is due again.
Moved(v, to) == IF fate[v] = "told" /\ v \notin again THEN "told" ELSE to

-----------------------------------------------------------------------------
(* _sync_notifications, by thread t: "loop" or "beat".                     *)

Threads == {"loop", "beat"}

\* The call returns: the loop goes on where it was, the heartbeat to the check
\* that follows in its tick.
Return(t) ==
  IF t = "loop" THEN pc' = after /\ beat' = beat
                ELSE pc' = pc /\ beat' = "aed"

CallsSync(t) == IF t = "loop" THEN pc = "sync" ELSE beat = "sync"

LockIgnored == TRUE
LockFree == syncBy = None

\* Take _notification_sync_lock and observe the store.  Nothing new: return;
\* no channel left: commit that.
SyncEnter(t) ==
  /\ CallsSync(t) /\ LockFree
  /\ \/ /\ disk = fp
        /\ Return(t) /\ UNCHANGED <<fp, sync>>
     \/ /\ disk # fp /\ disk = 0
        /\ fp' = 0 /\ Return(t) /\ UNCHANGED sync
     \/ /\ disk # fp /\ disk # 0
        /\ syncBy' = t /\ syncPc' = "branch" /\ seen' = disk /\ roused' = FALSE
        /\ UNCHANGED <<fp, pc, beat>>
  /\ UNCHANGED <<state, events, inbox, notices, wire, ofPair, fate, pairs, again,
                 stray, resets, locals>>

\* A step of the thread inside that stays inside.
Within(from, to) == syncPc = from /\ syncPc' = to /\ UNCHANGED <<pc, beat>>

\* A step that leaves and releases the lock.
Leave(from) ==
  /\ syncPc = from
  /\ Return(syncBy)
  /\ syncBy' = None /\ syncPc' = "out" /\ seen' = 0 /\ roused' = FALSE

\* The branch on the agent state, which each arm reads anew: ASLEEP wakes up
\* first, IDLE injects, anything else defers.
SyncBranch ==
  /\ \/ state = "ASLEEP" /\ Within("branch", "rouse")
        /\ asleep' = FALSE /\ roused' = TRUE
     \/ state # "ASLEEP" /\ Within("branch", "test") /\ UNCHANGED <<asleep, roused>>
     \/ state = "IDLE" /\ Within("test", "inject") /\ UNCHANGED <<asleep, roused>>
     \/ state # "IDLE" /\ Within("test", "pass") /\ UNCHANGED <<asleep, roused>>
  /\ UNCHANGED <<state, cancel, shutdown, inbox, notices, delivery, locals,
                 syncBy, seen>>

SyncRouse ==
  /\ Within("rouse", "inject")
  /\ state' = "IDLE"
  /\ UNCHANGED <<events, inbox, notices, delivery, locals, syncBy, seen, roused>>

\* _inject_notification_pair looks at the tail ...
SyncInject ==
  /\ \/ Within("inject", IF wire = "calls" THEN "heal" ELSE "append")
     \/ wire # "calls" /\ Within("reinject", "reappend")
     \/ wire = "calls" /\ ~roused /\ Within("reinject", "pass")
  /\ UNCHANGED <<state, events, inbox, notices, delivery, locals, syncBy, seen,
                 roused>>

\* ... and appends the pair after it has built the payload.
SyncAppend ==
  /\ Within("append", "wake") \/ Within("reappend", "wake")
  /\ wire' = "results" /\ ofPair' = TRUE
  /\ fate' = [fate EXCEPT ![seen] = Moved(seen, "shown")]
  /\ pairs' = [pairs EXCEPT ![seen] = IF @ = 0 THEN 1 ELSE 2]
  /\ again' = again \ {seen}
  /\ UNCHANGED <<state, events, inbox, notices, fp, stray, resets, locals, syncBy,
                 seen, roused>>

SyncHeal ==
  /\ Within("heal", "reinject")
  /\ Heal(wire)
  /\ UNCHANGED <<state, events, inbox, notices, ofPair, fate, stray, locals,
                 syncBy, seen, roused>>

SyncWake ==
  /\ Within("wake", "commit")
  /\ inbox' = Append(inbox, Wake)
  /\ UNCHANGED <<state, events, notices, delivery, locals, syncBy, seen, roused>>

SyncCommit ==
  /\ Leave("commit")
  /\ fp' = seen /\ again' = again \ {seen}
  /\ UNCHANGED <<state, events, inbox, notices, wire, ofPair, fate, pairs, stray,
                 resets, locals>>

\* Woken, but the pair could not be spliced even after the heal: a text message
\* that points at the notification files takes its place.
SyncDegrade ==
  /\ roused /\ wire = "calls"
  /\ Leave("reinject")
  /\ inbox' = Append(inbox, Request)
  /\ fp' = seen /\ again' = again \ {seen}
  /\ fate' = [fate EXCEPT ![seen] = Moved(seen, "pointed")]
  /\ UNCHANGED <<state, events, notices, wire, ofPair, pairs, stray, resets,
                 locals>>

\* Not injected: only a state that cannot inject commits what was seen.
CommitsAnyway == state # "IDLE"
CommitsUninjected == state \in {"STUCK", "SUSPENDED"}

SyncPass ==
  /\ Leave("pass")
  /\ IF CommitsUninjected
       THEN /\ fp' = seen /\ again' = again \ {seen}
            /\ fate' = [fate EXCEPT
                          ![seen] = IF /\ state \in {"STUCK", "SUSPENDED"}
                                       /\ @ = "unseen" \/ seen \in again
                                      THEN "dropped" ELSE @]
       ELSE UNCHANGED <<fp, again, fate>>
  /\ UNCHANGED <<state, events, inbox, notices, wire, ofPair, pairs, stray, resets,
                 locals>>

SyncStep(t) ==
  \/ SyncEnter(t)
  \/ /\ syncBy = t
     /\ \/ SyncBranch \/ SyncRouse \/ SyncInject \/ SyncAppend \/ SyncHeal
        \/ SyncWake \/ SyncCommit \/ SyncDegrade \/ SyncPass

-----------------------------------------------------------------------------
(* The run loop between turns.                                             *)

Goto(from, to) == pc = from /\ pc' = to

\* What a loop step leaves alone unless it says otherwise.
LoopFrame == UNCHANGED <<notices, beat, sync>>
Quiet == UNCHANGED <<state, events, inbox, delivery>>

\* The head of the loop: on the way to sleep dangling calls are closed, so that
\* a later notification finds a history it can append to.
SleepUnhealed == UNCHANGED <<wire, renewal>>
SleepHealed == Heal(wire)

Top ==
  /\ Goto("top", IF shutdown THEN "ended" ELSE IF asleep THEN "asleepGet"
                                                         ELSE "get")
  /\ IF asleep /\ ~shutdown THEN SleepHealed
                            ELSE UNCHANGED <<wire, renewal>>
  /\ LoopFrame
  /\ UNCHANGED <<state, events, inbox, ofPair, fate, stray, locals>>

\* Either inbox.get: asleep it blocks, awake it times out and looks at _asleep
\* again.  A stop that came meanwhile consumes the message.
Take(next) ==
  /\ inbox # <<>>
  /\ msg' = Head(inbox) /\ inbox' = Tail(inbox)
  /\ pc' = IF shutdown THEN "ended" ELSE next

Get ==
  /\ \/ pc = "asleepGet" /\ Take("woke")
     \/ pc = "get" /\ Take("clear")
     \/ Goto("get", "top") /\ inbox = <<>> /\ UNCHANGED <<msg, inbox>>
     \/ Goto("asleepGet", "ended") /\ shutdown /\ UNCHANGED <<msg, inbox>>
  /\ LoopFrame
  /\ UNCHANGED <<state, events, delivery, rounds, attempts, reply, read, rest,
                 after>>

WakeUp ==
  /\ Goto("woke", "wokeClear")
  /\ asleep' = FALSE
  /\ LoopFrame /\ UNCHANGED <<state, cancel, shutdown, inbox, delivery, locals>>

ClearCancel ==
  /\ Goto("clear", "merge") \/ Goto("wokeClear", "wokeActive")
  /\ cancel' = FALSE
  /\ LoopFrame /\ UNCHANGED <<state, asleep, shutdown, inbox, delivery, locals>>

Activate ==
  /\ Goto("active", "handle") \/ Goto("wokeActive", "wokeMerge")
  /\ state' = "ACTIVE"
  /\ LoopFrame /\ UNCHANGED <<events, inbox, delivery, locals>>

\* _concat_queued_messages: one text message takes the queued ones with it, and
\* the wakes go back (CorrelatedTurns has the interleavings of that).
MergeAll(q) == <<>>
WithoutTexts(q) ==
  [i \in 1..Cardinality({j \in DOMAIN q : q[j] = Wake}) |-> Wake]

Merge ==
  /\ Goto("merge", "active") \/ Goto("wokeMerge", "handle")
  /\ inbox' = IF msg = Request THEN WithoutTexts(inbox) ELSE inbox
  /\ LoopFrame /\ UNCHANGED <<state, events, delivery, locals>>

-----------------------------------------------------------------------------
(* One turn.                                                               *)

\* _handle_request syncs first; _handle_tc_wake drives the wire as it stands,
\* and only when its tail is a tool result.
Handle ==
  /\ pc = "handle"
  /\ \/ msg = Request /\ pc' = "sync" /\ after' = "send"
     \/ msg = Wake /\ wire = "results" /\ pc' = "send" /\ after' = after
     \/ msg = Wake /\ wire # "results" /\ pc' = "post" /\ after' = after
  /\ LoopFrame /\ Quiet /\ UNCHANGED <<msg, rounds, attempts, reply, read, rest>>

\* SessionManager.send: a text closes dangling calls and goes on top of the
\* history, the results of a batch are already there, a wake adds nothing.
Send ==
  /\ Goto("send", "call")
  /\ IF msg = Request /\ rounds = 0
       THEN /\ wire' = IF wire = "text" THEN "text" ELSE "over"
            /\ Replay(wire)
       ELSE UNCHANGED <<wire, renewal>>
  /\ Advance({"shown", "stamped", "left"}, "told")
  /\ LoopFrame /\ UNCHANGED <<state, events, inbox, ofPair, stray, locals>>

\* The answer is appended behind whatever is on the wire by now.
Answer ==
  /\ pc = "call"
  /\ reply' \in {"text", "calls"}
  /\ wire' = reply' /\ ofPair' = FALSE
  /\ Advance({"shown"}, "left")
  /\ IF rounds > 0 THEN pc' = "sync" /\ after' = "response"
                   ELSE pc' = "response" /\ after' = after
  /\ LoopFrame
  /\ UNCHANGED <<state, events, inbox, renewal, stray, msg, rounds, attempts,
                 read, rest>>

\* _process_response: no calls ends the turn; so does a cancellation, which
\* leaves the calls dangling, and the guard, which closes them.
Response ==
  /\ pc = "response"
  /\ \/ /\ reply = "text" \/ cancel
        /\ pc' = "end" /\ UNCHANGED <<wire, renewal>>
     \/ /\ reply = "calls" /\ ~cancel /\ rounds = MaxRounds
        /\ pc' = "end" /\ Heal(wire)
     \/ /\ reply = "calls" /\ ~cancel /\ rounds < MaxRounds
        /\ pc' = "tools" /\ UNCHANGED <<wire, renewal>>
  /\ reply' = "text"
  /\ LoopFrame
  /\ UNCHANGED <<state, events, inbox, ofPair, fate, stray, msg, rounds,
                 attempts, read, rest, after>>

\* ToolExecutor runs the batch.  The agent may put itself to sleep in it, which
\* is refused while notices are pending unless it forces it; the molt batch and
\* an unstable read of the store skip the stamp.
NapAllowed == disk = fp \/ "forced" \in Sleeps

Tools ==
  /\ pc = "tools"
  /\ rounds' = rounds + 1
  /\ \/ pc' \in {"stamp", "batch"}
     \/ pc' = "napState" /\ "self" \in Sleeps /\ NapAllowed
  /\ LoopFrame /\ Quiet
  /\ UNCHANGED <<msg, attempts, reply, read, rest, after>>

Nap ==
  /\ \/ /\ Goto("napState", "napSet")
        /\ state' = "ASLEEP" /\ UNCHANGED <<asleep, cancel>>
     \/ /\ Goto("napSet", "napCancel")
        /\ asleep' = TRUE /\ UNCHANGED <<state, cancel>>
     \/ /\ pc = "napCancel" /\ pc' \in {"stamp", "batch"}
        /\ cancel' = TRUE /\ UNCHANGED <<state, asleep>>
  /\ LoopFrame /\ UNCHANGED <<shutdown, inbox, delivery, locals>>

\* attach_active_notifications: read the store, without the sync lock, and put
\* what is there on the last result of the batch ...
Stamp ==
  /\ pc = "stamp"
  /\ read' = disk
  /\ pc' = IF disk = 0 THEN "batch" ELSE "commit"
  /\ LoopFrame /\ Quiet
  /\ UNCHANGED <<msg, rounds, attempts, reply, rest, after>>

\* ... and commit the fingerprint of the version that was read.
CommitsLatest == disk
CommitsNothing == fp
CommitsRead == read

CommitStamp ==
  /\ Goto("commit", "batch")
  /\ fate' = [fate EXCEPT ![read] = IF @ = "shown" THEN @
                                     ELSE Moved(read, "stamped")]
  /\ fp' = CommitsRead /\ again' = again \ {read}
  /\ stray' = (stray \/ state # "ACTIVE" \/ syncBy # None)
  /\ read' = 0
  /\ LoopFrame
  /\ UNCHANGED <<state, events, inbox, wire, ofPair, pairs, resets, msg, rounds,
                 attempts, reply, rest, after>>

\* The results reach the history.  A cancellation, an intercepted batch and the
\* poll backoff end the turn here; otherwise the next call carries them.
Batch ==
  /\ pc = "batch"
  /\ wire' = "results" /\ ofPair' = FALSE
  /\ \/ pc' = "end" /\ Advance({"stamped"}, "left")
     \/ pc' = "send" /\ ~cancel /\ UNCHANGED fate
  /\ LoopFrame
  /\ UNCHANGED <<state, events, inbox, renewal, stray, locals>>

\* A turn a wake started syncs once more when its last answer is in.
End ==
  /\ pc = "end"
  /\ IF msg = Wake THEN pc' = "sync" /\ after' = "post"
                   ELSE pc' = "post" /\ after' = after
  /\ LoopFrame /\ Quiet
  /\ UNCHANGED <<msg, rounds, attempts, reply, read, rest>>

-----------------------------------------------------------------------------
(* A provider call that fails.                                             *)

\* The adapter takes back what the call had put on the tail: for a text also
\* the results below it, for a wake in one adapter those results alone.  Results
\* of a batch are restored.
Dropped ==
  IF rounds > 0 THEN "results"
  ELSE IF wire \in {"over", "results"} THEN "calls" ELSE wire

\* The wake handler closes what is left dangling, whatever the failure; a text's
\* handler leaves that to the loop.
LeaveDropped ==
  IF msg = Wake THEN Heal(Dropped)
                ELSE wire' = Dropped /\ UNCHANGED renewal

\* The turn is sent again, as a text message that tells of the error.
MayResend == attempts < MaxAttempts

Resend ==
  /\ MayResend /\ attempts' = attempts + 1
  /\ msg' = Request /\ rounds' = 0
  /\ pc' = "sync" /\ after' = "send"

Fail(kind) ==
  /\ pc = "call" /\ kind \in Errors
  /\ Advance({"shown"}, "left")
  /\ \/ /\ kind = "retry" /\ Heal(Dropped)
        /\ Resend /\ UNCHANGED <<state, rest>>
     \/ /\ kind = "retry" /\ shutdown /\ Heal(Dropped)
        /\ pc' = "post" /\ UNCHANGED <<state, rest, attempts, msg, rounds, after>>
     \/ /\ kind = "partial" /\ LeaveDropped
        /\ pc' = "post" /\ UNCHANGED <<state, rest, attempts, msg, rounds, after>>
     \/ /\ kind = "limited" /\ attempts = MaxAttempts /\ LeaveDropped
        /\ state' = "ASLEEP" /\ rest' = "ASLEEP" /\ pc' = "park"
        /\ UNCHANGED <<attempts, msg, rounds, after>>
     \/ /\ kind = "terminal" /\ LeaveDropped
        /\ rest' = "ASLEEP" /\ pc' = "park"
        /\ UNCHANGED <<state, attempts, msg, rounds, after>>
     \/ /\ kind = "aed" /\ Heal(Dropped)
        /\ state' = "STUCK" /\ pc' = "stuck"
        /\ UNCHANGED <<rest, attempts, msg, rounds, after>>
  /\ LoopFrame
  /\ UNCHANGED <<events, inbox, ofPair, stray, reply, read>>

\* STUCK: rebuild the session and resend, or give up; two ways of giving up
\* leave the state as it is.
Stuck ==
  /\ pc = "stuck"
  /\ \/ state' = "ACTIVE" /\ Resend /\ rest' = rest
     \/ /\ attempts = MaxAttempts /\ state' = "ASLEEP"
        /\ pc' = "park" /\ rest' = "ASLEEP"
        /\ UNCHANGED <<attempts, msg, rounds, after>>
     \/ /\ "terminal" \in Errors /\ UNCHANGED state
        /\ pc' = "park" /\ rest' = "ASLEEP"
        /\ UNCHANGED <<attempts, msg, rounds, after>>
  /\ LoopFrame /\ UNCHANGED <<events, inbox, delivery, reply, read>>

Park ==
  /\ Goto("park", "post")
  /\ asleep' = TRUE
  /\ LoopFrame /\ UNCHANGED <<state, cancel, shutdown, inbox, delivery, locals>>

-----------------------------------------------------------------------------
(* After the turn.                                                         *)

Post ==
  /\ Goto("post", IF asleep THEN "boundary" ELSE "settle")
  /\ LoopFrame /\ Quiet /\ UNCHANGED locals

Settle ==
  /\ Goto("settle", "boundary")
  /\ state' = rest
  /\ LoopFrame /\ UNCHANGED <<events, inbox, delivery, locals>>

\* The check at the IDLE boundary.  Locals the next turn sets anew are reset.
Boundary ==
  /\ pc = "boundary"
  /\ pc' = IF rest = "IDLE" /\ ~asleep /\ disk # fp /\ disk # 0 THEN "sync"
                                                               ELSE "top"
  /\ msg' = None /\ rounds' = 0 /\ attempts' = 0 /\ rest' = "IDLE"
  /\ after' = "top"
  /\ LoopFrame /\ Quiet /\ UNCHANGED <<reply, read>>

LoopStep ==
  \/ Top \/ Get \/ WakeUp \/ ClearCancel \/ Activate \/ Merge \/ Handle
  \/ Send \/ Answer \/ Response \/ Tools \/ Nap \/ Stamp \/ CommitStamp
  \/ Batch \/ End \/ Stuck \/ Park \/ Post \/ Settle \/ Boundary
  \/ \E kind \in ErrorKinds : Fail(kind)

-----------------------------------------------------------------------------
(* One tick of the heartbeat (_heartbeat_loop); at most one signal file is *)
(* there when it looks.                                                    *)

Beat(from, to) == beat = from /\ beat' = to
BeatFrame == UNCHANGED <<inbox, notices, delivery, pc, locals, sync>>

\* .interrupt, .suspend and .sleep all request a turn cancellation first.
Tick ==
  /\ ~shutdown
  /\ \/ Beat("tick", "idle") /\ UNCHANGED cancel
     \/ Beat("tick", "idle") /\ "interrupt" \in Signals /\ cancel' = TRUE
     \/ Beat("tick", "suspendState") /\ "suspend" \in Signals /\ cancel' = TRUE
     \/ Beat("tick", "sleepState") /\ "sleep" \in Signals /\ cancel' = TRUE
  /\ BeatFrame /\ UNCHANGED <<state, asleep, shutdown>>

Suspend ==
  /\ \/ Beat("suspendState", "suspendStop")
        /\ state' = "SUSPENDED" /\ UNCHANGED shutdown
     \/ Beat("suspendStop", "idle")
        /\ shutdown' = TRUE /\ UNCHANGED state
  /\ BeatFrame /\ UNCHANGED <<asleep, cancel>>

\* The idle timeout, the sync and the timeout of a STUCK agent, in this order:
\* each looks at the state once, and what it then does is not atomic.
Check ==
  /\ \/ Beat("idle", "sync")
     \/ Beat("idle", "idleState") /\ state = "IDLE" /\ "idleTimeout" \in Sleeps
     \/ Beat("aed", "tick")
     \/ Beat("aed", "aedState") /\ state = "STUCK" /\ "aedTimeout" \in Sleeps
  /\ BeatFrame /\ UNCHANGED <<state, events>>

PublishAsleep ==
  /\ \/ Beat("sleepState", "sleepSet") \/ Beat("idleState", "idleSet")
     \/ Beat("aedState", "aedSet")
  /\ state' = "ASLEEP"
  /\ BeatFrame /\ UNCHANGED events

SetAsleep ==
  /\ \/ Beat("sleepSet", "idle") \/ Beat("idleSet", "sync")
     \/ Beat("aedSet", "tick")
  /\ asleep' = TRUE
  /\ BeatFrame /\ UNCHANGED <<state, cancel, shutdown>>

BeatStep == Tick \/ Suspend \/ Check \/ PublishAsleep \/ SetAsleep

-----------------------------------------------------------------------------

\* The loop has ended and the heartbeat only beats.
Rest ==
  /\ pc = "ended" /\ beat = "tick"
  /\ UNCHANGED vars

Next ==
  \/ Publish \/ Dismiss \/ SendRequest \/ Stop
  \/ LoopStep \/ SyncStep("loop")
  \/ BeatStep \/ SyncStep("beat")
  \/ Rest

Spec == Init /\ [][Next]_vars

\* Both threads run, the provider answers, and the sync lock is free for a
\* second between two ticks, so that whoever wants it gets it in the end.
Fairness ==
  /\ WF_vars(LoopStep) /\ WF_vars(BeatStep)
  /\ \A t \in Threads : WF_vars(SyncStep(t)) /\ SF_vars(SyncEnter(t))

FairSpec == Spec /\ Fairness
-----------------------------------------------------------------------------
(* Properties.                                                             *)

TypeOK ==
  /\ state \in States
  /\ asleep \in BOOLEAN /\ cancel \in BOOLEAN /\ shutdown \in BOOLEAN
  /\ inbox \in Seq({Request, Wake})
  /\ disk \in 0..MaxVersions /\ published \in 0..MaxVersions
  /\ sent \in 0..MaxRequests
  /\ fp \in 0..MaxVersions
  /\ wire \in Tails /\ ofPair \in BOOLEAN
  /\ fate \in [Versions -> Fates]
  /\ pairs \in [Versions -> 0..2]
  /\ again \subseteq Versions /\ stray \in BOOLEAN
  /\ resets \in 0..MaxResets
  /\ pc \in LoopStates /\ after \in {"top", "send", "response", "post"}
  /\ msg \in {None, Request, Wake}
  /\ rounds \in 0..MaxRounds /\ attempts \in 0..MaxAttempts
  /\ reply \in {"text", "calls"}
  /\ read \in 0..MaxVersions
  /\ rest \in {"IDLE", "ASLEEP"}
  /\ beat \in BeatStates
  /\ syncBy \in Threads \union {None}
  /\ syncPc \in SyncStates
  /\ seen \in 0..MaxVersions
  /\ roused \in BOOLEAN

\* "The fingerprint is committed only when injection succeeds (or when in a
\* state that cannot inject)": the version the kernel takes for delivered is on
\* the wire, is named in a degraded message, or was dropped while STUCK or
\* SUSPENDED.  No other version is ever swallowed.
CommittedMeansKnown == fp # 0 => fate[fp] # "unseen"

InQueue(q, m) == \E i \in DOMAIN q : q[i] = m

\* "Without [the wake] the loop sits forever [and] the wire pair never goes to
\* the LLM": a pair nothing has been appended behind has its wake on the way, or
\* the loop is past the dequeue of a turn whose next call will carry it.
PairIsDriven ==
  \A v \in Versions :
    fate[v] = "shown" /\ ~shutdown =>
      \/ InQueue(inbox, Wake)
      \/ syncPc = "wake"
      \/ msg = Wake /\ pc \in {"woke", "wokeClear", "wokeActive", "wokeMerge",
                               "clear", "merge", "active", "handle", "send"}

\* The fingerprint follows the producers: it is cleared with the channels, but
\* never set back to an older version, which would announce a newer one again.
\* Only a batch that stamped its results while no turn ran, or while a sync was
\* at work, may do that.
FingerprintNeverRegresses == [][fp' >= fp \/ fp' = 0 \/ stray']_vars

\* "The chat-saved snapshot must always be appendable from a fresh wake": while
\* the loop sleeps on its inbox no tool call dangles.
AsleepWireAppendable == pc = "asleepGet" => wire # "calls"

\* Issue #659: the heartbeat and the IDLE boundary never both inject one version:
\* it gets one pair, and one more for each time a redacted replay made it due
\* again (pairs counts from the last such reset).  Only a batch that stamped its
\* results while the state said that no turn ran, or against a sync in progress,
\* can turn the fingerprint back.
PairedOnce == ~stray => \A v \in Versions : pairs[v] <= 1

\* The two threads, their lock, the state they look at, wakes, sleeps, retries and
\* errors together deliver every notice as NoticeDelivery has it.
Notices == INSTANCE NoticeDelivery
             WITH present <- disk, last <- published, taken <- fp, void <- stray

ImplementsNotices == Notices!Spec

\* "The next IDLE boundary retries delivery": every published version is told to
\* the model, unless it is dismissed or replaced first, the agent stops, or one
\* of three gaps swallows it: left behind an answer, dropped in a state that
\* cannot inject, named in a degraded message only.
NoticeReachesModel ==
  \A v \in Versions :
    disk = v ~> \/ fate[v] \in {"told", "pointed", "left", "dropped"}
                \/ disk # v \/ shutdown

\* "Redacted replay is lossy: reset the committed fingerprint so the next sync
\* re-injects producer state": what was up when a pair came back redacted goes to
\* the model once more, in a pair, a stamp, a degraded message or at least the
\* commit of a sync that had just put it there, unless it is dismissed or replaced
\* first or the agent stops.
RedactedIsRenewed ==
  \A v \in Versions :
    v \in again /\ disk = v ~> v \notin again \/ disk # v \/ shutdown
=============================================================================

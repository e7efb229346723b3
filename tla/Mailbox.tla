------------------------------- MODULE Mailbox -------------------------------
(***************************************************************************)
(* The filesystem mailbox of one agent: what other agents deliver into its *)
(* inbox, what it sends to itself, and what it takes out of the outbox of  *)
(* a pseudo-agent that a rival polls, too.  One thread polls; the agent's  *)
(* turns read and archive mail; both rewrite `.notification/email.json`,   *)
(* the digest of the unread mail, from what they have just listed.         *)
(*                                                                         *)
(* Files may fail, and the process may die and start again.                *)
(***************************************************************************)
EXTENDS Naturals, FiniteSets

CONSTANTS
  Peer,        \* messages of other agents
  Own,         \* messages of the agent to itself
  Pseudo,      \* messages in the outbox of the pseudo-agent
  Retries,     \* _MAX_READ_RETRIES
  MaxEntries,  \* EMAIL_UNREAD_MAX_ENTRIES
  Received,    \* the order of the listings: received_at, ties resolved
  MaxSends,    \* messages the peers and the agent begin to send
  MaxHandled,  \* messages the agent reads or removes
  MaxMishaps,  \* operations that raise OSError, and deaths of the process
  MaxCrashes,  \* of these, deaths
  None

Messages == Peer \union Own \union Pseudo

ASSUME MailConstants ==
  /\ Retries \in Nat \ {0} /\ MaxEntries \in Nat \ {0}
  /\ Received \in [Messages -> Nat]
  /\ \A m, k \in Messages : Received[m] = Received[k] => m = k
  /\ MaxSends \in Nat /\ MaxHandled \in Nat /\ MaxMishaps \in Nat /\ MaxCrashes \in Nat
  /\ None \notin Messages
  /\ Peer \intersect Own = {} /\ Peer \intersect Pseudo = {} /\ Own \intersect Pseudo = {}

VARIABLES
  \* files
  inbox,      \* per message: no directory, one without a readable message.json,
              \* one whose message.json is cut off, or the whole message
  sending,    \* per message of a peer or of its own: how far its sender is
  outbox,     \* per message of the pseudo-agent: in the outbox, or whose claim
  read,       \* read.json
  digest,     \* what email.json counts
  shown,      \* what it has an entry for
  \* the poll thread
  poll,       \* where it is; "down" without a process
  cur,        \* the message in its hands
  back,       \* where it goes on after the dispatch
  todo,       \* the outbox entries listed and not visited
  seen,
  pass,       \* the inbox entries listed and not visited
  passOn,     \* the iterator exists
  observed,
  failed,     \* _read_failures
  \* the agent's turn
  tool,
  \* what a rendering thread has listed to be counted, and to be shown
  draft, picked,
  \* history
  dispatched, \* how often a message was dispatched, by this listener or an earlier one
  given,      \* dead-lettered, moved or not
  gone,       \* archived or deleted by the agent
  leftover,   \* rolled back, but the copy could not be removed
  blurred,    \* the digest was last written from what had changed meanwhile, or a
              \* rendering failed, or mail left or stayed without a rendering
  faults, crashes

files   == <<inbox, sending, outbox, read, digest, shown>>
scan    == <<seen, pass, passOn, observed, failed>>
thread  == <<poll, cur, back, todo>>
drafts  == <<draft, picked>>
history == <<dispatched, given, gone, leftover, blurred>>
bounds  == <<faults, crashes>>
vars    == <<files, thread, scan, tool, drafts, history, bounds>>

Hidden(m) == <<"staging", m>>

Ids == Messages \union {Hidden(m) : m \in Peer}

Renders == {"list", "pick", "write"}

TypeOK ==
  /\ inbox \in [Messages -> {"none", "dir", "part", "whole"}]
  /\ sending \in [Peer \union Own ->
                    {"unsent", "staging", "writing", "ready", "sent", "refused", "broken"}]
  /\ outbox \in [Pseudo -> {"outbox", "claim", "rival", "sent", "sentByRival"}]
  /\ read \subseteq Messages /\ digest \subseteq Ids /\ shown \subseteq Ids
  /\ poll \in {"down", "tick", "outbox", "place", "fill", "publish", "unplace",
               "restore", "scan"} \union Renders
  /\ cur \in Messages \union {None} /\ back \in {"tick", "outbox", "scan"}
  /\ todo \subseteq Pseudo
  /\ seen \subseteq Messages /\ pass \subseteq Messages /\ passOn \in BOOLEAN
  /\ observed \subseteq Messages /\ failed \in [Messages -> 0..(Retries - 1)]
  /\ tool \in {"idle"} \union Renders
  /\ draft \in [{"poll", "tool"} -> SUBSET Ids]
  /\ picked \in [{"poll", "tool"} -> SUBSET Ids]
  /\ dispatched \in [Messages -> Nat]
  /\ given \subseteq Messages /\ gone \subseteq Messages
  /\ leftover \subseteq Messages /\ blurred \in BOOLEAN
  /\ faults \in 0..MaxMishaps /\ crashes \in 0..MaxCrashes

Init ==
  /\ inbox = [m \in Messages |-> "none"]
  /\ sending = [m \in Peer \union Own |-> "unsent"]
  /\ outbox = [m \in Pseudo |-> "outbox"]
  /\ read = {} /\ digest = {} /\ shown = {}
  /\ poll = "tick" /\ cur = None /\ back = "tick" /\ todo = {}
  /\ seen = {} /\ pass = {} /\ passOn = FALSE /\ observed = {}
  /\ failed = [m \in Messages |-> 0]
  /\ tool = "idle"
  /\ draft = [t \in {"poll", "tool"} |-> {}] /\ picked = draft
  /\ dispatched = [m \in Messages |-> 0]
  /\ given = {} /\ gone = {} /\ leftover = {} /\ blurred = FALSE
  /\ faults = 0 /\ crashes = 0

Up == poll # "down"

Fault == faults + crashes < MaxMishaps /\ faults' = faults + 1 /\ UNCHANGED crashes

\* The inbox as a directory listing: names that do not begin with a dot.
Entries == {m \in Messages : inbox[m] # "none"}

Unread == {m \in Messages : inbox[m] = "whole" /\ m \notin read}

ReceivedAt(i) == IF i \in Messages THEN Received[i] ELSE Received[i[2]]

\* What has an entry where all these are unread.
Newest(all) ==
  {i \in all :
     Cardinality({k \in all : ReceivedAt(k) > ReceivedAt(i)}) < MaxEntries}

\* _list_inbox does not skip the staging directories.
Listed == Unread \union {Hidden(m) : m \in {x \in Peer : sending[x] = "ready"}}

-----------------------------------------------------------------------------
(* Senders                                                                 *)

Sends(m, from, to) == sending[m] = from /\ sending' = [sending EXCEPT ![m] = to]

SendsLeft ==
  Cardinality({m \in Peer \union Own : sending[m] # "unsent"}) < MaxSends

\* send: the message is assembled in a hidden staging directory ...
PeerStages(m) ==
  /\ \/ SendsLeft /\ Sends(m, "unsent", "staging")
     \/ Sends(m, "staging", "ready")
  /\ UNCHANGED <<inbox, outbox, read, digest, shown, thread, scan, tool, drafts, history,
                 bounds>>

\* ... and published by one rename.
PeerPublishes(m) ==
  /\ Sends(m, "ready", "sent")
  /\ inbox' = [inbox EXCEPT ![m] = "whole"]
  /\ UNCHANGED <<outbox, read, digest, shown, thread, scan, tool, drafts, history, bounds>>

\* Any OSError removes the staging directory.  (One that cannot be removed stays,
\* like that of a sender that never goes on.)
PeerFails(m) ==
  /\ Fault
  /\ Sends(m, "staging", "refused") \/ Sends(m, "ready", "refused")
  /\ UNCHANGED <<inbox, outbox, read, digest, shown, thread, scan, tool, drafts, history>>

\* _persist_to_inbox, for mail to oneself: directory, file, content.
OwnBegins(m) ==
  /\ Up /\ SendsLeft
  /\ Sends(m, "unsent", "writing")
  /\ inbox' = [inbox EXCEPT ![m] = "dir"]
  /\ UNCHANGED <<outbox, read, digest, shown, thread, scan, tool, drafts, history, bounds>>

\* A long message takes several writes.
OwnWritesPart(m) ==
  /\ Up
  /\ sending[m] = "writing" /\ inbox[m] = "dir"
  /\ inbox' = [inbox EXCEPT ![m] = "part"]
  /\ UNCHANGED <<sending, outbox, read, digest, shown, thread, scan, tool, drafts, history,
                 bounds>>

\* The file may have been moved with its directory meanwhile.
OwnEnds(m) ==
  /\ Up
  /\ Sends(m, "writing", "sent")
  /\ inbox' = [inbox EXCEPT ![m] = IF @ = "none" THEN "none" ELSE "whole"]
  /\ blurred' = (blurred \/ m \in given)
  /\ UNCHANGED <<outbox, read, digest, shown, thread, scan, tool, drafts, dispatched, given,
                 gone, leftover, bounds>>

-----------------------------------------------------------------------------
(* The rival that polls the same outbox                                    *)

Rival(m) ==
  /\ \/ outbox[m] = "outbox" /\ outbox' = [outbox EXCEPT ![m] = "rival"]
        /\ UNCHANGED bounds
     \/ outbox[m] = "rival" /\ outbox' = [outbox EXCEPT ![m] = "sentByRival"]
        /\ UNCHANGED bounds
     \/ outbox[m] = "rival" /\ outbox' = [outbox EXCEPT ![m] = "outbox"] /\ Fault
  /\ UNCHANGED <<inbox, sending, read, digest, shown, thread, scan, tool, drafts, history>>

-----------------------------------------------------------------------------
\* on_message tells the agent and renders the digest.  (A process that dies
\* between marking and telling leaves what one that dies before leaves.)
Dispatch(m) ==
  /\ dispatched' = [dispatched EXCEPT ![m] = @ + 1]
  /\ poll' = "list"

(* The poll thread: the outbox of the pseudo-agent                         *)

\* _poll_pseudo_outbox lists the outbox.
ListOutbox ==
  /\ poll = "tick"
  /\ todo' = {m \in Pseudo : outbox[m] = "outbox"}
  /\ poll' = "outbox"
  /\ UNCHANGED <<files, cur, back, scan, tool, drafts, history, bounds>>

\* The rename to a private claim has one winner, which marks the message as
\* seen before it is in the inbox.
Claim(m) ==
  /\ poll = "outbox" /\ m \in todo
  /\ IF outbox[m] = "outbox"
       THEN /\ outbox' = [outbox EXCEPT ![m] = "claim"]
            /\ seen' = seen \union {m}
            /\ cur' = m /\ poll' = "place" /\ UNCHANGED todo
       ELSE /\ todo' = todo \ {m}
            /\ UNCHANGED <<outbox, seen, cur, poll>>
  /\ UNCHANGED <<inbox, sending, read, digest, shown, back, pass, passOn, observed, failed,
                 tool, drafts, history, bounds>>

OutboxDone ==
  /\ poll = "outbox" /\ todo = {}
  /\ poll' = "scan"
  /\ UNCHANGED <<files, cur, back, todo, scan, tool, drafts, history, bounds>>

\* The directory and its temporary file.
Place ==
  /\ poll = "place"
  /\ inbox' = [inbox EXCEPT ![cur] = IF @ = "none" THEN "dir" ELSE @]
  /\ poll' = "fill"
  /\ UNCHANGED <<sending, outbox, read, digest, shown, cur, back, todo, scan, tool, drafts,
                 history, bounds>>

\* The temporary file becomes message.json; a failure takes the claim back.
Fill ==
  /\ poll = "fill"
  /\ \/ /\ inbox' = [inbox EXCEPT ![cur] = "whole"]
        /\ poll' = "publish" /\ UNCHANGED bounds
     \/ Fault /\ poll' = "unplace" /\ UNCHANGED inbox
  /\ UNCHANGED <<sending, outbox, read, digest, shown, cur, back, todo, scan, tool, drafts,
                 history>>

\* The claim becomes the sent entry; a failure takes the copy back, too.
PublishClaim ==
  /\ poll = "publish"
  /\ \/ /\ outbox' = [outbox EXCEPT ![cur] = "sent"]
        /\ Dispatch(cur)
        /\ cur' = None /\ back' = "outbox" /\ todo' = todo \ {cur}
        /\ UNCHANGED bounds
     \/ Fault /\ poll' = "unplace" /\ UNCHANGED <<outbox, dispatched, cur, back, todo>>
  /\ UNCHANGED <<inbox, sending, read, digest, shown, scan, tool, drafts, given, gone,
                 leftover, blurred>>

\* Whether the digest counts a copy that is gone, or misses one that stays.
Misjudges(m) == (m \in digest) # (inbox'[m] = "whole" /\ m \notin read)

\* For comparison: the claim goes back and the copy stays.
KeepsCopy ==
  /\ poll = "unplace"
  /\ poll' = "restore"
  /\ UNCHANGED <<files, cur, back, todo, scan, tool, drafts, dispatched, given, gone,
                 leftover, bounds>>
  /\ blurred' = (blurred \/ Misjudges(cur))

\* _remove_tree_retry gives up silently.
Unplace ==
  /\ poll = "unplace"
  /\ \/ /\ inbox' = [inbox EXCEPT ![cur] = "none"]
        /\ UNCHANGED <<leftover, bounds>>
     \/ /\ Fault
        /\ leftover' = leftover \union {cur} /\ UNCHANGED inbox
  /\ blurred' = (blurred \/ Misjudges(cur))
  /\ poll' = "restore"
  /\ UNCHANGED <<sending, outbox, read, digest, shown, cur, back, todo, scan, tool, drafts,
                 dispatched, given, gone>>

\* _restore_claim_to_outbox, which may fail, and the message is not seen.
Restore ==
  /\ poll = "restore"
  /\ \/ outbox' = [outbox EXCEPT ![cur] = "outbox"] /\ UNCHANGED bounds
     \/ Fault /\ UNCHANGED outbox
  /\ seen' = seen \ {cur}
  /\ todo' = todo \ {cur} /\ cur' = None /\ poll' = "outbox"
  /\ UNCHANGED <<inbox, sending, read, digest, shown, back, pass, passOn, observed, failed,
                 tool, drafts, history>>

-----------------------------------------------------------------------------
(* The poll thread: a slice of the inbox                                   *)

\* The iterator lists the directory once and lives on across ticks.  (What a
\* pass observed is forgotten at its end here, and in the code when the next
\* one begins.)
StartPass ==
  /\ poll = "scan" /\ ~passOn
  /\ pass' = Entries /\ passOn' = TRUE
  /\ UNCHANGED <<files, thread, seen, observed, failed, tool, drafts, history, bounds>>

\* After each visit the budget may be spent.
VisitDone == poll' \in {"scan", "tick"} /\ UNCHANGED back

\* Entries that are seen, gone or not readable yet.
Skip(m) ==
  /\ m \in seen \/ inbox[m] \in {"none", "dir"}
  /\ VisitDone
  /\ UNCHANGED <<inbox, seen, failed, history, bounds>>

\* _dead_letter_inbox_entry: moved or not, the entry is done with.
DeadLetter(m) ==
  /\ given' = given \union {m}
  /\ seen' = seen \union {m}
  /\ failed' = [failed EXCEPT ![m] = 0]
  /\ VisitDone

Garbled(m) ==
  /\ m \notin seen /\ inbox[m] = "part"
  /\ DeadLetter(m)
  /\ \/ inbox' = [inbox EXCEPT ![m] = "none"] /\ UNCHANGED bounds
     \/ Fault /\ UNCHANGED inbox
  /\ UNCHANGED <<dispatched, gone, leftover, blurred>>

\* For comparison: an entry is seen before it is read.
SeenWhenTried(m) ==
  /\ m \notin seen /\ inbox[m] = "whole" /\ Fault
  /\ seen' = seen \union {m}
  /\ VisitDone
  /\ UNCHANGED <<inbox, failed, history>>

\* A read that raises is retried in the next pass, Retries times at most.
Unreadable(m) ==
  /\ m \notin seen /\ inbox[m] = "whole" /\ Fault
  /\ IF failed[m] + 1 < Retries
       THEN /\ failed' = [failed EXCEPT ![m] = @ + 1]
            /\ VisitDone
            /\ UNCHANGED <<inbox, seen, given>>
       ELSE /\ DeadLetter(m)
            /\ inbox' \in {inbox, [inbox EXCEPT ![m] = "none"]}
  /\ blurred' = (blurred \/ m \in seen')
  /\ UNCHANGED <<dispatched, gone, leftover>>

\* Seen before it is dispatched.
Accept(m) ==
  /\ m \notin seen /\ inbox[m] = "whole"
  /\ seen' = seen \union {m}
  /\ failed' = [failed EXCEPT ![m] = 0]
  /\ Dispatch(m) /\ back' \in {"scan", "tick"}
  /\ UNCHANGED <<inbox, given, gone, leftover, blurred, bounds>>

Visit(m) ==
  /\ poll = "scan" /\ passOn /\ m \in pass
  /\ pass' = pass \ {m} /\ observed' = observed \union {m}
  /\ Skip(m) \/ Garbled(m) \/ Unreadable(m) \/ Accept(m)
  /\ UNCHANGED <<sending, outbox, read, digest, shown, cur, todo, passOn, tool, drafts>>

\* For comparison: the ids this pass did not meet are forgotten.
PruneUnobserved == seen \intersect observed

\* _prune_seen_to_live_inbox: but only those whose directory is gone.
Prune == {m \in seen : m \in observed \/ inbox[m] # "none"}

\* For comparison: the finished iterator is kept.
KeepsIterator ==
  /\ poll = "scan" /\ passOn /\ pass = {}
  /\ seen' = Prune /\ observed' = {}
  /\ poll' = "tick"
  /\ UNCHANGED <<files, cur, back, todo, pass, passOn, failed, tool, drafts,
                 history, bounds>>

EndPass ==
  /\ poll = "scan" /\ passOn /\ pass = {}
  /\ seen' = Prune /\ observed' = {}
  /\ passOn' = FALSE /\ poll' = "tick"
  /\ UNCHANGED <<files, cur, back, todo, pass, failed, tool, drafts,
                 history, bounds>>

-----------------------------------------------------------------------------
(* The agent's turn                                                        *)

MayHandle(m) ==
  /\ Up /\ tool = "idle"
  /\ Cardinality((read \union gone) \union {m}) <= MaxHandled

\* read, dismiss: the message is marked in read.json.
MarkRead(m) ==
  /\ MayHandle(m) /\ m \in Unread
  /\ read' = read \union {m} /\ tool' = "list"
  /\ UNCHANGED <<inbox, sending, outbox, digest, shown, thread, scan, drafts, history, bounds>>

\* archive, delete.
Remove(m) ==
  /\ MayHandle(m) /\ inbox[m] = "whole"
  /\ inbox' = [inbox EXCEPT ![m] = "none"]
  /\ read' = read \ {m} /\ gone' = gone \union {m}
  /\ tool' = "list"
  /\ UNCHANGED <<sending, outbox, digest, shown, thread, scan, drafts, dispatched,
                 given, leftover, blurred, bounds>>

-----------------------------------------------------------------------------
(* _rerender_unread_digest, of either thread                               *)

At(t, pc) == IF t = "poll" THEN poll = pc ELSE tool = pc

Goto(t, pc) ==
  IF t = "poll" THEN poll' = pc /\ UNCHANGED tool ELSE tool' = pc /\ UNCHANGED poll

RenderEnds(t) ==
  /\ draft' = [draft EXCEPT ![t] = {}] /\ picked' = [picked EXCEPT ![t] = {}]
  /\ Goto(t, IF t = "poll" THEN back ELSE "idle")
  /\ back' = IF t = "poll" THEN "tick" ELSE back
  /\ UNCHANGED <<inbox, sending, outbox, read, cur, todo, scan, dispatched,
                 given, gone, leftover, bounds>>

\* What is listed now will be counted, and decides whether there is a digest.
RenderList(t) ==
  /\ At(t, "list")
  /\ draft' = [draft EXCEPT ![t] = Listed]
  /\ Goto(t, IF Listed = {} THEN "write" ELSE "pick")
  /\ UNCHANGED <<files, cur, back, todo, scan, picked, history, bounds>>

\* The entries come from a second listing.
RenderPick(t) ==
  /\ At(t, "pick")
  /\ picked' = [picked EXCEPT ![t] = Newest(Listed)]
  /\ Goto(t, "write")
  /\ UNCHANGED <<files, cur, back, todo, scan, draft, history, bounds>>

\* Either listing raises UnicodeDecodeError on a message.json that is cut off in
\* the middle of a character; the callers drop it, and nothing is rewritten.
RenderFails(t) ==
  /\ At(t, "list") \/ At(t, "pick")
  /\ \/ \E m \in Messages : inbox[m] = "part"
     \/ \E m \in Peer : sending[m] = "staging"
  /\ blurred' = (blurred \/ digest # Unread)
  /\ RenderEnds(t)
  /\ UNCHANGED <<digest, shown>>

\* Nothing listed clears the file.
RenderWrite(t) ==
  /\ At(t, "write")
  /\ digest' = draft[t] /\ shown' = picked[t]
  /\ blurred' = (draft[t] # Unread \/ picked[t] # Newest(draft[t]))
  /\ RenderEnds(t)

-----------------------------------------------------------------------------
(* The process                                                             *)

Crash ==
  /\ Up /\ crashes < MaxCrashes /\ faults + crashes < MaxMishaps
  /\ crashes' = crashes + 1 /\ UNCHANGED faults
  /\ poll' = "down" /\ tool' = "idle" /\ cur' = None /\ todo' = {} /\ back' = "tick"
  /\ draft' = [t \in {"poll", "tool"} |-> {}] /\ picked' = draft'
  /\ sending' = [m \in Peer \union Own |->
                   IF m \in Own /\ sending[m] = "writing" THEN "broken" ELSE sending[m]]
  /\ seen' = {} /\ pass' = {} /\ passOn' = FALSE /\ observed' = {}
  /\ failed' = [m \in Messages |-> 0]
  /\ blurred' = TRUE
  /\ UNCHANGED <<inbox, outbox, read, digest, shown, dispatched, given, gone, leftover>>

\* For comparison: it counts as new.
ListensAnew ==
  /\ poll = "down"
  /\ poll' = "tick"
  /\ UNCHANGED <<files, cur, back, todo, scan, tool, drafts, history, bounds>>

\* listen: what is in the inbox already counts as seen.
Listen ==
  /\ poll = "down"
  /\ poll' = "tick"
  /\ seen' = Entries
  /\ UNCHANGED <<files, cur, back, todo, pass, passOn, observed, failed, tool, drafts,
                 history, bounds>>

-----------------------------------------------------------------------------
Render(t) == RenderList(t) \/ RenderPick(t) \/ RenderFails(t) \/ RenderWrite(t)

Senders ==
  \/ \E m \in Peer : PeerStages(m) \/ PeerPublishes(m) \/ PeerFails(m)
  \/ \E m \in Own : OwnBegins(m) \/ OwnWritesPart(m) \/ OwnEnds(m)

Poller ==
  \/ ListOutbox \/ OutboxDone \/ Place \/ Fill \/ PublishClaim \/ Unplace \/ Restore
  \/ \E m \in Pseudo : Claim(m)
  \/ StartPass \/ EndPass
  \/ \E m \in Messages : Visit(m)
  \/ Render("poll")

Turn == Render("tool")

Next ==
  \/ Senders \/ Poller \/ Turn
  \/ \E m \in Pseudo : Rival(m)
  \/ \E m \in Messages : MarkRead(m) \/ Remove(m)
  \/ Crash \/ Listen

Spec == Init /\ [][Next]_vars

\* The poll thread runs as long as its process; senders, the rival, the agent's
\* turn and the restart owe nothing.
FairSpec == Spec /\ WF_vars(Poller)

-----------------------------------------------------------------------------
(* Properties                                                              *)

\* A message is dispatched once at most, by the scan or by the claim, through
\* rollbacks, retries, pruning and restarts; but for a message whose copy a
\* rollback could not remove.
DispatchedOnce == \A m \in Messages \ leftover : dispatched[m] <= 1

\* A message of the pseudo-agent that is in the outbox, or with the rival, has
\* no copy in this inbox, and one that was sent on has been in it.
CopyFollowsClaim ==
  \A m \in Pseudo :
    /\ outbox[m] \in {"outbox", "rival", "sentByRival"}
         => inbox[m] # "whole" \/ m \in leftover
    /\ outbox[m] = "sent" => inbox[m] = "whole" \/ m \in given \union gone

\* Nobody is about to render or to dispatch.
Quiet ==
  /\ Up /\ tool = "idle"
  /\ poll \in {"tick", "outbox", "scan"}
  /\ \A m \in Messages : inbox[m] = "whole" => m \in seen

\* Then the digest counts the unread mail and shows the newest of it,
\* but where two renderings overlapped, one failed on a message that was being
\* written, a rollback or a dead letter took away or left what it counts, or the
\* process restarted.
DigestMirrorsUnlessBlurred ==
  Quiet /\ ~blurred => digest = Unread /\ shown = Newest(Unread)

\* What waits for the poll thread: in the inbox and not seen, or in the outbox.
Awaits(m) ==
  /\ Up
  /\ \/ inbox[m] = "whole" /\ m \notin seen
     \/ m \in Pseudo /\ outbox[m] = "outbox"

\* Dispatched, dead-lettered, removed by the agent, left by a listener that
\* ends, or, in the outbox, taken by the rival or in the way of a failure.
Served(m) ==
  \/ dispatched[m] > 0 \/ m \in given \union gone \/ ~Up
  \/ m \in Pseudo /\ (outbox[m] \in {"rival", "sentByRival"} \/ faults > 0)

\* Where the agent sees a message: one of the pseudo-agent moves with its claim,
\* any other one with its file.
PlaceOf(m) ==
  CASE m \in leftover -> "void"
    [] m \in Pseudo \ leftover /\ outbox[m] \in {"outbox", "rival"} -> "away"
    [] m \in Pseudo \ leftover /\ outbox[m] = "claim" -> "taken"
    [] m \in Pseudo \ leftover /\ outbox[m] = "sentByRival" -> "elsewhere"
    [] OTHER -> IF inbox[m] = "whole" /\ m \notin given THEN "here"
                ELSE IF m \in Pseudo \union given \union gone THEN "ended"
                ELSE "away"

TimesTold(m) == IF m \in leftover THEN 0 ELSE dispatched[m]

\* Staging, claims, rollbacks, the sliced scan with its memory of what it has
\* seen, and restarts together deliver every message as MailDelivery has it.
Delivery == INSTANCE MailDelivery
              WITH Shared <- Pseudo,
                   place <- [m \in Messages |-> PlaceOf(m)],
                   told <- [m \in Messages |-> TimesTold(m)]

ImplementsDelivery == Delivery!Spec

\* Mail that waits is served.
MailIsServed == \A m \in Messages : Awaits(m) ~> Served(m)
=============================================================================

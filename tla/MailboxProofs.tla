--------------------------- MODULE MailboxProofs ---------------------------
(***************************************************************************)
(* Proofs about Mailbox for every set of messages, every number of retries *)
(* and every number of failures and deaths.                                *)
(***************************************************************************)
EXTENDS Mailbox, TLAPS

\* Throughout, the groups of variables are expanded, and where the threads are.
USE DEF files, scan, thread, drafts, history, bounds, vars, Messages, Ids, Hidden, Renders, Up,
        Fault, Goto, At

\* Where a claim is being moved, the poll thread holds it and has marked it as
\* seen; a copy is whole when the claim is published, and not when it goes back.
ClaimInHand ==
  /\ poll \in {"place", "fill", "publish", "unplace", "restore"}
       => cur \in Pseudo /\ outbox[cur] = "claim" /\ cur \in seen
  /\ poll = "publish" => inbox[cur] = "whole" \/ cur \in given \union gone
  /\ poll = "restore" => inbox[cur] # "whole" \/ cur \in leftover

\* A claim that nobody holds any more is not going to be scanned.
ClaimAbandoned ==
  \A m \in Pseudo :
    Up /\ outbox[m] = "claim" =>
      \/ cur = m /\ poll \in {"place", "fill", "publish", "unplace", "restore"}
      \/ m \in seen \/ inbox[m] # "whole" \/ m \in leftover

\* A whole message of a peer or of the agent has been sent.
ArrivedIsSent ==
  \A m \in Peer \union Own : inbox[m] = "whole" => sending[m] = "sent"

\* What has been dispatched will not come again; a claim that was sent on has
\* been dispatched.
DispatchedIsOver ==
  \A m \in Messages \ leftover :
    /\ dispatched[m] > 0 =>
         /\ dispatched[m] = 1
         /\ m \in Pseudo => outbox[m] = "sent"
         /\ m \in Peer \union Own => sending[m] = "sent"
         /\ Up => m \in seen \/ inbox[m] = "none"
    /\ m \in Pseudo /\ outbox[m] = "sent" => dispatched[m] = 1

\* Nobody has seen what has not arrived; what the agent is writing is seen only
\* when it has been dead-lettered.
UnsentIsUnseen ==
  /\ \A m \in Peer \union Own :
       sending[m] \in {"unsent", "staging", "ready"} => m \notin seen /\ inbox[m] = "none"
  /\ \A m \in Own : sending[m] = "writing" /\ m \in seen => m \in given

\* What the agent removed or disposed of had been sent and is not scanned again;
\* only a claim that was given back leaves a copy.
EndedIsOver ==
  /\ leftover \subseteq Pseudo
  /\ \A m \in Peer \union Own :
       /\ m \in gone => sending[m] = "sent"
       /\ m \in given => /\ sending[m] \notin {"unsent", "staging", "ready"}
                         /\ Up => m \in seen \/ inbox[m] = "none"

\* A process that ends leaves nothing in progress, and the digest as it is.
DownIsIdle ==
  ~Up => blurred /\ tool = "idle" /\ \A m \in Own : sending[m] # "writing"

\* DigestMirrorsUnlessBlurred, also while a claim is being moved, but for its copy.
DigestFollows ==
  /\ tool = "idle"
  /\ \A m \in Messages \ leftover : inbox[m] = "whole" => m \in seen
  /\ ~blurred
  => /\ poll \in {"tick", "outbox", "scan", "restore"} => digest = Unread
     /\ poll \in {"place", "fill", "publish", "unplace"}
          => digest \ {cur} = Unread \ {cur}

\* What was written together belongs together.
EntriesFollow == ~blurred => shown = Newest(digest)

\* The visit of an entry, apart from what becomes of it.
OnVisit(m) ==
  /\ poll = "scan" /\ passOn /\ m \in pass
  /\ pass' = pass \ {m} /\ observed' = observed \union {m}
  /\ UNCHANGED <<sending, outbox, read, digest, shown, cur, todo, passOn, tool, drafts>>

Inv ==
  /\ TypeOK /\ CopyFollowsClaim /\ ClaimInHand /\ ClaimAbandoned /\ ArrivedIsSent
  /\ DispatchedIsOver /\ UnsentIsUnseen /\ DownIsIdle
  /\ DigestFollows /\ EntriesFollow /\ EndedIsOver

-----------------------------------------------------------------------------
(* Each step of the senders                                                 *)

LEMMA PeerStagesKeepsInv ==
  ASSUME Inv, NEW m \in Peer, PeerStages(m)
  PROVE  Inv'
  <1> USE MailConstants DEF PeerStages, Sends, Inv, TypeOK
  <1>1. TypeOK' BY DEF ClaimInHand
  <1>2. CopyFollowsClaim' BY DEF CopyFollowsClaim, ClaimInHand
  <1>3. ClaimInHand' BY DEF ClaimInHand
  <1>4. ClaimAbandoned' BY DEF ClaimAbandoned, ClaimInHand
  <1>5. ArrivedIsSent' BY DEF ArrivedIsSent, ClaimInHand
  <1>6. DispatchedIsOver' BY DEF DispatchedIsOver, ClaimInHand, ClaimAbandoned,
      CopyFollowsClaim, ArrivedIsSent
  <1>7. UnsentIsUnseen' BY DEF UnsentIsUnseen, ArrivedIsSent, DownIsIdle,
      ClaimInHand
  <1>8. DownIsIdle' BY DEF DownIsIdle
  <1>9. DigestFollows' BY DEF DigestFollows, UnsentIsUnseen, DownIsIdle, Unread,
      EndedIsOver
  <1>10. EndedIsOver' BY DEF EndedIsOver, ClaimInHand, ArrivedIsSent, DownIsIdle
  <1>11. EntriesFollow' BY DEF EntriesFollow
  <1> QED BY <1>1, <1>2, <1>3, <1>4, <1>5, <1>6, <1>7, <1>8,
    <1>9, <1>10, <1>11

LEMMA PeerPublishesKeepsInv ==
  ASSUME Inv, NEW m \in Peer, PeerPublishes(m)
  PROVE  Inv'
  <1> USE MailConstants DEF PeerPublishes, Sends, Inv, TypeOK
  <1>1. TypeOK' BY DEF ClaimInHand
  <1>2. CopyFollowsClaim' BY DEF CopyFollowsClaim, ClaimInHand
  <1>3. ClaimInHand' BY DEF ClaimInHand
  <1>4. ClaimAbandoned' BY DEF ClaimAbandoned, ClaimInHand
  <1>5. ArrivedIsSent' BY DEF ArrivedIsSent, ClaimInHand
  <1>6. DispatchedIsOver' BY DEF DispatchedIsOver, ClaimInHand, ClaimAbandoned,
      CopyFollowsClaim, ArrivedIsSent
  <1>7. UnsentIsUnseen' BY DEF UnsentIsUnseen, ArrivedIsSent, DownIsIdle,
      ClaimInHand
  <1>8. DownIsIdle' BY DEF DownIsIdle
  <1>9. DigestFollows' BY DEF DigestFollows, UnsentIsUnseen, DownIsIdle, Unread,
      EndedIsOver
  <1>10. EndedIsOver' BY DEF EndedIsOver, ClaimInHand, ArrivedIsSent, DownIsIdle
  <1>11. EntriesFollow' BY DEF EntriesFollow
  <1> QED BY <1>1, <1>2, <1>3, <1>4, <1>5, <1>6, <1>7, <1>8,
    <1>9, <1>10, <1>11

LEMMA PeerFailsKeepsInv ==
  ASSUME Inv, NEW m \in Peer, PeerFails(m)
  PROVE  Inv'
  <1> USE MailConstants DEF PeerFails, Sends, Inv, TypeOK
  <1>1. TypeOK' BY DEF ClaimInHand
  <1>2. CopyFollowsClaim' BY DEF CopyFollowsClaim, ClaimInHand
  <1>3. ClaimInHand' BY DEF ClaimInHand
  <1>4. ClaimAbandoned' BY DEF ClaimAbandoned, ClaimInHand
  <1>5. ArrivedIsSent' BY DEF ArrivedIsSent, ClaimInHand
  <1>6. DispatchedIsOver' BY DEF DispatchedIsOver, ClaimInHand, ClaimAbandoned,
      CopyFollowsClaim, ArrivedIsSent
  <1>7. UnsentIsUnseen' BY DEF UnsentIsUnseen, ArrivedIsSent, DownIsIdle,
      ClaimInHand
  <1>8. DownIsIdle' BY DEF DownIsIdle
  <1>9. DigestFollows' BY DEF DigestFollows, UnsentIsUnseen, DownIsIdle, Unread,
      EndedIsOver
  <1>10. EndedIsOver' BY DEF EndedIsOver, ClaimInHand, ArrivedIsSent, DownIsIdle
  <1>11. EntriesFollow' BY DEF EntriesFollow
  <1> QED BY <1>1, <1>2, <1>3, <1>4, <1>5, <1>6, <1>7, <1>8,
    <1>9, <1>10, <1>11

LEMMA OwnBeginsKeepsInv ==
  ASSUME Inv, NEW m \in Own, OwnBegins(m)
  PROVE  Inv'
  <1> USE MailConstants DEF OwnBegins, Sends, Inv, TypeOK
  <1>1. TypeOK' BY DEF ClaimInHand
  <1>2. CopyFollowsClaim' BY DEF CopyFollowsClaim, ClaimInHand
  <1>3. ClaimInHand' BY DEF ClaimInHand
  <1>4. ClaimAbandoned' BY DEF ClaimAbandoned, ClaimInHand
  <1>5. ArrivedIsSent' BY DEF ArrivedIsSent, ClaimInHand
  <1>6. DispatchedIsOver' BY DEF DispatchedIsOver, ClaimInHand, ClaimAbandoned,
      CopyFollowsClaim, ArrivedIsSent
  <1>7. UnsentIsUnseen' BY DEF UnsentIsUnseen, ArrivedIsSent, DownIsIdle,
      ClaimInHand
  <1>8. DownIsIdle' BY DEF DownIsIdle
  <1>9. DigestFollows' BY DEF DigestFollows, UnsentIsUnseen, DownIsIdle, Unread,
      EndedIsOver
  <1>10. EndedIsOver' BY DEF EndedIsOver, ClaimInHand, ArrivedIsSent, DownIsIdle
  <1>11. EntriesFollow' BY DEF EntriesFollow
  <1> QED BY <1>1, <1>2, <1>3, <1>4, <1>5, <1>6, <1>7, <1>8,
    <1>9, <1>10, <1>11

LEMMA OwnWritesPartKeepsInv ==
  ASSUME Inv, NEW m \in Own, OwnWritesPart(m)
  PROVE  Inv'
  <1> USE MailConstants DEF OwnWritesPart, Inv, TypeOK
  <1>1. TypeOK' BY DEF ClaimInHand
  <1>2. CopyFollowsClaim' BY DEF CopyFollowsClaim, ClaimInHand
  <1>3. ClaimInHand' BY DEF ClaimInHand
  <1>4. ClaimAbandoned' BY DEF ClaimAbandoned, ClaimInHand
  <1>5. ArrivedIsSent' BY DEF ArrivedIsSent, ClaimInHand
  <1>6. DispatchedIsOver' BY DEF DispatchedIsOver, ClaimInHand, ClaimAbandoned,
      CopyFollowsClaim, ArrivedIsSent
  <1>7. UnsentIsUnseen' BY DEF UnsentIsUnseen, ArrivedIsSent, DownIsIdle,
      ClaimInHand
  <1>8. DownIsIdle' BY DEF DownIsIdle
  <1>9. DigestFollows' BY DEF DigestFollows, UnsentIsUnseen, DownIsIdle, Unread,
      EndedIsOver
  <1>10. EndedIsOver' BY DEF EndedIsOver, ClaimInHand, ArrivedIsSent, DownIsIdle
  <1>11. EntriesFollow' BY DEF EntriesFollow
  <1> QED BY <1>1, <1>2, <1>3, <1>4, <1>5, <1>6, <1>7, <1>8,
    <1>9, <1>10, <1>11

LEMMA OwnEndsKeepsInv ==
  ASSUME Inv, NEW m \in Own, OwnEnds(m)
  PROVE  Inv'
  <1> USE MailConstants DEF OwnEnds, Sends, Inv, TypeOK
  <1>1. TypeOK' BY DEF ClaimInHand
  <1>2. CopyFollowsClaim' BY DEF CopyFollowsClaim, ClaimInHand
  <1>3. ClaimInHand' BY DEF ClaimInHand
  <1>4. ClaimAbandoned' BY DEF ClaimAbandoned, ClaimInHand
  <1>5. ArrivedIsSent' BY DEF ArrivedIsSent, ClaimInHand
  <1>6. DispatchedIsOver' BY DEF DispatchedIsOver, ClaimInHand, ClaimAbandoned,
      CopyFollowsClaim, ArrivedIsSent
  <1>7. UnsentIsUnseen' BY DEF UnsentIsUnseen, ArrivedIsSent, DownIsIdle,
      ClaimInHand
  <1>8. DownIsIdle' BY DEF DownIsIdle
  <1>9. DigestFollows'
    <2>1. CASE m \in given BY <2>1 DEF DigestFollows
    <2>2. CASE inbox[m] = "none" BY <2>2 DEF DigestFollows, Unread
    <2>3. CASE m \notin given /\ inbox[m] # "none"
      <3>1. m \notin leftover' /\ inbox'[m] = "whole" /\ m \notin seen'
        BY <2>3 DEF UnsentIsUnseen, EndedIsOver
      <3> QED BY <3>1 DEF DigestFollows
    <2> QED BY <2>1, <2>2, <2>3
  <1>10. EndedIsOver' BY DEF EndedIsOver, ClaimInHand, ArrivedIsSent, DownIsIdle
  <1>11. EntriesFollow' BY DEF EntriesFollow
  <1> QED BY <1>1, <1>2, <1>3, <1>4, <1>5, <1>6, <1>7, <1>8,
    <1>9, <1>10, <1>11

-----------------------------------------------------------------------------
(* Each step of the rival                                                   *)

LEMMA RivalKeepsInv ==
  ASSUME Inv, NEW m \in Pseudo, Rival(m)
  PROVE  Inv'
  <1> USE MailConstants DEF Rival, Inv, TypeOK
  <1>1. TypeOK' BY DEF ClaimInHand
  <1>2. CopyFollowsClaim' BY DEF CopyFollowsClaim, ClaimInHand
  <1>3. ClaimInHand' BY DEF ClaimInHand
  <1>4. ClaimAbandoned' BY DEF ClaimAbandoned, ClaimInHand
  <1>5. ArrivedIsSent' BY DEF ArrivedIsSent, ClaimInHand
  <1>6. DispatchedIsOver' BY DEF DispatchedIsOver, ClaimInHand, ClaimAbandoned,
      CopyFollowsClaim, ArrivedIsSent
  <1>7. UnsentIsUnseen' BY DEF UnsentIsUnseen, ArrivedIsSent, DownIsIdle,
      ClaimInHand
  <1>8. DownIsIdle' BY DEF DownIsIdle
  <1>9. DigestFollows' BY DEF DigestFollows, UnsentIsUnseen, DownIsIdle, Unread,
      EndedIsOver
  <1>10. EndedIsOver' BY DEF EndedIsOver, ClaimInHand, ArrivedIsSent, DownIsIdle
  <1>11. EntriesFollow' BY DEF EntriesFollow
  <1> QED BY <1>1, <1>2, <1>3, <1>4, <1>5, <1>6, <1>7, <1>8,
    <1>9, <1>10, <1>11

-----------------------------------------------------------------------------
(* Each step of the poll thread in the outbox                               *)

LEMMA ListOutboxKeepsInv ==
  ASSUME Inv, ListOutbox
  PROVE  Inv'
  <1> USE MailConstants DEF ListOutbox, Inv, TypeOK
  <1>1. TypeOK' BY DEF ClaimInHand
  <1>2. CopyFollowsClaim' BY DEF CopyFollowsClaim, ClaimInHand
  <1>3. ClaimInHand' BY DEF ClaimInHand
  <1>4. ClaimAbandoned' BY DEF ClaimAbandoned, ClaimInHand
  <1>5. ArrivedIsSent' BY DEF ArrivedIsSent, ClaimInHand
  <1>6. DispatchedIsOver' BY DEF DispatchedIsOver, ClaimInHand, ClaimAbandoned,
      CopyFollowsClaim, ArrivedIsSent
  <1>7. UnsentIsUnseen' BY DEF UnsentIsUnseen, ArrivedIsSent, DownIsIdle,
      ClaimInHand
  <1>8. DownIsIdle' BY DEF DownIsIdle
  <1>9. DigestFollows' BY DEF DigestFollows, UnsentIsUnseen, DownIsIdle, Unread,
      EndedIsOver
  <1>10. EndedIsOver' BY DEF EndedIsOver, ClaimInHand, ArrivedIsSent, DownIsIdle
  <1>11. EntriesFollow' BY DEF EntriesFollow
  <1> QED BY <1>1, <1>2, <1>3, <1>4, <1>5, <1>6, <1>7, <1>8,
    <1>9, <1>10, <1>11

LEMMA ClaimKeepsInv ==
  ASSUME Inv, NEW m \in Pseudo, Claim(m)
  PROVE  Inv'
  <1> USE MailConstants DEF Claim, Inv, TypeOK
  <1>1. TypeOK' BY DEF ClaimInHand
  <1>2. CopyFollowsClaim' BY DEF CopyFollowsClaim, ClaimInHand
  <1>3. ClaimInHand' BY DEF ClaimInHand
  <1>4. ClaimAbandoned' BY DEF ClaimAbandoned, ClaimInHand
  <1>5. ArrivedIsSent' BY DEF ArrivedIsSent, ClaimInHand
  <1>6. DispatchedIsOver' BY DEF DispatchedIsOver, ClaimInHand, ClaimAbandoned,
      CopyFollowsClaim, ArrivedIsSent
  <1>7. UnsentIsUnseen' BY DEF UnsentIsUnseen, ArrivedIsSent, DownIsIdle,
      ClaimInHand
  <1>8. DownIsIdle' BY DEF DownIsIdle
  <1>9. DigestFollows'
    <2>1. CASE outbox[m] = "outbox"
      <3>1. inbox[m] # "whole" \/ m \in leftover BY <2>1 DEF CopyFollowsClaim
      <3> QED BY <2>1, <3>1 DEF DigestFollows, Unread
    <2>2. CASE outbox[m] # "outbox" BY <2>2 DEF DigestFollows, Unread
    <2> QED BY <2>1, <2>2
  <1>10. EndedIsOver' BY DEF EndedIsOver, ClaimInHand, ArrivedIsSent, DownIsIdle
  <1>11. EntriesFollow' BY DEF EntriesFollow
  <1> QED BY <1>1, <1>2, <1>3, <1>4, <1>5, <1>6, <1>7, <1>8,
    <1>9, <1>10, <1>11

LEMMA OutboxDoneKeepsInv ==
  ASSUME Inv, OutboxDone
  PROVE  Inv'
  <1> USE MailConstants DEF OutboxDone, Inv, TypeOK
  <1>1. TypeOK' BY DEF ClaimInHand
  <1>2. CopyFollowsClaim' BY DEF CopyFollowsClaim, ClaimInHand
  <1>3. ClaimInHand' BY DEF ClaimInHand
  <1>4. ClaimAbandoned' BY DEF ClaimAbandoned, ClaimInHand
  <1>5. ArrivedIsSent' BY DEF ArrivedIsSent, ClaimInHand
  <1>6. DispatchedIsOver' BY DEF DispatchedIsOver, ClaimInHand, ClaimAbandoned,
      CopyFollowsClaim, ArrivedIsSent
  <1>7. UnsentIsUnseen' BY DEF UnsentIsUnseen, ArrivedIsSent, DownIsIdle,
      ClaimInHand
  <1>8. DownIsIdle' BY DEF DownIsIdle
  <1>9. DigestFollows' BY DEF DigestFollows, UnsentIsUnseen, DownIsIdle, Unread,
      EndedIsOver
  <1>10. EndedIsOver' BY DEF EndedIsOver, ClaimInHand, ArrivedIsSent, DownIsIdle
  <1>11. EntriesFollow' BY DEF EntriesFollow
  <1> QED BY <1>1, <1>2, <1>3, <1>4, <1>5, <1>6, <1>7, <1>8,
    <1>9, <1>10, <1>11

LEMMA PlaceKeepsInv ==
  ASSUME Inv, Place
  PROVE  Inv'
  <1> USE MailConstants DEF Place, Inv, TypeOK
  <1>1. TypeOK' BY DEF ClaimInHand
  <1>2. CopyFollowsClaim' BY DEF CopyFollowsClaim, ClaimInHand
  <1>3. ClaimInHand' BY DEF ClaimInHand
  <1>4. ClaimAbandoned' BY DEF ClaimAbandoned, ClaimInHand
  <1>5. ArrivedIsSent' BY DEF ArrivedIsSent, ClaimInHand
  <1>6. DispatchedIsOver' BY DEF DispatchedIsOver, ClaimInHand, ClaimAbandoned,
      CopyFollowsClaim, ArrivedIsSent
  <1>7. UnsentIsUnseen' BY DEF UnsentIsUnseen, ArrivedIsSent, DownIsIdle,
      ClaimInHand
  <1>8. DownIsIdle' BY DEF DownIsIdle
  <1>9. DigestFollows' BY DEF DigestFollows, UnsentIsUnseen, DownIsIdle, Unread,
      EndedIsOver
  <1>10. EndedIsOver' BY DEF EndedIsOver, ClaimInHand, ArrivedIsSent, DownIsIdle
  <1>11. EntriesFollow' BY DEF EntriesFollow
  <1> QED BY <1>1, <1>2, <1>3, <1>4, <1>5, <1>6, <1>7, <1>8,
    <1>9, <1>10, <1>11

LEMMA FillKeepsInv ==
  ASSUME Inv, Fill
  PROVE  Inv'
  <1> USE MailConstants DEF Fill, Inv, TypeOK
  <1>1. TypeOK' BY DEF ClaimInHand
  <1>2. CopyFollowsClaim' BY DEF CopyFollowsClaim, ClaimInHand
  <1>3. ClaimInHand' BY DEF ClaimInHand
  <1>4. ClaimAbandoned' BY DEF ClaimAbandoned, ClaimInHand
  <1>5. ArrivedIsSent' BY DEF ArrivedIsSent, ClaimInHand
  <1>6. DispatchedIsOver' BY DEF DispatchedIsOver, ClaimInHand, ClaimAbandoned,
      CopyFollowsClaim, ArrivedIsSent
  <1>7. UnsentIsUnseen' BY DEF UnsentIsUnseen, ArrivedIsSent, DownIsIdle,
      ClaimInHand
  <1>8. DownIsIdle' BY DEF DownIsIdle
  <1>9. DigestFollows' BY DEF DigestFollows, UnsentIsUnseen, DownIsIdle, Unread,
      EndedIsOver
  <1>10. EndedIsOver' BY DEF EndedIsOver, ClaimInHand, ArrivedIsSent, DownIsIdle
  <1>11. EntriesFollow' BY DEF EntriesFollow
  <1> QED BY <1>1, <1>2, <1>3, <1>4, <1>5, <1>6, <1>7, <1>8,
    <1>9, <1>10, <1>11

LEMMA PublishClaimKeepsInv ==
  ASSUME Inv, PublishClaim
  PROVE  Inv'
  <1> USE MailConstants DEF PublishClaim, Dispatch, Inv, TypeOK
  <1>1. TypeOK' BY DEF ClaimInHand
  <1>2. CopyFollowsClaim' BY DEF CopyFollowsClaim, ClaimInHand
  <1>3. ClaimInHand' BY DEF ClaimInHand
  <1>4. ClaimAbandoned' BY DEF ClaimAbandoned, ClaimInHand
  <1>5. ArrivedIsSent' BY DEF ArrivedIsSent, ClaimInHand
  <1>6. DispatchedIsOver' BY DEF DispatchedIsOver, ClaimInHand, ClaimAbandoned,
      CopyFollowsClaim, ArrivedIsSent
  <1>7. UnsentIsUnseen' BY DEF UnsentIsUnseen, ArrivedIsSent, DownIsIdle,
      ClaimInHand
  <1>8. DownIsIdle' BY DEF DownIsIdle
  <1>9. DigestFollows' BY DEF DigestFollows, UnsentIsUnseen, DownIsIdle, Unread,
      EndedIsOver
  <1>10. EndedIsOver' BY DEF EndedIsOver, ClaimInHand, ArrivedIsSent, DownIsIdle
  <1>11. EntriesFollow' BY DEF EntriesFollow
  <1> QED BY <1>1, <1>2, <1>3, <1>4, <1>5, <1>6, <1>7, <1>8,
    <1>9, <1>10, <1>11

LEMMA UnplaceKeepsInv ==
  ASSUME Inv, Unplace
  PROVE  Inv'
  <1> USE MailConstants DEF Unplace, Inv, TypeOK
  <1>1. TypeOK' BY DEF ClaimInHand
  <1>2. CopyFollowsClaim' BY DEF CopyFollowsClaim, ClaimInHand
  <1>3. ClaimInHand' BY DEF ClaimInHand
  <1>4. ClaimAbandoned' BY DEF ClaimAbandoned, ClaimInHand
  <1>5. ArrivedIsSent' BY DEF ArrivedIsSent, ClaimInHand
  <1>6. DispatchedIsOver' BY DEF DispatchedIsOver, ClaimInHand, ClaimAbandoned,
      CopyFollowsClaim, ArrivedIsSent
  <1>7. UnsentIsUnseen' BY DEF UnsentIsUnseen, ArrivedIsSent, DownIsIdle,
      ClaimInHand
  <1>8. DownIsIdle' BY DEF DownIsIdle
  <1>9. DigestFollows'
    <2> SUFFICES ASSUME tool = "idle", ~blurred', cur \in Pseudo, cur \in seen,
                   \A m \in Messages \ leftover' : inbox'[m] = "whole" => m \in seen
                 PROVE  digest = Unread'
      BY DEF DigestFollows, ClaimInHand
    <2>1. \A m \in Messages \ leftover : inbox[m] = "whole" => m \in seen OBVIOUS
    <2>2. digest \ {cur} = Unread \ {cur} BY <2>1 DEF DigestFollows
    <2>3. Unread' \ {cur} = Unread \ {cur} BY DEF Unread
    <2>4. cur \in digest <=> cur \in Unread' BY DEF Misjudges, Unread
    <2>5. \A i : i \in digest <=> i \in Unread' BY <2>2, <2>3, <2>4
    <2> QED BY <2>5
  <1>10. EndedIsOver' BY DEF EndedIsOver, ClaimInHand, ArrivedIsSent, DownIsIdle
  <1>11. EntriesFollow' BY DEF EntriesFollow
  <1> QED BY <1>1, <1>2, <1>3, <1>4, <1>5, <1>6, <1>7, <1>8,
    <1>9, <1>10, <1>11

LEMMA RestoreKeepsInv ==
  ASSUME Inv, Restore
  PROVE  Inv'
  <1> USE MailConstants DEF Restore, Inv, TypeOK
  <1>1. TypeOK' BY DEF ClaimInHand
  <1>2. CopyFollowsClaim' BY DEF CopyFollowsClaim, ClaimInHand
  <1>3. ClaimInHand' BY DEF ClaimInHand
  <1>4. ClaimAbandoned' BY DEF ClaimAbandoned, ClaimInHand
  <1>5. ArrivedIsSent' BY DEF ArrivedIsSent, ClaimInHand
  <1>6. DispatchedIsOver' BY DEF DispatchedIsOver, ClaimInHand, ClaimAbandoned,
      CopyFollowsClaim, ArrivedIsSent
  <1>7. UnsentIsUnseen' BY DEF UnsentIsUnseen, ArrivedIsSent, DownIsIdle,
      ClaimInHand
  <1>8. DownIsIdle' BY DEF DownIsIdle
  <1>9. DigestFollows' BY DEF DigestFollows, UnsentIsUnseen, DownIsIdle, Unread,
      EndedIsOver
  <1>10. EndedIsOver' BY DEF EndedIsOver, ClaimInHand, ArrivedIsSent, DownIsIdle
  <1>11. EntriesFollow' BY DEF EntriesFollow
  <1> QED BY <1>1, <1>2, <1>3, <1>4, <1>5, <1>6, <1>7, <1>8,
    <1>9, <1>10, <1>11

-----------------------------------------------------------------------------
(* Each step of the poll thread in the inbox                                *)

LEMMA StartPassKeepsInv ==
  ASSUME Inv, StartPass
  PROVE  Inv'
  <1> USE MailConstants DEF StartPass, Entries, Inv, TypeOK
  <1>1. TypeOK' BY DEF ClaimInHand
  <1>2. CopyFollowsClaim' BY DEF CopyFollowsClaim, ClaimInHand
  <1>3. ClaimInHand' BY DEF ClaimInHand
  <1>4. ClaimAbandoned' BY DEF ClaimAbandoned, ClaimInHand
  <1>5. ArrivedIsSent' BY DEF ArrivedIsSent, ClaimInHand
  <1>6. DispatchedIsOver' BY DEF DispatchedIsOver, ClaimInHand, ClaimAbandoned,
      CopyFollowsClaim, ArrivedIsSent
  <1>7. UnsentIsUnseen' BY DEF UnsentIsUnseen, ArrivedIsSent, DownIsIdle,
      ClaimInHand
  <1>8. DownIsIdle' BY DEF DownIsIdle
  <1>9. DigestFollows' BY DEF DigestFollows, UnsentIsUnseen, DownIsIdle, Unread,
      EndedIsOver
  <1>10. EndedIsOver' BY DEF EndedIsOver, ClaimInHand, ArrivedIsSent, DownIsIdle
  <1>11. EntriesFollow' BY DEF EntriesFollow
  <1> QED BY <1>1, <1>2, <1>3, <1>4, <1>5, <1>6, <1>7, <1>8,
    <1>9, <1>10, <1>11

LEMMA SkipKeepsInv ==
  ASSUME Inv, NEW m \in Messages, OnVisit(m), Skip(m)
  PROVE  Inv'
  <1> USE MailConstants DEF OnVisit, Skip, VisitDone, Inv, TypeOK
  <1>1. TypeOK' BY DEF ClaimInHand
  <1>2. CopyFollowsClaim' BY DEF CopyFollowsClaim, ClaimInHand
  <1>3. ClaimInHand' BY DEF ClaimInHand
  <1>4. ClaimAbandoned' BY DEF ClaimAbandoned, ClaimInHand
  <1>5. ArrivedIsSent' BY DEF ArrivedIsSent, ClaimInHand
  <1>6. DispatchedIsOver' BY DEF DispatchedIsOver, ClaimInHand, ClaimAbandoned,
      CopyFollowsClaim, ArrivedIsSent
  <1>7. UnsentIsUnseen' BY DEF UnsentIsUnseen, ArrivedIsSent, DownIsIdle,
      ClaimInHand
  <1>8. DownIsIdle' BY DEF DownIsIdle
  <1>9. DigestFollows' BY DEF DigestFollows, UnsentIsUnseen, DownIsIdle, Unread,
      EndedIsOver
  <1>10. EndedIsOver' BY DEF EndedIsOver, ClaimInHand, ArrivedIsSent, DownIsIdle
  <1>11. EntriesFollow' BY DEF EntriesFollow
  <1> QED BY <1>1, <1>2, <1>3, <1>4, <1>5, <1>6, <1>7, <1>8,
    <1>9, <1>10, <1>11

LEMMA GarbledKeepsInv ==
  ASSUME Inv, NEW m \in Messages, OnVisit(m), Garbled(m)
  PROVE  Inv'
  <1> USE MailConstants DEF OnVisit, Garbled, DeadLetter, VisitDone, Inv, TypeOK
  <1>1. TypeOK'
    <2>1. failed' \in [Messages -> 0..(Retries - 1)] OBVIOUS
    <2>2. inbox' \in [Messages -> {"none", "dir", "part", "whole"}] OBVIOUS
    <2>3. blurred' \in BOOLEAN BY Zenon
    <2> QED BY <2>1, <2>2, <2>3
  <1>2. CopyFollowsClaim' BY DEF CopyFollowsClaim, ClaimInHand
  <1>3. ClaimInHand' BY DEF ClaimInHand
  <1>4. ClaimAbandoned' BY DEF ClaimAbandoned, ClaimInHand
  <1>5. ArrivedIsSent' BY DEF ArrivedIsSent, ClaimInHand
  <1>6. DispatchedIsOver' BY DEF DispatchedIsOver, ClaimInHand, ClaimAbandoned,
      CopyFollowsClaim, ArrivedIsSent
  <1>7. UnsentIsUnseen' BY DEF UnsentIsUnseen, ArrivedIsSent, DownIsIdle,
      ClaimInHand
  <1>8. DownIsIdle' BY DEF DownIsIdle
  <1>9. DigestFollows' BY DEF DigestFollows, UnsentIsUnseen, DownIsIdle, Unread,
      EndedIsOver
  <1>10. EndedIsOver'
    <2>1. \A k \in Messages : k \in given' /\ k \notin given => k = m OBVIOUS
    <2>2. sending' = sending /\ leftover' = leftover /\ gone' = gone OBVIOUS
    <2> QED BY <2>1, <2>2 DEF EndedIsOver, UnsentIsUnseen
  <1>11. EntriesFollow' BY DEF EntriesFollow
  <1> QED BY <1>1, <1>2, <1>3, <1>4, <1>5, <1>6, <1>7, <1>8,
    <1>9, <1>10, <1>11

LEMMA UnreadableKeepsInv ==
  ASSUME Inv, NEW m \in Messages, OnVisit(m), Unreadable(m)
  PROVE  Inv'
  <1> USE MailConstants DEF OnVisit, Unreadable, DeadLetter, VisitDone, Inv,
    TypeOK
  <1>1. TypeOK' BY DEF ClaimInHand
  <1>2. CopyFollowsClaim' BY DEF CopyFollowsClaim, ClaimInHand
  <1>3. ClaimInHand' BY DEF ClaimInHand
  <1>4. ClaimAbandoned' BY DEF ClaimAbandoned, ClaimInHand
  <1>5. ArrivedIsSent' BY DEF ArrivedIsSent, ClaimInHand
  <1>6. DispatchedIsOver' BY DEF DispatchedIsOver, ClaimInHand, ClaimAbandoned,
      CopyFollowsClaim, ArrivedIsSent
  <1>7. UnsentIsUnseen' BY DEF UnsentIsUnseen, ArrivedIsSent, DownIsIdle,
      ClaimInHand
  <1>8. DownIsIdle' BY DEF DownIsIdle
  <1>9. DigestFollows'
    <2>1. CASE m \in seen' BY <2>1 DEF DigestFollows
    <2>2. CASE m \notin seen'
      <3>1. UNCHANGED <<inbox, seen, blurred, given>> BY <2>2
      <3> QED BY <3>1 DEF DigestFollows, Unread
    <2> QED BY <2>1, <2>2
  <1>10. EndedIsOver' BY DEF EndedIsOver, ClaimInHand, ArrivedIsSent, DownIsIdle
  <1>11. EntriesFollow' BY DEF EntriesFollow
  <1> QED BY <1>1, <1>2, <1>3, <1>4, <1>5, <1>6, <1>7, <1>8,
    <1>9, <1>10, <1>11

LEMMA AcceptKeepsInv ==
  ASSUME Inv, NEW m \in Messages, OnVisit(m), Accept(m)
  PROVE  Inv'
  <1> USE MailConstants DEF OnVisit, Accept, Dispatch, Inv, TypeOK
  <1>1. TypeOK' BY DEF ClaimInHand
  <1>2. CopyFollowsClaim' BY DEF CopyFollowsClaim, ClaimInHand
  <1>3. ClaimInHand' BY DEF ClaimInHand
  <1>4. ClaimAbandoned' BY DEF ClaimAbandoned, ClaimInHand
  <1>5. ArrivedIsSent' BY DEF ArrivedIsSent, ClaimInHand
  <1>6. DispatchedIsOver' BY DEF DispatchedIsOver, ClaimInHand, ClaimAbandoned,
      CopyFollowsClaim, ArrivedIsSent
  <1>7. UnsentIsUnseen' BY DEF UnsentIsUnseen, ArrivedIsSent, DownIsIdle,
      ClaimInHand
  <1>8. DownIsIdle' BY DEF DownIsIdle
  <1>9. DigestFollows' BY DEF DigestFollows, UnsentIsUnseen, DownIsIdle, Unread,
      EndedIsOver
  <1>10. EndedIsOver' BY DEF EndedIsOver, ClaimInHand, ArrivedIsSent, DownIsIdle
  <1>11. EntriesFollow' BY DEF EntriesFollow
  <1> QED BY <1>1, <1>2, <1>3, <1>4, <1>5, <1>6, <1>7, <1>8,
    <1>9, <1>10, <1>11

LEMMA EndPassKeepsInv ==
  ASSUME Inv, EndPass
  PROVE  Inv'
  <1> USE MailConstants DEF EndPass, Prune, Inv, TypeOK
  <1>1. TypeOK' BY DEF ClaimInHand
  <1>2. CopyFollowsClaim' BY DEF CopyFollowsClaim, ClaimInHand
  <1>3. ClaimInHand' BY DEF ClaimInHand
  <1>4. ClaimAbandoned' BY DEF ClaimAbandoned, ClaimInHand
  <1>5. ArrivedIsSent' BY DEF ArrivedIsSent, ClaimInHand
  <1>6. DispatchedIsOver' BY DEF DispatchedIsOver, ClaimInHand, ClaimAbandoned,
      CopyFollowsClaim, ArrivedIsSent
  <1>7. UnsentIsUnseen' BY DEF UnsentIsUnseen, ArrivedIsSent, DownIsIdle,
      ClaimInHand
  <1>8. DownIsIdle' BY DEF DownIsIdle
  <1>9. DigestFollows' BY DEF DigestFollows, UnsentIsUnseen, DownIsIdle, Unread,
      EndedIsOver
  <1>10. EndedIsOver' BY DEF EndedIsOver, ClaimInHand, ArrivedIsSent, DownIsIdle
  <1>11. EntriesFollow' BY DEF EntriesFollow
  <1> QED BY <1>1, <1>2, <1>3, <1>4, <1>5, <1>6, <1>7, <1>8,
    <1>9, <1>10, <1>11

-----------------------------------------------------------------------------
(* Each step of the turn and the rendering threads                          *)

LEMMA MarkReadKeepsInv ==
  ASSUME Inv, NEW m \in Messages, MarkRead(m)
  PROVE  Inv'
  <1> USE MailConstants DEF MarkRead, Unread, Inv, TypeOK
  <1>1. TypeOK' BY DEF ClaimInHand
  <1>2. CopyFollowsClaim' BY DEF CopyFollowsClaim, ClaimInHand
  <1>3. ClaimInHand' BY DEF ClaimInHand
  <1>4. ClaimAbandoned' BY DEF ClaimAbandoned, ClaimInHand
  <1>5. ArrivedIsSent' BY DEF ArrivedIsSent, ClaimInHand
  <1>6. DispatchedIsOver' BY DEF DispatchedIsOver, ClaimInHand, ClaimAbandoned,
      CopyFollowsClaim, ArrivedIsSent
  <1>7. UnsentIsUnseen' BY DEF UnsentIsUnseen, ArrivedIsSent, DownIsIdle,
      ClaimInHand
  <1>8. DownIsIdle' BY DEF DownIsIdle, MayHandle
  <1>9. DigestFollows' BY DEF DigestFollows, UnsentIsUnseen, DownIsIdle, Unread,
      EndedIsOver
  <1>10. EndedIsOver' BY DEF EndedIsOver, ClaimInHand, ArrivedIsSent, DownIsIdle
  <1>11. EntriesFollow' BY DEF EntriesFollow
  <1> QED BY <1>1, <1>2, <1>3, <1>4, <1>5, <1>6, <1>7, <1>8,
    <1>9, <1>10, <1>11

LEMMA RemoveKeepsInv ==
  ASSUME Inv, NEW m \in Messages, Remove(m)
  PROVE  Inv'
  <1> USE MailConstants DEF Remove, Inv, TypeOK
  <1>1. TypeOK' BY DEF ClaimInHand
  <1>2. CopyFollowsClaim' BY DEF CopyFollowsClaim, ClaimInHand
  <1>3. ClaimInHand' BY DEF ClaimInHand
  <1>4. ClaimAbandoned' BY DEF ClaimAbandoned, ClaimInHand
  <1>5. ArrivedIsSent' BY DEF ArrivedIsSent, ClaimInHand
  <1>6. DispatchedIsOver' BY DEF DispatchedIsOver, ClaimInHand, ClaimAbandoned,
      CopyFollowsClaim, ArrivedIsSent
  <1>7. UnsentIsUnseen' BY DEF UnsentIsUnseen, ArrivedIsSent, DownIsIdle,
      ClaimInHand
  <1>8. DownIsIdle' BY DEF DownIsIdle, MayHandle
  <1>9. DigestFollows' BY DEF DigestFollows, UnsentIsUnseen, DownIsIdle, Unread,
      EndedIsOver
  <1>10. EndedIsOver' BY DEF EndedIsOver, ClaimInHand, ArrivedIsSent, DownIsIdle
  <1>11. EntriesFollow' BY DEF EntriesFollow
  <1> QED BY <1>1, <1>2, <1>3, <1>4, <1>5, <1>6, <1>7, <1>8,
    <1>9, <1>10, <1>11

LEMMA RenderListKeepsInv ==
  ASSUME Inv, NEW t \in {"poll", "tool"}, RenderList(t)
  PROVE  Inv'
  <1> USE MailConstants DEF RenderList, Listed, Unread, Inv, TypeOK
  <1>1. TypeOK' BY DEF ClaimInHand
  <1>2. CopyFollowsClaim' BY DEF CopyFollowsClaim, ClaimInHand
  <1>3. ClaimInHand' BY DEF ClaimInHand
  <1>4. ClaimAbandoned' BY DEF ClaimAbandoned, ClaimInHand
  <1>5. ArrivedIsSent' BY DEF ArrivedIsSent, ClaimInHand
  <1>6. DispatchedIsOver' BY DEF DispatchedIsOver, ClaimInHand, ClaimAbandoned,
      CopyFollowsClaim, ArrivedIsSent
  <1>7. UnsentIsUnseen' BY DEF UnsentIsUnseen, ArrivedIsSent, DownIsIdle,
      ClaimInHand
  <1>8. DownIsIdle' BY DEF DownIsIdle
  <1>9. DigestFollows' BY DEF DigestFollows, UnsentIsUnseen, DownIsIdle, Unread,
      EndedIsOver
  <1>10. EndedIsOver' BY DEF EndedIsOver, ClaimInHand, ArrivedIsSent, DownIsIdle
  <1>11. EntriesFollow' BY DEF EntriesFollow
  <1> QED BY <1>1, <1>2, <1>3, <1>4, <1>5, <1>6, <1>7, <1>8,
    <1>9, <1>10, <1>11

LEMMA RenderPickKeepsInv ==
  ASSUME Inv, NEW t \in {"poll", "tool"}, RenderPick(t)
  PROVE  Inv'
  <1> USE MailConstants DEF RenderPick, Inv, TypeOK
  <1>1. TypeOK' BY DEF ClaimInHand, Newest, Listed, Unread
  <1>2. CopyFollowsClaim' BY DEF CopyFollowsClaim, ClaimInHand
  <1>3. ClaimInHand' BY DEF ClaimInHand
  <1>4. ClaimAbandoned' BY DEF ClaimAbandoned, ClaimInHand
  <1>5. ArrivedIsSent' BY DEF ArrivedIsSent, ClaimInHand
  <1>6. DispatchedIsOver' BY DEF DispatchedIsOver, ClaimInHand, ClaimAbandoned,
      CopyFollowsClaim, ArrivedIsSent
  <1>7. UnsentIsUnseen' BY DEF UnsentIsUnseen, ArrivedIsSent, DownIsIdle,
      ClaimInHand
  <1>8. DownIsIdle' BY DEF DownIsIdle
  <1>9. DigestFollows' BY DEF DigestFollows, UnsentIsUnseen, DownIsIdle, Unread,
      EndedIsOver
  <1>10. EndedIsOver' BY DEF EndedIsOver, ClaimInHand, ArrivedIsSent, DownIsIdle
  <1>11. EntriesFollow' BY DEF EntriesFollow
  <1> QED BY <1>1, <1>2, <1>3, <1>4, <1>5, <1>6, <1>7, <1>8,
    <1>9, <1>10, <1>11

LEMMA RenderFailsKeepsInv ==
  ASSUME Inv, NEW t \in {"poll", "tool"}, RenderFails(t)
  PROVE  Inv'
  <1> USE MailConstants DEF RenderFails, RenderEnds, Inv, TypeOK
  <1>1. TypeOK' BY DEF ClaimInHand
  <1>2. CopyFollowsClaim' BY DEF CopyFollowsClaim, ClaimInHand
  <1>3. ClaimInHand' BY DEF ClaimInHand
  <1>4. ClaimAbandoned' BY DEF ClaimAbandoned, ClaimInHand
  <1>5. ArrivedIsSent' BY DEF ArrivedIsSent, ClaimInHand
  <1>6. DispatchedIsOver' BY DEF DispatchedIsOver, ClaimInHand, ClaimAbandoned,
      CopyFollowsClaim, ArrivedIsSent
  <1>7. UnsentIsUnseen' BY DEF UnsentIsUnseen, ArrivedIsSent, DownIsIdle,
      ClaimInHand
  <1>8. DownIsIdle' BY DEF DownIsIdle
  <1>9. DigestFollows'
    <2>1. ~blurred' => digest = Unread /\ UNCHANGED <<digest, Unread>> BY DEF Unread
    <2> QED BY <2>1 DEF DigestFollows
  <1>10. EndedIsOver' BY DEF EndedIsOver, ClaimInHand, ArrivedIsSent, DownIsIdle
  <1>11. EntriesFollow' BY DEF EntriesFollow
  <1> QED BY <1>1, <1>2, <1>3, <1>4, <1>5, <1>6, <1>7, <1>8,
    <1>9, <1>10, <1>11

LEMMA RenderWriteKeepsInv ==
  ASSUME Inv, NEW t \in {"poll", "tool"}, RenderWrite(t)
  PROVE  Inv'
  <1> USE MailConstants DEF RenderWrite, RenderEnds, Inv, TypeOK
  <1>1. TypeOK' BY DEF ClaimInHand
  <1>2. CopyFollowsClaim' BY DEF CopyFollowsClaim, ClaimInHand
  <1>3. ClaimInHand' BY DEF ClaimInHand
  <1>4. ClaimAbandoned' BY DEF ClaimAbandoned, ClaimInHand
  <1>5. ArrivedIsSent' BY DEF ArrivedIsSent, ClaimInHand
  <1>6. DispatchedIsOver' BY DEF DispatchedIsOver, ClaimInHand, ClaimAbandoned,
      CopyFollowsClaim, ArrivedIsSent
  <1>7. UnsentIsUnseen' BY DEF UnsentIsUnseen, ArrivedIsSent, DownIsIdle,
      ClaimInHand
  <1>8. DownIsIdle' BY DEF DownIsIdle
  <1>9. DigestFollows'
    <2>1. ~blurred' => digest' = Unread /\ UNCHANGED Unread BY DEF Unread
    <2> QED BY <2>1 DEF DigestFollows
  <1>10. EndedIsOver' BY DEF EndedIsOver, ClaimInHand, ArrivedIsSent, DownIsIdle
  <1>11. EntriesFollow' BY DEF EntriesFollow
  <1> QED BY <1>1, <1>2, <1>3, <1>4, <1>5, <1>6, <1>7, <1>8,
    <1>9, <1>10, <1>11

-----------------------------------------------------------------------------
(* Each step of the process                                                 *)

LEMMA CrashKeepsInv ==
  ASSUME Inv, Crash
  PROVE  Inv'
  <1> USE MailConstants DEF Crash, Inv, TypeOK
  <1>1. TypeOK'
    <2>1. failed' \in [Messages -> 0..(Retries - 1)] OBVIOUS
    <2>2. sending' \in [Peer \union Own ->
                          {"unsent", "staging", "writing", "ready", "sent", "refused", "broken"}]
      OBVIOUS
    <2>3. dispatched' \in [Messages -> Nat] OBVIOUS
    <2>4. {draft', picked'} \subseteq [{"poll", "tool"} -> SUBSET Ids] OBVIOUS
    <2>5. {blurred', passOn'} \subseteq BOOLEAN OBVIOUS
    <2>6. faults' \in 0..MaxMishaps /\ crashes' \in 0..MaxCrashes OBVIOUS
    <2>7. /\ poll' = "down" /\ tool' = "idle" /\ cur' = None /\ back' = "tick"
          /\ todo' = {} /\ seen' = {} /\ pass' = {} /\ observed' = {}
      OBVIOUS
    <2>8. UNCHANGED <<inbox, outbox, read, digest, shown, given, gone, leftover>> OBVIOUS
    <2> QED BY <2>1, <2>2, <2>3, <2>4, <2>5, <2>6, <2>7, <2>8
  <1>2. CopyFollowsClaim' BY DEF CopyFollowsClaim, ClaimInHand
  <1>3. ClaimInHand' BY DEF ClaimInHand
  <1>4. ClaimAbandoned' BY DEF ClaimAbandoned, ClaimInHand
  <1>5. ArrivedIsSent' BY DEF ArrivedIsSent, ClaimInHand
  <1>6. DispatchedIsOver' BY DEF DispatchedIsOver, ClaimInHand, ClaimAbandoned,
      CopyFollowsClaim, ArrivedIsSent
  <1>7. UnsentIsUnseen' BY DEF UnsentIsUnseen, ArrivedIsSent, DownIsIdle,
      ClaimInHand
  <1>8. DownIsIdle' BY DEF DownIsIdle
  <1>9. DigestFollows' BY DEF DigestFollows, UnsentIsUnseen, DownIsIdle, Unread,
      EndedIsOver
  <1>10. EndedIsOver' BY DEF EndedIsOver, ClaimInHand, ArrivedIsSent, DownIsIdle
  <1>11. EntriesFollow' BY DEF EntriesFollow
  <1> QED BY <1>1, <1>2, <1>3, <1>4, <1>5, <1>6, <1>7, <1>8,
    <1>9, <1>10, <1>11

LEMMA ListenKeepsInv ==
  ASSUME Inv, Listen
  PROVE  Inv'
  <1> USE MailConstants DEF Listen, Entries, Inv, TypeOK
  <1>1. TypeOK' BY DEF ClaimInHand
  <1>2. CopyFollowsClaim' BY DEF CopyFollowsClaim, ClaimInHand
  <1>3. ClaimInHand' BY DEF ClaimInHand
  <1>4. ClaimAbandoned' BY DEF ClaimAbandoned, ClaimInHand
  <1>5. ArrivedIsSent' BY DEF ArrivedIsSent, ClaimInHand
  <1>6. DispatchedIsOver' BY DEF DispatchedIsOver, ClaimInHand, ClaimAbandoned,
      CopyFollowsClaim, ArrivedIsSent
  <1>7. UnsentIsUnseen' BY DEF UnsentIsUnseen, ArrivedIsSent, DownIsIdle,
      ClaimInHand
  <1>8. DownIsIdle' BY DEF DownIsIdle
  <1>9. DigestFollows' BY DEF DigestFollows, UnsentIsUnseen, DownIsIdle, Unread,
      EndedIsOver
  <1>10. EndedIsOver' BY DEF EndedIsOver, ClaimInHand, ArrivedIsSent, DownIsIdle
  <1>11. EntriesFollow' BY DEF EntriesFollow
  <1> QED BY <1>1, <1>2, <1>3, <1>4, <1>5, <1>6, <1>7, <1>8,
    <1>9, <1>10, <1>11

-----------------------------------------------------------------------------
\* Every step of the system keeps the invariant.
LEMMA InvKept ==
  ASSUME Inv, [Next]_vars
  PROVE  Inv'
  <1>1. CASE \E m \in Peer : PeerStages(m) BY <1>1, PeerStagesKeepsInv
  <1>2. CASE \E m \in Peer : PeerPublishes(m) BY <1>2, PeerPublishesKeepsInv
  <1>3. CASE \E m \in Peer : PeerFails(m) BY <1>3, PeerFailsKeepsInv
  <1>4. CASE \E m \in Own : OwnBegins(m) BY <1>4, OwnBeginsKeepsInv
  <1>5. CASE \E m \in Own : OwnWritesPart(m) BY <1>5, OwnWritesPartKeepsInv
  <1>6. CASE \E m \in Own : OwnEnds(m) BY <1>6, OwnEndsKeepsInv
  <1>7. CASE \E m \in Pseudo : Rival(m) BY <1>7, RivalKeepsInv
  <1>8. CASE ListOutbox BY <1>8, ListOutboxKeepsInv
  <1>9. CASE \E m \in Pseudo : Claim(m) BY <1>9, ClaimKeepsInv
  <1>10. CASE OutboxDone BY <1>10, OutboxDoneKeepsInv
  <1>11. CASE Place BY <1>11, PlaceKeepsInv
  <1>12. CASE Fill BY <1>12, FillKeepsInv
  <1>13. CASE PublishClaim BY <1>13, PublishClaimKeepsInv
  <1>14. CASE Unplace BY <1>14, UnplaceKeepsInv
  <1>15. CASE Restore BY <1>15, RestoreKeepsInv
  <1>16. CASE StartPass BY <1>16, StartPassKeepsInv
  <1>17. CASE EndPass BY <1>17, EndPassKeepsInv
  <1>18. CASE \E m \in Messages : MarkRead(m) BY <1>18, MarkReadKeepsInv
  <1>19. CASE \E m \in Messages : Remove(m) BY <1>19, RemoveKeepsInv
  <1>20. CASE \E t \in {"poll", "tool"} : RenderList(t) \/ RenderPick(t)
    BY <1>20, RenderListKeepsInv, RenderPickKeepsInv
  <1>21. CASE \E t \in {"poll", "tool"} : RenderFails(t) \/ RenderWrite(t)
    BY <1>21, RenderFailsKeepsInv, RenderWriteKeepsInv
  <1>22. CASE Crash BY <1>22, CrashKeepsInv
  <1>23. CASE Listen BY <1>23, ListenKeepsInv
  <1>24. CASE \E m \in Messages : Visit(m)
    BY <1>24, SkipKeepsInv, GarbledKeepsInv, UnreadableKeepsInv, AcceptKeepsInv
       DEF Visit, OnVisit
  <1>25. CASE UNCHANGED vars BY <1>25 DEF Inv, TypeOK, CopyFollowsClaim,
      ClaimInHand, ClaimAbandoned, ArrivedIsSent, DispatchedIsOver,
      UnsentIsUnseen, DownIsIdle, DigestFollows, EntriesFollow, EndedIsOver,
      Unread
  <1> QED BY <1>1, <1>2, <1>3, <1>4, <1>5, <1>6, <1>7, <1>8, <1>9, <1>10, <1>11,
      <1>12, <1>13, <1>14, <1>15, <1>16, <1>17, <1>18, <1>19, <1>20, <1>21, <1>22,
      <1>23, <1>24, <1>25 DEF Next, Senders, Poller, Turn, Render

\* The inductive invariant holds in every reachable state.
THEOREM Invariant == Spec => []Inv
  <1>1. Init => Inv
    <2> SUFFICES ASSUME Init PROVE Inv OBVIOUS
    <2> USE MailConstants DEF Init
    <2>1. failed \in [Messages -> 0..(Retries - 1)] OBVIOUS
    <2>2. inbox \in [Messages -> {"none", "dir", "part", "whole"}]
      OBVIOUS
    <2>3. dispatched \in [Messages -> Nat] OBVIOUS
    <2>4. {draft, picked} \subseteq [{"poll", "tool"} -> SUBSET Ids] OBVIOUS
    <2>5. {blurred, passOn} \subseteq BOOLEAN OBVIOUS
    <2>6. faults \in 0..MaxMishaps /\ crashes \in 0..MaxCrashes OBVIOUS
    <2>7. TypeOK BY <2>1, <2>2, <2>3, <2>4, <2>5, <2>6 DEF TypeOK
    <2> QED
      BY <2>7 DEF Inv, TypeOK, Newest, CopyFollowsClaim, ClaimInHand, ClaimAbandoned,
        ArrivedIsSent, DispatchedIsOver, UnsentIsUnseen, DownIsIdle, DigestFollows,
        EntriesFollow, EndedIsOver, Unread
  <1>2. Inv /\ [Next]_vars => Inv' BY InvKept
  <1> QED BY <1>1, <1>2, PTL DEF Spec

\* The files, the listener's memory and the positions of the threads are well
\* formed; no entry is tried more often than _MAX_READ_RETRIES.
THEOREM TypeCorrect == Spec => []TypeOK
  <1>1. Inv => TypeOK BY DEF Inv
  <1> QED BY Invariant, <1>1, PTL

\* No message is dispatched twice, whether the scan of the inbox or the claim in
\* the outbox brings it, through rollbacks, retries, pruning and restarts.
THEOREM NoMessageTwice == Spec => []DispatchedOnce
  <1>1. Inv => DispatchedOnce
    BY DEF Inv, TypeOK, DispatchedOnce, DispatchedIsOver
  <1> QED BY Invariant, <1>1, PTL

\* A message that can still be claimed has no copy here, and one that was sent
\* has one: the rollback after a failure loses and duplicates nothing.
THEOREM ClaimsAndCopiesAgree == Spec => []CopyFollowsClaim
  <1>1. Inv => CopyFollowsClaim BY DEF Inv
  <1> QED BY Invariant, <1>1, PTL

\* The digest counts the unread mail and shows the newest MaxEntries of it whenever
\* both threads are at rest, but for the exceptions that `blurred` stands for.
THEOREM DigestMirrors == Spec => []DigestMirrorsUnlessBlurred
  <1>1. Inv => DigestMirrorsUnlessBlurred
    BY DEF Inv, DigestFollows, EntriesFollow, DigestMirrorsUnlessBlurred, Quiet
  <1> QED BY Invariant, <1>1, PTL

-----------------------------------------------------------------------------
(* The mailbox implements the delivery                                      *)

\* A step in which one message moves or is announced, at most.
OthersStay(m) ==
  \A k \in Messages \ {m} :
    PlaceOf(k)' = PlaceOf(k) /\ TimesTold(k)' = TimesTold(k)

LEMMA OneMoves ==
  ASSUME NEW m \in Messages, OthersStay(m), NEW from, NEW to,
         PlaceOf(m) = from, PlaceOf(m)' = to
  PROVE  Delivery!Moves(m, from, to)
  BY DEF OthersStay, Delivery!Moves

LEMMA NoneMoves ==
  ASSUME NEW m \in Messages, OthersStay(m), PlaceOf(m)' = PlaceOf(m)
  PROVE  [k \in Messages |-> PlaceOf(k)]' = [k \in Messages |-> PlaceOf(k)]
  BY DEF OthersStay

LEMMA OneIsTold ==
  ASSUME NEW m \in Messages, OthersStay(m), TimesTold(m) = 0, TimesTold(m)' = 1
  PROVE  Delivery!Announces(m)
  BY DEF OthersStay, Delivery!Announces

LEMMA NoneIsTold ==
  ASSUME NEW m \in Messages, OthersStay(m), TimesTold(m)' = TimesTold(m)
  PROVE  [k \in Messages |-> TimesTold(k)]' = [k \in Messages |-> TimesTold(k)]
  BY DEF OthersStay

\* What PlaceOf and TimesTold look at.
visible == <<inbox, outbox, dispatched, given, gone, leftover>>

LEMMA VisibleFrame ==
  ASSUME UNCHANGED visible
  PROVE  UNCHANGED Delivery!vars
  BY DEF visible, PlaceOf, TimesTold, Delivery!vars

LEMMA PeerPublishesDelivers ==
  ASSUME Inv, NEW m \in Peer, PeerPublishes(m)
  PROVE  Delivery!Arrive(m)
  <1> USE MailConstants DEF PeerPublishes, Sends, Inv, TypeOK
  <1>1. OthersStay(m) BY DEF OthersStay, PlaceOf, TimesTold
  <1>2. m \notin leftover \union given \union gone /\ inbox[m] = "none"
    BY DEF EndedIsOver, UnsentIsUnseen
  <1>3. PlaceOf(m) = "away" /\ PlaceOf(m)' = "here" BY <1>2 DEF PlaceOf
  <1>4. TimesTold(m)' = TimesTold(m) BY DEF TimesTold
  <1> QED BY <1>1, <1>3, <1>4, OneMoves, NoneIsTold DEF Delivery!Arrive

LEMMA OwnBeginsDelivers ==
  ASSUME Inv, NEW m \in Own, OwnBegins(m)
  PROVE  UNCHANGED Delivery!vars
  <1> USE MailConstants DEF OwnBegins, Sends, Inv, TypeOK
  <1>1. inbox[m] = "none" BY DEF UnsentIsUnseen
  <1>2. OthersStay(m) BY DEF OthersStay, PlaceOf, TimesTold
  <1>3. PlaceOf(m)' = PlaceOf(m) BY <1>1 DEF PlaceOf
  <1>4. TimesTold(m)' = TimesTold(m) BY DEF TimesTold
  <1> QED BY <1>2, <1>3, <1>4, NoneMoves, NoneIsTold DEF Delivery!vars

LEMMA OwnWritesPartDelivers ==
  ASSUME Inv, NEW m \in Own, OwnWritesPart(m)
  PROVE  UNCHANGED Delivery!vars
  <1> USE MailConstants DEF OwnWritesPart, Inv, TypeOK
  <1>1. OthersStay(m) BY DEF OthersStay, PlaceOf, TimesTold
  <1>2. PlaceOf(m)' = PlaceOf(m) BY DEF PlaceOf
  <1>3. TimesTold(m)' = TimesTold(m) BY DEF TimesTold
  <1> QED BY <1>1, <1>2, <1>3, NoneMoves, NoneIsTold DEF Delivery!vars

\* A message to oneself arrives with its last write, unless the scan has disposed
\* of it before.
LEMMA OwnEndsDelivers ==
  ASSUME Inv, NEW m \in Own, OwnEnds(m)
  PROVE  [Delivery!Next]_Delivery!vars
  <1> USE MailConstants DEF OwnEnds, Sends, Inv, TypeOK
  <1>1. OthersStay(m) BY DEF OthersStay, PlaceOf, TimesTold
  <1>2. m \notin leftover \union gone /\ inbox[m] # "whole"
    BY DEF EndedIsOver, ArrivedIsSent
  <1>3. TimesTold(m)' = TimesTold(m) BY DEF TimesTold
  <1>4. CASE inbox[m] # "none" /\ m \notin given
    <2>1. PlaceOf(m) = "away" /\ PlaceOf(m)' = "here" BY <1>2, <1>4 DEF PlaceOf
    <2> QED BY <1>1, <1>3, <2>1, OneMoves, NoneIsTold DEF Delivery!Arrive, Delivery!Next
  <1>5. CASE inbox[m] = "none" \/ m \in given
    <2>1. PlaceOf(m)' = PlaceOf(m) BY <1>2, <1>5 DEF PlaceOf
    <2> QED BY <1>1, <1>3, <2>1, NoneMoves, NoneIsTold DEF Delivery!vars
  <1> QED BY <1>4, <1>5

LEMMA RivalDelivers ==
  ASSUME Inv, NEW m \in Pseudo, Rival(m)
  PROVE  [Delivery!Next]_Delivery!vars
  <1> USE MailConstants DEF Rival, Inv, TypeOK
  <1>1. OthersStay(m) BY DEF OthersStay, PlaceOf, TimesTold
  <1>2. TimesTold(m)' = TimesTold(m) BY DEF TimesTold
  <1>3. CASE m \notin leftover /\ outbox'[m] = "sentByRival"
    <2>1. PlaceOf(m) = "away" /\ PlaceOf(m)' = "elsewhere" BY <1>3 DEF PlaceOf
    <2> QED BY <1>1, <1>2, <2>1, OneMoves, NoneIsTold
         DEF Delivery!GoElsewhere, Delivery!Next
  <1>4. CASE m \in leftover \/ outbox'[m] # "sentByRival"
    <2>1. PlaceOf(m)' = PlaceOf(m) BY <1>4 DEF PlaceOf
    <2> QED BY <1>1, <1>2, <2>1, NoneMoves, NoneIsTold DEF Delivery!vars
  <1> QED BY <1>3, <1>4

LEMMA ClaimDelivers ==
  ASSUME Inv, NEW m \in Pseudo, Claim(m)
  PROVE  [Delivery!Next]_Delivery!vars
  <1> USE MailConstants DEF Claim, Inv, TypeOK
  <1>1. OthersStay(m) BY DEF OthersStay, PlaceOf, TimesTold
  <1>2. TimesTold(m)' = TimesTold(m) BY DEF TimesTold
  <1>3. CASE m \notin leftover /\ outbox[m] = "outbox"
    <2>1. PlaceOf(m) = "away" /\ PlaceOf(m)' = "taken" BY <1>3 DEF PlaceOf
    <2> QED BY <1>1, <1>2, <2>1, OneMoves, NoneIsTold DEF Delivery!Take, Delivery!Next
  <1>4. CASE m \in leftover \/ outbox[m] # "outbox"
    <2>1. PlaceOf(m)' = PlaceOf(m) BY <1>4 DEF PlaceOf
    <2> QED BY <1>1, <1>2, <2>1, NoneMoves, NoneIsTold DEF Delivery!vars
  <1> QED BY <1>3, <1>4

\* Until it is published, a claim shows nothing of its copy.
LEMMA CopyDelivers ==
  ASSUME Inv, Place \/ Fill
  PROVE  UNCHANGED Delivery!vars
  <1> USE MailConstants DEF Place, Fill, Inv, TypeOK
  <1>1. cur \in Pseudo /\ outbox[cur] = "claim" BY DEF ClaimInHand
  <1>2. OthersStay(cur) BY DEF OthersStay, PlaceOf, TimesTold
  <1>3. PlaceOf(cur)' = PlaceOf(cur) BY <1>1 DEF PlaceOf
  <1>4. TimesTold(cur)' = TimesTold(cur) BY DEF TimesTold
  <1>5. cur \in Messages BY <1>1
  <1>6. PICK m \in Messages : m = cur /\ cur' = m BY <1>5
  <1> QED BY <1>2, <1>3, <1>4, <1>6, NoneMoves, NoneIsTold DEF Delivery!vars, OthersStay

\* The claim is kept and announced by one step, its rename to the sent entry.
LEMMA PublishClaimDelivers ==
  ASSUME Inv, NEW m \in Pseudo, cur = m, PublishClaim
  PROVE  [Delivery!Next]_Delivery!vars
  <1> USE MailConstants DEF PublishClaim, Dispatch, Inv, TypeOK
  <1>1. outbox[m] = "claim" /\ (inbox[m] = "whole" \/ m \in given \union gone)
    BY DEF ClaimInHand
  <1>2. OthersStay(m) BY DEF OthersStay, PlaceOf, TimesTold
  <1>3. CASE m \notin leftover /\ outbox'[m] = "sent"
    <2>1. /\ PlaceOf(m) = "taken"
          /\ PlaceOf(m)' = "here" \/ PlaceOf(m)' = "ended"
      BY <1>1, <1>3 DEF PlaceOf
    <2>2. dispatched[m] = 0 BY <1>1, <1>3 DEF DispatchedIsOver
    <2>3. dispatched'[m] = 1 BY <1>1, <1>3, <2>2
    <2>4. TimesTold(m) = 0 /\ TimesTold(m)' = 1 BY <1>3, <2>2, <2>3 DEF TimesTold
    <2>5. Delivery!Announces(m) BY <1>2, <2>4, OneIsTold
    <2>6. Delivery!Moves(m, "taken", "here") \/ Delivery!Moves(m, "taken", "ended")
      BY <1>2, <2>1, OneMoves
    <2> QED BY <2>5, <2>6 DEF Delivery!Keep, Delivery!Next
  <1>4. CASE m \in leftover \/ outbox'[m] # "sent"
    <2>1. PlaceOf(m)' = PlaceOf(m) BY <1>1, <1>4 DEF PlaceOf
    <2>2. TimesTold(m)' = TimesTold(m) BY <1>1, <1>4 DEF TimesTold
    <2> QED BY <1>2, <2>1, <2>2, NoneMoves, NoneIsTold DEF Delivery!vars
  <1> QED BY <1>3, <1>4

LEMMA UnplaceDelivers ==
  ASSUME Inv, NEW m \in Pseudo, cur = m, Unplace
  PROVE  [Delivery!Next]_Delivery!vars
  <1> USE MailConstants DEF Unplace, Inv, TypeOK
  <1>1. outbox[m] = "claim" BY DEF ClaimInHand
  <1>2. OthersStay(m) BY DEF OthersStay, PlaceOf, TimesTold
  <1>3. m \notin leftover => dispatched[m] = 0 BY <1>1 DEF DispatchedIsOver
  <1>4. TimesTold(m)' = TimesTold(m) BY <1>3 DEF TimesTold
  <1>5. CASE m \in leftover' \ leftover
    <2>1. PlaceOf(m) = "taken" /\ PlaceOf(m)' = "void" BY <1>1, <1>5 DEF PlaceOf
    <2> QED BY <1>2, <1>4, <2>1, OneMoves, NoneIsTold DEF Delivery!Spoil, Delivery!Next
  <1>6. CASE m \notin leftover' \ leftover
    <2>1. PlaceOf(m)' = PlaceOf(m) BY <1>1, <1>6 DEF PlaceOf
    <2> QED BY <1>2, <1>4, <2>1, NoneMoves, NoneIsTold DEF Delivery!vars
  <1> QED BY <1>5, <1>6

LEMMA RestoreDelivers ==
  ASSUME Inv, NEW m \in Pseudo, cur = m, Restore
  PROVE  [Delivery!Next]_Delivery!vars
  <1> USE MailConstants DEF Restore, Inv, TypeOK
  <1>1. outbox[m] = "claim" BY DEF ClaimInHand
  <1>2. OthersStay(m) BY DEF OthersStay, PlaceOf, TimesTold
  <1>3. TimesTold(m)' = TimesTold(m) BY DEF TimesTold
  <1>4. CASE m \notin leftover /\ outbox'[m] = "outbox"
    <2>1. PlaceOf(m) = "taken" /\ PlaceOf(m)' = "away" BY <1>1, <1>4 DEF PlaceOf
    <2> QED BY <1>2, <1>3, <2>1, OneMoves, NoneIsTold
         DEF Delivery!GiveBack, Delivery!Next
  <1>5. CASE m \in leftover \/ outbox'[m] # "outbox"
    <2>1. PlaceOf(m)' = PlaceOf(m) BY <1>1, <1>5 DEF PlaceOf
    <2> QED BY <1>2, <1>3, <2>1, NoneMoves, NoneIsTold DEF Delivery!vars
  <1> QED BY <1>4, <1>5

\* A message whose place becomes "ended" or stays, and which is not announced.
LEMMA EndsOrStays ==
  ASSUME Inv, NEW m \in Messages, OthersStay(m), TimesTold(m)' = TimesTold(m),
         \/ PlaceOf(m)' = PlaceOf(m)
         \/ PlaceOf(m) = "here" /\ PlaceOf(m)' = "ended"
         \/ m \notin Pseudo /\ PlaceOf(m) = "away" /\ PlaceOf(m)' = "ended"
  PROVE  [Delivery!Next]_Delivery!vars
  <1>1. CASE PlaceOf(m)' = PlaceOf(m) BY <1>1, NoneMoves, NoneIsTold DEF Delivery!vars
  <1>2. CASE PlaceOf(m) = "here" /\ PlaceOf(m)' = "ended"
    BY <1>2, OneMoves, NoneIsTold DEF Delivery!End, Delivery!Next
  <1>3. CASE m \notin Pseudo /\ PlaceOf(m) = "away" /\ PlaceOf(m)' = "ended"
    BY <1>3, OneMoves, NoneIsTold DEF Delivery!End, Delivery!Next
  <1> QED BY <1>1, <1>2, <1>3

LEMMA GarbledDelivers ==
  ASSUME Inv, NEW m \in Messages, OnVisit(m), Garbled(m)
  PROVE  [Delivery!Next]_Delivery!vars
  <1> USE MailConstants DEF OnVisit, Garbled, DeadLetter, Inv, TypeOK
  <1>1. OthersStay(m) BY DEF OthersStay, PlaceOf, TimesTold
  <1>2. TimesTold(m)' = TimesTold(m) BY DEF TimesTold
  <1>3. CASE m \in Pseudo
    <2>1. PlaceOf(m)' = PlaceOf(m) BY <1>3 DEF PlaceOf
    <2> QED BY <1>1, <1>2, <2>1, EndsOrStays
  <1>4. CASE m \notin Pseudo
    <2>1. PlaceOf(m)' = "ended" /\ PlaceOf(m) \in {"away", "ended"}
      BY <1>4 DEF PlaceOf, EndedIsOver
    <2> QED BY <1>1, <1>2, <1>4, <2>1, EndsOrStays
  <1> QED BY <1>3, <1>4

LEMMA UnreadableDelivers ==
  ASSUME Inv, NEW m \in Messages, OnVisit(m), Unreadable(m)
  PROVE  [Delivery!Next]_Delivery!vars
  <1> USE MailConstants DEF OnVisit, Unreadable, DeadLetter, Inv, TypeOK
  <1>1. OthersStay(m) BY DEF OthersStay, PlaceOf, TimesTold
  <1>2. TimesTold(m)' = TimesTold(m) BY DEF TimesTold
  <1>3. \/ PlaceOf(m)' = PlaceOf(m)
        \/ PlaceOf(m) = "here" /\ PlaceOf(m)' = "ended"
    <2>1. CASE UNCHANGED <<inbox, given>> BY <2>1 DEF PlaceOf
    <2>2. CASE m \in given' /\ m \in Pseudo BY <2>2 DEF PlaceOf
    <2>3. CASE m \in given' /\ m \notin Pseudo BY <2>3 DEF PlaceOf, EndedIsOver
    <2> QED BY <2>1, <2>2, <2>3
  <1> QED BY <1>1, <1>2, <1>3, EndsOrStays

\* What the scan accepts is no message of the pseudo-agent, is here, and was not
\* announced before.
LEMMA AcceptDelivers ==
  ASSUME Inv, NEW m \in Messages, OnVisit(m), Accept(m)
  PROVE  [Delivery!Next]_Delivery!vars
  <1> USE MailConstants DEF OnVisit, Accept, Dispatch, Inv, TypeOK
  <1>1. OthersStay(m) BY DEF OthersStay, PlaceOf, TimesTold
  <1>2. PlaceOf(m)' = PlaceOf(m) BY DEF PlaceOf
  <1>3. CASE m \in leftover
    <2>1. TimesTold(m)' = TimesTold(m) BY <1>3 DEF TimesTold
    <2> QED BY <1>1, <1>2, <2>1, EndsOrStays
  <1>4. CASE m \notin leftover
    <2>1. dispatched[m] = 0 BY <1>4 DEF DispatchedIsOver
    <2>2. m \notin Pseudo
      <3>1. SUFFICES ASSUME m \in Pseudo PROVE FALSE OBVIOUS
      <3>2. outbox[m] \notin {"outbox", "rival", "sentByRival"}
        BY <1>4, <3>1 DEF CopyFollowsClaim
      <3>3. outbox[m] # "claim" BY <1>4, <3>1 DEF ClaimAbandoned
      <3>4. outbox[m] # "sent" BY <1>4, <2>1, <3>1 DEF DispatchedIsOver
      <3> QED BY <3>1, <3>2, <3>3, <3>4
    <2>3. m \notin given BY <2>2 DEF EndedIsOver
    <2>4. PlaceOf(m) = "here" BY <1>4, <2>2, <2>3 DEF PlaceOf
    <2>5. dispatched'[m] = 1 BY <2>1
    <2>6. TimesTold(m) = 0 /\ TimesTold(m)' = 1 BY <1>4, <2>1, <2>5 DEF TimesTold
    <2>7. Delivery!Announces(m) BY <1>1, <2>6, OneIsTold
    <2> QED BY <1>1, <1>2, <2>2, <2>4, <2>7, NoneMoves DEF Delivery!Announce, Delivery!Next
  <1> QED BY <1>3, <1>4

LEMMA RemoveDelivers ==
  ASSUME Inv, NEW m \in Messages, Remove(m)
  PROVE  [Delivery!Next]_Delivery!vars
  <1> USE MailConstants DEF Remove, Inv, TypeOK
  <1>1. OthersStay(m) BY DEF OthersStay, PlaceOf, TimesTold
  <1>2. TimesTold(m)' = TimesTold(m) BY DEF TimesTold
  <1>3. \/ PlaceOf(m)' = PlaceOf(m)
        \/ PlaceOf(m) = "here" /\ PlaceOf(m)' = "ended"
    <2>1. CASE m \in Pseudo BY <2>1 DEF PlaceOf
    <2>2. CASE m \notin Pseudo BY <2>2 DEF PlaceOf, EndedIsOver
    <2> QED BY <2>1, <2>2
  <1> QED BY <1>1, <1>2, <1>3, EndsOrStays

\* Every step of the mailbox is one of the delivery, or none.
LEMMA StepDelivers ==
  ASSUME Inv, [Next]_vars
  PROVE  [Delivery!Next]_Delivery!vars
  <1>1. ASSUME NEW m \in Peer, PeerPublishes(m) PROVE [Delivery!Next]_Delivery!vars
    BY <1>1, PeerPublishesDelivers DEF Delivery!Next
  <1>2. ASSUME NEW m \in Own, OwnBegins(m) \/ OwnWritesPart(m) \/ OwnEnds(m)
        PROVE  [Delivery!Next]_Delivery!vars
    BY <1>2, OwnBeginsDelivers, OwnWritesPartDelivers, OwnEndsDelivers
  <1>3. ASSUME NEW m \in Pseudo, Rival(m) \/ Claim(m)
        PROVE  [Delivery!Next]_Delivery!vars
    BY <1>3, RivalDelivers, ClaimDelivers
  <1>4. CASE Place \/ Fill BY <1>4, CopyDelivers
  <1>5. CASE PublishClaim \/ Unplace \/ Restore
    <2>1. cur \in Pseudo BY <1>5 DEF Inv, ClaimInHand, PublishClaim, Unplace, Restore
    <2> QED BY <1>5, <2>1, PublishClaimDelivers, UnplaceDelivers, RestoreDelivers
  <1>6. ASSUME NEW m \in Messages, Visit(m) PROVE [Delivery!Next]_Delivery!vars
    <2>1. OnVisit(m) BY <1>6 DEF Visit, OnVisit
    <2>2. CASE Skip(m) BY <2>1, <2>2, VisibleFrame DEF Skip, OnVisit, visible
    <2> QED BY <1>6, <2>1, <2>2, GarbledDelivers, UnreadableDelivers, AcceptDelivers
         DEF Visit
  <1>7. ASSUME NEW m \in Messages, Remove(m) PROVE [Delivery!Next]_Delivery!vars
    BY <1>7, RemoveDelivers
  <1>8. CASE \E m \in Peer : PeerStages(m) \/ PeerFails(m)
    BY <1>8, VisibleFrame DEF PeerStages, PeerFails, visible
  <1>9. CASE ListOutbox \/ OutboxDone \/ StartPass \/ EndPass
    BY <1>9, VisibleFrame DEF ListOutbox, OutboxDone, StartPass, EndPass, visible
  <1>10. CASE \E t \in {"poll", "tool"} : Render(t)
    BY <1>10, VisibleFrame
       DEF Render, RenderList, RenderPick, RenderFails, RenderWrite, RenderEnds, visible
  <1>11. CASE \E m \in Messages : MarkRead(m)
    BY <1>11, VisibleFrame DEF MarkRead, visible
  <1>12. CASE Crash \/ Listen BY <1>12, VisibleFrame DEF Crash, Listen, visible
  <1>13. CASE UNCHANGED vars BY <1>13, VisibleFrame DEF visible
  <1> QED BY <1>1, <1>2, <1>3, <1>4, <1>5, <1>6, <1>7, <1>8, <1>9, <1>10, <1>11,
      <1>12, <1>13 DEF Next, Senders, Poller, Turn, Render

\* Senders, rival, poll thread, turn, failures and restarts together deliver each
\* message as MailDelivery has it: announced once, kept or given back, and over
\* when it ended; but for a message whose copy a rollback could not remove.
THEOREM MailboxDelivers == Spec => ImplementsDelivery
  <1>1. Init => Delivery!Init
    BY MailConstants DEF Init, PlaceOf, TimesTold, Delivery!Init
  <1>2. Inv /\ [Next]_vars => [Delivery!Next]_Delivery!vars BY StepDelivers
  <1> QED BY Invariant, <1>1, <1>2, PTL DEF Spec, ImplementsDelivery, Delivery!Spec
=============================================================================

------------------------- MODULE DaemonManagerProofs -------------------------
(***************************************************************************)
(* Proofs about DaemonManager for every set of runs, every number of       *)
(* managers and every size of the pool.                                    *)
(***************************************************************************)
EXTENDS DaemonManager, TLAPS

\* Throughout, the groups of variables are expanded.
USE DEF files, manager, history, vars, Managers, Up

Held == {"close", "take", "start", "cancel", "drop"}

\* A manager that is between two steps of a run knows which run.
HandIsRun == \A m \in Managers : pc[m] \in Held => hand[m] \in Runs

\* The token of a run: it is started by whoever took its file out of the queue,
\* which is one manager, once; what was never queued was never taken.
Taken(m, r) == hand[m] = r /\ pc[m] \in {"start", "cancel"}

Token ==
  \A r \in Runs :
    /\ starts[r] <= 1
    /\ r \in job => sub[r] \notin {"idle", "write"}
    /\ r \in job \/ sub[r] \in {"idle", "write"} =>
         starts[r] = 0 /\ \A m \in Managers : ~Taken(m, r)
    /\ \A m \in Managers : Taken(m, r) => starts[r] = 0
    /\ \A m, k \in Managers : Taken(m, r) /\ Taken(k, r) => m = k

\* Before its journal is closed or its file dropped, a run has its verdict.
DecidedBeforeClosed ==
  \A m \in Managers : pc[m] \in {"close", "drop"} => fate[hand[m]] # "running"

\* NothingStranded, also for a run whose submitter still waits for the answer.
Kept ==
  \A r \in Runs :
    sub[r] \in {"send", "accepted"} /\ fate[r] = "running" =>
      \/ r \in job \/ journal[r] = "active" \/ r \in torn
      \/ \E m \in UpManagers : Taken(m, r)

\* As long as every manager came up in time, manager.pid names the only one.
OneManager ==
  slow \/ \A m \in Managers :
            /\ mgr[m] = "up" => pid = m
            /\ mgr[m] = "starting" => pid = m /\ fresh

\* A manager that recovers has started nothing yet.
RecoversFirst ==
  \A m \in Managers : pc[m] \in {"recover", "close"} => active[m] = {}

Inv ==
  /\ TypeOK /\ HandIsRun /\ Token /\ DecidedBeforeClosed /\ Kept /\ OneManager
  /\ RecoversFirst

-----------------------------------------------------------------------------
(* Each step of a submitter                                                 *)

LEMMA EnsureReusesKeepsInv ==
  ASSUME Inv, NEW r \in Runs, EnsureReuses(r)
  PROVE  Inv'
  <1> USE ManagerConstants DEF EnsureReuses, Settled, Inv, TypeOK
  <1>1. TypeOK' BY DEF HandIsRun, Held
  <1>2. HandIsRun' BY DEF HandIsRun, Held
  <1>3. Token' BY DEF Token, Taken, HandIsRun, Held
  <1>4. DecidedBeforeClosed' BY DEF DecidedBeforeClosed, HandIsRun, Held
  <1>5. Kept' BY DEF Kept, Taken, UpManagers, DecidedBeforeClosed, HandIsRun, Held
  <1>6. OneManager' BY DEF OneManager
  <1>7. RecoversFirst' BY DEF RecoversFirst
  <1> QED BY <1>1, <1>2, <1>3, <1>4, <1>5, <1>6, <1>7

LEMMA EnsureSpawnsKeepsInv ==
  ASSUME Inv, NEW r \in Runs, NEW m \in Managers, EnsureSpawns(r, m)
  PROVE  Inv'
  <1> USE ManagerConstants DEF EnsureSpawns, Settled, Inv, TypeOK
  <1>1. TypeOK' BY DEF HandIsRun, Held
  <1>2. HandIsRun' BY DEF HandIsRun, Held
  <1>3. Token' BY DEF Token, Taken, HandIsRun, Held
  <1>4. DecidedBeforeClosed' BY DEF DecidedBeforeClosed, HandIsRun, Held
  <1>5. Kept' BY DEF Kept, Taken, UpManagers, DecidedBeforeClosed, HandIsRun, Held
  <1>6. OneManager' BY DEF OneManager
  <1>7. RecoversFirst' BY DEF RecoversFirst
  <1> QED BY <1>1, <1>2, <1>3, <1>4, <1>5, <1>6, <1>7

LEMMA EnsureRaisesKeepsInv ==
  ASSUME Inv, NEW r \in Runs, EnsureRaises(r)
  PROVE  Inv'
  <1> USE ManagerConstants DEF EnsureRaises, Inv, TypeOK
  <1>1. TypeOK' BY DEF HandIsRun, Held
  <1>2. HandIsRun' BY DEF HandIsRun, Held
  <1>3. Token' BY DEF Token, Taken, HandIsRun, Held
  <1>4. DecidedBeforeClosed' BY DEF DecidedBeforeClosed, HandIsRun, Held
  <1>5. Kept' BY DEF Kept, Taken, UpManagers, DecidedBeforeClosed, HandIsRun, Held
  <1>6. OneManager' BY DEF OneManager
  <1>7. RecoversFirst' BY DEF RecoversFirst
  <1> QED BY <1>1, <1>2, <1>3, <1>4, <1>5, <1>6, <1>7

LEMMA WriteJobKeepsInv ==
  ASSUME Inv, NEW r \in Runs, WriteJob(r)
  PROVE  Inv'
  <1> USE ManagerConstants DEF WriteJob, Owned, Inv, TypeOK
  <1>1. TypeOK' BY DEF HandIsRun, Held
  <1>2. HandIsRun' BY DEF HandIsRun, Held
  <1>3. Token' BY DEF Token, Taken, HandIsRun, Held
  <1>4. DecidedBeforeClosed' BY DEF DecidedBeforeClosed, HandIsRun, Held
  <1>5. Kept' BY DEF Kept, Taken, UpManagers, DecidedBeforeClosed, HandIsRun, Held
  <1>6. OneManager' BY DEF OneManager
  <1>7. RecoversFirst' BY DEF RecoversFirst
  <1> QED BY <1>1, <1>2, <1>3, <1>4, <1>5, <1>6, <1>7

LEMMA SendCapsuleKeepsInv ==
  ASSUME Inv, NEW r \in Runs, SendCapsule(r)
  PROVE  Inv'
  <1> USE DEF SendCapsule, Owned, Inv, TypeOK
  <1>1. TypeOK'
    <2>1. sock \in Managers OBVIOUS
    <2>2. capsules' \in [Managers -> SUBSET Runs] BY <2>1
    <2>3. owner' \in [Runs -> Managers \union {None}] OBVIOUS
    <2>4. CASE sub' = [sub EXCEPT ![r] = "accepted"] BY <2>2, <2>3, <2>4
    <2>5. CASE UNCHANGED sub BY <2>2, <2>3, <2>5
    <2> QED BY <2>4, <2>5
  <1>2. HandIsRun' BY DEF HandIsRun, Held
  <1>3. Token' BY DEF Token, Taken, HandIsRun, Held
  <1>4. DecidedBeforeClosed' BY DEF DecidedBeforeClosed, HandIsRun, Held
  <1>5. Kept' BY DEF Kept, Taken, UpManagers, DecidedBeforeClosed, HandIsRun, Held
  <1>6. OneManager' BY DEF OneManager
  <1>7. RecoversFirst' BY DEF RecoversFirst
  <1> QED BY <1>1, <1>2, <1>3, <1>4, <1>5, <1>6, <1>7

LEMMA SendFailsKeepsInv ==
  ASSUME Inv, NEW r \in Runs, SendFails(r)
  PROVE  Inv'
  <1> USE ManagerConstants DEF SendFails, Inv, TypeOK
  <1>1. TypeOK' BY DEF HandIsRun, Held
  <1>2. HandIsRun' BY DEF HandIsRun, Held
  <1>3. Token' BY DEF Token, Taken, HandIsRun, Held
  <1>4. DecidedBeforeClosed' BY DEF DecidedBeforeClosed, HandIsRun, Held
  <1>5. Kept' BY DEF Kept, Taken, UpManagers, DecidedBeforeClosed, HandIsRun, Held
  <1>6. OneManager' BY DEF OneManager
  <1>7. RecoversFirst' BY DEF RecoversFirst
  <1> QED BY <1>1, <1>2, <1>3, <1>4, <1>5, <1>6, <1>7

LEMMA LaunchFailsKeepsInv ==
  ASSUME Inv, NEW r \in Runs, LaunchFails(r)
  PROVE  Inv'
  <1> USE ManagerConstants DEF LaunchFails, Judge, Inv, TypeOK
  <1>1. TypeOK' BY DEF HandIsRun, Held
  <1>2. HandIsRun' BY DEF HandIsRun, Held
  <1>3. Token' BY DEF Token, Taken, HandIsRun, Held
  <1>4. DecidedBeforeClosed' BY DEF DecidedBeforeClosed, HandIsRun, Held
  <1>5. Kept' BY DEF Kept, Taken, UpManagers, DecidedBeforeClosed, HandIsRun, Held
  <1>6. OneManager' BY DEF OneManager
  <1>7. RecoversFirst' BY DEF RecoversFirst
  <1> QED BY <1>1, <1>2, <1>3, <1>4, <1>5, <1>6, <1>7

LEMMA SubmitterDiesKeepsInv ==
  ASSUME Inv, NEW r \in Runs, SubmitterDies(r)
  PROVE  Inv'
  <1> USE ManagerConstants DEF SubmitterDies, Inv, TypeOK
  <1>1. TypeOK' BY DEF HandIsRun, Held
  <1>2. HandIsRun' BY DEF HandIsRun, Held
  <1>3. Token' BY DEF Token, Taken, HandIsRun, Held
  <1>4. DecidedBeforeClosed' BY DEF DecidedBeforeClosed, HandIsRun, Held
  <1>5. Kept' BY DEF Kept, Taken, UpManagers, DecidedBeforeClosed, HandIsRun, Held
  <1>6. OneManager' BY DEF OneManager
  <1>7. RecoversFirst' BY DEF RecoversFirst
  <1> QED BY <1>1, <1>2, <1>3, <1>4, <1>5, <1>6, <1>7

-----------------------------------------------------------------------------
(* Each step of the agent, the clock and a child                            *)

LEMMA ReapKeepsInv ==
  ASSUME Inv, NEW r \in Runs, Reap(r)
  PROVE  Inv'
  <1> USE ManagerConstants DEF Reap, Judge, Inv, TypeOK
  <1>1. TypeOK' BY DEF HandIsRun, Held
  <1>2. HandIsRun' BY DEF HandIsRun, Held
  <1>3. Token' BY DEF Token, Taken, HandIsRun, Held
  <1>4. DecidedBeforeClosed' BY DEF DecidedBeforeClosed, HandIsRun, Held
  <1>5. Kept' BY DEF Kept, Taken, UpManagers, DecidedBeforeClosed, HandIsRun, Held
  <1>6. OneManager' BY DEF OneManager
  <1>7. RecoversFirst' BY DEF RecoversFirst
  <1> QED BY <1>1, <1>2, <1>3, <1>4, <1>5, <1>6, <1>7

LEMMA RequestReclaimKeepsInv ==
  ASSUME Inv, NEW r \in Runs, RequestReclaim(r)
  PROVE  Inv'
  <1> USE ManagerConstants DEF RequestReclaim, Inv, TypeOK
  <1>1. TypeOK' BY DEF HandIsRun, Held
  <1>2. HandIsRun' BY DEF HandIsRun, Held
  <1>3. Token' BY DEF Token, Taken, HandIsRun, Held
  <1>4. DecidedBeforeClosed' BY DEF DecidedBeforeClosed, HandIsRun, Held
  <1>5. Kept' BY DEF Kept, Taken, UpManagers, DecidedBeforeClosed, HandIsRun, Held
  <1>6. OneManager' BY DEF OneManager
  <1>7. RecoversFirst' BY DEF RecoversFirst
  <1> QED BY <1>1, <1>2, <1>3, <1>4, <1>5, <1>6, <1>7

LEMMA ChildEndsKeepsInv ==
  ASSUME Inv, NEW r \in Runs, ChildEnds(r)
  PROVE  Inv'
  <1> USE ManagerConstants DEF ChildEnds, Judge, Inv, TypeOK
  <1>1. TypeOK' BY DEF HandIsRun, Held
  <1>2. HandIsRun' BY DEF HandIsRun, Held
  <1>3. Token' BY DEF Token, Taken, HandIsRun, Held
  <1>4. DecidedBeforeClosed' BY DEF DecidedBeforeClosed, HandIsRun, Held
  <1>5. Kept' BY DEF Kept, Taken, UpManagers, DecidedBeforeClosed, HandIsRun, Held
  <1>6. OneManager' BY DEF OneManager
  <1>7. RecoversFirst' BY DEF RecoversFirst
  <1> QED BY <1>1, <1>2, <1>3, <1>4, <1>5, <1>6, <1>7

LEMMA ReservationAgesKeepsInv ==
  ASSUME Inv, ReservationAges
  PROVE  Inv'
  <1> USE ManagerConstants DEF ReservationAges, Inv, TypeOK
  <1>1. TypeOK' BY DEF HandIsRun, Held
  <1>2. HandIsRun' BY DEF HandIsRun, Held
  <1>3. Token' BY DEF Token, Taken, HandIsRun, Held
  <1>4. DecidedBeforeClosed' BY DEF DecidedBeforeClosed, HandIsRun, Held
  <1>5. Kept' BY DEF Kept, Taken, UpManagers, DecidedBeforeClosed, HandIsRun, Held
  <1>6. OneManager' BY DEF OneManager
  <1>7. RecoversFirst' BY DEF RecoversFirst
  <1> QED BY <1>1, <1>2, <1>3, <1>4, <1>5, <1>6, <1>7

-----------------------------------------------------------------------------
(* Each step of a manager that comes up                                     *)

LEMMA BootKeepsInv ==
  ASSUME Inv, NEW m \in Managers, Boot(m)
  PROVE  Inv'
  <1> USE ManagerConstants DEF Boot, Inv, TypeOK
  <1>1. TypeOK' BY DEF HandIsRun, Held
  <1>2. HandIsRun' BY DEF HandIsRun, Held
  <1>3. Token' BY DEF Token, Taken, HandIsRun, Held
  <1>4. DecidedBeforeClosed' BY DEF DecidedBeforeClosed, HandIsRun, Held
  <1>5. Kept' BY DEF Kept, Taken, UpManagers, DecidedBeforeClosed, HandIsRun, Held
  <1>6. OneManager' BY DEF OneManager
  <1>7. RecoversFirst' BY DEF RecoversFirst
  <1> QED BY <1>1, <1>2, <1>3, <1>4, <1>5, <1>6, <1>7

LEMMA RecoverKeepsInv ==
  ASSUME Inv, NEW m \in Managers, NEW r \in Runs, Recover(m, r)
  PROVE  Inv'
  <1> USE ManagerConstants DEF Recover, Judge, Inv, TypeOK
  <1>1. TypeOK'
    <2>1. fate' \in [Runs -> {"running", "recovered", "decided"}]
      <3>1. CASE journal[r] = "active"
        <4>1. fate' = [fate EXCEPT ![r] = IF @ = "running" THEN "recovered" ELSE @]
          BY <3>1
        <4> QED BY <4>1
      <3>2. CASE journal[r] # "active" BY <3>2
      <3> QED BY <3>1, <3>2
    <2>2. child' \subseteq Runs OBVIOUS
    <2>3. hand' \in [Managers -> Runs \union {None}]
      <3>1. CASE journal[r] = "active"
        <4>1. hand' = [hand EXCEPT ![m] = r] BY <3>1
        <4> QED BY <4>1
      <3>2. CASE journal[r] # "active" BY <3>2
      <3> QED BY <3>1, <3>2
    <2>4. pc' \in [Managers -> {"recover", "close", "idle", "take", "start", "cancel",
                                "drop"}]
      <3>1. CASE journal[r] = "active"
        <4>1. pc' = [pc EXCEPT ![m] = "close"] BY <3>1
        <4> QED BY <4>1
      <3>2. CASE journal[r] # "active" BY <3>2
      <3> QED BY <3>1, <3>2
    <2>5. todo' \in [Managers -> SUBSET Runs] OBVIOUS
    <2> QED BY <2>1, <2>2, <2>3, <2>4, <2>5
  <1>2. HandIsRun' BY DEF HandIsRun, Held
  <1>3. Token'
    <2>1. \A k \in Managers, q \in Runs : Taken(k, q)' => Taken(k, q)
      <3>1. CASE journal[r] = "active" BY <3>1 DEF Taken
      <3>2. CASE journal[r] # "active" BY <3>2 DEF Taken
      <3> QED BY <3>1, <3>2
    <2> QED BY <2>1 DEF Token
  <1>4. DecidedBeforeClosed' BY DEF DecidedBeforeClosed, HandIsRun, Held
  <1>5. Kept'
    <2>1. UpManagers' = UpManagers BY DEF UpManagers
    <2>2. \A k \in Managers, q \in Runs : Taken(k, q) => Taken(k, q)'
      <3>1. CASE journal[r] = "active" BY <3>1 DEF Taken
      <3>2. CASE journal[r] # "active" BY <3>2 DEF Taken
      <3> QED BY <3>1, <3>2
    <2>3. \A q \in Runs : fate'[q] = "running" => fate[q] = "running" OBVIOUS
    <2> QED BY <2>1, <2>2, <2>3 DEF Kept, UpManagers
  <1>6. OneManager' BY DEF OneManager
  <1>7. RecoversFirst' BY DEF RecoversFirst
  <1> QED BY <1>1, <1>2, <1>3, <1>4, <1>5, <1>6, <1>7

LEMMA RecoverClosesKeepsInv ==
  ASSUME Inv, NEW m \in Managers, RecoverCloses(m)
  PROVE  Inv'
  <1> USE ManagerConstants DEF RecoverCloses, Inv, TypeOK
  <1>1. TypeOK' BY DEF HandIsRun, Held
  <1>2. HandIsRun' BY DEF HandIsRun, Held
  <1>3. Token' BY DEF Token, Taken, HandIsRun, Held
  <1>4. DecidedBeforeClosed' BY DEF DecidedBeforeClosed, HandIsRun, Held
  <1>5. Kept' BY DEF Kept, Taken, UpManagers, DecidedBeforeClosed, HandIsRun, Held
  <1>6. OneManager' BY DEF OneManager
  <1>7. RecoversFirst' BY DEF RecoversFirst
  <1> QED BY <1>1, <1>2, <1>3, <1>4, <1>5, <1>6, <1>7

LEMMA RecoverEndsKeepsInv ==
  ASSUME Inv, NEW m \in Managers, RecoverEnds(m)
  PROVE  Inv'
  <1> USE ManagerConstants DEF RecoverEnds, Inv, TypeOK
  <1>1. TypeOK' BY DEF HandIsRun, Held
  <1>2. HandIsRun' BY DEF HandIsRun, Held
  <1>3. Token' BY DEF Token, Taken, HandIsRun, Held
  <1>4. DecidedBeforeClosed' BY DEF DecidedBeforeClosed, HandIsRun, Held
  <1>5. Kept'
    <2>1. UpManagers' = UpManagers BY DEF UpManagers
    <2>2. \A k \in Managers, q \in Runs : Taken(k, q) => Taken(k, q)' BY DEF Taken
    <2> QED BY <2>1, <2>2 DEF Kept, UpManagers
  <1>6. OneManager' BY DEF OneManager
  <1>7. RecoversFirst' BY DEF RecoversFirst
  <1> QED BY <1>1, <1>2, <1>3, <1>4, <1>5, <1>6, <1>7

-----------------------------------------------------------------------------
(* Each step of the loop of a manager                                       *)

LEMMA CancelQueuedKeepsInv ==
  ASSUME Inv, NEW m \in Managers, NEW r \in Runs, CancelQueued(m, r)
  PROVE  Inv'
  <1> USE ManagerConstants DEF CancelQueued, Takes, Inv, TypeOK
  <1>1. TypeOK' BY DEF HandIsRun, Held
  <1>2. HandIsRun' BY DEF HandIsRun, Held
  <1>3. Token'
    <2>1. Taken(m, r)' BY DEF Taken
    <2>2. \A k \in Managers, q \in Runs : Taken(k, q)' => (k = m /\ q = r) \/ Taken(k, q)
      BY DEF Taken
    <2>3. starts[r] = 0 /\ \A k \in Managers : ~Taken(k, r) BY DEF Token
    <2>4. sub[r] \notin {"idle", "write"} BY DEF Token
    <2>5. UNCHANGED <<sub, starts>> /\ job' = job \ {r} OBVIOUS
    <2> QED BY <2>1, <2>2, <2>3, <2>4, <2>5 DEF Token
  <1>4. DecidedBeforeClosed' BY DEF DecidedBeforeClosed, HandIsRun, Held
  <1>5. Kept' BY DEF Kept, Taken, UpManagers, DecidedBeforeClosed, HandIsRun, Held
  <1>6. OneManager' BY DEF OneManager
  <1>7. RecoversFirst' BY DEF RecoversFirst
  <1> QED BY <1>1, <1>2, <1>3, <1>4, <1>5, <1>6, <1>7

LEMMA RejectReclaimKeepsInv ==
  ASSUME Inv, NEW m \in Managers, NEW r \in Runs, RejectReclaim(m, r)
  PROVE  Inv'
  <1> USE ManagerConstants DEF RejectReclaim, Inv, TypeOK
  <1>1. TypeOK' BY DEF HandIsRun, Held
  <1>2. HandIsRun' BY DEF HandIsRun, Held
  <1>3. Token' BY DEF Token, Taken, HandIsRun, Held
  <1>4. DecidedBeforeClosed' BY DEF DecidedBeforeClosed, HandIsRun, Held
  <1>5. Kept' BY DEF Kept, Taken, UpManagers, DecidedBeforeClosed, HandIsRun, Held
  <1>6. OneManager' BY DEF OneManager
  <1>7. RecoversFirst' BY DEF RecoversFirst
  <1> QED BY <1>1, <1>2, <1>3, <1>4, <1>5, <1>6, <1>7

LEMMA MarkCancelledKeepsInv ==
  ASSUME Inv, NEW m \in Managers, MarkCancelled(m)
  PROVE  Inv'
  <1> USE ManagerConstants DEF MarkCancelled, Judge, Takes, Inv, TypeOK
  <1>1. TypeOK' BY DEF HandIsRun, Held
  <1>2. HandIsRun' BY DEF HandIsRun, Held
  <1>3. Token' BY DEF Token, Taken, HandIsRun, Held
  <1>4. DecidedBeforeClosed' BY DEF DecidedBeforeClosed, HandIsRun, Held
  <1>5. Kept' BY DEF Kept, Taken, UpManagers, DecidedBeforeClosed, HandIsRun, Held
  <1>6. OneManager' BY DEF OneManager
  <1>7. RecoversFirst' BY DEF RecoversFirst
  <1> QED BY <1>1, <1>2, <1>3, <1>4, <1>5, <1>6, <1>7

LEMMA TakeCapsuleKeepsInv ==
  ASSUME Inv, NEW m \in Managers, NEW r \in Runs, TakeCapsule(m, r)
  PROVE  Inv'
  <1> USE ManagerConstants DEF TakeCapsule, Takes, Inv, TypeOK
  <1>1. TypeOK' BY DEF HandIsRun, Held
  <1>2. HandIsRun' BY DEF HandIsRun, Held
  <1>3. Token' BY DEF Token, Taken, HandIsRun, Held
  <1>4. DecidedBeforeClosed' BY DEF DecidedBeforeClosed, HandIsRun, Held
  <1>5. Kept'
    <2>1. UpManagers' = UpManagers BY DEF UpManagers
    <2>2. \A k \in Managers, q \in Runs : Taken(k, q) => Taken(k, q)' BY DEF Taken
    <2> QED BY <2>1, <2>2 DEF Kept, UpManagers
  <1>6. OneManager' BY DEF OneManager
  <1>7. RecoversFirst' BY DEF RecoversFirst
  <1> QED BY <1>1, <1>2, <1>3, <1>4, <1>5, <1>6, <1>7

LEMMA UnlinkJobKeepsInv ==
  ASSUME Inv, NEW m \in Managers, UnlinkJob(m)
  PROVE  Inv'
  <1> USE ManagerConstants DEF UnlinkJob, Takes, Inv, TypeOK
  <1>1. TypeOK'
    <2>1. hand[m] \in Runs BY DEF HandIsRun, Held
    <2>2. CASE hand[m] \in job BY <2>1, <2>2
    <2>3. CASE hand[m] \notin job
      <3>1. capsules' \in [Managers -> SUBSET Runs] BY <2>1, <2>3
      <3>2. hand' \in [Managers -> Runs \union {None}] BY <2>3
      <3>3. pc' \in [Managers -> {"recover", "close", "idle", "take", "start", "cancel",
                                  "drop"}]
        BY <2>3
      <3> QED BY <2>3, <3>1, <3>2, <3>3
    <2> QED BY <2>2, <2>3
  <1>2. HandIsRun' BY DEF HandIsRun, Held
  <1>3. Token'
    <2>1. hand[m] \in Runs BY DEF HandIsRun, Held
    <2>2. CASE hand[m] \in job
      <3>1. \A k \in Managers, q \in Runs :
              Taken(k, q)' => (k = m /\ q = hand[m]) \/ Taken(k, q)
        BY <2>2 DEF Taken
      <3>2. starts[hand[m]] = 0 /\ \A k \in Managers : ~Taken(k, hand[m])
        BY <2>1, <2>2 DEF Token
      <3>3. sub[hand[m]] = sub'[hand[m]] /\ job' = job \ {hand[m]} BY <2>2
      <3>4. sub[hand[m]] \notin {"idle", "write"} BY <2>1, <2>2 DEF Token
      <3> QED BY <2>1, <3>1, <3>2, <3>3, <3>4 DEF Token
    <2>3. CASE hand[m] \notin job
      <3>1. \A k \in Managers, q \in Runs : Taken(k, q)' => Taken(k, q)
        BY <2>3 DEF Taken
      <3> QED BY <2>3, <3>1 DEF Token
    <2> QED BY <2>2, <2>3
  <1>4. DecidedBeforeClosed' BY DEF DecidedBeforeClosed, HandIsRun, Held
  <1>5. Kept'
    <2>1. UpManagers' = UpManagers BY DEF UpManagers
    <2>2. \A k \in Managers, q \in Runs : Taken(k, q) => Taken(k, q)' BY DEF Taken
    <2>3. \A q \in Runs : q \in job \ job' => q = hand[m] /\ Taken(m, q)' BY DEF Taken
    <2> QED BY <2>1, <2>2, <2>3 DEF Kept, UpManagers
  <1>6. OneManager' BY DEF OneManager
  <1>7. RecoversFirst' BY DEF RecoversFirst
  <1> QED BY <1>1, <1>2, <1>3, <1>4, <1>5, <1>6, <1>7

LEMMA StartJobKeepsInv ==
  ASSUME Inv, NEW m \in Managers, StartJob(m)
  PROVE  Inv'
  <1> USE ManagerConstants DEF StartJob, Takes, Inv, TypeOK
  <1>1. TypeOK' BY DEF HandIsRun, Held
  <1>2. HandIsRun' BY DEF HandIsRun, Held
  <1>3. Token' BY DEF Token, Taken, HandIsRun, Held
  <1>4. DecidedBeforeClosed' BY DEF DecidedBeforeClosed, HandIsRun, Held
  <1>5. Kept' BY DEF Kept, Taken, UpManagers, DecidedBeforeClosed, HandIsRun, Held
  <1>6. OneManager' BY DEF OneManager
  <1>7. RecoversFirst' BY DEF RecoversFirst
  <1> QED BY <1>1, <1>2, <1>3, <1>4, <1>5, <1>6, <1>7

LEMMA FailUncapsuledKeepsInv ==
  ASSUME Inv, NEW m \in Managers, NEW r \in Runs, FailUncapsuled(m, r)
  PROVE  Inv'
  <1> USE ManagerConstants DEF FailUncapsuled, Judge, Takes, Inv, TypeOK
  <1>1. TypeOK' BY DEF HandIsRun, Held
  <1>2. HandIsRun' BY DEF HandIsRun, Held
  <1>3. Token' BY DEF Token, Taken, HandIsRun, Held
  <1>4. DecidedBeforeClosed' BY DEF DecidedBeforeClosed, HandIsRun, Held
  <1>5. Kept'
    <2>1. UpManagers' = UpManagers BY DEF UpManagers
    <2>2. \A k \in Managers, q \in Runs : Taken(k, q) => Taken(k, q)' BY DEF Taken
    <2>3. \A q \in Runs : fate'[q] = "running" => fate[q] = "running" OBVIOUS
    <2> QED BY <2>1, <2>2, <2>3 DEF Kept, UpManagers
  <1>6. OneManager' BY DEF OneManager
  <1>7. RecoversFirst' BY DEF RecoversFirst
  <1> QED BY <1>1, <1>2, <1>3, <1>4, <1>5, <1>6, <1>7

LEMMA DropJobKeepsInv ==
  ASSUME Inv, NEW m \in Managers, DropJob(m)
  PROVE  Inv'
  <1> USE ManagerConstants DEF DropJob, Takes, Inv, TypeOK
  <1>1. TypeOK' BY DEF HandIsRun, Held
  <1>2. HandIsRun' BY DEF HandIsRun, Held
  <1>3. Token' BY DEF Token, Taken, HandIsRun, Held
  <1>4. DecidedBeforeClosed' BY DEF DecidedBeforeClosed, HandIsRun, Held
  <1>5. Kept' BY DEF Kept, Taken, UpManagers, DecidedBeforeClosed, HandIsRun, Held
  <1>6. OneManager' BY DEF OneManager
  <1>7. RecoversFirst' BY DEF RecoversFirst
  <1> QED BY <1>1, <1>2, <1>3, <1>4, <1>5, <1>6, <1>7

-----------------------------------------------------------------------------
(* Each step of the threads of a manager, and its death                     *)

LEMMA WatcherCancelsKeepsInv ==
  ASSUME Inv, NEW m \in Managers, NEW r \in Runs, WatcherCancels(m, r)
  PROVE  Inv'
  <1> USE ManagerConstants DEF WatcherCancels, Judge, Inv, TypeOK
  <1>1. TypeOK' BY DEF HandIsRun, Held
  <1>2. HandIsRun' BY DEF HandIsRun, Held
  <1>3. Token' BY DEF Token, Taken, HandIsRun, Held
  <1>4. DecidedBeforeClosed' BY DEF DecidedBeforeClosed, HandIsRun, Held
  <1>5. Kept' BY DEF Kept, Taken, UpManagers, DecidedBeforeClosed, HandIsRun, Held
  <1>6. OneManager' BY DEF OneManager
  <1>7. RecoversFirst' BY DEF RecoversFirst
  <1> QED BY <1>1, <1>2, <1>3, <1>4, <1>5, <1>6, <1>7

LEMMA JobEndsKeepsInv ==
  ASSUME Inv, NEW m \in Managers, NEW r \in Runs, JobEnds(m, r)
  PROVE  Inv'
  <1> USE ManagerConstants DEF JobEnds, Judge, Inv, TypeOK
  <1>1. TypeOK' BY DEF HandIsRun, Held
  <1>2. HandIsRun' BY DEF HandIsRun, Held
  <1>3. Token' BY DEF Token, Taken, HandIsRun, Held
  <1>4. DecidedBeforeClosed' BY DEF DecidedBeforeClosed, HandIsRun, Held
  <1>5. Kept' BY DEF Kept, Taken, UpManagers, DecidedBeforeClosed, HandIsRun, Held
  <1>6. OneManager' BY DEF OneManager
  <1>7. RecoversFirst' BY DEF RecoversFirst
  <1> QED BY <1>1, <1>2, <1>3, <1>4, <1>5, <1>6, <1>7

LEMMA ManagerDiesKeepsInv ==
  ASSUME Inv, NEW m \in Managers, ManagerDies(m)
  PROVE  Inv'
  <1> USE ManagerConstants DEF ManagerDies, Inv, TypeOK
  <1>1. TypeOK' BY DEF HandIsRun, Held
  <1>2. HandIsRun' BY DEF HandIsRun, Held
  <1>3. Token' BY DEF Token, Taken, HandIsRun, Held
  <1>4. DecidedBeforeClosed' BY DEF DecidedBeforeClosed, HandIsRun, Held
  <1>5. Kept' BY DEF Kept, Taken, UpManagers, DecidedBeforeClosed, HandIsRun, Held
  <1>6. OneManager' BY DEF OneManager
  <1>7. RecoversFirst' BY DEF RecoversFirst
  <1> QED BY <1>1, <1>2, <1>3, <1>4, <1>5, <1>6, <1>7

-----------------------------------------------------------------------------
\* Every step of the system keeps the invariant.
LEMMA InvKept ==
  ASSUME Inv, [Next]_vars
  PROVE  Inv'
  <1>1. CASE \E r \in Runs : EnsureReuses(r) BY <1>1, EnsureReusesKeepsInv
  <1>2. CASE \E r \in Runs, m \in Managers : EnsureSpawns(r, m) BY <1>2,
      EnsureSpawnsKeepsInv
  <1>3. CASE \E r \in Runs : EnsureRaises(r) BY <1>3, EnsureRaisesKeepsInv
  <1>4. CASE \E r \in Runs : WriteJob(r) BY <1>4, WriteJobKeepsInv
  <1>5. CASE \E r \in Runs : SendCapsule(r) BY <1>5, SendCapsuleKeepsInv
  <1>6. CASE \E r \in Runs : SendFails(r) BY <1>6, SendFailsKeepsInv
  <1>7. CASE \E r \in Runs : LaunchFails(r) BY <1>7, LaunchFailsKeepsInv
  <1>8. CASE \E r \in Runs : SubmitterDies(r) BY <1>8, SubmitterDiesKeepsInv
  <1>9. CASE \E r \in Runs : Reap(r) BY <1>9, ReapKeepsInv
  <1>10. CASE \E r \in Runs : RequestReclaim(r) BY <1>10, RequestReclaimKeepsInv
  <1>11. CASE \E r \in Runs : ChildEnds(r) BY <1>11, ChildEndsKeepsInv
  <1>12. CASE ReservationAges BY <1>12, ReservationAgesKeepsInv
  <1>13. CASE \E m \in Managers : Boot(m) BY <1>13, BootKeepsInv
  <1>14. CASE \E m \in Managers, r \in Runs : Recover(m, r) BY <1>14,
      RecoverKeepsInv
  <1>15. CASE \E m \in Managers : RecoverCloses(m) BY <1>15, RecoverClosesKeepsInv
  <1>16. CASE \E m \in Managers : RecoverEnds(m) BY <1>16, RecoverEndsKeepsInv
  <1>17. CASE \E m \in Managers, r \in Runs : CancelQueued(m, r) BY <1>17,
      CancelQueuedKeepsInv
  <1>18. CASE \E m \in Managers, r \in Runs : RejectReclaim(m, r) BY <1>18,
      RejectReclaimKeepsInv
  <1>19. CASE \E m \in Managers : MarkCancelled(m) BY <1>19, MarkCancelledKeepsInv
  <1>20. CASE \E m \in Managers, r \in Runs : TakeCapsule(m, r) BY <1>20,
      TakeCapsuleKeepsInv
  <1>21. CASE \E m \in Managers : UnlinkJob(m) BY <1>21, UnlinkJobKeepsInv
  <1>22. CASE \E m \in Managers : StartJob(m) BY <1>22, StartJobKeepsInv
  <1>23. CASE \E m \in Managers, r \in Runs : FailUncapsuled(m, r) BY <1>23,
      FailUncapsuledKeepsInv
  <1>24. CASE \E m \in Managers : DropJob(m) BY <1>24, DropJobKeepsInv
  <1>25. CASE \E m \in Managers, r \in Runs : WatcherCancels(m, r) BY <1>25,
      WatcherCancelsKeepsInv
  <1>26. CASE \E m \in Managers, r \in Runs : JobEnds(m, r) BY <1>26,
      JobEndsKeepsInv
  <1>27. CASE \E m \in Managers : ManagerDies(m) BY <1>27, ManagerDiesKeepsInv
  <1>28. CASE UNCHANGED vars BY <1>28 DEF Inv, TypeOK, HandIsRun, Held, Token,
      Taken, DecidedBeforeClosed, Kept, UpManagers, OneManager, RecoversFirst
  <1> QED BY <1>1, <1>2, <1>3, <1>4, <1>5, <1>6, <1>7, <1>8, <1>9, <1>10, <1>11,
      <1>12, <1>13, <1>14, <1>15, <1>16, <1>17, <1>18, <1>19, <1>20, <1>21, <1>22,
      <1>23, <1>24, <1>25, <1>26, <1>27, <1>28 DEF Next, Submit, Manage

\* The inductive invariant holds in every reachable state.
THEOREM Invariant == Spec => []Inv
  <1>1. Init => Inv
    <2> SUFFICES ASSUME Init PROVE Inv OBVIOUS
    <2>1. TypeOK BY DEF Init, TypeOK
    <2>2. HandIsRun /\ DecidedBeforeClosed /\ RecoversFirst
      BY DEF Init, HandIsRun, DecidedBeforeClosed, RecoversFirst, Held
    <2>3. Token BY DEF Init, Token, Taken
    <2>4. Kept /\ OneManager BY DEF Init, Kept, OneManager
    <2> QED BY <2>1, <2>2, <2>3, <2>4 DEF Inv
  <1>2. Inv /\ [Next]_vars => Inv' BY InvKept
  <1> QED BY <1>1, <1>2, PTL DEF Spec

\* Files, queues and the positions of managers and submitters are well formed.
THEOREM TypeCorrect == Spec => []TypeOK
  <1>1. Inv => TypeOK BY DEF Inv
  <1> QED BY Invariant, <1>1, PTL

\* No run is started twice: the unlink of its job file decides who may, whatever
\* capsules were sent again and however many managers there are.
THEOREM NoRunTwice == Spec => []StartedOnce
  <1>1. Inv => StartedOnce BY DEF Inv, Token, StartedOnce
  <1> QED BY Invariant, <1>1, PTL

\* An accepted run without a verdict is where a manager will find it, but for one
\* whose manager died between the unlink and the journal.
THEOREM AcceptedRunsAreKept == Spec => []NothingStranded
  <1>1. Inv => NothingStranded
    BY DEF Inv, Kept, Taken, NothingStranded
  <1> QED BY Invariant, <1>1, PTL

\* The recovery of a manager fails no run that a living manager works on, but
\* where a manager came up after its reservation had run out.
THEOREM RecoveryIsOfTheDead == Spec => RecoverySparesLiving
  <1> DEFINE Spares(r) ==
        fate[r] # "recovered" /\ fate'[r] = "recovered" =>
          slow \/ \A m \in UpManagers : r \notin active[m]
  <1>1. ASSUME Inv, [Next]_vars, NEW r \in Runs PROVE Spares(r)
    <2>1. CASE \E m \in Managers, q \in Runs : Recover(m, q)
      BY <1>1, <2>1 DEF Recover, Judge, Inv, TypeOK, OneManager, RecoversFirst, UpManagers
    <2>2. CASE ~\E m \in Managers, q \in Runs : Recover(m, q)
      <3> fate[r] # "recovered" => fate'[r] # "recovered"
        BY <1>1, <2>2 DEF Inv, TypeOK, Next, Submit, Manage, Judge, EnsureReuses,
          EnsureSpawns, EnsureRaises, WriteJob, SendCapsule, SendFails, LaunchFails,
          SubmitterDies, Reap, RequestReclaim, ChildEnds, ReservationAges, Boot,
          RecoverCloses, RecoverEnds, CancelQueued, RejectReclaim, MarkCancelled,
          TakeCapsule, UnlinkJob, StartJob, FailUncapsuled, DropJob, WatcherCancels,
          JobEnds, ManagerDies
      <3> QED OBVIOUS
    <2> QED BY <2>1, <2>2
  <1>2. Inv /\ [Next]_vars =>
          [\A r \in Runs :
             (fate[r] # "recovered" /\ fate'[r] = "recovered") =>
               (slow \/ \A m \in UpManagers : r \notin active[m])]_vars
    BY <1>1
  <1> QED BY Invariant, <1>2, PTL DEF Spec, RecoverySparesLiving
=============================================================================

----------------------------- MODULE SyncProofs ------------------------------
(***************************************************************************)
(* Scheduling of synchronizations through the queue: a connector that no   *)
(* job of the present moves on has a cause the code does not rule out, for *)
(* any connectors, schedulers, goroutines and requests.                    *)
(***************************************************************************)
EXTENDS SyncScheduling, TLAPS

\* The keys of a connector's jobs.
KeysOf(k) == {j \in Keys : j[2] = k}

\* What StrandedHasCause allows as a cause.
Caused(k) ==
    \/ \E j \in KeysOf(k) : syncJob[j].attempts > 1
    \/ \E q \in SyncRequests : request[q] # Nobody /\ request[q][2] = k
    \/ syncFaultsSoFar > 0

\* A task has claimed the connector, or has it on its list.
Waits(k) == \E s \in Schedulers : task[s].item = k
Listed(k) == \E s \in Schedulers : k \in task[s].todo

\* The handler of the job has not come to a result, and has stored one.
Begun(j) == \E g \in Syncers : syncWorker[g].job = j /\ syncing[g] \in {"none", "running"}
Stored(j) == \E g \in Syncers : syncWorker[g].job = j /\ syncing[g] = "ok"
Fresh(j) == (syncJob[j].status = "QUEUED" /\ syncJob[j].attempts = 0) \/ Begun(j)

\* The local variables of a task; without faults the task that runs has the
\* lock.
TaskAt(s) ==
    /\ task[s].pc = "submit" <=> task[s].item # Nobody
    /\ task[s].pc = "idle" => task[s].todo = {}
    /\ task[s].pc # "idle" /\ syncFaultsSoFar = 0 => lock = s

\* A job that was claimed once, and no fault yet: its goroutine is the owner.
ClaimedOnce(j) ==
    /\ syncJob[j].status = "RUNNING" => syncJob[j].attempts > 0
    /\ syncFaultsSoFar = 0 /\ syncJob[j].attempts <= 1 =>
         \A g \in Syncers : syncWorker[g].job = j =>
           /\ syncJob[j].status = "RUNNING" /\ syncJob[j].owner = SyncWorkerId[g]
           /\ syncJob[j].attempts = 1
           /\ \A h \in Syncers : syncWorker[h].job = j => h = g

\* Without a cause a connector is in one place at a time: listed, claimed by a
\* task, or in a job that has no result yet; and a key of this minute that has
\* served keeps it from being listed again.
ConnectorAt(k) ==
    ~Caused(k) =>
      /\ \A i, j \in KeysOf(k) : Fresh(i) /\ Fresh(j) => i = j
      /\ Waits(k) => \A j \in KeysOf(k) : ~Fresh(j)
      /\ Waits(k) \/ (\E j \in KeysOf(k) : Fresh(j)) =>
           source[k].status = "QUEUED" /\ ~Listed(k)
      /\ LET j == <<"scheduled-sync", k, minute>> IN
           syncJob[j].status = "SUCCEEDED" \/ Stored(j) =>
             ~source[k].due /\ ~Listed(k) /\ ~Waits(k)
      /\ source[k].status = "QUEUED" =>
           Waits(k) \/ \E j \in KeysOf(k) : Unsettled(j) /\ ~Stored(j)

\* A goroutine in the handler has a job.
HandlersOK == \A g \in Syncers : syncing[g] # "none" => syncWorker[g].job # Nobody

\* No key is of a minute to come.
KeysOfPast ==
    \A k \in Synced, m \in 1 .. Minutes :
      syncJob[<<"scheduled-sync", k, m>>].status # "NONE" => m <= minute

\* The attempts a goroutine returned with are no more than its row's.
ClaimsAreOld ==
    \A g \in Syncers, j \in Keys :
      syncWorker[g].job = j => syncWorker[g].attempts <= syncJob[j].attempts

\* The inductive invariant of scheduling.
SyncInv ==
    /\ SyncTypeOK /\ Queue!OwnedIffRunning /\ Queue!DeadIsExhausted /\ ClaimsAreOld
    /\ HandlersOK /\ KeysOfPast
    /\ \A s \in Schedulers : TaskAt(s)
    /\ \A j \in Keys : ClaimedOnce(j)
    /\ \A k \in Synced : ConnectorAt(k)
-----------------------------------------------------------------------------
\* The keys and their connectors.
LEMMA KeyShape ==
  /\ \A k \in Synced, m \in 1 .. Minutes :
       /\ <<"scheduled-sync", k, m>> \in Keys
       /\ <<"scheduled-sync", k, m>>[2] = k
  /\ \A k \in Synced, q \in SyncRequests :
       /\ <<"connector-sync", k, q>> \in Keys
       /\ <<"connector-sync", k, q>>[2] = k
  /\ \A j \in Keys : j[2] \in Synced /\ j \in KeysOf(j[2]) /\ j # Nobody
<1>1. ASSUME NEW k \in Synced, NEW m \in 1 .. Minutes
      PROVE  <<"scheduled-sync", k, m>> \in Keys /\ <<"scheduled-sync", k, m>>[2] = k
  BY DEF Keys, ScheduledKeys
<1>2. ASSUME NEW k \in Synced, NEW q \in SyncRequests
      PROVE  <<"connector-sync", k, q>> \in Keys /\ <<"connector-sync", k, q>>[2] = k
  BY DEF Keys, RequestKeys
<1>3. ASSUME NEW j \in Keys
      PROVE  j[2] \in Synced /\ j \in KeysOf(j[2]) /\ j # Nobody
  <2>1. CASE j \in ScheduledKeys
    <3>1. PICK k \in Synced, m \in 1 .. Minutes : j = <<"scheduled-sync", k, m>>
      BY <2>1 DEF ScheduledKeys
    <3>2. QED
      BY <3>1, SyncQueueConstants DEF KeysOf
  <2>2. CASE j \in RequestKeys
    <3>1. PICK k \in Synced, q \in SyncRequests : j = <<"connector-sync", k, q>>
      BY <2>2 DEF RequestKeys
    <3>2. QED
      BY <3>1, SyncQueueConstants DEF KeysOf
  <2>3. QED
    BY <2>1, <2>2 DEF Keys
<1>4. QED
  BY <1>1, <1>2, <1>3

\* A row of the queue and a goroutine of it, by their fields.
SyncRow == [status : {"NONE", "QUEUED", "RUNNING", "SUCCEEDED", "DEAD"},
            attempts : Nat, owner : SyncWorkerIds \cup {Nobody},
            available : BOOLEAN, expired : BOOLEAN]
Holding == [job : Keys \cup {Nobody}, attempts : Nat]

\* The types of the rows, in words the two instances of the queue share.
LEMMA SyncTyped ==
  ASSUME SyncInv
  PROVE  /\ syncJob \in [Keys -> SyncRow]
         /\ syncWorker \in [Syncers -> Holding]
         /\ syncFaultsSoFar \in 0 .. SyncFaults /\ SyncFaults \in Nat
         /\ syncFaultsSoFar \in Nat
         /\ \A j \in Keys : syncJob[j].attempts \in Nat
         /\ \A g \in Syncers : syncWorker[g].attempts \in Nat
         /\ \A g \in Syncers : syncWorker[g].job # Nobody => syncWorker[g].job \in Keys
BY SyncQueueConstants
   DEF SyncInv, SyncTypeOK, Queue!QueueTypeOK, Queue!JobRow, Queue!Worker, SyncRow, Holding

\* The columns of a row.
LEMMA RowColumns ==
  ASSUME NEW x \in SyncRow
  PROVE  /\ x.status \in {"NONE", "QUEUED", "RUNNING", "SUCCEEDED", "DEAD"}
         /\ x.attempts \in Nat /\ x.owner \in SyncWorkerIds \cup {Nobody}
BY DEF SyncRow

\* A step of scheduling is a step of the queue, or a fault beside it.
QueueStep ==
    \/ \E j \in Keys : \/ Queue!Enqueue(j)
                        \/ Queue!BackoffEnds(j) \/ Queue!LeaseEnds(j)
    \/ \E g \in Syncers, j \in Keys : Queue!Claim(g, j)
    \/ \E g \in Syncers : Queue!Heartbeat(g) \/ Queue!Succeed(g) \/ Queue!Fail(g)
    \/ UNCHANGED queueVars

\* A fault, which may be one of the queue's.
FaultStep ==
    /\ syncFaultsSoFar' = syncFaultsSoFar + 1 /\ syncFaultsSoFar < SyncFaults
    /\ \/ \E j \in Keys : Queue!LoseLease(j)
       \/ \E g \in Syncers : Queue!LoseOutcome(g)
       \/ \E w \in SyncWorkerIds : Queue!Crash(w)
       \/ UNCHANGED <<syncJob, syncWorker>>

\* Whatever scheduling does, the queue sees one of its own steps or a fault.
LEMMA StepsOfTheQueue ==
  ASSUME SyncInv, [SyncNext]_syncVars
  PROVE  QueueStep \/ FaultStep
<1>1. ASSUME NEW s \in Schedulers,
             SelectDue(s) \/ TaskStep(s) \/ SubmitFails(s) \/ LoseLock(s) \/ StopTask(s)
      PROVE  QueueStep \/ FaultStep
  <2>1. CASE SubmitItem(s)
    <3>1. PICK j \in Keys : EnqueueKey(j)
      <4>1. task[s].item \in Synced /\ minute \in 1 .. Minutes
        BY <2>1 DEF SyncInv, TaskAt, SyncTypeOK, SubmitItem, Task
      <4>2. QED
        BY <2>1, <4>1, KeyShape DEF SubmitItem
    <3>2. QED
      BY <3>1, Zenon DEF EnqueueKey, QueueStep
  <2>2. CASE SelectDue(s) \/ EndTask(s) \/ \E k \in Synced : ClaimItem(s, k)
    BY <2>2, Zenon DEF SelectDue, EndTask, ClaimItem, QueueStep
  <2>3. CASE SubmitFails(s) \/ LoseLock(s) \/ StopTask(s)
    BY <2>3, Zenon DEF SubmitFails, LoseLock, StopTask, FaultStep
  <2>4. QED
    BY <1>1, <2>1, <2>2, <2>3, Zenon DEF TaskStep
<1>2. ASSUME NEW s \in Schedulers, NEW k \in Synced, ClaimItemFails(s, k)
      PROVE  FaultStep
  BY <1>2, Zenon DEF ClaimItemFails, FaultStep
<1>3. ASSUME NEW q \in SyncRequests, NEW k \in Synced, RequestSync(q, k) \/ MarkQueued(q, k)
      PROVE  QueueStep
  <2>1. <<"connector-sync", k, q>> \in Keys
    BY KeyShape
  <2>2. QED
    BY <1>3, <2>1, Zenon DEF RequestSync, MarkQueued, EnqueueKey, QueueStep
<1>4. ASSUME NEW g \in Syncers, NEW j \in Keys, ClaimSync(g, j) PROVE QueueStep
  BY <1>4, Zenon DEF ClaimSync, QueueStep
<1>5. ASSUME NEW g \in Syncers, HandlerReturns(g) \/ RenewSyncLease(g) PROVE QueueStep
  BY <1>5, Zenon DEF HandlerReturns, BeginSync, FailRun, CommitRun, RollBackRun, SettleSync,
                     RenewSyncLease, QueueStep
<1>6. ASSUME NEW g \in Syncers, LoseSyncOutcome(g) PROVE FaultStep
  BY <1>6, Zenon DEF LoseSyncOutcome, FaultStep, Queue!LoseOutcome
<1>7. ASSUME NEW w \in SyncWorkerIds, StopSyncer(w) PROVE FaultStep
  BY <1>7, Zenon DEF StopSyncer, FaultStep, Queue!Crash
<1>8. ASSUME NEW j \in Keys, SyncQueueTime(j) PROVE QueueStep \/ FaultStep
  BY <1>8, Zenon DEF SyncQueueTime, QueueStep, FaultStep, Queue!LoseLease
<1>9. ASSUME NEW due \in SUBSET Synced, MinutePasses(due) PROVE QueueStep
  BY <1>9, Zenon DEF MinutePasses, QueueStep
<1>10. ASSUME NEW k \in Synced, NEW b \in Readabilities, SetReadable(k, b) PROVE QueueStep
  BY <1>10, Zenon DEF SetReadable, QueueStep
<1>11. CASE UNCHANGED syncVars
  BY <1>11, Zenon DEF syncVars, QueueStep
<1>12. QED
  BY <1>1, <1>2, <1>3, <1>4, <1>5, <1>6, <1>7, <1>8, <1>9, <1>10, <1>11, Zenon DEF SyncNext

-----------------------------------------------------------------------------
(* What the statements of the queue do to rows and goroutines. *)

\* INSERT ... ON CONFLICT DO NOTHING queues a new key and leaves an old one.
LEMMA EnqueueEffect ==
  ASSUME SyncInv, NEW j \in Keys, EnqueueKey(j)
  PROVE  /\ UNCHANGED <<syncWorker, syncFaultsSoFar>>
         /\ \A i \in Keys \ {j} : syncJob'[i] = syncJob[i]
         /\ syncJob'[j].attempts = syncJob[j].attempts
         /\ syncJob'[j].status = IF syncJob[j].status = "NONE" THEN "QUEUED"
                                 ELSE syncJob[j].status
         /\ syncJob'[j].owner = syncJob[j].owner
<1>1. syncJob[j] \in SyncRow
  BY SyncTyped
<1>2. CASE syncJob[j].status = "NONE"
  <2>1. PICK r : r = [syncJob[j] EXCEPT !.status = "QUEUED"]
    BY Zenon
  <2>2. r.status = "QUEUED" /\ r.attempts = syncJob[j].attempts /\ r.owner = syncJob[j].owner
    BY <1>1, <2>1 DEF SyncRow
  <2>3. syncJob' = [syncJob EXCEPT ![j] = r] /\ UNCHANGED <<syncWorker, syncFaultsSoFar>>
    BY <1>2, <2>1, Zenon DEF EnqueueKey, Queue!Enqueue
  <2>4. QED
    BY <1>2, <2>2, <2>3, SyncTyped
<1>3. CASE syncJob[j].status # "NONE"
  BY <1>3 DEF EnqueueKey, queueVars
<1>4. QED
  BY <1>2, <1>3

\* Time and heartbeats leave status, attempts and owner alone.
LEMMA TimeEffect ==
  ASSUME SyncInv,
         \/ \E j \in Keys : Queue!BackoffEnds(j) \/ Queue!LeaseEnds(j)
         \/ \E g \in Syncers : Queue!Heartbeat(g)
  PROVE  /\ UNCHANGED <<syncWorker, syncFaultsSoFar>>
         /\ \A i \in Keys : /\ syncJob'[i].status = syncJob[i].status
                            /\ syncJob'[i].attempts = syncJob[i].attempts
                            /\ syncJob'[i].owner = syncJob[i].owner
<1>0. PICK j \in Keys : \E r :
        /\ syncJob' = [syncJob EXCEPT ![j] = r] /\ UNCHANGED <<syncWorker, syncFaultsSoFar>>
        /\ \/ r = [syncJob[j] EXCEPT !.available = TRUE]
           \/ r = [syncJob[j] EXCEPT !.expired = TRUE]
           \/ r = [syncJob[j] EXCEPT !.expired = FALSE]
  <2>1. CASE \E j \in Keys : Queue!BackoffEnds(j) \/ Queue!LeaseEnds(j)
    BY <2>1, Zenon DEF Queue!BackoffEnds, Queue!LeaseEnds
  <2>2. CASE \E g \in Syncers : Queue!Heartbeat(g)
    <3>1. PICK g \in Syncers : Queue!Heartbeat(g)
      BY <2>2
    <3>2. PICK j \in Keys : j = syncWorker[g].job
      BY <3>1, SyncTyped DEF Queue!Heartbeat
    <3>3. QED
      BY <3>1, <3>2, Zenon DEF Queue!Heartbeat
  <2>3. QED
    BY <2>1, <2>2
<1>1. PICK r :
        /\ syncJob' = [syncJob EXCEPT ![j] = r] /\ UNCHANGED <<syncWorker, syncFaultsSoFar>>
        /\ \/ r = [syncJob[j] EXCEPT !.available = TRUE]
           \/ r = [syncJob[j] EXCEPT !.expired = TRUE]
           \/ r = [syncJob[j] EXCEPT !.expired = FALSE]
  BY <1>0, Zenon
<1>2. syncJob[j] \in SyncRow
  BY SyncTyped
<1>3. /\ r.status = syncJob[j].status /\ r.attempts = syncJob[j].attempts
      /\ r.owner = syncJob[j].owner
  BY <1>1, <1>2 DEF SyncRow
<1>4. QED
  BY <1>1, <1>3, SyncTyped

\* A lease that ends early leaves status and attempts alone.
LEMMA LoseLeaseEffect ==
  ASSUME SyncInv, NEW j \in Keys, Queue!LoseLease(j)
  PROVE  \A i \in Keys : /\ syncJob'[i].status = syncJob[i].status
                          /\ syncJob'[i].attempts = syncJob[i].attempts
<1>1. PICK r : r = [syncJob[j] EXCEPT !.expired = TRUE]
  BY Zenon
<1>2. syncJob' = [syncJob EXCEPT ![j] = r] /\ syncJob[j] \in SyncRow
  BY <1>1, SyncTyped, Zenon DEF Queue!LoseLease
<1>3. r.attempts = syncJob[j].attempts /\ r.status = syncJob[j].status
  BY <1>1, <1>2, Zenon DEF SyncRow
<1>4. QED
  BY <1>2, <1>3, SyncTyped

\* A claim counts an attempt and gives the row to an idle goroutine.
LEMMA ClaimEffect ==
  ASSUME SyncInv, NEW g \in Syncers, NEW j \in Keys, Queue!Claim(g, j)
  PROVE  /\ syncFaultsSoFar' = syncFaultsSoFar
         /\ syncWorker[g].job = Nobody /\ syncing[g] = "none" /\ syncWorker'[g].job = j
         /\ \A h \in Syncers \ {g} : syncWorker'[h] = syncWorker[h]
         /\ \A i \in Keys \ {j} : syncJob'[i] = syncJob[i]
         /\ syncJob[j].status \in {"QUEUED", "RUNNING"}
         /\ syncJob'[j].status = "RUNNING"
         /\ syncJob'[j].owner = SyncWorkerId[g]
         /\ syncJob'[j].attempts = syncJob[j].attempts + 1
<1>1. syncJob[j] \in SyncRow /\ syncJob[j].attempts \in Nat
  BY SyncTyped
<1>2. PICK n \in Nat : n = syncJob[j].attempts + 1
  BY <1>1
<1>3. PICK r : r = [syncJob[j] EXCEPT !.status = "RUNNING", !.owner = SyncWorkerId[g],
                                      !.attempts = n, !.expired = FALSE]
  BY Zenon
<1>4. r.status = "RUNNING" /\ r.owner = SyncWorkerId[g] /\ r.attempts = n
  BY <1>1, <1>3, Zenon DEF SyncRow
<1>5. syncJob' = [syncJob EXCEPT ![j] = r]
  BY <1>2, <1>3, Zenon DEF Queue!Claim
<1>6. PICK y : y = [job |-> j, attempts |-> n]
  BY Zenon
<1>7. syncWorker' = [syncWorker EXCEPT ![g] = y] /\ y.job = j
  BY <1>2, <1>6, Zenon DEF Queue!Claim
<1>8. /\ syncWorker[g].job = Nobody /\ syncFaultsSoFar' = syncFaultsSoFar
      /\ syncJob[j].status \in {"QUEUED", "RUNNING"}
  BY DEF Queue!Claim, Queue!Free, Queue!Claimable
<1>9. syncing[g] = "none"
  BY <1>8, Zenon DEF SyncInv, HandlersOK
<1>10. QED
  BY <1>2, <1>4, <1>5, <1>7, <1>8, <1>9, SyncTyped

\* The outcome of a handler moves its row only while its process owns it.
LEMMA SettleEffect ==
  ASSUME SyncInv, NEW g \in Syncers, Queue!Succeed(g) \/ Queue!Fail(g)
  PROVE  \E j \in Keys :
           /\ j = syncWorker[g].job
           /\ syncFaultsSoFar' = syncFaultsSoFar
           /\ syncWorker'[g].job = Nobody
           /\ \A h \in Syncers \ {g} : syncWorker'[h] = syncWorker[h]
           /\ \A i \in Keys \ {j} : syncJob'[i] = syncJob[i]
           /\ syncJob'[j].attempts = syncJob[j].attempts
           /\ syncJob[j].owner # SyncWorkerId[g] => syncJob'[j] = syncJob[j]
           /\ syncJob[j].owner = SyncWorkerId[g] =>
                /\ syncJob[j].status = "RUNNING"
                /\ syncJob'[j].status \notin {"NONE", "RUNNING"}
                /\ Queue!Succeed(g) => syncJob'[j].status = "SUCCEEDED"
                /\ Queue!Fail(g) /\ syncWorker[g].attempts < SyncAttempts =>
                     syncJob'[j].status = "QUEUED"
<1>1. PICK j \in Keys : j = syncWorker[g].job
  BY SyncTyped DEF Queue!Succeed, Queue!Fail, Queue!Settle
<1>2. syncJob[j] \in SyncRow
  BY SyncTyped
<1>3. ASSUME NEW r, Queue!Settle(g, r)
      PROVE  /\ syncWorker'[g].job = Nobody
             /\ \A h \in Syncers \ {g} : syncWorker'[h] = syncWorker[h]
             /\ syncFaultsSoFar' = syncFaultsSoFar
             /\ \A i \in Keys \ {j} : syncJob'[i] = syncJob[i]
             /\ syncJob'[j] = IF syncJob[j].owner = SyncWorkerId[g] THEN r ELSE syncJob[j]
  <2>1. /\ syncJob' = IF syncJob[j].owner = SyncWorkerId[g] THEN [syncJob EXCEPT ![j] = r]
                                                            ELSE syncJob
        /\ syncWorker' = [syncWorker EXCEPT ![g] = Queue!Free]
        /\ syncFaultsSoFar' = syncFaultsSoFar
    BY <1>1, <1>3, Zenon DEF Queue!Settle
  <2>2. syncWorker'[g].job = Nobody /\ \A h \in Syncers \ {g} : syncWorker'[h] = syncWorker[h]
    BY <2>1, SyncTyped DEF Queue!Free
  <2>3. CASE syncJob[j].owner = SyncWorkerId[g]
    BY <2>1, <2>2, <2>3, SyncTyped
  <2>4. CASE syncJob[j].owner # SyncWorkerId[g]
    BY <2>1, <2>2, <2>4
  <2>5. QED
    BY <2>3, <2>4
<1>4. ASSUME Queue!Succeed(g)
      PROVE  \E r : /\ Queue!Settle(g, r) /\ r.attempts = syncJob[j].attempts
                    /\ r.status = "SUCCEEDED"
  <2>1. PICK r : r = [syncJob[j] EXCEPT !.status = "SUCCEEDED", !.owner = Nobody,
                                        !.expired = FALSE]
    BY Zenon
  <2>2. r.attempts = syncJob[j].attempts /\ r.status = "SUCCEEDED"
    BY <1>2, <2>1, Zenon DEF SyncRow
  <2>3. Queue!Settle(g, r)
    BY <1>1, <1>4, <2>1, Zenon DEF Queue!Succeed
  <2>4. QED
    BY <2>2, <2>3, Zenon
<1>5. ASSUME Queue!Fail(g)
      PROVE  \E r : /\ Queue!Settle(g, r) /\ r.attempts = syncJob[j].attempts
                    /\ r.status = IF syncWorker[g].attempts >= SyncAttempts THEN "DEAD"
                                                                            ELSE "QUEUED"
  <2>1. PICK r : r = [syncJob[j] EXCEPT
                        !.status = IF syncWorker[g].attempts >= SyncAttempts THEN "DEAD"
                                                                             ELSE "QUEUED",
                        !.available = FALSE, !.owner = Nobody, !.expired = FALSE]
    BY Zenon
  <2>2. /\ r.attempts = syncJob[j].attempts
        /\ r.status = IF syncWorker[g].attempts >= SyncAttempts THEN "DEAD" ELSE "QUEUED"
    BY <1>2, <2>1, Zenon DEF SyncRow
  <2>3. Queue!Settle(g, r)
    BY <1>1, <1>5, <2>1, Zenon DEF Queue!Fail
  <2>4. QED
    BY <2>2, <2>3, Zenon
<1>6. syncJob[j].owner = SyncWorkerId[g] => syncJob[j].status = "RUNNING"
  BY SyncQueueConstants DEF SyncInv, Queue!OwnedIffRunning
<1>7. syncWorker[g].attempts \in Nat /\ SyncAttempts \in Nat
  BY SyncTyped, SyncQueueConstants
<1>8. /\ syncWorker'[g].job = Nobody
      /\ \A h \in Syncers \ {g} : syncWorker'[h] = syncWorker[h]
      /\ syncFaultsSoFar' = syncFaultsSoFar
      /\ \A i \in Keys \ {j} : syncJob'[i] = syncJob[i]
      /\ syncJob[j].owner # SyncWorkerId[g] => syncJob'[j] = syncJob[j]
  BY <1>3, <1>4, <1>5, Zenon
<1>9. ASSUME Queue!Succeed(g)
      PROVE  /\ syncJob'[j].attempts = syncJob[j].attempts
             /\ syncJob[j].owner = SyncWorkerId[g] => syncJob'[j].status = "SUCCEEDED"
  BY <1>3, <1>4, <1>9, Zenon
<1>10. ASSUME Queue!Fail(g)
       PROVE  /\ syncJob'[j].attempts = syncJob[j].attempts
              /\ syncJob[j].owner = SyncWorkerId[g] =>
                   /\ syncJob'[j].status \notin {"NONE", "RUNNING"}
                   /\ syncWorker[g].attempts < SyncAttempts => syncJob'[j].status = "QUEUED"
  BY <1>3, <1>5, <1>7, <1>10
<1>11. QED
  BY <1>1, <1>6, <1>8, <1>9, <1>10

-----------------------------------------------------------------------------
(* The parts of the invariant, one by one. *)

\* A job that was claimed once belongs to the goroutine that claimed it.
LEMMA ClaimedOnceKeeps ==
  ASSUME SyncInv, QueueStep \/ FaultStep, NEW j \in Keys
  PROVE  ClaimedOnce(j)'
<1>1. CASE FaultStep
  <2>1. syncFaultsSoFar' # 0
    BY <1>1, SyncTyped DEF FaultStep
  <2>2. /\ syncJob'[j].status = syncJob[j].status
        /\ syncJob'[j].attempts = syncJob[j].attempts
    BY <1>1, LoseLeaseEffect, Zenon DEF FaultStep, Queue!LoseOutcome, Queue!Crash
  <2>3. QED
    BY <2>1, <2>2, Zenon DEF ClaimedOnce, SyncInv
<1> USE DEF ClaimedOnce
<1>2. ClaimedOnce(j) /\ syncJob[j].attempts \in Nat
  BY SyncTyped DEF SyncInv
<1>3. ASSUME NEW i \in Keys, Queue!Enqueue(i) PROVE ClaimedOnce(j)'
  <2>1. EnqueueKey(i)
    BY <1>3, Zenon DEF EnqueueKey, Queue!Enqueue
  <2>2. QED
    BY <1>2, <2>1, EnqueueEffect
<1>4. CASE \/ \E i \in Keys : Queue!BackoffEnds(i) \/ Queue!LeaseEnds(i)
           \/ \E g \in Syncers : Queue!Heartbeat(g)
  BY <1>2, <1>4, TimeEffect
<1>5. ASSUME NEW g \in Syncers, NEW i \in Keys, Queue!Claim(g, i) PROVE ClaimedOnce(j)'
  <2>1. CASE i = j
    BY <1>2, <1>5, <2>1, ClaimEffect
  <2>2. CASE i # j
    BY <1>2, <1>5, <2>2, ClaimEffect
  <2>3. QED
    BY <2>1, <2>2
<1>6. ASSUME NEW g \in Syncers, Queue!Succeed(g) \/ Queue!Fail(g) PROVE ClaimedOnce(j)'
  <2>1. PICK i \in Keys :
           /\ i = syncWorker[g].job
           /\ syncFaultsSoFar' = syncFaultsSoFar
           /\ syncWorker'[g].job = Nobody
           /\ \A h \in Syncers \ {g} : syncWorker'[h] = syncWorker[h]
           /\ \A l \in Keys \ {i} : syncJob'[l] = syncJob[l]
           /\ syncJob'[i].attempts = syncJob[i].attempts
           /\ syncJob'[i].status = "RUNNING" => syncJob[i].status = "RUNNING"
    BY <1>6, SettleEffect
  <2>2. j # Nobody
    BY KeyShape
  <2>3. CASE i = j
    <3>1. syncFaultsSoFar = 0 /\ syncJob[j].attempts <= 1 =>
            \A h \in Syncers : syncWorker'[h].job # j
      BY <1>2, <2>1, <2>2, <2>3, ZenonT(60)
    <3>2. QED
      BY <1>2, <2>1, <2>3, <3>1, Zenon
  <2>4. CASE i # j
    BY <1>2, <2>1, <2>2, <2>4
  <2>5. QED
    BY <2>3, <2>4
<1>7. CASE UNCHANGED queueVars
  BY <1>2, <1>7 DEF queueVars
<1>8. QED
  BY <1>1, <1>3, <1>4, <1>5, <1>6, <1>7, Zenon DEF QueueStep

\* The columns of the connectors.
LEMMA SourceTyped ==
  ASSUME SyncInv, [SyncNext]_syncVars
  PROVE  source' \in [Synced -> SourceRow]
<1>1. source \in [Synced -> SourceRow]
  BY DEF SyncInv, SyncTypeOK
<1>2. ASSUME NEW k \in Synced,
             NEW v \in {"UNKNOWN", "QUEUED", "PARTIAL", "FAILED", "SUCCEEDED"},
             source' = [source EXCEPT ![k].status = v]
      PROVE  source' \in [Synced -> SourceRow]
  <2>1. [source[k] EXCEPT !.status = v] \in SourceRow
    BY <1>1, Zenon DEF SourceRow
  <2>2. QED
    BY <1>1, <1>2, <2>1, Zenon
<1>3. ASSUME NEW s \in Schedulers,
             SelectDue(s) \/ TaskStep(s) \/ SubmitFails(s) \/ LoseLock(s) \/ StopTask(s)
      PROVE  source' \in [Synced -> SourceRow]
  <2>1. ASSUME NEW k \in Synced, ClaimItem(s, k)
        PROVE  source' = source \/ source' = [source EXCEPT ![k].status = "QUEUED"]
    BY <2>1, Zenon DEF ClaimItem
  <2>2. CASE SubmitFails(s)
    <3>1. PICK k \in Synced : k = task[s].item
      BY <2>2 DEF SyncInv, TaskAt, SyncTypeOK, SubmitFails, Task
    <3>2. source' = source \/ source' = [source EXCEPT ![k].status = "PARTIAL"]
      BY <2>2, <3>1, Zenon DEF SubmitFails
    <3>3. QED
      BY <1>1, <1>2, <3>2
  <2>3. QED
    BY <1>1, <1>2, <1>3, <2>1, <2>2
       DEF TaskStep, SelectDue, SubmitItem, EndTask, LoseLock, StopTask
<1>4. ASSUME NEW g \in Syncers, HandlerReturns(g)
      PROVE  source' \in [Synced -> SourceRow]
  <2>1. CASE FailRun(g) \/ CommitRun(g)
    <3>1. PICK k \in Synced : k = syncWorker[g].job[2]
      BY <2>1, SyncTyped, KeyShape DEF SyncInv, HandlersOK, FailRun, CommitRun
    <3>2. CASE FailRun(g)
      <4>1. source' = [source EXCEPT ![k].status = "FAILED"]
        BY <3>1, <3>2, Zenon DEF FailRun
      <4>2. QED
        BY <1>2, <4>1, Zenon
    <3>3. CASE CommitRun(g)
      <4>1. source' = [source EXCEPT ![k] = [source[k] EXCEPT !.status = "SUCCEEDED",
                                                               !.due = FALSE]]
        BY <1>1, <3>1, <3>3, Zenon DEF CommitRun
      <4>2. "SUCCEEDED" \in {"UNKNOWN", "QUEUED", "PARTIAL", "FAILED", "SUCCEEDED"}
        OBVIOUS
      <4>3. [source[k] EXCEPT !.status = "SUCCEEDED", !.due = FALSE] \in SourceRow
        BY <1>1, <4>2, Zenon DEF SourceRow
      <4>4. QED
        BY <1>1, <4>1, <4>3, Zenon
    <3>4. QED
      BY <2>1, <3>2, <3>3, SMTT(30)
  <2>2. QED
    BY <1>1, <1>4, <2>1 DEF HandlerReturns, BeginSync, RollBackRun, SettleSync
<1>5. ASSUME NEW due \in SUBSET Synced, MinutePasses(due)
      PROVE  source' \in [Synced -> SourceRow]
  <2>1. source' = [k \in Synced |-> [source[k] EXCEPT !.due = source[k].due \/ k \in due]]
    BY <1>5, Zenon DEF MinutePasses
  <2>2. ASSUME NEW k \in Synced
        PROVE  [source[k] EXCEPT !.due = source[k].due \/ k \in due] \in SourceRow
    BY <1>1, Zenon DEF SourceRow
  <2>3. QED
    BY <2>1, <2>2, Zenon
<1>6. ASSUME NEW k \in Synced, NEW b \in Readabilities, SetReadable(k, b)
      PROVE  source' \in [Synced -> SourceRow]
  <2>1. b \in BOOLEAN
    BY SchedulingConstants
  <2>2. [source[k] EXCEPT !.readable = b] \in SourceRow
    BY <1>1, <2>1, Zenon DEF SourceRow
  <2>3. QED
    BY <1>1, <1>6, <2>2, Zenon DEF SetReadable
<1>7. ASSUME NEW q \in SyncRequests, NEW k \in Synced, RequestSync(q, k) \/ MarkQueued(q, k)
      PROVE  source' \in [Synced -> SourceRow]
  BY <1>1, <1>2, <1>7 DEF RequestSync, MarkQueued
<1>8. QED
  BY <1>1, <1>3, <1>4, <1>5, <1>6, <1>7, Zenon
     DEF SyncNext, syncVars, ClaimItemFails, ClaimSync, LoseSyncOutcome, RenewSyncLease,
         StopSyncer, SyncQueueTime

\* Faults are counted upwards, and a FaultStep is one.
LEMMA FaultsGrow ==
  ASSUME SyncInv, [SyncNext]_syncVars
  PROVE  /\ syncFaultsSoFar' \in Nat /\ syncFaultsSoFar' >= syncFaultsSoFar
         /\ FaultStep => syncFaultsSoFar' > 0
         /\ ~FaultStep => syncFaultsSoFar' = syncFaultsSoFar
         /\ \A j \in Keys : /\ syncJob'[j].attempts \in Nat
                           /\ syncJob'[j].attempts >= syncJob[j].attempts
<1>1. QueueStep \/ FaultStep
  BY StepsOfTheQueue
<1>2. FaultStep => /\ syncFaultsSoFar' = syncFaultsSoFar + 1
                   /\ \A j \in Keys : syncJob'[j].attempts = syncJob[j].attempts
  BY LoseLeaseEffect, Zenon DEF FaultStep, Queue!LoseOutcome, Queue!Crash
<1>3. QueueStep => /\ syncFaultsSoFar' = syncFaultsSoFar
                   /\ \A j \in Keys : /\ syncJob'[j].attempts \in Nat
                                     /\ syncJob'[j].attempts >= syncJob[j].attempts
  <2>1. ASSUME NEW j \in Keys, Queue!Enqueue(j) PROVE EnqueueKey(j)
    BY <2>1, Zenon DEF EnqueueKey, Queue!Enqueue
  <2>2. \A j \in Keys : syncJob[j].attempts \in Nat
    BY SyncTyped
  <2>3. ASSUME NEW j \in Keys, EnqueueKey(j)
        PROVE  /\ syncFaultsSoFar' = syncFaultsSoFar
               /\ \A i \in Keys : /\ syncJob'[i].attempts \in Nat
                                 /\ syncJob'[i].attempts >= syncJob[i].attempts
    BY <2>2, <2>3, EnqueueEffect
  <2>4. ASSUME NEW g \in Syncers, Queue!Succeed(g) \/ Queue!Fail(g)
        PROVE  /\ syncFaultsSoFar' = syncFaultsSoFar
               /\ \A i \in Keys : /\ syncJob'[i].attempts \in Nat
                                 /\ syncJob'[i].attempts >= syncJob[i].attempts
    BY <2>2, <2>4, SettleEffect
  <2>5. ASSUME NEW g \in Syncers, NEW j \in Keys, Queue!Claim(g, j)
        PROVE  /\ syncFaultsSoFar' = syncFaultsSoFar
               /\ \A i \in Keys : /\ syncJob'[i].attempts \in Nat
                                 /\ syncJob'[i].attempts >= syncJob[i].attempts
    BY <2>2, <2>5, ClaimEffect
  <2>6. CASE \/ \E j \in Keys : Queue!BackoffEnds(j) \/ Queue!LeaseEnds(j)
             \/ \E g \in Syncers : Queue!Heartbeat(g)
    BY <2>2, <2>6, TimeEffect
  <2>7. CASE UNCHANGED queueVars
    BY <2>2, <2>7 DEF queueVars
  <2>8. QED
    BY <2>1, <2>3, <2>4, <2>5, <2>6, <2>7, Zenon DEF QueueStep
<1>4. QED
  BY <1>1, <1>2, <1>3, SyncTyped

\* The local variables of a task and the lock when s takes a step.
LEMMA TaskMoves ==
  ASSUME SyncInv, NEW s \in Schedulers, NEW r \in Task,
         task' = [task EXCEPT ![s] = r],
         syncFaultsSoFar \in Nat, syncFaultsSoFar' >= syncFaultsSoFar,
         syncFaultsSoFar' \in Nat,
         r.pc = "submit" <=> r.item # Nobody,
         r.pc = "idle" => r.todo = {},
         \/ lock' = lock /\ (task[s].pc # "idle" \/ r.pc = "idle")
         \/ lock = Nobody /\ lock' = s
         \/ syncFaultsSoFar' > 0 /\ lock' \in {lock, Nobody}
         \/ task[s].pc # "idle" /\ r.pc = "idle" /\ lock' \in {lock, Nobody}
  PROVE  /\ task' \in [Schedulers -> Task] /\ lock' \in Schedulers \cup {Nobody}
         /\ \A t \in Schedulers : TaskAt(t)'
<1>1. /\ task \in [Schedulers -> Task] /\ lock \in Schedulers \cup {Nobody}
      /\ \A t \in Schedulers : TaskAt(t)
      /\ Nobody \notin Schedulers
  BY SchedulingConstants DEF SyncInv, SyncTypeOK
<1>2. task'[s] = r /\ \A t \in Schedulers \ {s} : task'[t] = task[t]
  BY <1>1
<1>3. task' \in [Schedulers -> Task] /\ lock' \in Schedulers \cup {Nobody}
  BY <1>1
<1>4. syncFaultsSoFar' = 0 => syncFaultsSoFar = 0
  OBVIOUS
<1>5. TaskAt(s)'
  BY <1>1, <1>2, <1>4 DEF TaskAt
<1>6. ASSUME NEW t \in Schedulers \ {s} PROVE TaskAt(t)'
  BY <1>1, <1>2, <1>4 DEF TaskAt
<1>7. QED
  BY <1>3, <1>5, <1>6

\* A task that is left alone, whatever the queue does.
LEMMA TaskRests ==
  ASSUME SyncInv, [SyncNext]_syncVars, UNCHANGED task,
         lock' # lock => FaultStep /\ lock' = Nobody
  PROVE  /\ task' \in [Schedulers -> Task] /\ lock' \in Schedulers \cup {Nobody}
         /\ \A t \in Schedulers : TaskAt(t)'
<1>1. /\ task \in [Schedulers -> Task] /\ lock \in Schedulers \cup {Nobody}
      /\ \A t \in Schedulers : TaskAt(t)
  BY DEF SyncInv, SyncTypeOK
<1>2. (syncFaultsSoFar' = 0 => syncFaultsSoFar = 0) /\ (FaultStep => syncFaultsSoFar' # 0)
  BY FaultsGrow, SyncTyped
<1>3. QED
  BY <1>1, <1>2 DEF TaskAt

\* The rows that the steps of a task write.
LEMMA TaskRows ==
  ASSUME SyncInv, NEW s \in Schedulers
  PROVE  /\ task[s] \in Task
         /\ SelectDue(s) =>
              \E r \in Task : /\ task' = [task EXCEPT ![s] = r]
                              /\ r.pc = "items" /\ r.item = task[s].item
                              /\ r.todo = {k \in Synced : Selected(k)}
         /\ \A k \in Synced : ClaimItem(s, k) =>
              \E r \in Task :
                 /\ task' = [task EXCEPT ![s] = r] /\ r.todo = task[s].todo \ {k}
                 /\ \/ /\ source[k].status = "QUEUED" /\ source' = source
                       /\ r.pc = task[s].pc /\ r.item = task[s].item
                    \/ /\ source[k].status # "QUEUED" /\ r.pc = "submit" /\ r.item = k
                       /\ source' = [source EXCEPT ![k].status = "QUEUED"]
         /\ \A k \in Synced : ClaimItemFails(s, k) =>
              \E r \in Task :
                 /\ task' = [task EXCEPT ![s] = r] /\ r.todo = task[s].todo \ {k}
                 /\ r.pc = task[s].pc /\ r.item = task[s].item
         /\ ItemDone(s) =>
              \E r \in Task :
                 /\ task' = [task EXCEPT ![s] = r] /\ r.todo = task[s].todo
                 /\ r.pc = "items" /\ r.item = Nobody
         /\ NoTask \in Task /\ NoTask.pc = "idle" /\ NoTask.todo = {} /\ NoTask.item = Nobody
<1>1. task[s] \in Task
  BY DEF SyncInv, SyncTypeOK
<1>2. /\ "items" \in {"idle", "items", "submit"} /\ "submit" \in {"idle", "items", "submit"}
      /\ \A k \in Synced : task[s].todo \ {k} \in SUBSET Synced
  BY <1>1 DEF Task
<1>3. ASSUME SelectDue(s)
      PROVE  \E r \in Task : /\ task' = [task EXCEPT ![s] = r]
                             /\ r.pc = "items" /\ r.item = task[s].item
                             /\ r.todo = {k \in Synced : Selected(k)}
  <2>1. PICK S \in SUBSET Synced : S = {k \in Synced : Selected(k)}
    BY Zenon
  <2>2. PICK r : r = [task[s] EXCEPT !.pc = "items", !.todo = S]
    BY Zenon
  <2>3. r \in Task /\ r.pc = "items" /\ r.item = task[s].item /\ r.todo = S
    BY <1>1, <1>2, <2>2, Zenon DEF Task
  <2>4. task' = [task EXCEPT ![s] = r]
    BY <1>3, <2>1, <2>2, Zenon DEF SelectDue
  <2>5. QED
    BY <2>1, <2>3, <2>4, Zenon
<1>4. ASSUME NEW k \in Synced, ClaimItem(s, k)
      PROVE  \E r \in Task :
                 /\ task' = [task EXCEPT ![s] = r] /\ r.todo = task[s].todo \ {k}
                 /\ \/ /\ source[k].status = "QUEUED" /\ source' = source
                       /\ r.pc = task[s].pc /\ r.item = task[s].item
                    \/ /\ source[k].status # "QUEUED" /\ r.pc = "submit" /\ r.item = k
                       /\ source' = [source EXCEPT ![k].status = "QUEUED"]
  <2>1. CASE source[k].status = "QUEUED"
    <3>1. PICK r : r = [task[s] EXCEPT !.todo = task[s].todo \ {k}]
      BY Zenon
    <3>2. r \in Task /\ r.pc = task[s].pc /\ r.item = task[s].item /\ r.todo = task[s].todo \ {k}
      BY <1>1, <1>2, <3>1, Zenon DEF Task
    <3>3. task' = [task EXCEPT ![s] = r] /\ source' = source
      BY <1>4, <2>1, <3>1, Zenon DEF ClaimItem
    <3>4. QED
      BY <2>1, <3>2, <3>3, Zenon
  <2>2. CASE source[k].status # "QUEUED"
    <3>1. PICK r : r = [task[s] EXCEPT !.pc = "submit", !.todo = task[s].todo \ {k}, !.item = k]
      BY Zenon
    <3>2. r \in Task /\ r.pc = "submit" /\ r.item = k /\ r.todo = task[s].todo \ {k}
      BY <1>1, <1>2, <3>1, Zenon DEF Task
    <3>3. task' = [task EXCEPT ![s] = r] /\ source' = [source EXCEPT ![k].status = "QUEUED"]
      BY <1>4, <2>2, <3>1, Zenon DEF ClaimItem
    <3>4. QED
      BY <2>2, <3>2, <3>3, Zenon
  <2>3. QED
    BY <2>1, <2>2
<1>5. ASSUME NEW k \in Synced, ClaimItemFails(s, k)
      PROVE  \E r \in Task :
                 /\ task' = [task EXCEPT ![s] = r] /\ r.todo = task[s].todo \ {k}
                 /\ r.pc = task[s].pc /\ r.item = task[s].item
  <2>1. PICK r : r = [task[s] EXCEPT !.todo = task[s].todo \ {k}]
    BY Zenon
  <2>2. r \in Task /\ r.pc = task[s].pc /\ r.item = task[s].item /\ r.todo = task[s].todo \ {k}
    BY <1>1, <1>2, <2>1, Zenon DEF Task
  <2>3. task' = [task EXCEPT ![s] = r]
    BY <1>5, <2>1, Zenon DEF ClaimItemFails
  <2>4. QED
    BY <2>2, <2>3, Zenon
<1>6. ASSUME ItemDone(s)
      PROVE  \E r \in Task :
                 /\ task' = [task EXCEPT ![s] = r] /\ r.todo = task[s].todo
                 /\ r.pc = "items" /\ r.item = Nobody
  <2>1. PICK r : r = [task[s] EXCEPT !.pc = "items", !.item = Nobody]
    BY Zenon
  <2>2. r \in Task /\ r.pc = "items" /\ r.item = Nobody /\ r.todo = task[s].todo
    BY <1>1, <1>2, <2>1, Zenon DEF Task
  <2>3. task' = [task EXCEPT ![s] = r]
    BY <1>6, <2>1, Zenon DEF ItemDone
  <2>4. QED
    BY <2>2, <2>3, Zenon
<1>7. NoTask \in Task /\ NoTask.pc = "idle" /\ NoTask.todo = {} /\ NoTask.item = Nobody
  BY DEF NoTask, Task
<1>8. QED
  BY <1>1, <1>3, <1>4, <1>5, <1>6, <1>7, Zenon

\* Tasks, their lock, and every step.
LEMMA TasksKeep ==
  ASSUME SyncInv, [SyncNext]_syncVars
  PROVE  /\ task' \in [Schedulers -> Task] /\ lock' \in Schedulers \cup {Nobody}
         /\ \A t \in Schedulers : TaskAt(t)'
<1> DEFINE Kept == /\ task' \in [Schedulers -> Task] /\ lock' \in Schedulers \cup {Nobody}
                   /\ \A t \in Schedulers : TaskAt(t)'
<1>1. /\ syncFaultsSoFar' \in Nat /\ syncFaultsSoFar' >= syncFaultsSoFar
      /\ syncFaultsSoFar \in Nat
      /\ \A s \in Schedulers : TaskAt(s)
  BY FaultsGrow, SyncTyped DEF SyncInv
<1> HIDE DEF Kept
<1>2. ASSUME NEW s \in Schedulers, SelectDue(s) PROVE Kept
  <2>1. PICK r \in Task : /\ task' = [task EXCEPT ![s] = r]
                          /\ r.pc = "items" /\ r.item = task[s].item
    BY <1>2, TaskRows
  <2>2. lock = Nobody /\ lock' = s /\ task[s].item = Nobody
    BY <1>1, <1>2, Zenon DEF SelectDue, TaskAt
  <2>3. QED
    BY <1>1, <2>1, <2>2, TaskMoves, Zenon DEF Kept
<1>3. ASSUME NEW s \in Schedulers, NEW k \in Synced, ClaimItem(s, k) PROVE Kept
  <2>1. PICK r \in Task : /\ task' = [task EXCEPT ![s] = r]
                          /\ \/ r.pc = task[s].pc /\ r.item = task[s].item
                             \/ r.pc = "submit" /\ r.item = k
    BY <1>3, TaskRows
  <2>2. task[s].pc = "items" /\ lock' = lock /\ k # Nobody /\ task[s].item = Nobody
    BY <1>1, <1>3, SchedulingConstants DEF ClaimItem, TaskAt
  <2>3. QED
    BY <1>1, <2>1, <2>2, TaskMoves, Zenon DEF Kept
<1>4. ASSUME NEW s \in Schedulers, NEW k \in Synced, ClaimItemFails(s, k) PROVE Kept
  <2>1. PICK r \in Task : /\ task' = [task EXCEPT ![s] = r]
                          /\ r.pc = task[s].pc /\ r.item = task[s].item
    BY <1>4, TaskRows
  <2>2. task[s].pc = "items" /\ lock' = lock /\ task[s].item = Nobody
    BY <1>1, <1>4 DEF ClaimItemFails, TaskAt
  <2>3. QED
    BY <1>1, <2>1, <2>2, TaskMoves, Zenon DEF Kept
<1>5. ASSUME NEW s \in Schedulers, SubmitItem(s) \/ SubmitFails(s) PROVE Kept
  <2>1. task[s].pc = "submit" /\ lock' = lock /\ ItemDone(s)
    BY <1>5, Zenon DEF SubmitItem, SubmitFails
  <2>2. PICK r \in Task : /\ task' = [task EXCEPT ![s] = r]
                          /\ r.pc = "items" /\ r.item = Nobody
    BY <2>1, TaskRows
  <2>3. QED
    BY <1>1, <2>1, <2>2, TaskMoves, Zenon DEF Kept
<1>6. ASSUME NEW s \in Schedulers, EndTask(s) \/ StopTask(s) PROVE Kept
  <2>1. /\ task[s].pc # "idle" /\ task' = [task EXCEPT ![s] = NoTask]
        /\ lock' \in {lock, Nobody}
    BY <1>6 DEF EndTask, StopTask
  <2>2. NoTask \in Task /\ NoTask.pc = "idle" /\ NoTask.todo = {} /\ NoTask.item = Nobody
    BY TaskRows
  <2>3. QED
    BY <1>1, <2>1, <2>2, TaskMoves, Zenon DEF Kept
<1>7. ASSUME NEW s \in Schedulers, LoseLock(s) PROVE Kept
  <2>1. FaultStep /\ task' = task /\ lock' = Nobody
    BY <1>7, Zenon DEF LoseLock, FaultStep
  <2>2. QED
    BY <2>1, TaskRests, Zenon DEF Kept
<1>8. ASSUME UNCHANGED <<task, lock>> PROVE Kept
  <2>1. task' = task /\ lock' = lock
    BY <1>8
  <2>2. QED
    BY <2>1, TaskRests, Zenon DEF Kept
<1>9. Kept
  BY <1>2, <1>3, <1>4, <1>5, <1>6, <1>7, <1>8, Zenon
     DEF SyncNext, TaskStep, RequestSync, MarkQueued, ClaimSync, HandlerReturns, BeginSync,
         FailRun, CommitRun, RollBackRun, SettleSync, LoseSyncOutcome, RenewSyncLease,
         StopSyncer, SyncQueueTime, MinutePasses, SetReadable, syncVars
<1>10. QED
  BY <1>9 DEF Kept

\* What handlers are doing: a result belongs to a goroutine with a job.
LEMMA HandlersKeep ==
  ASSUME SyncInv, [SyncNext]_syncVars
  PROVE  syncing' \in [Syncers -> {"none", "running", "error", "ok"}] /\ HandlersOK'
<1> DEFINE Kept == syncing' \in [Syncers -> {"none", "running", "error", "ok"}] /\ HandlersOK'
<1>1. syncing \in [Syncers -> {"none", "running", "error", "ok"}] /\ HandlersOK
  BY DEF SyncInv, SyncTypeOK
<1> USE DEF HandlersOK
<1>2. ASSUME UNCHANGED <<syncWorker, syncing>> PROVE Kept
  BY <1>1, <1>2
<1>3. ASSUME NEW g \in Syncers, NEW x \in {"running", "error", "ok"},
             syncWorker[g].job # Nobody, syncWorker' = syncWorker,
             syncing' = [syncing EXCEPT ![g] = x]
      PROVE  Kept
  BY <1>1, <1>3
<1>4. ASSUME NEW g \in Syncers, syncing' = [syncing EXCEPT ![g] = "none"],
             \A h \in Syncers \ {g} : syncWorker'[h] = syncWorker[h]
      PROVE  Kept
  BY <1>1, <1>4
<1>5. ASSUME NEW g \in Syncers, NEW j \in Keys, ClaimSync(g, j) PROVE Kept
  <2>1. /\ syncWorker'[g].job = j /\ \A h \in Syncers \ {g} : syncWorker'[h] = syncWorker[h]
        /\ syncing' = syncing /\ j # Nobody
    BY <1>5, ClaimEffect, KeyShape, ZenonT(60) DEF ClaimSync
  <2>2. QED
    BY <1>1, <2>1
<1>6. ASSUME NEW g \in Syncers, BeginSync(g) \/ FailRun(g) \/ CommitRun(g) \/ RollBackRun(g)
      PROVE  Kept
  <2>1. syncWorker' = syncWorker /\ syncWorker[g].job # Nobody
    BY <1>1, <1>6 DEF BeginSync, FailRun, CommitRun, RollBackRun, queueVars
  <2>2. QED
    BY <1>3, <1>6, <2>1, Zenon DEF BeginSync, FailRun, CommitRun, RollBackRun
<1>7. ASSUME NEW g \in Syncers, SettleSync(g) PROVE Kept
  <2>1. \A h \in Syncers \ {g} : syncWorker'[h] = syncWorker[h]
    BY <1>7, SettleEffect DEF SettleSync
  <2>2. QED
    BY <1>4, <1>7, <2>1, Zenon DEF SettleSync
<1>8. ASSUME NEW g \in Syncers, LoseSyncOutcome(g) PROVE Kept
  <2>1. \A h \in Syncers \ {g} : syncWorker'[h] = syncWorker[h]
    BY <1>8, SyncTyped DEF LoseSyncOutcome, Queue!LoseOutcome
  <2>2. QED
    BY <1>4, <1>8, <2>1, Zenon DEF LoseSyncOutcome
<1>9. ASSUME NEW w \in SyncWorkerIds, StopSyncer(w) PROVE Kept
  BY <1>1, <1>9 DEF StopSyncer, Queue!Crash
<1>10. ASSUME NEW j \in Keys, EnqueueKey(j) PROVE syncWorker' = syncWorker
  BY <1>10, EnqueueEffect
<1>11. ASSUME NEW s \in Schedulers, SubmitItem(s) PROVE Kept
  <2>1. task[s].item \in Synced /\ minute \in 1 .. Minutes
    BY <1>11 DEF SyncInv, TaskAt, SyncTypeOK, SubmitItem, Task
  <2>2. QED
    BY <1>2, <1>10, <1>11, <2>1, KeyShape DEF SubmitItem
<1>12. ASSUME NEW q \in SyncRequests, NEW k \in Synced, RequestSync(q, k) PROVE Kept
  BY <1>2, <1>10, <1>12, KeyShape DEF RequestSync
<1>13. ASSUME NEW j \in Keys, SyncQueueTime(j) PROVE Kept
  BY <1>2, <1>13 DEF SyncQueueTime, Queue!BackoffEnds, Queue!LeaseEnds, Queue!LoseLease
<1> HIDE DEF Kept, HandlersOK
<1>14. Kept
  BY <1>2, <1>5, <1>6, <1>7, <1>8, <1>9, <1>11, <1>12, <1>13, Zenon
     DEF SyncNext, TaskStep, SelectDue, ClaimItem, EndTask, ClaimItemFails, SubmitFails,
         LoseLock, StopTask, MarkQueued, HandlerReturns, RenewSyncLease, Queue!Heartbeat,
         MinutePasses, SetReadable, syncVars, queueVars
<1>15. QED
  BY <1>14 DEF Kept

\* The clock, and the keys made of it.
LEMMA KeysKeep ==
  ASSUME SyncInv, [SyncNext]_syncVars
  PROVE  /\ minute' \in 1 .. Minutes /\ minute' >= minute
         /\ KeysOfPast'
         /\ request' \in [SyncRequests ->
                            {Nobody} \cup ({"enqueued", "answered"} \X Synced)]
<1>1. minute \in 1 .. Minutes /\ Minutes \in Nat
  BY SchedulingConstants DEF SyncInv, SyncTypeOK
<1>2. minute' \in 1 .. Minutes /\ minute' >= minute
  <2>1. CASE \E due \in SUBSET Synced : MinutePasses(due)
    BY <1>1, <2>1 DEF MinutePasses
  <2>2. CASE minute' = minute
    BY <1>1, <2>2
  <2>3. QED
    BY <2>1, <2>2, Zenon
     DEF SyncNext, TaskStep, SelectDue, ClaimItem, SubmitItem, EndTask, ClaimItemFails,
         SubmitFails, LoseLock, StopTask, RequestSync, MarkQueued, ClaimSync, HandlerReturns,
         BeginSync, FailRun, CommitRun, RollBackRun, SettleSync, LoseSyncOutcome,
         RenewSyncLease, StopSyncer, SyncQueueTime, SetReadable, syncVars
<1>3. request' \in [SyncRequests -> {Nobody} \cup ({"enqueued", "answered"} \X Synced)]
  <2>1. request \in [SyncRequests -> {Nobody} \cup ({"enqueued", "answered"} \X Synced)]
    BY DEF SyncInv, SyncTypeOK
  <2>2. ASSUME NEW q \in SyncRequests, NEW k \in Synced, RequestSync(q, k) \/ MarkQueued(q, k)
        PROVE  request' \in [SyncRequests ->
                               {Nobody} \cup ({"enqueued", "answered"} \X Synced)]
    BY <2>1, <2>2 DEF RequestSync, MarkQueued
  <2>3. CASE request' = request
    BY <2>1, <2>3
  <2>4. QED
    BY <2>2, <2>3, Zenon
     DEF SyncNext, TaskStep, SelectDue, ClaimItem, SubmitItem, EndTask, ClaimItemFails,
         SubmitFails, LoseLock, StopTask, ClaimSync, HandlerReturns,
         BeginSync, FailRun, CommitRun, RollBackRun, SettleSync, LoseSyncOutcome,
         RenewSyncLease, StopSyncer, SyncQueueTime, MinutePasses, SetReadable, syncVars
<1>4. ASSUME NEW k \in Synced, NEW m \in 1 .. Minutes,
             syncJob'[<<"scheduled-sync", k, m>>].status # "NONE"
      PROVE  m <= minute'
  <2> DEFINE j == <<"scheduled-sync", k, m>>
  <2>1. j \in Keys
    BY KeyShape
  <2>2. CASE syncJob[j].status # "NONE"
    BY <1>1, <1>2, <2>2 DEF SyncInv, KeysOfPast
  <2>3. CASE syncJob[j].status = "NONE"
    <3>1. ASSUME NEW s \in Schedulers, SubmitItem(s) PROVE m = minute
      <4>1. task[s].item \in Synced
        BY <3>1 DEF SyncInv, TaskAt, SyncTypeOK, SubmitItem, Task
      <4>2. PICK i \in Keys : i = <<"scheduled-sync", task[s].item, minute>>
        BY <1>1, <4>1, KeyShape, Zenon
      <4>3. i = j
        BY <1>4, <2>1, <2>3, <3>1, <4>2, EnqueueEffect DEF SubmitItem
      <4>4. QED
        BY <4>2, <4>3
    <3>2. ASSUME NEW q \in SyncRequests, NEW l \in Synced, RequestSync(q, l) PROVE FALSE
      <4>1. PICK i \in Keys : i = <<"connector-sync", l, q>>
        BY KeyShape, Zenon
      <4>2. i = j
        BY <1>4, <2>1, <2>3, <3>2, <4>1, EnqueueEffect DEF RequestSync
      <4>3. QED
        BY <4>1, <4>2
    <3>3. ASSUME \/ UNCHANGED syncJob
                 \/ \E i \in Keys : SyncQueueTime(i)
                 \/ \E g \in Syncers : RenewSyncLease(g)
          PROVE  FALSE
      BY <1>4, <2>1, <2>3, <3>3, TimeEffect, LoseLeaseEffect DEF SyncQueueTime, RenewSyncLease
    <3>4. ASSUME NEW g \in Syncers, NEW i \in Keys, ClaimSync(g, i) PROVE FALSE
      BY <1>4, <2>1, <2>3, <3>4, ClaimEffect DEF ClaimSync
    <3>5. ASSUME NEW g \in Syncers, SettleSync(g) PROVE FALSE
      BY <1>4, <2>1, <2>3, <3>5, SettleEffect DEF SettleSync
    <3> HIDE DEF j
    <3>6. \/ \E s \in Schedulers : SubmitItem(s)
          \/ \E q \in SyncRequests, l \in Synced : RequestSync(q, l)
      BY <3>3, <3>4, <3>5, Zenon
         DEF SyncNext, TaskStep, SelectDue, ClaimItem, EndTask, ClaimItemFails, SubmitFails,
             LoseLock, StopTask, MarkQueued, HandlerReturns, BeginSync, FailRun, CommitRun,
             RollBackRun, LoseSyncOutcome, Queue!LoseOutcome, StopSyncer, Queue!Crash,
             MinutePasses, SetReadable, syncVars, queueVars
    <3>7. QED
      BY <1>1, <1>2, <3>1, <3>2, <3>6
  <2>4. QED
    BY <2>2, <2>3
<1>5. QED
  BY <1>2, <1>3, <1>4, Zenon DEF KeysOfPast

-----------------------------------------------------------------------------
(* One connector. *)

\* A cause stays one.
LEMMA CausesStay ==
  ASSUME SyncInv, [SyncNext]_syncVars, NEW k \in Synced, Caused(k)
  PROVE  Caused(k)'
<1>1. CASE \E j \in KeysOf(k) : syncJob[j].attempts > 1
  <2>1. PICK j \in KeysOf(k) : syncJob[j].attempts > 1
    BY <1>1
  <2>2. j \in Keys /\ syncJob[j].attempts \in Nat /\ syncJob'[j].attempts >= syncJob[j].attempts
    BY FaultsGrow, SyncTyped DEF KeysOf
  <2>3. syncJob'[j].attempts > 1
    BY <2>1, <2>2, FaultsGrow DEF KeysOf
  <2>4. QED
    BY <2>3 DEF Caused, KeysOf
<1>2. CASE \E q \in SyncRequests : request[q] # Nobody /\ request[q][2] = k
  <2>1. PICK q \in SyncRequests : request[q] # Nobody /\ request[q][2] = k
    BY <1>2
  <2>2. request \in [SyncRequests -> {Nobody} \cup ({"enqueued", "answered"} \X Synced)]
    BY DEF SyncInv, SyncTypeOK
  <2>3. CASE request' = request
    BY <2>1, <2>3, Zenon DEF Caused
  <2>4. ASSUME NEW p \in SyncRequests, NEW l \in Synced, RequestSync(p, l) PROVE Caused(k)'
    <3>1. request'[q] = request[q]
      BY <2>1, <2>2, <2>4 DEF RequestSync
    <3>2. QED
      BY <2>1, <3>1, Zenon DEF Caused
  <2>5. ASSUME NEW p \in SyncRequests, NEW l \in Synced, MarkQueued(p, l) PROVE Caused(k)'
    <3>1. CASE p = q
      <4>1. l = k /\ request'[q] = <<"answered", l>> /\ request'[q] # Nobody
        <5>1. request[q] = <<"enqueued", l>> /\ request'[q] = <<"answered", l>>
          BY <2>2, <2>5, <3>1 DEF MarkQueued
        <5>2. <<"answered", l>> # Nobody
          BY SyncQueueConstants
        <5>3. QED
          BY <2>1, <5>1, <5>2
      <4>2. request'[q] # Nobody /\ request'[q][2] = k
        BY <4>1
      <4>3. QED
        BY <4>2, Zenon DEF Caused
    <3>2. CASE p # q
      <4>1. request'[q] = request[q]
        BY <2>2, <2>5, <3>2 DEF MarkQueued
      <4>2. QED
        BY <2>1, <4>1, Zenon DEF Caused
    <3>3. QED
      BY <3>1, <3>2
  <2>6. QED
    BY <2>3, <2>4, <2>5, Zenon
     DEF SyncNext, TaskStep, SelectDue, ClaimItem, SubmitItem, EndTask, ClaimItemFails,
         SubmitFails, LoseLock, StopTask, ClaimSync, HandlerReturns,
         BeginSync, FailRun, CommitRun, RollBackRun, SettleSync, LoseSyncOutcome,
         RenewSyncLease, StopSyncer, SyncQueueTime, MinutePasses, SetReadable, syncVars
<1>3. CASE syncFaultsSoFar > 0
  BY <1>3, FaultsGrow, SyncTyped DEF Caused
<1>4. QED
  BY <1>1, <1>2, <1>3 DEF Caused

\* Without a cause: no fault, and no job of the connector was claimed twice.
LEMMA NoCause ==
  ASSUME SyncInv, NEW k \in Synced, ~Caused(k)
  PROVE  /\ syncFaultsSoFar = 0
         /\ \A j \in KeysOf(k) : /\ j \in Keys /\ j[2] = k /\ j # Nobody
                                 /\ syncJob[j].attempts \in {0, 1}
         /\ \A q \in SyncRequests : request[q] # Nobody => request[q][2] # k
<1>1. \A j \in KeysOf(k) : j \in Keys /\ j[2] = k /\ j # Nobody /\ syncJob[j].attempts \in Nat
  BY SyncTyped, KeyShape DEF KeysOf
<1>2. QED
  BY <1>1, SyncTyped DEF Caused

\* The same after the step, of which the invariant is not known yet.
LEMMA NoCauseNext ==
  ASSUME SyncInv, [SyncNext]_syncVars, NEW k \in Synced, ~Caused(k)'
  PROVE  /\ ~Caused(k) /\ syncFaultsSoFar' = 0 /\ ~FaultStep
         /\ \A j \in KeysOf(k) : syncJob'[j].attempts \in {0, 1}
         /\ \A q \in SyncRequests : request'[q] # Nobody => request'[q][2] # k
<1>1. \A j \in KeysOf(k) : j \in Keys /\ syncJob'[j].attempts \in Nat
  BY FaultsGrow DEF KeysOf
<1>2. ~Caused(k) /\ syncFaultsSoFar' \in Nat /\ (FaultStep => syncFaultsSoFar' > 0)
  BY CausesStay, FaultsGrow
<1>3. QED
  BY <1>1, <1>2 DEF Caused

\* A step in which a job goes on towards its result, or is left alone.
JobFlows(j) ==
    /\ Fresh(j)' => Fresh(j)
    /\ Stored(j)' => Stored(j)
    /\ Unsettled(j) /\ ~Stored(j) => Unsettled(j)'
    /\ syncJob'[j].status = "SUCCEEDED" => syncJob[j].status = "SUCCEEDED" \/ Stored(j)

\* Such steps keep a connector's invariant when the rest of it stays as it is.
LEMMA ConnectorFrame ==
  ASSUME NEW k \in Synced, ~Caused(k), ConnectorAt(k), minute' = minute,
         source'[k].status = source[k].status, source'[k].due = source[k].due,
         Waits(k)' <=> Waits(k), Listed(k)' => Listed(k),
         minute \in 1 .. Minutes,
         \A j \in KeysOf(k) : JobFlows(j)
  PROVE  ConnectorAt(k)'
<1>1. <<"scheduled-sync", k, minute>> \in KeysOf(k)
  BY KeyShape DEF KeysOf
<1>2. PICK m \in KeysOf(k) : m = <<"scheduled-sync", k, minute>>
  BY <1>1
<1>3. /\ \A i, j \in KeysOf(k) : Fresh(i) /\ Fresh(j) => i = j
      /\ Waits(k) => \A j \in KeysOf(k) : ~Fresh(j)
      /\ Waits(k) \/ (\E j \in KeysOf(k) : Fresh(j)) =>
           source[k].status = "QUEUED" /\ ~Listed(k)
      /\ syncJob[m].status = "SUCCEEDED" \/ Stored(m) =>
             ~source[k].due /\ ~Listed(k) /\ ~Waits(k)
      /\ source[k].status = "QUEUED" =>
           Waits(k) \/ \E j \in KeysOf(k) : Unsettled(j) /\ ~Stored(j)
  BY <1>2, Zenon DEF ConnectorAt
<1>4. /\ \A j \in KeysOf(k) : Fresh(j)' => Fresh(j)
      /\ syncJob'[m].status = "SUCCEEDED" \/ Stored(m)' =>
           syncJob[m].status = "SUCCEEDED" \/ Stored(m)
      /\ \A j \in KeysOf(k) : Unsettled(j) /\ ~Stored(j) => Unsettled(j)' /\ ~Stored(j)'
  BY <1>2, Zenon DEF JobFlows
<1>5. /\ \A i, j \in KeysOf(k) : Fresh(i)' /\ Fresh(j)' => i = j
      /\ Waits(k)' => \A j \in KeysOf(k) : ~Fresh(j)'
      /\ Waits(k)' \/ (\E j \in KeysOf(k) : Fresh(j)') =>
           source'[k].status = "QUEUED" /\ ~Listed(k)'
      /\ syncJob'[m].status = "SUCCEEDED" \/ Stored(m)' =>
             ~source'[k].due /\ ~Listed(k)' /\ ~Waits(k)'
      /\ source'[k].status = "QUEUED" =>
           Waits(k)' \/ \E j \in KeysOf(k) : Unsettled(j)' /\ ~Stored(j)'
  BY <1>3, <1>4, Zenon
<1>6. QED
  BY <1>2, <1>5, Zenon DEF ConnectorAt

\* A job whose row keeps its status and attempts, when only goroutine g moves
\* and has nothing to do with it.
LEMMA FlowsApart ==
  ASSUME NEW j \in Keys, NEW g \in Syncers,
         syncJob'[j].status = syncJob[j].status, syncJob'[j].attempts = syncJob[j].attempts,
         \A h \in Syncers \ {g} : /\ syncWorker'[h].job = syncWorker[h].job
                                  /\ syncing'[h] = syncing[h],
         syncWorker[g].job # j, syncWorker'[g].job # j
  PROVE  JobFlows(j) /\ (Stored(j)' <=> Stored(j)) /\ (Fresh(j)' <=> Fresh(j))
<1>1. Begun(j)' <=> Begun(j)
  BY Zenon DEF Begun
<1>2. Stored(j)' <=> Stored(j)
  BY Zenon DEF Stored
<1>3. QED
  BY <1>1, <1>2, Zenon DEF JobFlows, Fresh, Unsettled

\* When no goroutine moves.
LEMMA FlowsStill ==
  ASSUME NEW j \in Keys, UNCHANGED <<syncWorker, syncing>>,
         syncJob'[j].status = syncJob[j].status, syncJob'[j].attempts = syncJob[j].attempts
  PROVE  JobFlows(j) /\ (Stored(j)' <=> Stored(j)) /\ (Fresh(j)' <=> Fresh(j))
<1>1. Begun(j)' <=> Begun(j)
  BY Zenon DEF Begun
<1>2. Stored(j)' <=> Stored(j)
  BY Zenon DEF Stored
<1>3. QED
  BY <1>1, <1>2, Zenon DEF JobFlows, Fresh, Unsettled

\* The handler refuses, begins or rolls back.
LEMMA FlowsHandler ==
  ASSUME SyncInv, NEW j \in Keys, NEW g \in Syncers, BeginSync(g) \/ RollBackRun(g)
  PROVE  JobFlows(j)
<1>1. /\ UNCHANGED <<syncJob, syncWorker>>
      /\ syncing[g] \in {"none", "running"} /\ syncing'[g] # "ok"
      /\ \A h \in Syncers \ {g} : syncing'[h] = syncing[h]
  BY DEF BeginSync, RollBackRun, queueVars, SyncInv, SyncTypeOK
<1>2. Begun(j)' => Begun(j)
  BY <1>1, Zenon DEF Begun
<1>3. Stored(j)' => Stored(j)
  BY <1>1, Zenon DEF Stored
<1>4. QED
  BY <1>1, <1>2, <1>3, Zenon DEF JobFlows, Fresh, Unsettled

\* A job is claimed, for the first time.
LEMMA FlowsClaim ==
  ASSUME SyncInv, [SyncNext]_syncVars, NEW k \in Synced, ~Caused(k)', NEW j \in KeysOf(k),
         NEW g \in Syncers, NEW i \in Keys, ClaimSync(g, i)
  PROVE  JobFlows(j)
<1>1. j \in Keys /\ j # Nobody /\ syncJob[j].attempts \in {0, 1}
  BY NoCauseNext, NoCause
<1>2. syncing' = syncing /\ Queue!Claim(g, i)
  BY Zenon DEF ClaimSync
<1>3. CASE i # j
  <2>1. /\ syncJob'[j] = syncJob[j] /\ syncWorker[g].job # j /\ syncWorker'[g].job # j
        /\ \A h \in Syncers \ {g} : syncWorker'[h] = syncWorker[h]
    BY <1>1, <1>2, <1>3, ClaimEffect, SMTT(30)
  <2>2. QED
    BY <1>1, <1>2, <2>1, FlowsApart, Zenon
<1>4. CASE i = j
  <2>1. /\ syncJob'[j].status = "RUNNING" /\ syncJob[j].status \in {"QUEUED", "RUNNING"}
        /\ syncJob'[j].attempts = syncJob[j].attempts + 1
        /\ syncing[g] = "none" /\ syncWorker[g].job = Nobody
        /\ \A h \in Syncers \ {g} : syncWorker'[h] = syncWorker[h]
    BY <1>2, <1>4, ClaimEffect
  <2>2. syncJob[j].attempts = 0
    BY <1>1, <2>1, NoCauseNext
  <2>3. syncJob[j].status = "QUEUED"
    BY <1>1, <2>1, <2>2 DEF SyncInv, ClaimedOnce
  <2>4. Fresh(j)
    BY <2>2, <2>3, Zenon DEF Fresh
  <2>5. Stored(j)' => Stored(j)
    BY <1>2, <2>1 DEF Stored
  <2>6. QED
    BY <2>1, <2>4, <2>5 DEF JobFlows, Unsettled
<1>5. QED
  BY <1>3, <1>4

\* A job is settled by the goroutine of its only claim.
LEMMA FlowsSettle ==
  ASSUME SyncInv, [SyncNext]_syncVars, NEW k \in Synced, ~Caused(k)', NEW j \in KeysOf(k),
         NEW g \in Syncers, SettleSync(g)
  PROVE  JobFlows(j)
<1>1. j \in Keys /\ j # Nobody /\ syncJob[j].attempts \in {0, 1} /\ syncFaultsSoFar = 0
  BY NoCauseNext, NoCause
<1>2. PICK i \in Keys :
           /\ i = syncWorker[g].job
           /\ syncWorker'[g].job = Nobody
           /\ \A h \in Syncers \ {g} : syncWorker'[h] = syncWorker[h]
           /\ \A l \in Keys \ {i} : syncJob'[l] = syncJob[l]
           /\ syncJob'[i].attempts = syncJob[i].attempts
           /\ syncJob[i].owner = SyncWorkerId[g] =>
                /\ Queue!Succeed(g) => syncJob'[i].status = "SUCCEEDED"
                /\ Queue!Fail(g) /\ syncWorker[g].attempts < SyncAttempts =>
                     syncJob'[i].status = "QUEUED"
  BY SettleEffect, ZenonT(60) DEF SettleSync
<1>3. \A h \in Syncers \ {g} : syncing'[h] = syncing[h]
  BY DEF SettleSync, SyncInv, SyncTypeOK
<1>4. CASE i # j
  <2>1. syncJob'[j] = syncJob[j] /\ syncWorker[g].job # j /\ syncWorker'[g].job # j
    BY <1>1, <1>2, <1>4
  <2>2. QED
    BY <1>1, <1>2, <1>3, <2>1, FlowsApart, Zenon
<1>5. CASE i = j
  <2>1. /\ syncJob[j].owner = SyncWorkerId[g] /\ syncJob[j].attempts = 1
        /\ \A h \in Syncers : syncWorker[h].job = j => h = g
    <3>1. ClaimedOnce(j) /\ syncWorker[g].job = j /\ syncJob[j].attempts <= 1
      BY <1>1, <1>2, <1>5 DEF SyncInv
    <3>2. QED
      BY <1>1, <3>1, Zenon DEF ClaimedOnce
  <2>2. \A h \in Syncers : syncWorker'[h].job # j
    BY <1>1, <1>2, <2>1, Zenon
  <2>3. ~Begun(j)' /\ ~Stored(j)'
    BY <2>2, Zenon DEF Begun, Stored
  <2>4. ~Fresh(j)'
    BY <1>2, <1>5, <2>1, <2>3, SMTT(30) DEF Fresh
  <2>5. syncWorker[g].attempts < SyncAttempts
    <3>1. syncWorker[g].attempts <= syncJob[j].attempts
      BY <1>2, <1>5, Zenon DEF SyncInv, ClaimsAreOld
    <3>2. QED
      BY <2>1, <3>1, SyncTyped, SyncQueueConstants
  <2>6. CASE syncing[g] = "ok" /\ Queue!Succeed(g)
    <3>1. Stored(j)
      BY <1>2, <1>5, <2>6, Zenon DEF Stored
    <3>2. QED
      BY <2>3, <2>4, <3>1, Zenon DEF JobFlows
  <2>7. CASE syncing[g] = "error" /\ Queue!Fail(g)
    <3>1. syncJob'[j].status = "QUEUED"
      BY <1>2, <1>5, <2>1, <2>5, <2>7, Zenon
    <3>2. QED
      BY <2>3, <2>4, <3>1 DEF JobFlows, Unsettled
  <2>8. QED
    BY <2>6, <2>7, Zenon DEF SettleSync
<1>6. QED
  BY <1>4, <1>5

\* Tasks of which one moves, and k is where it was in it.
LEMMA TaskFrame ==
  ASSUME SyncInv, NEW s \in Schedulers, NEW r \in Task, task' = [task EXCEPT ![s] = r],
         NEW k \in Synced
  PROVE  /\ (r.item = k <=> task[s].item = k) => (Waits(k)' <=> Waits(k))
         /\ (k \in r.todo => k \in task[s].todo) => (Listed(k)' => Listed(k))
<1>1. task'[s] = r /\ \A t \in Schedulers \ {s} : task'[t] = task[t]
  BY DEF SyncInv, SyncTypeOK
<1>2. QED
  BY <1>1, Zenon DEF Waits, Listed

\* Steps of the queue that are not about a new job, and steps about another
\* connector.
LEMMA ConnectorQuiet ==
  ASSUME SyncInv, [SyncNext]_syncVars, NEW k \in Synced, ~Caused(k)',
         UNCHANGED <<minute, task>>,
         source'[k].status = source[k].status, source'[k].due = source[k].due,
         \A j \in KeysOf(k) : JobFlows(j)
  PROVE  ConnectorAt(k)'
<1>1. ~Caused(k) /\ ConnectorAt(k) /\ minute \in 1 .. Minutes
  BY NoCauseNext DEF SyncInv, SyncTypeOK
<1>2. (Waits(k)' <=> Waits(k)) /\ (Listed(k)' => Listed(k))
  BY Zenon DEF Waits, Listed
<1>3. minute' = minute
  OBVIOUS
<1>4. QED
  BY <1>1, <1>2, <1>3, ConnectorFrame, Zenon

\* The steps of goroutines, time and administrators that leave the status.
LEMMA ConnectorOfQueue ==
  ASSUME SyncInv, [SyncNext]_syncVars, NEW k \in Synced, ~Caused(k)',
         \/ \E g \in Syncers : \/ \E j \in Keys : ClaimSync(g, j)
                               \/ BeginSync(g) \/ RollBackRun(g) \/ SettleSync(g)
                               \/ RenewSyncLease(g)
         \/ \E j \in Keys : SyncQueueTime(j)
         \/ \E l \in Synced, b \in Readabilities : SetReadable(l, b)
  PROVE  ConnectorAt(k)'
<1>1. \A j \in KeysOf(k) : j \in Keys
  BY DEF KeysOf
<1>2. ASSUME NEW g \in Syncers, NEW i \in Keys, ClaimSync(g, i) PROVE ConnectorAt(k)'
  <2>1. UNCHANGED <<minute, task, source>>
    BY <1>2, Zenon DEF ClaimSync
  <2>2. QED
    BY <1>2, <2>1, FlowsClaim, ConnectorQuiet
<1>3. ASSUME NEW g \in Syncers, BeginSync(g) \/ RollBackRun(g) PROVE ConnectorAt(k)'
  <2>1. UNCHANGED <<minute, task, source>>
    BY <1>3, Zenon DEF BeginSync, RollBackRun
  <2>2. QED
    BY <1>1, <1>3, <2>1, FlowsHandler, ConnectorQuiet
<1>4. ASSUME NEW g \in Syncers, SettleSync(g) PROVE ConnectorAt(k)'
  <2>1. UNCHANGED <<minute, task, source>>
    BY <1>4, Zenon DEF SettleSync
  <2>2. QED
    BY <1>4, <2>1, FlowsSettle, ConnectorQuiet
<1>5. ASSUME \/ \E g \in Syncers : RenewSyncLease(g)
             \/ \E j \in Keys : SyncQueueTime(j)
      PROVE ConnectorAt(k)'
  <2>1. UNCHANGED <<minute, task, source, syncing>>
    BY <1>5, Zenon DEF RenewSyncLease, SyncQueueTime
  <2>2. ~FaultStep
    BY NoCauseNext
  <2>3. \/ \E j \in Keys : Queue!BackoffEnds(j) \/ Queue!LeaseEnds(j)
        \/ \E g \in Syncers : Queue!Heartbeat(g)
    BY <1>5, <2>2, Zenon DEF RenewSyncLease, SyncQueueTime, FaultStep, Queue!LoseLease
  <2>4. \A j \in KeysOf(k) : JobFlows(j)
    BY <1>1, <2>1, <2>3, TimeEffect, FlowsStill, Zenon
  <2>5. QED
    BY <2>1, <2>4, ConnectorQuiet
<1>6. ASSUME NEW l \in Synced, NEW b \in Readabilities, SetReadable(l, b)
      PROVE  ConnectorAt(k)'
  <2>1. UNCHANGED <<minute, task, syncing, syncJob, syncWorker>>
    BY <1>6, Zenon DEF SetReadable, queueVars
  <2>2. source'[k].status = source[k].status /\ source'[k].due = source[k].due
    <3>1. PICK x : x = [source[l] EXCEPT !.readable = b]
      BY Zenon
    <3>2. source' = [source EXCEPT ![l] = x] /\ source \in [Synced -> SourceRow]
      BY <1>6, <3>1, Zenon DEF SetReadable, SyncInv, SyncTypeOK
    <3>3. x.status = source[l].status /\ x.due = source[l].due
      BY <3>1, <3>2, Zenon DEF SourceRow
    <3>4. QED
      BY <3>2, <3>3
  <2>3. \A j \in KeysOf(k) : JobFlows(j)
    BY <1>1, <2>1, FlowsStill, Zenon
  <2>4. QED
    BY <2>1, <2>2, <2>3, ConnectorQuiet, Zenon
<1>7. QED
  BY <1>2, <1>3, <1>4, <1>5, <1>6, Zenon

\* Requests: one for this connector is a cause.
LEMMA ConnectorOfRequests ==
  ASSUME SyncInv, [SyncNext]_syncVars, NEW k \in Synced, ~Caused(k)',
         NEW q \in SyncRequests, NEW l \in Synced, RequestSync(q, l) \/ MarkQueued(q, l)
  PROVE  ConnectorAt(k)'
<1>1. l # k
  <2>1. request'[q] \in {<<"enqueued", l>>, <<"answered", l>>}
    BY SMTT(30) DEF RequestSync, MarkQueued, SyncInv, SyncTypeOK
  <2>2. request'[q] # Nobody /\ request'[q][2] = l
    BY <2>1, SyncQueueConstants
  <2>3. QED
    BY <2>2, NoCauseNext, Zenon
<1>2. \A j \in KeysOf(k) : j \in Keys /\ j[2] = k
  BY DEF KeysOf
<1>3. source'[k] = source[k] /\ UNCHANGED <<minute, task, syncing>>
  BY <1>1, SMTT(30) DEF RequestSync, MarkQueued, SyncInv, SyncTypeOK
<1>4. syncWorker' = syncWorker /\ \A j \in KeysOf(k) : syncJob'[j] = syncJob[j]
  <2>1. CASE RequestSync(q, l)
    <3>1. PICK i \in Keys : i = <<"connector-sync", l, q>> /\ i[2] = l
      BY KeyShape, Zenon
    <3>2. EnqueueKey(i)
      BY <2>1, <3>1, Zenon DEF RequestSync
    <3>3. QED
      BY <1>1, <1>2, <3>1, <3>2, EnqueueEffect, Zenon
  <2>2. CASE MarkQueued(q, l)
    BY <2>2 DEF MarkQueued, queueVars
  <2>3. QED
    BY <2>1, <2>2
<1>5. \A j \in KeysOf(k) : JobFlows(j)
  BY <1>2, <1>3, <1>4, FlowsStill, Zenon
<1>6. QED
  BY <1>3, <1>5, ConnectorQuiet, Zenon

\* The facts of ConnectorAt, with a name for the key of this minute.
LEMMA ConnectorFacts ==
  ASSUME SyncInv, NEW k \in Synced, ~Caused(k)
  PROVE  \E m \in KeysOf(k) :
           /\ m = <<"scheduled-sync", k, minute>>
           /\ \A i, j \in KeysOf(k) : Fresh(i) /\ Fresh(j) => i = j
           /\ Waits(k) => \A j \in KeysOf(k) : ~Fresh(j)
           /\ Waits(k) \/ (\E j \in KeysOf(k) : Fresh(j)) =>
                source[k].status = "QUEUED" /\ ~Listed(k)
           /\ syncJob[m].status = "SUCCEEDED" \/ Stored(m) =>
                ~source[k].due /\ ~Listed(k) /\ ~Waits(k)
           /\ source[k].status = "QUEUED" =>
                Waits(k) \/ \E j \in KeysOf(k) : Unsettled(j) /\ ~Stored(j)
<1>1. <<"scheduled-sync", k, minute>> \in KeysOf(k)
  BY KeyShape DEF KeysOf, SyncInv, SyncTypeOK
<1>2. ConnectorAt(k)
  BY DEF SyncInv
<1>3. QED
  BY <1>1, <1>2, Zenon DEF ConnectorAt

\* Without faults the task that runs is the only one.
LEMMA OneTask ==
  ASSUME SyncInv, syncFaultsSoFar = 0, NEW s \in Schedulers, task[s].pc # "idle" \/ lock = Nobody
  PROVE  \A t \in Schedulers \ {s} : task[t].item = Nobody /\ task[t].todo = {}
BY SchedulingConstants DEF SyncInv, TaskAt

\* A connector is listed: it is due and not QUEUED.
LEMMA ConnectorSelected ==
  ASSUME SyncInv, [SyncNext]_syncVars, NEW k \in Synced, ~Caused(k)',
         NEW s \in Schedulers, SelectDue(s)
  PROVE  ConnectorAt(k)'
<1>1. ~Caused(k) /\ syncFaultsSoFar = 0
  BY NoCauseNext, NoCause
<1>2. PICK r \in Task : /\ task' = [task EXCEPT ![s] = r]
                        /\ r.pc = "items" /\ r.item = task[s].item
                        /\ r.todo = {l \in Synced : Selected(l)}
  BY TaskRows
<1>3. UNCHANGED <<source, minute, syncing, syncJob, syncWorker>>
  BY Zenon DEF SelectDue, queueVars
<1>4. \A j \in KeysOf(k) : JobFlows(j)
  BY <1>3, FlowsStill, Zenon DEF KeysOf
<1>5. Waits(k)' <=> Waits(k)
  BY <1>2, TaskFrame, Zenon
<1>6. CASE ~Selected(k)
  <2>1. Listed(k)' => Listed(k)
    BY <1>2, <1>6, TaskFrame, Zenon
  <2>2. ConnectorAt(k) /\ minute \in 1 .. Minutes
    BY DEF SyncInv, SyncTypeOK
  <2>3. minute' = minute /\ source' = source
    BY <1>3
  <2>4. QED
    BY <1>1, <1>4, <1>5, <2>1, <2>2, <2>3, ConnectorFrame, Zenon
<1>7. CASE Selected(k)
  <2>1. PICK m \in KeysOf(k) :
           /\ m = <<"scheduled-sync", k, minute>>
           /\ Waits(k) \/ (\E j \in KeysOf(k) : Fresh(j)) => source[k].status = "QUEUED"
           /\ syncJob[m].status = "SUCCEEDED" \/ Stored(m) => ~source[k].due
    BY <1>1, ConnectorFacts, Zenon
  <2>2. /\ ~Waits(k) /\ \A j \in KeysOf(k) : ~Fresh(j)
        /\ ~(syncJob[m].status = "SUCCEEDED" \/ Stored(m)) /\ source[k].status # "QUEUED"
    BY <1>7, <2>1, Zenon DEF Selected
  <2>3. /\ ~Waits(k)' /\ \A j \in KeysOf(k) : ~Fresh(j)'
        /\ ~(syncJob'[m].status = "SUCCEEDED" \/ Stored(m)') /\ source'[k].status # "QUEUED"
    BY <1>3, <1>4, <1>5, <2>2, Zenon DEF JobFlows
  <2>4. minute' = minute
    BY <1>3
  <2>5. QED
    BY <2>1, <2>3, <2>4, Zenon DEF ConnectorAt
<1>8. QED
  BY <1>6, <1>7

\* A task claims an item, or another connector's.
LEMMA ConnectorClaimed ==
  ASSUME SyncInv, [SyncNext]_syncVars, NEW k \in Synced, ~Caused(k)',
         NEW s \in Schedulers, NEW l \in Synced, ClaimItem(s, l)
  PROVE  ConnectorAt(k)'
<1>1. ~Caused(k) /\ syncFaultsSoFar = 0
  BY NoCauseNext, NoCause
<1>2. PICK r \in Task :
         /\ task' = [task EXCEPT ![s] = r] /\ r.todo = task[s].todo \ {l}
         /\ \/ /\ source[l].status = "QUEUED" /\ source' = source
               /\ r.pc = task[s].pc /\ r.item = task[s].item
            \/ /\ source[l].status # "QUEUED" /\ r.pc = "submit" /\ r.item = l
               /\ source' = [source EXCEPT ![l].status = "QUEUED"]
  BY TaskRows
<1>3. UNCHANGED <<minute, syncing, syncJob, syncWorker>> /\ task[s].pc = "items"
  BY Zenon DEF ClaimItem, queueVars
<1>4. \A j \in KeysOf(k) : JobFlows(j)
  BY <1>3, FlowsStill, Zenon DEF KeysOf
<1>5. task[s].item # k
  BY <1>3, SchedulingConstants DEF SyncInv, TaskAt
<1>6. Listed(k)' => Listed(k)
  BY <1>2, TaskFrame, Zenon
<1>7. CASE (source' = source /\ r.item = task[s].item) \/ l # k
  <2>1. source'[k] = source[k]
    BY <1>2, <1>7 DEF SyncInv, SyncTypeOK
  <2>2. Waits(k)' <=> Waits(k)
    BY <1>2, <1>5, <1>7, TaskFrame, Zenon
  <2>3. ConnectorAt(k) /\ minute \in 1 .. Minutes
    BY DEF SyncInv, SyncTypeOK
  <2>4. minute' = minute
    BY <1>3
  <2>5. QED
    BY <1>1, <1>4, <1>6, <2>1, <2>2, <2>3, <2>4, ConnectorFrame, Zenon
<1>8. CASE l = k /\ source[k].status # "QUEUED" /\ r.item = k
           /\ source' = [source EXCEPT ![k].status = "QUEUED"]
  <2>1. PICK m \in KeysOf(k) :
           /\ m = <<"scheduled-sync", k, minute>>
           /\ Waits(k) \/ (\E j \in KeysOf(k) : Fresh(j)) => source[k].status = "QUEUED"
           /\ syncJob[m].status = "SUCCEEDED" \/ Stored(m) => ~Listed(k)
    BY <1>1, ConnectorFacts, Zenon
  <2>2. Listed(k)
    BY <1>8, Zenon DEF Listed, ClaimItem
  <2>3. \A j \in KeysOf(k) : ~Fresh(j)'
    BY <1>4, <1>8, <2>1, Zenon DEF JobFlows
  <2>4. ~(syncJob'[m].status = "SUCCEEDED" \/ Stored(m)')
    BY <1>4, <2>1, <2>2, Zenon DEF JobFlows
  <2>5. source'[k].status = "QUEUED"
    BY <1>8 DEF SyncInv, SyncTypeOK, SourceRow
  <2>6. task'[s] = r /\ \A t \in Schedulers \ {s} : task'[t] = task[t]
    BY <1>2 DEF SyncInv, SyncTypeOK
  <2>7. Waits(k)'
    BY <1>8, <2>6, Zenon DEF Waits
  <2>8. ~Listed(k)'
    <3>1. \A t \in Schedulers \ {s} : task[t].todo = {}
      BY <1>1, <1>3, OneTask
    <3>2. k \notin r.todo
      BY <1>2, <1>8
    <3>3. QED
      BY <2>6, <3>1, <3>2, Zenon DEF Listed
  <2>9. minute' = minute
    BY <1>3
  <2>10. QED
    BY <2>1, <2>3, <2>4, <2>5, <2>7, <2>8, <2>9, Zenon DEF ConnectorAt
<1>9. QED
  BY <1>2, <1>7, <1>8, SMTT(30)

\* A task submits its item, with the key of this minute, or ends.
LEMMA ConnectorSubmitted ==
  ASSUME SyncInv, [SyncNext]_syncVars, NEW k \in Synced, ~Caused(k)',
         NEW s \in Schedulers, SubmitItem(s)
  PROVE  ConnectorAt(k)'
<1>1. ~Caused(k) /\ syncFaultsSoFar = 0
  BY NoCauseNext, NoCause
<1>2. /\ task[s].pc = "submit" /\ ItemDone(s) /\ UNCHANGED <<source, minute, syncing>>
      /\ minute' = minute /\ source' = source
  BY Zenon DEF SubmitItem
<1>3. PICK r \in Task : /\ task' = [task EXCEPT ![s] = r] /\ r.todo = task[s].todo
                        /\ r.pc = "items" /\ r.item = Nobody
  BY <1>2, TaskRows
<1>4. PICK l \in Synced : l = task[s].item
  BY <1>2 DEF SyncInv, TaskAt, SyncTypeOK, Task
<1>5. minute \in 1 .. Minutes
  BY DEF SyncInv, SyncTypeOK
<1>6. PICK i \in Keys : i = <<"scheduled-sync", l, minute>> /\ i[2] = l
  BY <1>5, KeyShape, Zenon
<1>7. EnqueueKey(i)
  BY <1>4, <1>6, Zenon DEF SubmitItem
<1>8. /\ UNCHANGED syncWorker
      /\ \A j \in Keys \ {i} : syncJob'[j] = syncJob[j]
      /\ syncJob'[i].attempts = syncJob[i].attempts
      /\ syncJob'[i].status = IF syncJob[i].status = "NONE" THEN "QUEUED"
                              ELSE syncJob[i].status
  BY <1>7, EnqueueEffect
<1>9. \A j \in KeysOf(k) : j \in Keys /\ j[2] = k
  BY DEF KeysOf
<1>10. Listed(k)' => Listed(k)
  BY <1>3, TaskFrame, Zenon
<1>11. k # Nobody
  BY SchedulingConstants
<1>12. CASE l # k
  <2>1. \A j \in KeysOf(k) : JobFlows(j)
    BY <1>2, <1>6, <1>8, <1>9, <1>12, FlowsStill
  <2>2. Waits(k)' <=> Waits(k)
    BY <1>3, <1>4, <1>11, <1>12, TaskFrame, Zenon
  <2>3. ConnectorAt(k)
    BY DEF SyncInv
  <2>4. QED
    BY <1>1, <1>2, <1>5, <1>10, <2>1, <2>2, <2>3, ConnectorFrame, Zenon
<1>13. CASE l = k
  <2>1. PICK m \in KeysOf(k) :
           /\ m = <<"scheduled-sync", k, minute>>
           /\ Waits(k) => \A j \in KeysOf(k) : ~Fresh(j)
           /\ Waits(k) => source[k].status = "QUEUED" /\ ~Listed(k)
           /\ syncJob[m].status = "SUCCEEDED" \/ Stored(m) => ~Waits(k)
    BY <1>1, ConnectorFacts, Zenon
  <2>2. m = i /\ m \in Keys
    BY <1>6, <1>13, <2>1
  <2>3. Waits(k)
    BY <1>4, <1>13, Zenon DEF Waits
  <2>4. task'[s] = r /\ \A t \in Schedulers \ {s} : task'[t] = task[t]
    BY <1>3 DEF SyncInv, SyncTypeOK
  <2>5. ~Waits(k)'
    <3>1. \A t \in Schedulers \ {s} : task[t].item = Nobody
      BY <1>1, <1>2, OneTask, SMTT(30)
    <3>2. QED
      BY <1>3, <1>11, <2>4, <3>1, Zenon DEF Waits
  <2>6. ASSUME NEW j \in KeysOf(k), j # m PROVE ~Fresh(j)'
    BY <1>2, <1>8, <1>9, <2>1, <2>2, <2>3, <2>6, FlowsStill
  <2>7. ~Stored(m)'
    <3>1. ~Stored(m)
      BY <2>1, <2>3, Zenon
    <3>2. QED
      BY <1>2, <1>8, <3>1, Zenon DEF Stored
  <2>8. syncJob'[m].status # "SUCCEEDED" /\ Unsettled(m)'
    <3>1. syncJob[m].status # "SUCCEEDED" /\ syncJob[m].attempts \in {0, 1}
      BY <1>1, <2>1, <2>3, NoCause, SMTT(30)
    <3>2. syncJob[m].status # "DEAD"
      BY <2>2, <3>1, SyncQueueConstants, SMTT(30)
         DEF SyncInv, Queue!DeadIsExhausted
    <3>3. syncJob[m].status \in {"NONE", "QUEUED", "RUNNING", "SUCCEEDED", "DEAD"}
      BY <2>2, SyncTyped, RowColumns
    <3>4. QED
      BY <1>8, <2>2, <3>1, <3>2, <3>3, SMTT(30) DEF Unsettled
  <2>9. source'[k].status = "QUEUED" /\ ~Listed(k)'
    BY <1>2, <1>10, <2>1, <2>3, Zenon
  <2>10. QED
    BY <1>2, <2>1, <2>5, <2>6, <2>7, <2>8, <2>9, Zenon DEF ConnectorAt
<1>14. QED
  BY <1>12, <1>13

\* The task ends, with no connector in its hands.
LEMMA ConnectorEnds ==
  ASSUME SyncInv, [SyncNext]_syncVars, NEW k \in Synced, ~Caused(k)',
         NEW s \in Schedulers, EndTask(s)
  PROVE  ConnectorAt(k)'
<1>1. ~Caused(k) /\ ConnectorAt(k) /\ minute \in 1 .. Minutes /\ k # Nobody
  BY NoCauseNext, SchedulingConstants DEF SyncInv, SyncTypeOK
<1>2. /\ task' = [task EXCEPT ![s] = NoTask] /\ task[s].pc = "items"
      /\ UNCHANGED <<syncing, syncJob, syncWorker>> /\ minute' = minute /\ source' = source
  BY Zenon DEF EndTask, queueVars
<1>3. NoTask \in Task /\ NoTask.todo = {} /\ NoTask.item = Nobody /\ task[s].item = Nobody
  BY <1>2, TaskRows DEF SyncInv, TaskAt
<1>4. (Waits(k)' <=> Waits(k)) /\ (Listed(k)' => Listed(k))
  BY <1>1, <1>2, <1>3, TaskFrame, Zenon
<1>5. \A j \in KeysOf(k) : JobFlows(j)
  BY <1>2, FlowsStill, Zenon DEF KeysOf
<1>6. QED
  BY <1>1, <1>2, <1>4, <1>5, ConnectorFrame, Zenon

\* A run ends, and its result is stored.
LEMMA ConnectorSynced ==
  ASSUME SyncInv, [SyncNext]_syncVars, NEW k \in Synced, ~Caused(k)',
         NEW g \in Syncers, FailRun(g) \/ CommitRun(g)
  PROVE  ConnectorAt(k)'
<1>1. ~Caused(k) /\ syncFaultsSoFar = 0
  BY NoCauseNext, NoCause, SMTT(30)
<1>2. /\ syncing[g] = "running" /\ syncing'[g] \in {"error", "ok"}
      /\ \A h \in Syncers \ {g} : syncing'[h] = syncing[h]
      /\ UNCHANGED <<task, syncJob, syncWorker>> /\ minute' = minute
  BY SMTT(30) DEF FailRun, CommitRun, queueVars, SyncInv, SyncTypeOK
<1>3. PICK i \in Keys : i = syncWorker[g].job
  BY <1>2, SyncTyped DEF SyncInv, HandlersOK
<1>4. PICK l \in Synced : l = i[2] /\ i \in KeysOf(l)
  BY KeyShape
<1>5. /\ source \in [Synced -> SourceRow]
      /\ \/ source' = [source EXCEPT ![l].status = "FAILED"] /\ syncing'[g] = "error"
         \/ source' = [source EXCEPT ![l] = [source[l] EXCEPT !.status = "SUCCEEDED",
                                                              !.due = FALSE]]
  <2>1. source \in [Synced -> SourceRow] /\ syncing \in [Syncers -> {"none", "running", "error", "ok"}]
    BY DEF SyncInv, SyncTypeOK
  <2>2. CASE FailRun(g)
    BY <1>3, <1>4, <2>1, <2>2 DEF FailRun
  <2>3. CASE CommitRun(g)
    BY <1>3, <1>4, <2>1, <2>3, Zenon DEF CommitRun
  <2>4. QED
    BY <2>1, <2>2, <2>3
<1>6. \A j \in KeysOf(k) : j \in Keys /\ j[2] = k /\ j # Nobody
  BY KeyShape DEF KeysOf
<1>7. (Waits(k)' <=> Waits(k)) /\ (Listed(k)' <=> Listed(k))
  BY <1>2, Zenon DEF Waits, Listed
<1>8. ASSUME NEW j \in KeysOf(k), j # i
      PROVE  JobFlows(j) /\ (Stored(j)' <=> Stored(j)) /\ (Fresh(j)' <=> Fresh(j))
  BY <1>2, <1>3, <1>6, <1>8, FlowsApart, Zenon
<1>9. CASE l # k
  <2>1. source'[k] = source[k]
    BY <1>5, <1>9
  <2>2. \A j \in KeysOf(k) : JobFlows(j)
    BY <1>4, <1>6, <1>8, <1>9
  <2>3. ConnectorAt(k) /\ minute \in 1 .. Minutes
    BY DEF SyncInv, SyncTypeOK
  <2>4. QED
    BY <1>1, <1>2, <1>7, <2>1, <2>2, <2>3, ConnectorFrame, Zenon
<1>10. CASE l = k
  <2>1. PICK m \in KeysOf(k) :
           /\ m = <<"scheduled-sync", k, minute>>
           /\ \A a, b \in KeysOf(k) : Fresh(a) /\ Fresh(b) => a = b
           /\ Waits(k) => \A j \in KeysOf(k) : ~Fresh(j)
           /\ (\E j \in KeysOf(k) : Fresh(j)) => ~Listed(k)
           /\ syncJob[m].status = "SUCCEEDED" \/ Stored(m) => ~source[k].due
    BY <1>1, ConnectorFacts, Zenon
  <2>2. i \in KeysOf(k) /\ Fresh(i)
    BY <1>2, <1>3, <1>4, <1>10, Zenon DEF Fresh, Begun
  <2>3. ~Waits(k)' /\ ~Listed(k)'
    BY <1>7, <2>1, <2>2, Zenon
  <2>4. ~Fresh(i)'
    <3>1. ClaimedOnce(i) /\ syncJob[i].attempts \in {0, 1}
      BY <1>1, <2>2, NoCause, SMTT(30) DEF SyncInv
    <3>2. syncJob[i].status = "RUNNING" /\ \A h \in Syncers : syncWorker[h].job = i => h = g
      BY <1>1, <1>3, <3>1 DEF ClaimedOnce
    <3>3. QED
      BY <1>2, <3>2, SMTT(30) DEF Fresh, Begun
  <2>5. \A j \in KeysOf(k) : ~Fresh(j)'
    BY <1>8, <2>1, <2>2, <2>4, Zenon
  <2>6. source'[k].status # "QUEUED"
    <3>1. CASE source' = [source EXCEPT ![l] = [source[l] EXCEPT !.status = "SUCCEEDED",
                                                              !.due = FALSE]]
      BY <1>5, <1>10, <3>1 DEF SourceRow
    <3>2. CASE source' = [source EXCEPT ![l].status = "FAILED"]
      BY <1>5, <1>10, <3>2 DEF SourceRow
    <3>3. QED
      BY <1>5, <3>1, <3>2
  <2>7. syncJob'[m].status = "SUCCEEDED" \/ Stored(m)' => ~source'[k].due
    <3>1. CASE source' = [source EXCEPT ![l] = [source[l] EXCEPT !.status = "SUCCEEDED",
                                                              !.due = FALSE]]
      BY <1>5, <1>10, <3>1, SMTT(30) DEF SourceRow
    <3>2. CASE source' = [source EXCEPT ![l].status = "FAILED"] /\ syncing'[g] = "error"
      <4>1. source'[k].due = source[k].due
        BY <1>5, <1>10, <3>2 DEF SourceRow
      <4>2. Stored(m)' => Stored(m)
        BY <1>2, <3>2 DEF Stored
      <4>3. QED
        BY <1>2, <2>1, <4>1, <4>2
    <3>3. QED
      BY <1>5, <3>1, <3>2
  <2>8. QED
    BY <1>2, <2>1, <2>3, <2>5, <2>6, <2>7, Zenon DEF ConnectorAt
<1>11. QED
  BY <1>9, <1>10

\* A minute passes: its key is new.
LEMMA ConnectorNextMinute ==
  ASSUME SyncInv, [SyncNext]_syncVars, NEW k \in Synced, ~Caused(k)',
         NEW due \in SUBSET Synced, MinutePasses(due)
  PROVE  ConnectorAt(k)'
<1>1. ~Caused(k) /\ syncFaultsSoFar = 0
  BY NoCauseNext, NoCause
<1>2. UNCHANGED <<task, syncing, syncJob, syncWorker>>
  BY Zenon DEF MinutePasses, queueVars
<1>3. minute' = minute + 1 /\ minute \in 1 .. Minutes /\ minute' \in 1 .. Minutes
  BY SchedulingConstants DEF MinutePasses, SyncInv, SyncTypeOK
<1>4. source'[k].status = source[k].status
  BY DEF MinutePasses, SyncInv, SyncTypeOK, SourceRow
<1>5. PICK n \in KeysOf(k) : n = <<"scheduled-sync", k, minute'>>
  BY <1>3, KeyShape, Zenon DEF KeysOf
<1>6. syncJob[n].status = "NONE"
  BY <1>3, <1>5 DEF SyncInv, KeysOfPast
<1>7. ~Stored(n)
  <2>1. ClaimedOnce(n) /\ syncJob[n].attempts \in {0, 1}
    BY <1>1, <1>5, NoCause DEF SyncInv
  <2>2. QED
    BY <1>1, <1>6, <2>1 DEF ClaimedOnce, Stored
<1>8. ~(syncJob'[n].status = "SUCCEEDED" \/ Stored(n)')
  BY <1>2, <1>6, <1>7 DEF Stored
<1>9. /\ (Waits(k)' <=> Waits(k)) /\ (Listed(k)' <=> Listed(k))
  BY <1>2, Zenon DEF Waits, Listed
<1>10. ASSUME NEW j \in KeysOf(k)
       PROVE  (Fresh(j)' <=> Fresh(j)) /\ (Unsettled(j)' <=> Unsettled(j))
              /\ (Stored(j)' <=> Stored(j))
  BY <1>2, FlowsStill, Zenon DEF KeysOf, Unsettled
<1>11. /\ \A i, j \in KeysOf(k) : Fresh(i) /\ Fresh(j) => i = j
       /\ Waits(k) => \A j \in KeysOf(k) : ~Fresh(j)
       /\ Waits(k) \/ (\E j \in KeysOf(k) : Fresh(j)) =>
             source[k].status = "QUEUED" /\ ~Listed(k)
       /\ source[k].status = "QUEUED" =>
             Waits(k) \/ \E j \in KeysOf(k) : Unsettled(j) /\ ~Stored(j)
  BY <1>1, ConnectorFacts, Zenon
<1>12. /\ \A i, j \in KeysOf(k) : Fresh(i)' /\ Fresh(j)' => i = j
       /\ Waits(k)' => \A j \in KeysOf(k) : ~Fresh(j)'
       /\ Waits(k)' \/ (\E j \in KeysOf(k) : Fresh(j)') =>
             source'[k].status = "QUEUED" /\ ~Listed(k)'
       /\ source'[k].status = "QUEUED" =>
             Waits(k)' \/ \E j \in KeysOf(k) : Unsettled(j)' /\ ~Stored(j)'
  BY <1>4, <1>9, <1>10, <1>11, Zenon
<1>13. QED
  BY <1>5, <1>8, <1>12, Zenon DEF ConnectorAt

\* Every step keeps a connector in one place.
LEMMA ConnectorsKeep ==
  ASSUME SyncInv, [SyncNext]_syncVars, NEW k \in Synced
  PROVE  ConnectorAt(k)'
<1>1. CASE Caused(k)'
  BY <1>1, Zenon DEF ConnectorAt
<1>2. CASE ~Caused(k)'
  <2>1. ~FaultStep
    BY <1>2, NoCauseNext
  <2>2. ASSUME NEW s \in Schedulers, SelectDue(s) \/ TaskStep(s)
        PROVE  ConnectorAt(k)'
    BY <1>2, <2>2, ConnectorSelected, ConnectorClaimed, ConnectorSubmitted, ConnectorEnds,
       Zenon DEF TaskStep
  <2>3. ASSUME NEW g \in Syncers, FailRun(g) \/ CommitRun(g)
        PROVE  ConnectorAt(k)'
    BY <1>2, <2>3, ConnectorSynced, Zenon
  <2>4. ASSUME NEW due \in SUBSET Synced, MinutePasses(due)
        PROVE  ConnectorAt(k)'
    BY <1>2, <2>4, ConnectorNextMinute, Zenon
  <2>5. ASSUME NEW q \in SyncRequests, NEW l \in Synced, RequestSync(q, l) \/ MarkQueued(q, l)
        PROVE  ConnectorAt(k)'
    BY <1>2, <2>5, ConnectorOfRequests, Zenon
  <2>6. CASE UNCHANGED syncVars
    <3>1. UNCHANGED <<minute, task, source, syncing, syncJob, syncWorker>>
      BY <2>6, Zenon DEF syncVars, queueVars
    <3>2. \A j \in KeysOf(k) : JobFlows(j)
      BY <3>1, FlowsStill, Zenon DEF KeysOf
    <3>3. QED
      BY <1>2, <3>1, <3>2, ConnectorQuiet
  <2>7. ASSUME NEW s \in Schedulers, SubmitFails(s) \/ LoseLock(s) \/ StopTask(s)
        PROVE  FALSE
    BY <2>1, <2>7, Zenon DEF FaultStep, SubmitFails, LoseLock, StopTask
  <2>8. ASSUME NEW s \in Schedulers, NEW l \in Synced, ClaimItemFails(s, l)
        PROVE  FALSE
    BY <2>1, <2>8, Zenon DEF FaultStep, ClaimItemFails
  <2>9. ASSUME NEW g \in Syncers, LoseSyncOutcome(g) PROVE FALSE
    BY <2>1, <2>9, Zenon DEF FaultStep, LoseSyncOutcome, Queue!LoseOutcome
  <2>10. ASSUME NEW w \in SyncWorkerIds, StopSyncer(w) PROVE FALSE
    BY <2>1, <2>10, Zenon DEF FaultStep, StopSyncer, Queue!Crash
  <2>11. ASSUME SyncNext PROVE ConnectorAt(k)'
    BY <1>2, <2>2, <2>3, <2>4, <2>5, <2>7, <2>8, <2>9, <2>10, <2>11, ConnectorOfQueue,
       ZenonT(60) DEF SyncNext, HandlerReturns
  <2>12. QED
    BY <2>6, <2>11
<1>3. QED
  BY <1>1, <1>2

-----------------------------------------------------------------------------
(* Connectors that are QUEUED and were never put into the table. *)

HasRow(k) == \E j \in KeysOf(k) : syncJob[j].status # "NONE"

\* The connectors SelectionIsCommitted fails for.
Uncommitted == {k \in Synced : source[k].status = "QUEUED" /\ ~HasRow(k) /\ ~Waits(k)}

\* A request enqueues its job before it marks the connector.
RequestsHaveRows ==
    \A q \in SyncRequests : request[q] # Nobody => HasRow(request[q][2])

\* No step deletes a row.
LEMMA RowsStay ==
  ASSUME SyncInv, [SyncNext]_syncVars, NEW k, HasRow(k)
  PROVE  HasRow(k)'
<1>1. PICK j \in Keys : j[2] = k /\ syncJob[j].status # "NONE"
  BY SMTT(30) DEF HasRow, KeysOf
<1>2. ASSUME NEW i \in Keys, Queue!Enqueue(i) PROVE syncJob'[j].status # "NONE"
  <2>1. EnqueueKey(i)
    BY <1>2, Zenon DEF EnqueueKey, Queue!Enqueue
  <2>2. QED
    BY <1>1, <2>1, EnqueueEffect
<1>3. ASSUME \/ \E i \in Keys : Queue!BackoffEnds(i) \/ Queue!LeaseEnds(i)
             \/ \E g \in Syncers : Queue!Heartbeat(g)
      PROVE  syncJob'[j].status # "NONE"
  BY <1>1, <1>3, TimeEffect
<1>4. ASSUME NEW g \in Syncers, NEW i \in Keys, Queue!Claim(g, i)
      PROVE  syncJob'[j].status # "NONE"
  BY <1>1, <1>4, ClaimEffect, SMTT(30)
<1>5. ASSUME NEW g \in Syncers, Queue!Succeed(g) \/ Queue!Fail(g)
      PROVE  syncJob'[j].status # "NONE"
  BY <1>1, <1>5, SettleEffect
<1>6. ASSUME NEW i \in Keys, Queue!LoseLease(i) PROVE syncJob'[j].status # "NONE"
  BY <1>1, <1>6, LoseLeaseEffect
<1>7. ASSUME syncJob' = syncJob PROVE syncJob'[j].status # "NONE"
  BY <1>1, <1>7
<1>8. syncJob'[j].status # "NONE"
  BY <1>2, <1>3, <1>4, <1>5, <1>6, <1>7, StepsOfTheQueue, Zenon
     DEF QueueStep, FaultStep, queueVars, Queue!LoseOutcome, Queue!Crash
<1>9. QED
  BY <1>1, <1>8 DEF HasRow, KeysOf

\* Only a scheduler that claims it and a request that marks it make a
\* connector QUEUED.
LEMMA QueuedBy ==
  ASSUME SyncInv, [SyncNext]_syncVars, NEW k \in Synced,
         source[k].status # "QUEUED", source'[k].status = "QUEUED"
  PROVE  \/ \E s \in Schedulers : ClaimItem(s, k)
         \/ \E q \in SyncRequests : MarkQueued(q, k)
<1>1. source \in [Synced -> SourceRow]
  BY DEF SyncInv, SyncTypeOK
<1>2. ASSUME NEW l \in Synced, NEW v, v # "QUEUED",
             source' = [source EXCEPT ![l].status = v]
      PROVE  FALSE
  BY <1>1, <1>2 DEF SourceRow
<1>3. ASSUME source' = source PROVE FALSE
  BY <1>3
<1>4. ASSUME NEW s \in Schedulers, NEW l \in Synced, ClaimItem(s, l) PROVE l = k
  BY <1>1, <1>4 DEF ClaimItem, SourceRow
<1>5. ASSUME NEW q \in SyncRequests, NEW l \in Synced, MarkQueued(q, l) PROVE l = k
  BY <1>1, <1>5 DEF MarkQueued, SourceRow
<1>6. ASSUME NEW s \in Schedulers, SubmitFails(s) PROVE FALSE
  <2>1. task[s].item \in Synced
    BY <1>6 DEF SyncInv, TaskAt, SyncTypeOK, SubmitFails, Task
  <2>2. QED
    BY <1>2, <1>3, <1>6, <2>1, Zenon DEF SubmitFails
<1>7. ASSUME NEW g \in Syncers, FailRun(g) \/ CommitRun(g) PROVE FALSE
  <2>1. PICK l \in Synced : l = syncWorker[g].job[2]
    BY <1>7, SyncTyped, KeyShape DEF SyncInv, HandlersOK, FailRun, CommitRun
  <2>2. CASE FailRun(g)
    BY <1>2, <2>1, <2>2, Zenon DEF FailRun
  <2>3. CASE CommitRun(g)
    <3>1. source' = [source EXCEPT ![l] = [source[l] EXCEPT !.status = "SUCCEEDED",
                                                            !.due = FALSE]]
      BY <1>1, <2>1, <2>3, Zenon DEF CommitRun
    <3>2. [source[l] EXCEPT !.status = "SUCCEEDED", !.due = FALSE].status = "SUCCEEDED"
      BY <1>1, Zenon DEF SourceRow
    <3>3. CASE l = k
      BY <1>1, <3>1, <3>2, <3>3
    <3>4. CASE l # k
      BY <1>1, <3>1, <3>4
    <3>5. QED
      BY <3>3, <3>4
  <2>4. QED
    BY <1>7, <2>2, <2>3, SMTT(30)
<1>8. ASSUME NEW due \in SUBSET Synced, MinutePasses(due) PROVE FALSE
  <2>1. source'[k] = [source[k] EXCEPT !.due = source[k].due \/ k \in due]
    BY <1>8, Zenon DEF MinutePasses
  <2>2. QED
    BY <1>1, <2>1 DEF SourceRow
<1>9. ASSUME NEW l \in Synced, NEW b \in Readabilities, SetReadable(l, b) PROVE FALSE
  BY <1>1, <1>9 DEF SetReadable, SourceRow
<1>10. QED
  BY <1>3, <1>4, <1>5, <1>6, <1>7, <1>8, <1>9, Zenon
     DEF SyncNext, TaskStep, SelectDue, SubmitItem, EndTask, ClaimItemFails, LoseLock,
         StopTask, RequestSync, ClaimSync, HandlerReturns, BeginSync, RollBackRun,
         SettleSync, LoseSyncOutcome, RenewSyncLease, StopSyncer, SyncQueueTime, syncVars

\* Only a scheduler that has enqueued it, or met a fault, lets go of a
\* connector it has claimed.
LEMMA ItemLeaves ==
  ASSUME SyncInv, [SyncNext]_syncVars, NEW s \in Schedulers, NEW k \in Synced,
         task[s].item = k, task'[s].item # k
  PROVE  SubmitItem(s) \/ SubmitFails(s) \/ StopTask(s)
<1>1. task \in [Schedulers -> Task] /\ task[s].pc = "submit"
  BY SchedulingConstants DEF SyncInv, SyncTypeOK, TaskAt
<1>2. ASSUME NEW t \in Schedulers, NEW r, t # s, task' = [task EXCEPT ![t] = r]
      PROVE  FALSE
  BY <1>1, <1>2
<1>3. ASSUME task' = task PROVE FALSE
  BY <1>3
<1>4. ASSUME NEW t \in Schedulers,
             \/ SelectDue(t) \/ EndTask(t) \/ SubmitItem(t) \/ SubmitFails(t) \/ StopTask(t)
             \/ \E l \in Synced : ClaimItem(t, l) \/ ClaimItemFails(t, l)
      PROVE  t = s
  <2>1. \E r : task' = [task EXCEPT ![t] = r]
    <3>1. /\ SelectDue(t) \/ ItemDone(t) => \E r : task' = [task EXCEPT ![t] = r]
          /\ \A l \in Synced : ClaimItem(t, l) \/ ClaimItemFails(t, l) =>
               \E r : task' = [task EXCEPT ![t] = r]
      BY TaskRows, SMTT(30)
    <3>2. SubmitItem(t) \/ SubmitFails(t) => ItemDone(t)
      BY Zenon DEF SubmitItem, SubmitFails
    <3>3. EndTask(t) \/ StopTask(t) => \E r : task' = [task EXCEPT ![t] = r]
      BY Zenon DEF EndTask, StopTask
    <3>4. QED
      BY <1>4, <3>1, <3>2, <3>3, Zenon
  <2>2. QED
    BY <1>2, <2>1, Zenon
<1>5. ~SelectDue(s) /\ ~EndTask(s) /\ \A l \in Synced : ~ClaimItem(s, l) /\ ~ClaimItemFails(s, l)
  BY <1>1 DEF SelectDue, EndTask, ClaimItem, ClaimItemFails
<1>6. QED
  BY <1>3, <1>4, <1>5, Zenon
     DEF SyncNext, TaskStep, LoseLock, RequestSync, MarkQueued, ClaimSync, HandlerReturns,
         BeginSync, FailRun, CommitRun, RollBackRun, SettleSync, LoseSyncOutcome,
         RenewSyncLease, StopSyncer, SyncQueueTime, MinutePasses, SetReadable, syncVars

\* Requests, and every step.
LEMMA RequestsStep ==
  ASSUME SyncInv, RequestsHaveRows, [SyncNext]_syncVars
  PROVE  RequestsHaveRows'
<1>1. /\ request \in [SyncRequests -> {Nobody} \cup ({"enqueued", "answered"} \X Synced)]
      /\ \A k : HasRow(k) => HasRow(k)'
  BY RowsStay DEF SyncInv, SyncTypeOK
<1>2. CASE request' = request
  BY <1>1, <1>2, Zenon DEF RequestsHaveRows
<1>3. ASSUME NEW q \in SyncRequests, NEW k \in Synced, RequestSync(q, k)
      PROVE  RequestsHaveRows'
  <2>1. PICK j \in Keys : j = <<"connector-sync", k, q>> /\ j[2] = k
    BY KeyShape, Zenon
  <2>2. syncJob'[j].status # "NONE"
    BY <1>3, <2>1, EnqueueEffect DEF RequestSync
  <2>3. HasRow(k)'
    BY <2>1, <2>2 DEF HasRow, KeysOf
  <2>4. request' = [request EXCEPT ![q] = <<"enqueued", k>>]
    BY <1>3 DEF RequestSync
  <2>5. QED
    BY <1>1, <2>3, <2>4 DEF RequestsHaveRows
<1>4. ASSUME NEW q \in SyncRequests, NEW k \in Synced, MarkQueued(q, k)
      PROVE  RequestsHaveRows'
  <2>1. request[q] = <<"enqueued", k>> /\ request' = [request EXCEPT ![q] = <<"answered", k>>]
    BY <1>4 DEF MarkQueued
  <2>2. <<"enqueued", k>> # Nobody
    BY SyncQueueConstants
  <2>3. HasRow(k)'
    BY <1>1, <2>1, <2>2, SMTT(30) DEF RequestsHaveRows
  <2>4. QED
    BY <1>1, <2>1, <2>3 DEF RequestsHaveRows
<1>5. QED
  BY <1>2, <1>3, <1>4, Zenon
     DEF SyncNext, TaskStep, SelectDue, ClaimItem, SubmitItem, EndTask, ClaimItemFails,
         SubmitFails, LoseLock, StopTask, ClaimSync, HandlerReturns,
         BeginSync, FailRun, CommitRun, RollBackRun, SettleSync, LoseSyncOutcome,
         RenewSyncLease, StopSyncer, SyncQueueTime, MinutePasses, SetReadable, syncVars

\* A connector comes to be uncommitted only by a fault of the scheduler that
\* has claimed it.
LEMMA LeftByItsScheduler ==
  ASSUME SyncInv, RequestsHaveRows, [SyncNext]_syncVars,
         NEW k \in Uncommitted', k \notin Uncommitted
  PROVE  \E s \in Schedulers : task[s].item = k /\ (SubmitFails(s) \/ StopTask(s))
<1>1. /\ k \in Synced /\ source'[k].status = "QUEUED" /\ ~HasRow(k)' /\ ~Waits(k)'
      /\ ~HasRow(k)
  BY RowsStay DEF Uncommitted
<1>2. source[k].status = "QUEUED"
  <2>1. ASSUME NEW s \in Schedulers, ClaimItem(s, k), source[k].status # "QUEUED"
        PROVE  FALSE
    <3>1. PICK r : task' = [task EXCEPT ![s] = r] /\ r.item = k
      BY <1>1, <2>1, TaskRows
    <3>2. task'[s].item = k
      BY <3>1 DEF SyncInv, SyncTypeOK
    <3>3. QED
      BY <1>1, <3>2 DEF Waits
  <2>2. ASSUME NEW q \in SyncRequests, MarkQueued(q, k) PROVE FALSE
    <3>1. request[q] = <<"enqueued", k>> /\ <<"enqueued", k>> # Nobody
      BY <1>1, <2>2, SyncQueueConstants DEF MarkQueued
    <3>2. QED
      BY <1>1, <3>1 DEF RequestsHaveRows
  <2>3. QED
    BY <1>1, <2>1, <2>2, QueuedBy, Zenon
<1>3. PICK s \in Schedulers : task[s].item = k
  BY <1>1, <1>2 DEF Uncommitted, Waits
<1>4. task'[s].item # k
  BY <1>1 DEF Waits
<1>5. ~SubmitItem(s)
  <2> SUFFICES ASSUME SubmitItem(s) PROVE FALSE
    OBVIOUS
  <2>1. minute \in 1 .. Minutes
    BY DEF SyncInv, SyncTypeOK
  <2>2. PICK j \in Keys : j = <<"scheduled-sync", k, minute>> /\ j[2] = k
    BY <1>1, <2>1, KeyShape, Zenon
  <2>3. syncJob'[j].status # "NONE"
    BY <1>3, <2>2, EnqueueEffect DEF SubmitItem
  <2>4. QED
    BY <1>1, <2>2, <2>3 DEF HasRow, KeysOf
<1>6. QED
  BY <1>1, <1>3, <1>4, <1>5, ItemLeaves, SMTT(30)

-----------------------------------------------------------------------------
(* The invariant, with what is proved of the queue on its own. *)
QueueFacts == INSTANCE DistributedQueueProofs
                WITH Jobs <- Keys, Goroutines <- Syncers, WorkerIds <- SyncWorkerIds,
                     WorkerId <- SyncWorkerId, MaxAttempts <- SyncAttempts,
                     MaxFaults <- SyncFaults, NoOwner <- Nobody, job <- syncJob,
                     worker <- syncWorker, faults <- syncFaultsSoFar

\* What the queue needs to keep its guarantees.
QueueSound ==
    Queue!QueueTypeOK /\ Queue!OwnedIffRunning /\ Queue!DeadIsExhausted /\ ClaimsAreOld

\* It is the invariant of the proofs of the queue, before a step and after.
LEMMA QueueAsProved ==
  (QueueSound <=> QueueFacts!QueueInv) /\ (QueueSound' <=> QueueFacts!QueueInv')
BY Zenon DEF QueueSound, ClaimsAreOld, Queue!QueueTypeOK, Queue!JobRow, Queue!Worker,
   Queue!OwnedIffRunning, Queue!DeadIsExhausted, QueueFacts!QueueInv,
   QueueFacts!QueueTypeOK, QueueFacts!JobRow, QueueFacts!Worker,
   QueueFacts!OwnedIffRunning, QueueFacts!DeadIsExhausted, QueueFacts!ClaimsAreOld

\* The same of the queue that the proofs are about.
LEMMA QueueOrFault ==
  ASSUME QueueStep \/ FaultStep
  PROVE  \/ [QueueFacts!QueueNext]_(QueueFacts!queueVars)
         \/ /\ UNCHANGED <<syncJob, syncWorker>>
            /\ syncFaultsSoFar' = syncFaultsSoFar + 1 /\ syncFaultsSoFar < SyncFaults
<1>1. QueueStep => QueueFacts!QueueNext \/ UNCHANGED queueVars
  BY Zenon DEF QueueStep, QueueFacts!QueueNext, 
     Queue!Enqueue, QueueFacts!Enqueue, Queue!BackoffEnds, QueueFacts!BackoffEnds,
     Queue!LeaseEnds, QueueFacts!LeaseEnds, Queue!Attended, QueueFacts!Attended,
     Queue!Claim, QueueFacts!Claim, Queue!Claimable, QueueFacts!Claimable,
     Queue!Free, QueueFacts!Free, Queue!Heartbeat, QueueFacts!Heartbeat,
     Queue!Succeed, QueueFacts!Succeed, Queue!Fail, QueueFacts!Fail,
     Queue!Settle, QueueFacts!Settle
<1>2. FaultStep => QueueFacts!QueueNext \/ UNCHANGED <<syncJob, syncWorker>>
  BY Zenon DEF FaultStep, QueueFacts!QueueNext, 
     Queue!LoseLease, QueueFacts!LoseLease, Queue!Attended, QueueFacts!Attended,
     Queue!LoseOutcome, QueueFacts!LoseOutcome, Queue!Crash, QueueFacts!Crash,
     Queue!Free, QueueFacts!Free
<1>3. UNCHANGED queueVars => UNCHANGED QueueFacts!queueVars
  BY Zenon DEF queueVars, QueueFacts!queueVars
<1>4. QED
  BY <1>1, <1>2, <1>3, Zenon DEF FaultStep

\* The invariant of the queue, of its own proofs, is kept.
LEMMA QueueKeeps ==
  ASSUME SyncInv, QueueStep \/ FaultStep
  PROVE  QueueSound /\ QueueSound'
<1>1. QueueSound /\ QueueFacts!QueueInv
  BY QueueAsProved DEF SyncInv, SyncTypeOK, QueueSound
<1>2. CASE [QueueFacts!QueueNext]_(QueueFacts!queueVars)
  BY <1>1, <1>2, SyncQueueConstants, QueueAsProved, QueueFacts!QueueInvStep, SMTT(30)
<1>3. CASE UNCHANGED <<syncJob, syncWorker>> /\ syncFaultsSoFar' = syncFaultsSoFar + 1
           /\ syncFaultsSoFar < SyncFaults
  <2>1. syncFaultsSoFar' \in 0 .. SyncFaults
    BY <1>3, SyncTyped
  <2>2. QED
    BY <1>1, <1>3, <2>1, SyncQueueConstants, QueueAsProved,
       QueueFacts!OtherFaultKeepsInv, SMTT(30)
<1>4. QED
  BY <1>2, <1>3, QueueOrFault, Zenon

\* The inductive invariant holds at the start.
LEMMA SyncInvInit == SyncInit => SyncInv
<1> SUFFICES ASSUME SyncInit PROVE SyncInv
  OBVIOUS
<1>1. QueueFacts!QueueInit
  BY Zenon DEF SyncInit, Queue!QueueInit, QueueFacts!QueueInit, Queue!NoJob, Queue!Free,
     QueueFacts!NoJob, QueueFacts!Free
<1>2. QueueSound
  BY <1>1, SyncQueueConstants, QueueAsProved, QueueFacts!QueueInvInit, SMTT(30)
<1>3. Queue!QueueTypeOK
  BY <1>2, SMTT(30) DEF QueueSound
<1>4. /\ \A j \in Keys : syncJob[j].status = "NONE" /\ syncJob[j].attempts = 0
      /\ \A g \in Syncers : syncWorker[g].job = Nobody /\ syncing[g] = "none"
      /\ syncFaultsSoFar = 0
  BY SMTT(30) DEF SyncInit, Queue!QueueInit, Queue!NoJob, Queue!Free
<1>5. /\ \A s \in Schedulers : task[s].pc = "idle" /\ task[s].todo = {} /\ task[s].item = Nobody
      /\ \A k \in Synced : source[k].status = "UNKNOWN"
      /\ task \in [Schedulers -> Task]
  BY SMTT(30) DEF SyncInit, NoTask, Task
<1>6. SyncTypeOK
  <2>1. source \in [Synced -> SourceRow]
    BY SMTT(30) DEF SyncInit, SourceRow
  <2>2. QED
    BY <1>3, <1>5, <2>1, SchedulingConstants, SMTT(30) DEF SyncInit, SyncTypeOK
<1>7. HandlersOK /\ KeysOfPast
  BY <1>4, KeyShape, SMTT(30) DEF HandlersOK, KeysOfPast
<1>8. \A s \in Schedulers : TaskAt(s)
  BY <1>5 DEF TaskAt
<1>9. \A j \in Keys : ClaimedOnce(j)
  BY <1>4, KeyShape, SMTT(30) DEF ClaimedOnce
<1>10. ASSUME NEW k \in Synced PROVE ConnectorAt(k)
  <2>1. \A j \in KeysOf(k) : j \in Keys /\ ~Fresh(j) /\ ~Stored(j)
    BY <1>4, KeyShape, SMTT(30) DEF KeysOf, Fresh, Begun, Stored
  <2>2. ~Waits(k) /\ ~Listed(k)
    BY <1>5, SchedulingConstants DEF Waits, Listed
  <2>3. PICK j \in KeysOf(k) : j = <<"scheduled-sync", k, minute>>
    BY <1>6, KeyShape, Zenon DEF KeysOf, SyncTypeOK
  <2>4. QED
    BY <1>4, <1>5, <2>1, <2>2, <2>3, SMTT(30) DEF ConnectorAt
<1>11. QED
  BY <1>2, <1>6, <1>7, <1>8, <1>9, <1>10, SMTT(30) DEF SyncInv, QueueSound

\* ... and every step keeps it.
LEMMA SyncInvStep == SyncInv /\ [SyncNext]_syncVars => SyncInv'
<1> SUFFICES ASSUME SyncInv, [SyncNext]_syncVars PROVE SyncInv'
  OBVIOUS
<1>1. QueueStep \/ FaultStep
  BY StepsOfTheQueue
<1>2. QueueSound' /\ \A j \in Keys : ClaimedOnce(j)'
  BY <1>1, QueueKeeps, ClaimedOnceKeeps
<1>3. SyncTypeOK'
  BY <1>2, SourceTyped, TasksKeep, HandlersKeep, KeysKeep, Zenon DEF SyncTypeOK, QueueSound
<1>4. HandlersOK' /\ KeysOfPast' /\ \A s \in Schedulers : TaskAt(s)'
  BY TasksKeep, HandlersKeep, KeysKeep, Zenon
<1>5. \A k \in Synced : ConnectorAt(k)'
  BY ConnectorsKeep
<1>6. QED
  BY <1>2, <1>3, <1>4, <1>5, Zenon DEF SyncInv, QueueSound

\* The columns and local variables of scheduling keep their types.
THEOREM SyncTypeCorrect == SyncSpec => []SyncTypeOK
<1>1. SyncInv => SyncTypeOK
  BY SMTT(30) DEF SyncInv
<1>2. QED
  BY <1>1, SyncInvInit, SyncInvStep, PTL DEF SyncSpec

\* A QUEUED connector that no job and no scheduler will change was tried more
\* than once, was requested, or met a fault.
THEOREM StrandingHasCause == SyncSpec => []StrandedHasCause
<1>1. SyncInv => StrandedHasCause
  <2> SUFFICES ASSUME SyncInv, NEW k \in Synced,
                      source[k].status = "QUEUED", ~HasWork(k), ~Caused(k)
               PROVE  FALSE
    BY Zenon DEF StrandedHasCause, Caused, KeysOf
  <2>1. Waits(k) \/ \E j \in KeysOf(k) : Unsettled(j) /\ ~Stored(j)
    BY ConnectorFacts, Zenon
  <2>2. QED
    BY <2>1, Zenon DEF HasWork, Waits, KeysOf
<1>2. QED
  BY <1>1, SyncInvInit, SyncInvStep, PTL DEF SyncSpec

-----------------------------------------------------------------------------
(* What the queue guarantees, of the jobs that synchronize connectors. *)

\* The jobs stay within their budgets; a fault of a scheduler adds to them.
LEMMA SyncBudgetHolds == SyncSpec => [](SyncInv /\ QueueFacts!InBudget)
<1>1. SyncInit => QueueFacts!InBudget
  <2>1. SyncInit => QueueFacts!QueueInit
    BY Zenon DEF SyncInit, Queue!QueueInit, QueueFacts!QueueInit, Queue!NoJob, Queue!Free,
       QueueFacts!NoJob, QueueFacts!Free
  <2>2. QED
    BY <2>1, SyncQueueConstants, QueueFacts!BudgetInit
<1>2. ASSUME SyncInv, SyncInv', QueueFacts!InBudget, [SyncNext]_syncVars
      PROVE  QueueFacts!InBudget'
  <2>1. QueueFacts!QueueInv /\ QueueFacts!QueueInv'
    BY <1>2, QueueAsProved DEF SyncInv, SyncTypeOK, QueueSound
  <2>2. CASE [QueueFacts!QueueNext]_(QueueFacts!queueVars)
    BY <1>2, <2>1, <2>2, SyncQueueConstants, QueueFacts!BudgetStep, SMTT(30)
  <2>3. CASE UNCHANGED <<syncJob, syncWorker>> /\ syncFaultsSoFar' = syncFaultsSoFar + 1
    <3>1. syncFaultsSoFar' >= syncFaultsSoFar
      BY <1>2, <2>3, SyncTyped
    <3>2. QED
      BY <1>2, <2>1, <2>3, <3>1, SyncQueueConstants, QueueFacts!OtherFaultKeepsBudget, SMTT(30)
  <2>4. QED
    BY <1>2, <2>2, <2>3, StepsOfTheQueue, QueueOrFault, Zenon
<1>3. QED
  BY <1>1, <1>2, SyncInvInit, SyncInvStep, PTL DEF SyncSpec

\* What the queue guarantees of owners, of DEAD jobs and of the number of
\* attempts, it guarantees of CONNECTOR_SYNC jobs, whoever enqueues them.
THEOREM SyncKeepsQueue ==
  SyncSpec => [](Queue!OwnedIffRunning /\ Queue!DeadIsExhausted /\ Queue!AttemptsBounded)
<1>1. ASSUME SyncInv, QueueFacts!InBudget
      PROVE  Queue!OwnedIffRunning /\ Queue!DeadIsExhausted /\ Queue!AttemptsBounded
  <2>1. QueueFacts!QueueInv
    BY <1>1, QueueAsProved, SMTT(30) DEF SyncInv, SyncTypeOK, QueueSound
  <2>2. QueueFacts!AttemptsBounded
    BY <1>1, <2>1, SyncQueueConstants, QueueFacts!BudgetBounds, SMTT(30)
  <2>3. QED
    BY <1>1, <2>2, Zenon DEF SyncInv, QueueFacts!AttemptsBounded, Queue!AttemptsBounded
<1>2. QED
  BY <1>1, SyncBudgetHolds, PTL

\* A CONNECTOR_SYNC job that has SUCCEEDED or is DEAD is never touched again:
\* its key stays taken, whoever enqueues it once more.
THEOREM SyncJobsSettleOnce == SyncSpec => Queue!SettledIsFinal
<1>1. ASSUME SyncInv, [SyncNext]_syncVars
      PROVE  [\A j \in Keys : syncJob[j].status \in {"SUCCEEDED", "DEAD"} =>
                syncJob'[j] = syncJob[j]]_<<syncJob, syncWorker, syncFaultsSoFar>>
  <2>1. QueueFacts!QueueInv
    BY <1>1, QueueAsProved DEF SyncInv, SyncTypeOK, QueueSound
  <2>2. ASSUME NEW j \in Keys, syncJob[j].status \in {"SUCCEEDED", "DEAD"}
        PROVE  syncJob'[j] = syncJob[j]
    <3>1. CASE [QueueFacts!QueueNext]_(QueueFacts!queueVars)
      BY <2>1, <2>2, <3>1, SyncQueueConstants, QueueFacts!SettledStay, SMTT(30)
    <3>2. CASE syncJob' = syncJob
      BY <3>2, SMTT(30)
    <3>3. QED
      BY <1>1, <3>1, <3>2, StepsOfTheQueue, QueueOrFault, Zenon
  <2>3. QED
    BY <2>2
<1>2. QED
  BY <1>1, SyncInvInit, SyncInvStep, PTL DEF SyncSpec, Queue!SettledIsFinal, Queue!queueVars

-----------------------------------------------------------------------------
(* The number of the uncommitted connectors. *)
LOCAL INSTANCE FiniteSetTheorems

\* There are at most as many as there were faults.
UncommittedBounded ==
    IsFiniteSet(Uncommitted) /\ Cardinality(Uncommitted) <= syncFaultsSoFar

\* A fault leaves at most one connector uncommitted.
LEMMA UncommittedStep ==
  ASSUME SyncInv, RequestsHaveRows, UncommittedBounded, [SyncNext]_syncVars
  PROVE  UncommittedBounded'
<1>1. /\ IsFiniteSet(Uncommitted) /\ Cardinality(Uncommitted) \in Nat
      /\ Cardinality(Uncommitted) <= syncFaultsSoFar
      /\ syncFaultsSoFar \in Nat /\ syncFaultsSoFar' \in Nat
      /\ syncFaultsSoFar' >= syncFaultsSoFar
  BY FS_CardinalityType, FaultsGrow, SyncTyped, SMTT(30) DEF UncommittedBounded
<1>2. CASE Uncommitted' \subseteq Uncommitted
  <2>1. IsFiniteSet(Uncommitted') /\ Cardinality(Uncommitted') <= Cardinality(Uncommitted)
    BY <1>1, <1>2, FS_Subset, SMTT(30)
  <2>2. Cardinality(Uncommitted') \in Nat
    BY <2>1, FS_CardinalityType, SMTT(30)
  <2>3. QED
    BY <1>1, <2>1, <2>2, SMTT(30) DEF UncommittedBounded
<1>3. ASSUME NEW k \in Uncommitted', k \notin Uncommitted
      PROVE  UncommittedBounded'
  <2>1. PICK s \in Schedulers : task[s].item = k /\ (SubmitFails(s) \/ StopTask(s))
    BY <1>3, LeftByItsScheduler, SMTT(30)
  <2>2. syncFaultsSoFar' = syncFaultsSoFar + 1 /\ \A t \in Schedulers \ {s} : task'[t] = task[t]
    BY <2>1, SMTT(30) DEF SubmitFails, StopTask, ItemDone, SyncInv, SyncTypeOK
  <2>3. ASSUME NEW l \in Uncommitted', l \notin Uncommitted PROVE l = k
    <3>1. PICK t \in Schedulers : task[t].item = l /\ (SubmitFails(t) \/ StopTask(t))
      BY <2>3, LeftByItsScheduler, SMTT(30)
    <3>2. l \in Synced /\ task'[t].item # l
      BY <2>3, <3>1, SMTT(30) DEF Uncommitted, Waits
    <3>3. t = s
      BY <2>2, <3>1, <3>2, SMTT(30)
    <3>4. QED
      BY <2>1, <3>1, <3>3, SMTT(30)
  <2>4. Uncommitted' \in SUBSET (Uncommitted \cup {k})
    BY <2>3, SMTT(30)
  <2>5. /\ IsFiniteSet(Uncommitted \cup {k})
        /\ Cardinality(Uncommitted \cup {k}) = Cardinality(Uncommitted) + 1
    BY <1>1, <1>3, FS_AddElement, SMTT(30)
  <2>6. /\ IsFiniteSet(Uncommitted')
        /\ Cardinality(Uncommitted') <= Cardinality(Uncommitted \cup {k})
    BY <2>4, <2>5, FS_Subset, SMTT(30)
  <2>7. Cardinality(Uncommitted') \in Nat
    BY <2>6, FS_CardinalityType, SMTT(30)
  <2>8. QED
    BY <1>1, <2>2, <2>5, <2>6, <2>7, SMTT(30) DEF UncommittedBounded
<1>4. QED
  BY <1>2, <1>3, SMTT(30)

\* A connector that is QUEUED without ever having had a job costs a fault of a
\* scheduler each: none is lost to schedulers, requests and jobs that overlap,
\* and without a fault every selection reaches the table (scheduledSyncs,
\* syncConnector).
THEOREM LosingSelectionsNeedsFaults ==
  SyncSpec => [](UncommittedBounded /\ (syncFaultsSoFar = 0 => SelectionIsCommitted))
<1>1. SyncInit => RequestsHaveRows /\ UncommittedBounded
  <2> SUFFICES ASSUME SyncInit PROVE RequestsHaveRows /\ UncommittedBounded
    BY SMTT(30)
  <2>1. Uncommitted = {}
    BY SMTT(30) DEF SyncInit, Uncommitted
  <2>2. syncFaultsSoFar = 0
    BY DEF SyncInit, Queue!QueueInit
  <2>3. IsFiniteSet({}) /\ Cardinality({}) = 0
    BY FS_EmptySet, Zenon
  <2>4. UncommittedBounded
    BY <2>1, <2>2, <2>3, SMTT(30) DEF UncommittedBounded
  <2>5. RequestsHaveRows
    BY DEF SyncInit, RequestsHaveRows
  <2>6. QED
    BY <2>4, <2>5, SMTT(30)
<1>2. SyncInv /\ RequestsHaveRows /\ UncommittedBounded /\ [SyncNext]_syncVars =>
        RequestsHaveRows' /\ UncommittedBounded'
  BY RequestsStep, UncommittedStep, SMTT(30)
<1>3. ASSUME SyncInv, UncommittedBounded, syncFaultsSoFar = 0
      PROVE  SelectionIsCommitted
  <2>1. Cardinality(Uncommitted) = 0
    BY <1>3, FS_CardinalityType, SMTT(30) DEF UncommittedBounded
  <2>2. Uncommitted = {}
    BY <1>3, <2>1, FS_EmptySet, Zenon DEF UncommittedBounded
  <2>3. QED
    BY <2>2, ZenonT(60) DEF Uncommitted, SelectionIsCommitted, HasRow, KeysOf, Waits
<1>4. QED
  BY <1>1, <1>2, <1>3, SyncInvInit, SyncInvStep, PTL DEF SyncSpec
=============================================================================

---------------------------- MODULE SyncScheduling ----------------------------
(***************************************************************************)
(* Synchronization on a schedule and on request, in DISTRIBUTED mode: the  *)
(* scheduler of each replica selects due connectors under an advisory lock *)
(* and marks them QUEUED, a request enqueues a job and then marks its      *)
(* connector QUEUED, and goroutines of the job queue run SyncConnector.    *)
(*                                                                         *)
(* last_sync_status is what the scheduler goes by: it passes over a        *)
(* connector that is QUEUED.                                               *)
(***************************************************************************)
EXTENDS Naturals

CONSTANTS
    Synced,        \* connectors with an HOURLY or DAILY interval
    Schedulers,    \* the replicas, by their scheduler
    Minutes,       \* bound on the minutes that appear in idempotency keys
    SyncRequests,  \* requests for a synchronization, by request identifier
    Syncers,       \* goroutines of the job queue
    SyncWorkerIds, \* their processes
    SyncWorkerId,  \* the process of a goroutine
    SyncAttempts,  \* max_attempts
    SyncFaults,    \* bound on faults
    Readabilities, \* the values administrators give to read_enabled
    Nobody         \* SQL NULL

ASSUME SchedulingConstants ==
    /\ Minutes \in Nat \ {0}
    /\ Nobody \notin Synced \cup Schedulers
    /\ Readabilities \subseteq BOOLEAN

VARIABLES
    source,     \* columns of identity_connectors the scheduler reads
    minute,     \* the minute of the clock
    lock,       \* the holder of the advisory lock
    task,       \* the local variables of scheduledSyncs in each replica
    request,    \* where the handler of a request is
    syncing,    \* what the handler of a job is doing
    syncJob, syncWorker, syncFaultsSoFar   \* of DistributedQueue

\* The idempotency keys, with the connector in the second place.
ScheduledKeys == {<<"scheduled-sync", k, m>> : k \in Synced, m \in 1 .. Minutes}
RequestKeys == {<<"connector-sync", k, q>> : k \in Synced, q \in SyncRequests}
Keys == ScheduledKeys \cup RequestKeys

\* A job may be tried again: max_attempts is 5 unless a row says otherwise.
ASSUME SyncQueueConstants ==
    /\ SyncWorkerId \in [Syncers -> SyncWorkerIds]
    /\ SyncAttempts \in Nat /\ SyncAttempts > 1
    /\ SyncFaults \in Nat
    /\ Nobody \notin SyncWorkerIds \cup Keys \cup ({"enqueued", "answered"} \X Synced)

Queue == INSTANCE DistributedQueue
           WITH Jobs <- Keys, Goroutines <- Syncers, WorkerIds <- SyncWorkerIds,
                WorkerId <- SyncWorkerId, MaxAttempts <- SyncAttempts,
                MaxFaults <- SyncFaults, NoOwner <- Nobody, job <- syncJob,
                worker <- syncWorker, faults <- syncFaultsSoFar

queueVars == <<syncJob, syncWorker, syncFaultsSoFar>>
syncVars == <<source, minute, lock, task, request, syncing, queueVars>>

SourceRow == [status : {"UNKNOWN", "QUEUED", "PARTIAL", "FAILED", "SUCCEEDED"},
              due : BOOLEAN, readable : BOOLEAN]
Task == [pc : {"idle", "items", "submit"}, todo : SUBSET Synced,
         item : Synced \cup {Nobody}]
NoTask == [pc |-> "idle", todo |-> {}, item |-> Nobody]

-----------------------------------------------------------------------------
(* The scheduler: Scheduler.once and the task scheduledSyncs. *)

Selected(k) ==
    source[k].readable /\ source[k].due /\ source[k].status # "QUEUED"

\* A tick that finds the lock taken does nothing.  The lock is free or not
\* before anything is read, so taking it and reading are one step.
SelectDue(s) ==
    /\ task[s].pc = "idle" /\ lock = Nobody
    /\ lock' = s
    /\ task' = [task EXCEPT ![s].pc = "items",
                            ![s].todo = {k \in Synced : Selected(k)}]
    /\ UNCHANGED <<source, minute, request, syncing, queueVars>>

\* The update tests the status again; without a row the item is skipped.
ClaimItem(s, k) ==
    /\ task[s].pc = "items" /\ k \in task[s].todo
    /\ IF source[k].status = "QUEUED"
       THEN /\ task' = [task EXCEPT ![s].todo = @ \ {k}]
            /\ UNCHANGED source
       ELSE /\ task' = [task EXCEPT ![s].pc = "submit", ![s].todo = @ \ {k},
                                    ![s].item = k]
            /\ source' = [source EXCEPT ![k].status = "QUEUED"]
    /\ UNCHANGED <<minute, lock, request, syncing, queueVars>>

\* The update returns an error and the item is skipped.
ClaimItemFails(s, k) ==
    /\ syncFaultsSoFar < SyncFaults
    /\ task[s].pc = "items" /\ k \in task[s].todo
    /\ task' = [task EXCEPT ![s].todo = @ \ {k}]
    /\ syncFaultsSoFar' = syncFaultsSoFar + 1
    /\ UNCHANGED <<source, minute, lock, request, syncing, syncJob, syncWorker>>

\* Enqueue with a key that exists returns the existing job, whatever its
\* status, and no error.
EnqueueKey(j) ==
    IF syncJob[j].status = "NONE" THEN Queue!Enqueue(j) ELSE UNCHANGED queueVars

ItemDone(s) ==
    task' = [task EXCEPT ![s].pc = "items", ![s].item = Nobody]

SubmitItem(s) ==
    /\ task[s].pc = "submit"
    /\ EnqueueKey(<<"scheduled-sync", task[s].item, minute>>)
    /\ ItemDone(s)
    /\ UNCHANGED <<source, minute, lock, request, syncing>>

\* Enqueue returns an error; that of the update that follows is ignored.
SubmitFails(s) ==
    /\ syncFaultsSoFar < SyncFaults
    /\ task[s].pc = "submit"
    /\ source' \in {source, [source EXCEPT ![task[s].item].status = "PARTIAL"]}
    /\ ItemDone(s)
    /\ syncFaultsSoFar' = syncFaultsSoFar + 1
    /\ UNCHANGED <<minute, lock, request, syncing, syncJob, syncWorker>>

EndTask(s) ==
    /\ task[s].pc = "items" /\ task[s].todo = {}
    /\ task' = [task EXCEPT ![s] = NoTask]
    /\ lock' = IF lock = s THEN Nobody ELSE lock
    /\ UNCHANGED <<source, minute, request, syncing, queueVars>>

\* The lock belongs to a connection that the task does not use otherwise: it
\* may break while the task goes on.
LoseLock(s) ==
    /\ syncFaultsSoFar < SyncFaults
    /\ lock = s
    /\ lock' = Nobody
    /\ syncFaultsSoFar' = syncFaultsSoFar + 1
    /\ UNCHANGED <<source, minute, task, request, syncing, syncJob, syncWorker>>

\* The process of a scheduler stops, or a statement fails and the task ends.
StopTask(s) ==
    /\ syncFaultsSoFar < SyncFaults
    /\ task[s].pc # "idle"
    /\ task' = [task EXCEPT ![s] = NoTask]
    /\ lock' = IF lock = s THEN Nobody ELSE lock
    /\ syncFaultsSoFar' = syncFaultsSoFar + 1
    /\ UNCHANGED <<source, minute, request, syncing, syncJob, syncWorker>>

-----------------------------------------------------------------------------
(* The handler syncConnector. *)

RequestSync(q, k) ==
    /\ request[q] = Nobody
    /\ EnqueueKey(<<"connector-sync", k, q>>)
    /\ request' = [request EXCEPT ![q] = <<"enqueued", k>>]
    /\ UNCHANGED <<source, minute, lock, task, syncing>>

\* The second statement asks nothing of the row; its error is ignored.
MarkQueued(q, k) ==
    /\ request[q] = <<"enqueued", k>>
    /\ request' = [request EXCEPT ![q] = <<"answered", k>>]
    /\ source' = [source EXCEPT ![k].status = "QUEUED"]
    /\ UNCHANGED <<minute, lock, task, syncing, queueVars>>

-----------------------------------------------------------------------------
(* The handler of CONNECTOR_SYNC jobs. *)

ClaimSync(g, j) ==
    /\ Queue!Claim(g, j)
    /\ UNCHANGED <<source, minute, lock, task, request, syncing>>

\* SyncConnector begins a run, or refuses a connector that may not be read;
\* before that, the pool may be full or the configuration broken.
BeginSync(g) ==
    LET k == syncWorker[g].job[2] IN
    /\ syncWorker[g].job # Nobody /\ syncing[g] = "none"
    /\ \/ source[k].readable /\ syncing' = [syncing EXCEPT ![g] = "running"]
       \/ syncing' = [syncing EXCEPT ![g] = "error"]
    /\ UNCHANGED <<source, minute, lock, task, request, queueVars>>

\* failSync: last_sync_at keeps its value, the connector stays due.
FailRun(g) ==
    /\ syncing[g] = "running"
    /\ syncing' = [syncing EXCEPT ![g] = "error"]
    /\ source' = [source EXCEPT ![syncWorker[g].job[2]].status = "FAILED"]
    /\ UNCHANGED <<minute, lock, task, request, queueVars>>

\* Mutant: last_sync_at keeps its value.
CommitStillDue(g) ==
    /\ syncing[g] = "running"
    /\ syncing' = [syncing EXCEPT ![g] = "ok"]
    /\ source' = [source EXCEPT ![syncWorker[g].job[2]].status = "SUCCEEDED"]
    /\ UNCHANGED <<minute, lock, task, request, queueVars>>

CommitRun(g) ==
    /\ syncing[g] = "running"
    /\ syncing' = [syncing EXCEPT ![g] = "ok"]
    /\ source' = [source EXCEPT ![syncWorker[g].job[2]].status = "SUCCEEDED",
                                ![syncWorker[g].job[2]].due = FALSE]
    /\ UNCHANGED <<minute, lock, task, request, queueVars>>

\* A statement of the transaction fails: nothing is stored.
RollBackRun(g) ==
    /\ syncing[g] = "running"
    /\ syncing' = [syncing EXCEPT ![g] = "error"]
    /\ UNCHANGED <<source, minute, lock, task, request, queueVars>>

SettleSync(g) ==
    /\ \/ syncing[g] = "ok" /\ Queue!Succeed(g)
       \/ syncing[g] = "error" /\ Queue!Fail(g)
    /\ syncing' = [syncing EXCEPT ![g] = "none"]
    /\ UNCHANGED <<source, minute, lock, task, request>>

LoseSyncOutcome(g) ==
    /\ syncing[g] \in {"ok", "error"}
    /\ Queue!LoseOutcome(g)
    /\ syncing' = [syncing EXCEPT ![g] = "none"]
    /\ UNCHANGED <<source, minute, lock, task, request>>

StopSyncer(w) ==
    /\ Queue!Crash(w)
    /\ syncing' = [g \in Syncers |-> IF SyncWorkerId[g] = w THEN "none"
                                                            ELSE syncing[g]]
    /\ UNCHANGED <<source, minute, lock, task, request>>

-----------------------------------------------------------------------------
(* Time and administration. *)

SyncQueueTime(j) ==
    /\ Queue!BackoffEnds(j) \/ Queue!LeaseEnds(j) \/ Queue!LoseLease(j)
    /\ UNCHANGED <<source, minute, lock, task, request, syncing>>

RenewSyncLease(g) ==
    /\ Queue!Heartbeat(g)
    /\ UNCHANGED <<source, minute, lock, task, request, syncing>>

\* An interval is longer than a minute.
MinutePasses(due) ==
    /\ minute < Minutes
    /\ minute' = minute + 1
    /\ source' = [k \in Synced |-> [source[k] EXCEPT !.due = @ \/ k \in due]]
    /\ UNCHANGED <<lock, task, request, syncing, queueVars>>

SetReadable(k, b) ==
    /\ source[k].readable # b
    /\ source' = [source EXCEPT ![k].readable = b]
    /\ UNCHANGED <<minute, lock, task, request, syncing, queueVars>>

-----------------------------------------------------------------------------
SyncInit ==
    /\ source = [k \in Synced |->
                   [status |-> "UNKNOWN", due |-> TRUE, readable |-> TRUE]]
    /\ minute = 1
    /\ lock = Nobody
    /\ task = [s \in Schedulers |-> NoTask]
    /\ request = [q \in SyncRequests |-> Nobody]
    /\ syncing = [g \in Syncers |-> "none"]
    /\ Queue!QueueInit

TaskStep(s) ==
    \/ \E k \in Synced : ClaimItem(s, k)
    \/ SubmitItem(s)
    \/ EndTask(s)

HandlerReturns(g) ==
    BeginSync(g) \/ FailRun(g) \/ CommitRun(g) \/ RollBackRun(g) \/ SettleSync(g)

SyncNext ==
    \/ \E s \in Schedulers :
         SelectDue(s) \/ TaskStep(s) \/ SubmitFails(s) \/ LoseLock(s) \/ StopTask(s)
    \/ \E s \in Schedulers, k \in Synced : ClaimItemFails(s, k)
    \/ \E q \in SyncRequests, k \in Synced : RequestSync(q, k) \/ MarkQueued(q, k)
    \/ \E g \in Syncers, j \in Keys : ClaimSync(g, j)
    \/ \E g \in Syncers : HandlerReturns(g) \/ LoseSyncOutcome(g) \/ RenewSyncLease(g)
    \/ \E w \in SyncWorkerIds : StopSyncer(w)
    \/ \E j \in Keys : SyncQueueTime(j)
    \/ \E due \in SUBSET Synced : MinutePasses(due)
    \/ \E k \in Synced, b \in Readabilities : SetReadable(k, b)

SyncSpec == SyncInit /\ [][SyncNext]_syncVars

-----------------------------------------------------------------------------
(* Properties. *)

\* The values of the columns and local variables.
SyncTypeOK ==
    /\ source \in [Synced -> SourceRow]
    /\ minute \in 1 .. Minutes
    /\ lock \in Schedulers \cup {Nobody}
    /\ task \in [Schedulers -> Task]
    /\ request \in [SyncRequests ->
                      {Nobody} \cup ({"enqueued", "answered"} \X Synced)]
    /\ syncing \in [Syncers -> {"none", "running", "error", "ok"}]
    /\ Queue!QueueTypeOK

Unsettled(j) == syncJob[j].status \in {"QUEUED", "RUNNING"}

\* Something will still change the status of a QUEUED connector: a job, or the
\* scheduler that is about to enqueue one.
HasWork(k) ==
    \/ \E j \in Keys : j[2] = k /\ Unsettled(j)
    \/ \E s \in Schedulers : task[s].item = k

\* A QUEUED connector is left without a job only after a job of it had to be
\* tried again, after a request, or after a fault: schedulers that take turns
\* within a minute, and so use a key again, are not enough.
StrandedHasCause ==
    \A k \in Synced : source[k].status = "QUEUED" /\ ~HasWork(k) =>
      \/ \E j \in Keys : j[2] = k /\ syncJob[j].attempts > 1
      \/ \E q \in SyncRequests : request[q] # Nobody /\ request[q][2] = k
      \/ syncFaultsSoFar > 0

\* A connector that is QUEUED is eventually synchronized, or found to have
\* failed, unless it is left without a job.
QueuedIsAnswered ==
    \A k \in Synced : source[k].status = "QUEUED" ~>
      source[k].status # "QUEUED" \/ ~HasWork(k)

\* docs/reconciliation.md: "`MANUAL`, `HOURLY` and `DAILY` schedules are
\* supported; selection is serialized with a PostgreSQL advisory lock and
\* committed to the durable distributed job table": what a scheduler has
\* selected, and nobody selects again, has a row in the table or is about to.
SelectionIsCommitted ==
    \A k \in Synced : source[k].status = "QUEUED" =>
      \/ \E j \in Keys : j[2] = k /\ syncJob[j].status # "NONE"
      \/ \E s \in Schedulers : task[s].item = k
=============================================================================

--------------------------- MODULE DistributedQueue ---------------------------
(***************************************************************************)
(* The job queue in PostgreSQL: distributed_jobs, and the goroutines of    *)
(* all replicas that claim, execute, renew and settle its jobs.            *)
(*                                                                         *)
(* Every statement on the table is atomic and is one action.  Time is what *)
(* it lets happen: a back-off ends, a lease runs out.                      *)
(***************************************************************************)
EXTENDS Naturals

CONSTANTS
    Jobs,         \* jobs, one per organization and idempotency key
    Goroutines,   \* the goroutines that DistributedQueue.Start launches
    WorkerIds,    \* the processes, by their WorkerID
    WorkerId,     \* the WorkerID of a goroutine's process
    MaxAttempts,  \* distributed_jobs.max_attempts
    MaxFaults,    \* bound on crashes, failed statements and lost heartbeats
    NoOwner       \* SQL NULL

ASSUME QueueConstants ==
    /\ WorkerId \in [Goroutines -> WorkerIds]
    /\ MaxAttempts \in Nat \ {0}
    /\ MaxFaults \in Nat
    /\ NoOwner \notin WorkerIds \cup Jobs

VARIABLES
    job,     \* rows of distributed_jobs
    worker,  \* the job each goroutine executes, as claim returned it
    faults   \* faults so far

queueVars == <<job, worker, faults>>

JobRow == [status : {"NONE", "QUEUED", "RUNNING", "SUCCEEDED", "DEAD"},
           attempts : Nat, owner : WorkerIds \cup {NoOwner},
           available : BOOLEAN,   \* available_at <= now()
           expired : BOOLEAN]     \* lease_until < now()
NoJob == [status |-> "NONE", attempts |-> 0, owner |-> NoOwner,
          available |-> TRUE, expired |-> FALSE]
Worker == [job : Jobs \cup {NoOwner}, attempts : Nat]
Free == [job |-> NoOwner, attempts |-> 0]

-----------------------------------------------------------------------------
\* An insert with the idempotency key of an existing job changes nothing.
Enqueue(j) ==
    /\ job[j].status = "NONE"
    /\ job' = [job EXCEPT ![j].status = "QUEUED"]
    /\ UNCHANGED <<worker, faults>>

\* Mutant: a lease that ran out is not reclaimed.
ClaimableOnce(j) == job[j].status = "QUEUED" /\ job[j].available

Claimable(j) ==
    \/ job[j].status = "QUEUED" /\ job[j].available
    \/ job[j].status = "RUNNING" /\ job[j].expired

\* The order by priority and age is a preference: a row that another statement
\* has locked at that moment is skipped.
Claim(g, j) ==
    /\ worker[g] = Free
    /\ Claimable(j)
    /\ job' = [job EXCEPT ![j].status = "RUNNING", ![j].owner = WorkerId[g],
                          ![j].attempts = @ + 1, ![j].expired = FALSE]
    /\ worker' = [worker EXCEPT ![g] = [job |-> j,
                                        attempts |-> job[j].attempts + 1]]
    /\ UNCHANGED faults

Heartbeat(g) ==
    LET j == worker[g].job IN
    /\ j # NoOwner
    /\ job[j].status = "RUNNING" /\ job[j].owner = WorkerId[g]
    /\ job[j].expired
    /\ job' = [job EXCEPT ![j].expired = FALSE]
    /\ UNCHANGED <<worker, faults>>

\* Mutant: the owner of the lease is not tested.
SettleAnyway(g, row) ==
    LET j == worker[g].job IN
    /\ j # NoOwner
    /\ job' = [job EXCEPT ![j] = row]
    /\ worker' = [worker EXCEPT ![g] = Free]
    /\ UNCHANGED faults

\* The update at the end of execute, for the row that still has the owner.
Settle(g, row) ==
    LET j == worker[g].job IN
    /\ j # NoOwner
    /\ job' = IF job[j].owner = WorkerId[g] THEN [job EXCEPT ![j] = row]
                                            ELSE job
    /\ worker' = [worker EXCEPT ![g] = Free]
    /\ UNCHANGED faults

\* Mutant: the owner stays in the row.
SucceedKeepsOwner(g) ==
    Settle(g, [job[worker[g].job] EXCEPT !.status = "SUCCEEDED",
                 !.expired = FALSE])

Succeed(g) ==
    Settle(g, [job[worker[g].job] EXCEPT !.status = "SUCCEEDED",
                 !.owner = NoOwner, !.expired = FALSE])

\* Mutants: given up one attempt early, one late, or with a status that
\* no claim takes up.
FailEarly(g) ==
    Settle(g, [job[worker[g].job] EXCEPT
                 !.status = IF worker[g].attempts + 1 >= MaxAttempts THEN "DEAD"
                            ELSE "QUEUED",
                 !.available = FALSE, !.owner = NoOwner, !.expired = FALSE])
FailLate(g) ==
    Settle(g, [job[worker[g].job] EXCEPT
                 !.status = IF worker[g].attempts > MaxAttempts THEN "DEAD"
                            ELSE "QUEUED",
                 !.available = FALSE, !.owner = NoOwner, !.expired = FALSE])
FailAsFailed(g) ==
    Settle(g, [job[worker[g].job] EXCEPT
                 !.status = "FAILED",
                 !.available = FALSE, !.owner = NoOwner, !.expired = FALSE])

\* The number of attempts is the one that claim returned.
Fail(g) ==
    Settle(g, [job[worker[g].job] EXCEPT
                 !.status = IF worker[g].attempts >= MaxAttempts THEN "DEAD"
                                                                 ELSE "QUEUED",
                 !.available = FALSE, !.owner = NoOwner, !.expired = FALSE])

-----------------------------------------------------------------------------
(* Time. *)

BackoffEnds(j) ==
    /\ job[j].status = "QUEUED" /\ ~job[j].available
    /\ job' = [job EXCEPT ![j].available = TRUE]
    /\ UNCHANGED <<worker, faults>>

\* Some goroutine renews the lease of the job.
Attended(j) ==
    \E g \in Goroutines : worker[g].job = j /\ job[j].owner = WorkerId[g]

LeaseEnds(j) ==
    /\ job[j].status = "RUNNING" /\ ~job[j].expired
    /\ ~Attended(j)
    /\ job' = [job EXCEPT ![j].expired = TRUE]
    /\ UNCHANGED <<worker, faults>>

(* Faults. *)

\* Heartbeats fail or come late while the handler is still at work.
LoseLease(j) ==
    /\ faults < MaxFaults
    /\ job[j].status = "RUNNING" /\ ~job[j].expired
    /\ Attended(j)
    /\ job' = [job EXCEPT ![j].expired = TRUE]
    /\ faults' = faults + 1
    /\ UNCHANGED worker

\* The update at the end of execute fails; the error is only logged.
LoseOutcome(g) ==
    /\ faults < MaxFaults
    /\ worker[g] # Free
    /\ worker' = [worker EXCEPT ![g] = Free]
    /\ faults' = faults + 1
    /\ UNCHANGED job

\* A process stops, or shuts down: the context of its last updates is
\* cancelled.  It comes back with the same WorkerID.
Crash(w) ==
    /\ faults < MaxFaults
    /\ \E g \in Goroutines : WorkerId[g] = w /\ worker[g] # Free
    /\ worker' = [g \in Goroutines |-> IF WorkerId[g] = w THEN Free
                                                          ELSE worker[g]]
    /\ faults' = faults + 1
    /\ UNCHANGED job

-----------------------------------------------------------------------------
QueueInit ==
    /\ job = [j \in Jobs |-> NoJob]
    /\ worker = [g \in Goroutines |-> Free]
    /\ faults = 0

QueueNext ==
    \/ \E j \in Jobs : Enqueue(j) \/ BackoffEnds(j) \/ LeaseEnds(j) \/ LoseLease(j)
    \/ \E g \in Goroutines, j \in Jobs : Claim(g, j)
    \/ \E g \in Goroutines : Heartbeat(g) \/ Succeed(g) \/ Fail(g) \/ LoseOutcome(g)
    \/ \E w \in WorkerIds : Crash(w)

QueueSpec == QueueInit /\ [][QueueNext]_queueVars

\* Goroutines poll for ever, handlers return because provider calls and
\* statements have timeouts, and time passes.
QueueFairness ==
    /\ \A j \in Jobs : /\ WF_queueVars(BackoffEnds(j))
                       /\ WF_queueVars(LeaseEnds(j))
    /\ \A j \in Jobs : WF_queueVars(\E g \in Goroutines : Claim(g, j))
    /\ \A g \in Goroutines : WF_queueVars(Succeed(g) \/ Fail(g))

FairQueueSpec == QueueSpec /\ QueueFairness

-----------------------------------------------------------------------------
(* Properties. *)

\* The values the columns and local variables range over.
QueueTypeOK ==
    /\ job \in [Jobs -> JobRow]
    /\ worker \in [Goroutines -> Worker]
    /\ faults \in 0 .. MaxFaults

\* A job is given up only after max_attempts claims, also when the goroutine
\* that gives it up has lost its lease in the meantime.
DeadIsExhausted ==
    \A j \in Jobs : job[j].status = "DEAD" => job[j].attempts >= MaxAttempts

\* A job that has SUCCEEDED or is DEAD is never touched again: the late update
\* of a goroutine that lost its lease does not match, although the update
\* tests the owner of the lease and not the status.
SettledIsFinal ==
    [][\A j \in Jobs : job[j].status \in {"SUCCEEDED", "DEAD"} =>
         job'[j] = job[j]]_queueVars

\* A job waits or is finished exactly when nobody owns it, so that no claim is
\* lost: a RUNNING job always has an owner whose lease can run out.
OwnedIffRunning ==
    \A j \in Jobs : (job[j].status = "RUNNING") <=> (job[j].owner # NoOwner)

\* With a WorkerID of its own for each goroutine, only the goroutine that made
\* the latest claim settles the job.
OutcomeFromLatestClaim ==
    [][\A j \in Jobs :
         job[j].status = "RUNNING" /\ job'[j].status # "RUNNING" =>
           \E g \in Goroutines : /\ worker[g].job = j /\ worker'[g] = Free
                                 /\ worker[g].attempts = job[j].attempts]_queueVars

\* Each fault costs a job at most one attempt beyond max_attempts.
AttemptsBounded ==
    \A j \in Jobs : job[j].attempts <= MaxAttempts + faults

\* Every job that is enqueued is eventually settled.
JobsSettle ==
    \A j \in Jobs : job[j].status = "QUEUED" ~>
                      job[j].status \in {"SUCCEEDED", "DEAD"}

\* docs/architecture.md: workers "retry only within a bounded policy and move
\* exhausted jobs to `DEAD`".
AttemptsWithinPolicy == \A j \in Jobs : job[j].attempts <= MaxAttempts
=============================================================================

---------------------------- MODULE LifecycleJobs ----------------------------
(***************************************************************************)
(* Offboarding cases executed by jobs of the distributed queue: a job of   *)
(* kind LIFECYCLE_EXECUTE for each case, keyed by the case, whose handler  *)
(* runs ExecuteAndVerify in a bounded pool.                                *)
(***************************************************************************)
EXTENDS Offboarding

CONSTANTS WorkerIds, WorkerId, MaxAttempts, MaxFaults   \* of DistributedQueue

ASSUME JobsConstants ==
    /\ WorkerId \in [Executors -> WorkerIds]
    /\ MaxAttempts \in Nat \ {0}
    /\ MaxFaults \in Nat
    /\ NoValue \notin WorkerIds

VARIABLES
    job, worker, faults,  \* of DistributedQueue
    answer                \* what the handler of a goroutine has returned

Queue == INSTANCE DistributedQueue
           WITH Jobs <- Cases, Goroutines <- Executors, NoOwner <- NoValue

jobVars == <<vars, job, worker, faults, answer>>
Answer == {"NONE", "OK", "ERROR"}

\* executeCase in DISTRIBUTED mode asks nothing of the case.
RequestExecution(c) ==
    /\ Queue!Enqueue(c)
    /\ UNCHANGED <<vars, answer>>

ClaimJob(e, c) ==
    /\ Queue!Claim(e, c)
    /\ UNCHANGED <<vars, answer>>

\* Mutant: a case in another state is not an error.
RunHandlerLeniently(e) ==
    LET c == worker[e].job IN
    /\ c # NoValue
    /\ exec[e].pc = "idle" /\ answer[e] = "NONE"
    /\ \/ BeginExecution(e, c) /\ UNCHANGED answer
       \/ /\ case[c].status # "APPROVED"
          /\ answer' = [answer EXCEPT ![e] = "OK"]
          /\ UNCHANGED vars
    /\ UNCHANGED <<job, worker, faults>>

\* The handler starts ExecuteAndVerify, which returns FORBIDDEN_STATE unless
\* the case is APPROVED.
RunHandler(e) ==
    LET c == worker[e].job IN
    /\ c # NoValue
    /\ exec[e].pc = "idle" /\ answer[e] = "NONE"
    /\ \/ BeginExecution(e, c) /\ UNCHANGED answer
       \/ /\ case[c].status # "APPROVED"
          /\ answer' = [answer EXCEPT ![e] = "ERROR"]
          /\ UNCHANGED vars
    /\ UNCHANGED <<job, worker, faults>>

\* runPoolJob finds the queue of the pool full.
PoolFull(e) ==
    /\ worker[e].job # NoValue
    /\ exec[e].pc = "idle" /\ answer[e] = "NONE"
    /\ answer' = [answer EXCEPT ![e] = "ERROR"]
    /\ UNCHANGED <<vars, job, worker, faults>>

HandlerStep(e) ==
    /\ ExecutionStep(e)
    /\ answer' = IF exec'[e].pc = "idle" THEN [answer EXCEPT ![e] = "OK"]
                                         ELSE answer
    /\ UNCHANGED <<job, worker, faults>>

\* A statement of ExecuteAndVerify fails; the last one, which records an event,
\* comes after the update that ends the case.
HandlerError(e) ==
    /\ faults < MaxFaults
    /\ StopExecution(e) \/ FinishCase(e)
    /\ answer' = [answer EXCEPT ![e] = "ERROR"]
    /\ faults' = faults + 1
    /\ UNCHANGED <<job, worker>>

SettleJob(e) ==
    /\ \/ answer[e] = "OK" /\ Queue!Succeed(e)
       \/ answer[e] = "ERROR" /\ Queue!Fail(e)
    /\ answer' = [answer EXCEPT ![e] = "NONE"]
    /\ UNCHANGED vars

\* The update of the job fails after the handler has returned.
LoseAnswer(e) ==
    /\ answer[e] # "NONE"
    /\ Queue!LoseOutcome(e)
    /\ answer' = [answer EXCEPT ![e] = "NONE"]
    /\ UNCHANGED vars

CrashProcess(w) ==
    /\ Queue!Crash(w)
    /\ exec' = [e \in Executors |-> IF WorkerId[e] = w THEN Idle ELSE exec[e]]
    /\ answer' = [e \in Executors |-> IF WorkerId[e] = w THEN "NONE" ELSE answer[e]]
    /\ UNCHANGED <<recVars, case, action, cancelling>>

QueueTime(c) ==
    /\ Queue!BackoffEnds(c) \/ Queue!LeaseEnds(c) \/ Queue!LoseLease(c)
    /\ UNCHANGED <<vars, answer>>

RenewLease(e) ==
    /\ Queue!Heartbeat(e)
    /\ UNCHANGED <<vars, answer>>

JobsInit ==
    /\ Init
    /\ Queue!QueueInit
    /\ answer = [e \in Executors |-> "NONE"]

JobsNext ==
    \/ /\ \/ RecNext /\ UNCHANGED offVars
          \/ \E c \in Cases : CaseHandler(c)
       /\ UNCHANGED <<job, worker, faults, answer>>
    \/ \E c \in Cases : RequestExecution(c) \/ QueueTime(c)
    \/ \E e \in Executors, c \in Cases : ClaimJob(e, c)
    \/ \E e \in Executors :
         \/ RunHandler(e) \/ PoolFull(e) \/ HandlerStep(e) \/ HandlerError(e)
         \/ SettleJob(e) \/ LoseAnswer(e) \/ RenewLease(e)
    \/ \E w \in WorkerIds : CrashProcess(w)

JobsSpec == JobsInit /\ [][JobsNext]_jobVars

-----------------------------------------------------------------------------
(* Properties. *)

\* The values of all columns and local variables.
JobsTypeOK == TypeOK /\ Queue!QueueTypeOK /\ answer \in [Executors -> Answer]

\* A job that SUCCEEDED has brought its case to an end, also when it was
\* claimed again while its first goroutine was still at work.
SucceededJobEndedCase ==
    \A c \in Cases : job[c].status = "SUCCEEDED" =>
      case[c].status \in {"COMPLETED", "FAILED", "PARTIAL"}

\* A job may be delivered several times, to several processes at once; each
\* action of its case still runs at most once, by one executor at a time, and
\* that executor is a goroutine that was given the job.
RedeliveryIsHarmless ==
    /\ ExecutorOwnsCase
    /\ ActionsRunOnceApproved
    /\ \A e \in Executors : exec[e].pc # "idle" => worker[e].job = exec[e].case

\* docs/threat-model.md: "Worker crash/partition: expiring leases, heartbeat,
\* reclaim, bounded retry and dead-letter state.  Remote actions remain
\* semantically idempotent and are verified afterward": the retries of a job
\* are not used up while its case is half executed.
ReclaimedCasesAreVerified ==
    \A c \in Cases : job[c].status = "DEAD" =>
      \/ case[c].status \notin {"RUNNING", "VERIFYING"}
      \/ \E e \in Executors : exec[e].case = c
=============================================================================

# IdentityMesh: TLA+ models and proofs

IdentityMesh keeps an inventory of a company's people and of their accounts at
identity providers, correlates the two, and offboards people: it plans, gets
approval for, executes and verifies the removal of access. It is one Go program,
run as several replicas over one PostgreSQL database that is also the job queue.
Providers are called outside database transactions (ADR 010), so almost
everything it concludes comes from reads that may be stale when they are used.
That is what these models are about. Paths below are relative to `src/`.

## The system

| Part | Code | State | What makes it hard |
|---|---|---|---|
| Synchronization | `assurance/service.go` Sync*, failSync | accounts, grants, run rows, `last_sync_status` | the listing is older than the transaction; runs of a connector overlap; failure and crash between steps |
| Correlation | `correlation.go`, `correlate` | links, candidates, findings | unordered people; earlier links and decisions; changing people |
| Candidate review | `httpapi/product.go` | candidates, links, findings | races with correlation |
| People import | `csvApply`, `ImportPeople` | people | changes what earlier links were based on |
| Connector configuration | `createConnector`, `updateConnector` | capabilities, read and write flags | read at planning, not at execution |
| Offboarding | `CreateCase` ... `ExecuteAndVerify`, `cancelCase` | cases, actions, evidence, snapshots | some twenty statements and provider calls without a transaction |
| Remote actions | `executeRemoteAction`, `connectors/` | the provider | lost answers; changes by others |
| Job queue | `workers/distributed.go` | `distributed_jobs`, goroutines | leases, redelivery, crashes, lost updates |
| Worker pool | `workers/pool.go` | a bounded channel | refuses when full |
| Scheduler | `scheduler.go`, `main.go` | advisory locks, `last_sync_status` | QUEUED as a lock that nobody releases |
| Access reviews | `createAccessReview`, `DecideReview` | campaigns, items | write skew under READ COMMITTED |
| Rate limiter | `ratelimit/postgres.go` | windows | clocks of replicas |
| Migrations, bootstrap | `database/database.go`, `main.go` | schema, first owner | replicas starting and stopping together, with different files |
| Sessions, MFA | `auth/`, `httpapi/server.go` | sessions, password, secret | checks and writes in separate statements |
| Provider clients | `connectors/` | cursors, retries | a directory that changes under the pages; lost answers |
| RBAC, secrets, reports, notifier, settings | `rbac/`, `secure/`, `reports/`, `notifier/` | rows of their own | little interaction |

Synchronization feeds correlation; correlation and review produce the links
offboarding plans from; offboarding writes to providers and to the accounts that
synchronization also writes; jobs of the queue run both.

## The modules

A database transaction, or a single statement outside one, is one action; so is
a provider call. Everything else may happen between two actions.

**Reconciliation** has the tables of one organisation and its synchronization
runs. `StartSync`, `ListUsers`, `ListGroups`, `FailSync`, `AbandonSync` and
`CommitSync` are the steps of SyncSCIM, SyncLDAP and SyncNative, which differ
only in their clients and in how a listed account becomes a status
(`StoredState`). `CommitSync` is the whole transaction: statuses, MISSING
accounts, grants, and `correlate` with its links, candidates, orphan and
duplicate findings, under every order of the people. `AcceptCandidate` and
`RejectCandidate` are acceptOrRejectCandidate; `ImportPeople` and
`UpdateConnector` are the handlers of these names. `ProviderChange` is the
environment. `everOff` is a history variable: the accounts whose provider has
ever held them disabled.

**Offboarding** extends it with cases. `CreateCase`, `PlanCase`, `ApproveCase`
are transactions; `CancelCase` and `SkipActions` are the two statements of
cancelCase; from `BeginExecution` to `FinishCase` there is one action per
statement or provider call of ExecuteAndVerify, with the local variables in
`exec`. `StopExecution` is a crash or a failed statement at any point.
`WriteProvider` lets the provider apply the change or not and the answer arrive
or not; the retries of the HTTP clients, and the look they take before a write,
only choose among these outcomes.

**DistributedQueue** is the table of jobs and the goroutines of all processes.
Time is modelled by what it allows (`BackoffEnds`, `LeaseEnds`). A lease that is
attended by a heartbeat ends only by a fault.

**LifecycleJobs** composes the last two: the handler of a LIFECYCLE_EXECUTE job
is an executor of Offboarding, and a crash of a process frees its goroutine and
stops its execution in one step.

**CaseLifecycle** is the abstract specification of a case: the pairs of
CanTransitionCase in the domain package, which the program itself never calls
(only its tests do). Offboarding implements it under the mapping of a case to its
status. PlanCase goes from DRAFT to AWAITING_APPROVAL in one transaction, so that
PLANNED is never stored; `Follows` allows the two pairs together.

**SyncScheduling** is scheduledSyncs in every replica, the handler that enqueues a
synchronization on request, and the handler of CONNECTOR_SYNC jobs, over an
instance of DistributedQueue. `SelectDue` and the steps up to `SubmitFails` are
the statements of scheduledSyncs, with `last_sync_status` between them; the
minute of the idempotency key is kept.

**AccessReview** has campaigns and their items. A decision is three steps: what
its transaction does up to the last update, that update, which sees what others
have committed by then, and the commit; `raced` is a history variable.

**RateLimit** is Allow and Cleanup for one key, with a clock of the database and
the skew of a replica; `admitted`, `lost` and `refused` are history variables.

**WorkerPool** is the channel, the worker goroutines, the callers of runBounded,
which may give up, and shutdown.

**Startup** is the start of a process: connecting, Migrate under its session lock,
Bootstrap under its transaction lock, with createUser and the renaming of an
organization between them.

**Sessions** is one user: login in its three steps, sessions, ChangePassword, and
enrolment and confirmation of a secret. `overlaps`, `confirmed` and `crossed` are
history variables.

**Discovery** is the listing of users, groups and members by the six clients, page
by page, over a directory that changes. **RemoteDisable** is executeRemoteAction
request by request: the look before, the write, its retries, and the look after.

`MC*` modules give the constants their values. **MCPlatform** holds the components
from SyncScheduling on. They share no state, so one of them moves in a behaviour
(`focus`) and the others rest. **MCSync** is the first of them alone.
**MCVerification** adds two history variables to Offboarding in order to compare a
verdict with what was true and what was read during the execution. Definitions marked *Mutant* are
plausible bugs; each property is known to fail for one of them.

### Abstractions

- In Reconciliation a listing is one read of the provider; its pages are in
  Discovery, and the requests behind a write of Offboarding in RemoteDisable.
- A link or page token continues after the last object it was given with, and a
  SCIM provider sends no empty page while it has objects at the index. Index pages
  shift when objects in front of them are removed; `ListingIsComplete` leaves out
  that case, in which the SCIM client misses an object.
- The re-read after a GitHub removal is a lookup that answers 404, which the client
  reports as an error: a membership removal is never confirmed, its action ends
  FAILED and its case PARTIAL (docs/native-connectors.md: "a subsequent membership
  lookup must show absence").
- SyncScheduling is in DISTRIBUTED mode; hourly and daily intervals are one `due`.
- A password and a secret are the number of changes before them.
- The rows of `connector_syncs` and `reconciliation_runs` are one, and the three
  updates of failSync are one action: nothing reads them in between.
- There is one authoritative source. ImportPeople writes the external identifier
  of a person as the employee number too, so a person stands for both.
- The attributes of an account do not change; those of people do.
- A finding is OPEN or not; triage by hand is left out. Audit, lifecycle events
  and notifications are left out: no guard reads them. The one event that can
  turn a finished execution into an error is in `HandlerError`.
- `enabled` and `read_enabled` are one flag. UpdateConnector is one action.
- A sync transaction is atomic although it reads under READ COMMITTED. A
  concurrent change of its tables is ordered by the unique keys and row locks.
- The order of claims is a preference in the code too: locked rows are skipped.
- `everOff` counts every state a provider had, also one nobody read: it bounds
  what can have been observed.

## The runs

| Run | Instance | Result |
|---|---|---|
| `reconciliation` | 2 people, 2 accounts, 1 connector, 2 overlapping runs, 3 files | 352,316 states |
| `offboarding` | 1 person, a SCIM and a GitHub account, 2 runs, 1 case, 1 executor | 668,836 states |
| `cases` | 1 directory account, 2 runs, 2 cases, 2 executors | 460,906 states |
| `queue` | 2 jobs, 3 goroutines in 2 processes, 2 attempts, 2 faults, with fairness | 8,409 states |
| `lifecycle_jobs` | 1 case, 2 processes, 2 attempts, 2 faults | 116,982 states |
| `platform` | each component around the identity data, two or three actors each, with fairness | 48,778 states |
| `orphan_findings`, `verified_reads`, `verified_again`, `queue_attempts`, `stranded_case` | as above | violated |
| `unscheduled` (MCSync) | 1 connector, 2 schedulers, 1 fault | violated |

`reconciliation`: a stored DISABLED goes back to the provider
(`DisabledWasObserved`); links have a deterministic reason or an accepted
candidate (`LinksAreJustified`, `AcceptedIsLinked`); only the commit of a complete
listing changes statuses (`OnlyCommittedRunsObserve`); links and decisions stay
(`DecisionsAreFinal`).

`offboarding`: writes stay within the approved plan (`WritesAreApproved`); a
finished case has settled every action with matching evidence
(`FinishedIsAccountedFor`); VERIFIED leaves no manual action, no silent provider
and no account that was never disabled (`VerifiedHasNoDoubt`); ended cases and
approved plans stay (`EndedIsFinal`).

`cases`: one executor per case (`ExecutorOwnsCase`), no action twice or outside an
approved case (`ActionsRunOnceApproved`), in spite of cancellation in two
statements; and the refinement: cases follow the lifecycle of the domain package
(`FollowsLifecycle`), although handlers guard each update in their own way and
ExecuteAndVerify writes VERIFYING and the final status without a guard.

`queue`: owners exactly of running jobs, no job given up early, attempts bounded
by the policy plus one per fault, settled jobs final, and every job settled
eventually (`JobsSettle`).

`lifecycle_jobs`: redelivery is harmless, and a job that SUCCEEDED has ended its
case.

`platform`, by component:

- Scheduling: a connector is left QUEUED without a job only after a repeated
  attempt, a request or a fault (`StrandedHasCause`); one that has a job is
  eventually answered (`QueuedIsAnswered`).
- Access reviews: COMPLETED means that every item is decided; a campaign that
  stays open with all items decided has none, or two of its decisions overlapped
  (`CompletionFollowsItems`); one proposal per stored revocation
  (`RevocationsAreProposed`).
- Rate limiter: a window admits its limit over all replicas and refuses nobody
  earlier (`WindowAdmitsLimit`), as long as clocks are within the grace of Cleanup.
- Worker pool: no job runs twice, none that was refused runs (`AnswersAreTrue`);
  callers return (`CallersReturn`), also those behind abandoned jobs and at
  shutdown.
- Startup: migrations run once and in order, a serving replica has its schema and
  its owner, one organization unless it was renamed (`ServingIsPrepared`); no
  replica starts forever (`StartupEnds`).
- Sessions: after a change of the password an older session is live only if its
  login overlapped the change (`OlderSessionsOverlapped`); a secret in force was
  confirmed unless an enrolment crossed its confirmation
  (`EnabledSecretWasConfirmed`).
- Discovery: a listing without an error is complete for what was there all the
  time (`ListingIsComplete`), and ends (`ListingEnds`).
- Remote actions: native clients do not repeat a write that may have been applied
  (`AmbiguousWriteIsFinal`); disabling keeps the other account flags
  (`OtherFlagsSurvive`).

The six others show where the code departs from what its documents or its own
messages say:

- `orphan_findings`: an account linked by a reviewer is reported as having no
  linked person after its person is renamed.
- `verified_reads`: a candidate accepted between the two counts of verification
  is seen by neither, and the case is VERIFIED with an active linked account.
- `verified_again`: VERIFY_DISABLED is satisfied by the stored status; no provider
  is read after the case started.
- `queue_attempts`: a job whose lease ran out is claimed beyond `max_attempts`.
- `stranded_case`: after a crash the case stays RUNNING, its job dies, and nothing
  leads out of that state.
- `unscheduled`: a scheduler that stops between marking a connector QUEUED and
  storing its job leaves a selection that is in no table and that no scheduler
  repeats.

### Bounds

Two of everything that can conflict: two runs see each other's stale listings,
two people compete for an account, two accounts fail independently, two
executors or processes race. A third party adds no new pair of steps; for what
is proved the theorems cover every number. `MaxFaults` bounds crashes, lost heartbeats and lost
updates: two are needed for a job to be reclaimed and its first goroutine to
come late. The queue run has three goroutines because two of them share the
WorkerID of their process, as in `main.go`. A run identifier is used once.
Symmetry is over run, case and executor identifiers only, in runs without
liveness properties. Deadlock is not checked: every instance may run out of run
identifiers, cases and jobs.

In `platform`: two schedulers and two minutes let a key be used twice; two
decisions on two grants overlap in every way; a limit of 2 with a window of 2
seconds and times up to 4 reaches windows that have ended, are still used by a
skewed replica, and are cleaned up later; three calls over two workers and a queue of one
fill it; two replicas with different migrations start three times in all; two
logins meet two changes of the password; three users on pages of two leave a page
boundary in the middle, and one change of the directory can fall on either side
of it; two calls disable one account. The page and retry limits are 2 where the
code has 100 and 3: the loops treat every count below the limit alike. Scheduling
is taken once with time and faults and once with requests and changes of
`read_enabled`, and sessions once with passwords and once with secrets; a
behaviour that needs both halves is not explored (the theorems cover it). A directory begins with two of three users and all groups.

### Fairness

`queue` and `platform` have liveness properties. In both, weak fairness says only
that what can go on does:

- back-offs and unattended leases end (time passes), a claimable job is eventually
  claimed (goroutines poll for ever, `distributed.go` run), a handler returns and
  its outcome is stored (provider calls and statements have timeouts);
- a scheduler that has begun goes on with its next statement (`scheduler.go`);
- workers of the pool receive and run jobs until the process ends, and a caller
  whose answer is there takes it (`pool.go`);
- a process that starts goes on connecting, migrating and bootstrapping, each lock
  being released by its session or transaction (`database.go`);
- a listing asks for its next page or gives up (`connectors/`).

Faults, heartbeats, requests, changes at a provider and the passing of minutes are
not fair.

## The proofs

The theorems hold for every value of the constants: all finite or infinite sets of
people, connectors, runs, cases, executors, jobs, processes, schedulers, requests,
campaigns, grants, logins, replicas and calls, and any limits, page sizes and
numbers of migrations. What they assume of the constants is named in the module
that declares them and evaluated by TLC on every run. Mostly it says that a number
is a number and that `NoValue`, `Nobody` and the like are none of the identifiers.
Those that say more:

- `OffboardingConstants`: finitely many accounts (the counts of verification);
- `DiscoveryConstants`: a finite directory, whose objects are numbered in the order
  the provider lists them;
- `SyncQueueConstants`: a job of the scheduler may be tried again. `max_attempts` is
  5 in `003_production_platform.sql`, and nothing in the program stores another
  value. With one attempt a first failure would strand a connector, and
  `StrandedHasCause` would be false;
- `SkewWithinGrace`: replicas and the database disagree about the time by less than
  the five minutes of Cleanup. It is the only one about the surroundings.

Each invariant below is inductive, and TLC has checked it as an invariant of the
instance of its run. The proof that it is kept has a lemma per action or group of
actions; the theorems follow from it.

**IdentityProofs.** The first part is about Reconciliation. `RecInv` strengthens the
properties with `ReadsAreObservations` (what an open run has listed as disabled was disabled at
some time: without it a commit could store anything) and `RunsAreOpen` (a run
between its first and last step has a RUNNING row and a connector). The lemma on
`CommitSync` is the core: new links are deterministic and never replace one.
Theorems: `RecTypeCorrect`, `DisabledIsObserved`, `LinksAreSafe`,
`AcceptancesAreLinks`, `DecisionsSurvive`, `OnlyCommitsObserve`, and
`FalseFindingsAreStale`, which bounds the violation `orphan_findings`: a false finding
is about an account that was linked before the pass and carries no identifier of its
person, by a reviewer or by an address the person has lost or shares with another by
now. Both alternatives occur. The second part begins the proofs about cases, which
OffboardingProofs continues: the invariant `OffInv`, the handlers, and the steps of an
executor on one action.

**DistributedQueueProofs.** `QueueInv` adds to types and ownership that what a
goroutine remembers of its attempts never exceeds the row. A settled row has no
owner, hence no late update matches. Theorems: `QueueTypeCorrect`,
`RunningJobsAreOwned`, `DeadJobsAreExhausted`, `SettledJobsAreFinal`,
`FaultsBoundAttempts`, and, when every goroutine has a WorkerID of its own,
`LatestClaimSettles`. The number of attempts is the hard one, since claim does not look
at `max_attempts` and the goroutines of a process share its WorkerID: a goroutine that
has lost a job may settle it in place of another of its process, which puts it back
for one more claim. The invariant is a budget for each job (`Budget`). The goroutines
that would still put it back, one if it is open for a claim now, and the attempts from
`max_attempts` on are together no more than the faults and one; a claim turns the
second into one of the others, and every way to open the job costs a fault or one of
the goroutines.

**OffboardingProofs.** It EXTENDS IdentityProofs. `OffInv` relates each case to its actions (`CaseOK`), each
executor to its case and to what it has read (`ExecOK`: for instance that all
actions outside `todo` are settled, and that an executor about to store DISABLED
has seen it), and executors to one another (`Apart`). Links only grow and
`everOff` only grows, so the steps of reconciliation preserve it; each step of an
executor preserves its own `ExecOK` and, by `Apart`, everybody else's. Theorems:
`TypeCorrect`, `DisabledIsObservedByExecutors`, `CaseHasOneExecutor`,
`WritesNeedApproval`, `ActionsNeedApproval`, `VerdictsAreAccountedFor`,
`VerdictsAreEarned`, `EndedCasesStay`, and the refinement `CasesFollowLifecycle`.
For the last, a step changes the row of one case (`RowStep`); a handler's guard
names the status it comes from, and for the unguarded updates of an executor
`OffInv` knows the status (`Owned`). What Reconciliation guarantees of links and
decisions is proved again with executors that store statuses between the statements
of a run: `ExecutorsRespectLinks`, `DecisionsSurviveOffboarding`. `VerdictsCoverLinks` is
about the accounts of the person that no action covers. Its invariant (`CountHolds`)
remembers the set that was counted: its accounts are still linked, and each has been
disabled at its provider if the two counts agree. So a VERIFIED case misses an account only if that was linked after the count,
which is what `verified_reads` shows.

**LifecycleJobsProofs.** `JobsInv` is `OffInv` and `QueueInv` together with what ties
them (`GoroutineOK`): an executor that works on a case is a goroutine that was given
its job and has not returned, and a handler that returned without an error has ended
the case. A step of the composition is a step of offboarding, a step of the queue,
both, or a process that stops (`StepsOfCases`); only the last is new to `OffInv`, as
several executors stop at once (`StopsKeep`). A late update can settle a job only
with the result of a handler that had that job, so that SUCCEEDED is true whoever
writes it. Theorems: `JobsTypeCorrect`, `SucceededJobsEndCases`,
`RedeliveriesAreHarmless`, `JobsKeepVerdicts` (approval of writes and the meaning of
verdicts hold in the composition), `JobsKeepEndedCases`, and the refinement
`JobsFollowLifecycle`. The guarantees of the queue carry over as well (`JobsKeepQueue`,
`JobsSettleOnce`); a failed statement of a handler is a fault outside the queue and adds
to the budget. `StrandingNeedsFault` is the counterpart of `stranded_case`: without a
fault a case that is RUNNING or VERIFYING has an executor.

**SyncProofs.** `StrandedHasCause` is far from inductive. `SyncInv` says where a
connector without a cause is (`ConnectorAt`): on the list of a scheduler, claimed by
one, or in one job that has no result yet, and never in two of these; a key of the
present minute that has served keeps it from being listed again. This rests on the
lock (`TaskAt`: without faults the scheduler that runs holds it) and on the queue
(`ClaimedOnce`: a job that was claimed once, before any fault, belongs to the one
goroutine that has it). The lemmas of the queue come from an instance of
DistributedQueueProofs, and so do `SyncKeepsQueue` and `SyncJobsSettleOnce`. Theorems:
these two, `SyncTypeCorrect`, `StrandingHasCause` and `LosingSelectionsNeedsFaults`, the
counterpart of `unscheduled`. It counts the connectors that are QUEUED, in the hands of
no scheduler and have never had a row: a request stores its job before it marks the
connector, a row is never deleted, and a scheduler lets go of a connector without a row
only by a fault, one at a time. So there are at most as many as there were faults.

**ProviderProofs.** `DiscoveryInv` says how far a listing has come (`Progress`): what was
there all the time is listed already or lies ahead of the cursor, where a cursor is
an object for link and token pages and a position (`Rank`) for SCIM. Adding an object
never lowers the position of another; removing one does, which is the case
`ListingIsComplete` leaves out. The lemmas on `Rank` use the library's facts about
cardinality. `RemoteInv` says that a native call has sent nothing before its write
and one request after it, and that the flags a call of Active Directory would write
are those of the administrator unless they changed in between. Theorems:
`DiscoveryTypeCorrect`, `ListingsAreComplete`, `RemoteTypeCorrect`,
`NativeWritesAreSingle`, `FlagsSurvive`.

**ApiProofs.** `ReviewInv` says that an open decision holds a PENDING item
of its own, that what its test found of the other items still holds when it
commits unless the campaign is in `raced`, and that two tested decisions of a
campaign put it there. `RateInv` says of every window that the row counts at least
what was admitted, unless the window ended longer ago than the grace, and at most
what was admitted or lost until the limit is reached; a replica within the grace
never counts in a window of the first kind (`CountedInGrace`). `SessionsInv` says
that logins in progress know that they overlap while a change is open, and that a
live session an open change will not revoke is one of them; and that a confirmation
remembers the stored secret until an enrolment crosses it. Theorems:
`ReviewTypeCorrect`, `CompletionIsEarned`, `OneProposalPerRevocation`,
`RateTypeCorrect`, `LimitHolds`, `SessionsTypeCorrect`, `OldSessionsEnd`,
`EnabledSecretsAreConfirmed`.

**ProcessProofs.** `PoolInv` says that a job waits in the channel once, was accepted and has
not run, and that one with an answer has. `StartupInv` says what each replica knows at
each point (`ReplicaAt`): it migrates under the session lock with all earlier versions
applied, and what Bootstrap read under its transaction lock is still so when it
inserts; versions are applied without gaps, and every organization has an owner.
That the oldest organization exists needs the least member of a set of numbers
(`LeastNatural`), taken from the well-foundedness of `<` in the library. Theorems:
`PoolTypeCorrect`, `CallersAreToldTheTruth`, `StartupTypeCorrect`,
`ReplicasServePrepared`.

So every invariant and action property of the passing runs is proved for all
constants, but for `PlatformTypeOK`. That is the conjunction of the type invariants of
eight components that share no variable. Each of them is a theorem about the
specification of its component (the `...TypeCorrect` of SyncProofs, ApiProofs,
ProcessProofs and ProviderProofs); the conjunction over `MCPlatform` is left to TLC.

Only model-checked are also the liveness properties `JobsSettle`, `QueuedIsAnswered`,
`CallersReturn`, `StartupEnds` and `ListingEnds`, since fairness is out of the prover's
reach, and the six violations.

## Not modelled, and why

- The scheduler in IN_PROCESS mode, where it hands jobs to the pool of its process.
- The two statements of updateConnector, and triage of findings by hand: updates of
  single rows, which nothing else in the models depends on. UpdateConnector is one
  action, with every setting the handler admits.
- Parsing and preview of CSV files, normalisation of addresses and names: data that
  the models take from small sets. ImportPeople starts from a validated file.
- Roles and permissions: a constant table; the caller is taken to be permitted.
- Users who are disabled, tokens, and settings other than the organization's name.
- RemoveMembership of the LDAP client, which executeRemoteAction does not call.
- Cryptography and secret storage, the code of a multi-factor secret, PDF layout and
  reports, audit and notification (best effort, read by no guard), request formats,
  configuration parsing, logging and metrics, the web client.

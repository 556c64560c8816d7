------------------------ MODULE LifecycleJobsProofs ------------------------
(* Offboarding cases that jobs execute: the invariants of the queue and of    *)
(* offboarding hold together, and a job that SUCCEEDED has ended its case,    *)
(* for any cases, goroutines, processes and faults.                           *)
EXTENDS LifecycleJobs, OffboardingProofs

\* A goroutine that executes a case was given its job, and has not returned;
\* one whose handler returned without an error has ended the case.
GoroutineOK(e) ==
    /\ exec[e].pc # "idle" => worker[e].job = exec[e].case /\ answer[e] = "NONE"
    /\ answer[e] = "OK" => /\ worker[e].job \in Cases
                           /\ case[worker[e].job].status \in Finished

\* What the queue needs to keep its guarantees: its own invariant, with the
\* attempts a goroutine returned with no more than those of its row.
QueueSound ==
    /\ Queue!QueueTypeOK /\ Queue!OwnedIffRunning /\ Queue!DeadIsExhausted
    /\ \A e \in Executors, c \in Cases :
         worker[e].job = c => worker[e].attempts <= job[c].attempts

\* The inductive invariant of offboarding by jobs.
JobsInv ==
    /\ OffInv /\ QueueSound
    /\ answer \in [Executors -> Answer]
    /\ \A e \in Executors : GoroutineOK(e)
    /\ SucceededJobEndedCase

-----------------------------------------------------------------------------
\* The processes of some executors stop at the same time.
LEMMA StopsKeep ==
  ASSUME OffInv, UNCHANGED <<recVars, case, action, cancelling>>,
         exec' \in [Executors -> Exec],
         \A e \in Executors : exec'[e] = exec[e] \/ exec'[e] = Idle
  PROVE  OffInv'
<1>1. RecOK'
  BY Zenon DEF recVars, RecOK, OffInv, TypeOK, RecTypeOK, ReadsAreObservations,
     DisabledWasObserved
<1>2. OffTypeOK'
  BY DEF OffTypeOK, OffInv, TypeOK
<1>3. Idle.pc = "idle" /\ Idle.case = NoValue
  BY DEF Idle
<1>4. \A c \in Cases : CaseOK(c)'
  <2>1. Monotone
    BY DEF recVars, Monotone
  <2>2. QED
    BY <2>1, CaseFrame, ConstantTypes, SMTT(30) DEF OffInv, TypeOK
<1>5. ASSUME NEW e \in Executors PROVE ExecOK(e)'
  <2>1. CASE exec'[e] = Idle
    BY <1>3, <2>1, NowIdle, SMTT(30)
  <2>2. CASE exec'[e] = exec[e]
    <3>1. ExecOK(e)
      BY DEF OffInv
    <3>2. UNCHANGED <<case, action, everOff>>
      BY DEF recVars
    <3>3. QED
      BY <2>2, <3>1, <3>2, ZenonT(60) DEF ExecOK
  <2>3. QED
    BY <2>1, <2>2
<1>6. Apart'
  BY <1>3, Zenon DEF OffInv, Apart
<1>7. QED
  BY <1>1, <1>2, <1>4, <1>5, <1>6, SMTT(30) DEF OffInv, RecOK, OffTypeOK, TypeOK

\* A step of an executor leaves the others alone; it goes on with its case
\* unless it is the last one, which ends the case.
LEMMA ExecutionMoves ==
  ASSUME OffInv, NEW e \in Executors, ExecutionStep(e)
  PROVE  /\ exec[e].pc # "idle"
         /\ \A f \in Executors \ {e} : exec'[f] = exec[f]
         /\ \/ exec'[e].pc # "idle" /\ exec'[e].case = exec[e].case
            \/ FinishCase(e)
<1>1. exec \in [Executors -> Exec]
  BY DEF OffInv, TypeOK
<1>2. exec[e].pc # "idle"
  BY ZenonT(60) DEF ExecutionStep, LoadActions, StartAction, WriteProvider,
     RereadProvider, StoreDisabled, VerifyLocally, RecordOutcome, InsertEvidence,
     BeginVerification, CountIdentities, CountUnresolved, InsertSnapshot, FinishCase
<1>3. \E r : exec' = [exec EXCEPT ![e] = r]
  BY ZenonT(60) DEF ExecutionStep, LoadActions, StartAction, WriteProvider,
     RereadProvider, StoreDisabled, VerifyLocally, RecordOutcome, InsertEvidence,
     BeginVerification, CountIdentities, CountUnresolved, InsertSnapshot, FinishCase
<1> DEFINE Moved == exec'[e].pc # "idle" /\ exec'[e].case = exec[e].case
<1>4. ASSUME NEW v, v # "idle", exec' = [exec EXCEPT ![e].pc = v] PROVE Moved
  BY <1>1, <1>4 DEF Exec
<1>5. exec[e] \in Exec /\ NoAnswer(exec[e]).pc # "idle" /\ NoAnswer(exec[e]).case = exec[e].case
  BY <1>1 DEF NoAnswer, Exec
<1>6. ASSUME LoadActions(e) PROVE Moved
  BY <1>1, <1>5, <1>6, Zenon DEF LoadActions, Exec
<1>7. ASSUME NEW a \in Accounts, StartAction(e, a) PROVE Moved
  BY <1>1, <1>5, <1>7, Zenon DEF StartAction, Exec
<1>8. ASSUME NEW applied \in BOOLEAN, NEW ok \in BOOLEAN, WriteProvider(e, applied, ok)
      PROVE  Moved
  BY <1>1, <1>5, <1>8, Zenon DEF WriteProvider, Exec
<1>9. ASSUME NEW answers \in BOOLEAN, RereadProvider(e, answers) PROVE Moved
  BY <1>1, <1>5, <1>9, Zenon DEF RereadProvider, Exec
<1>10. ASSUME NEW ok \in BOOLEAN, VerifyLocally(e, ok) PROVE Moved
  BY <1>1, <1>5, <1>10, Zenon DEF VerifyLocally, Exec
<1>11. ASSUME StoreDisabled(e) \/ RecordOutcome(e) \/ BeginVerification(e) \/ InsertSnapshot(e)
       PROVE  Moved
  BY <1>4, <1>11, Zenon
     DEF StoreDisabled, RecordOutcome, BeginVerification, InsertSnapshot, Exec
<1>12. ASSUME InsertEvidence(e) PROVE Moved
  BY <1>1, <1>5, <1>12, Zenon DEF InsertEvidence, Exec
<1>13. ASSUME CountIdentities(e) \/ CountUnresolved(e) PROVE Moved
  <2>1. CASE CountIdentities(e)
    <3>1. PICK m, d, n : exec' = [exec EXCEPT ![e] =
            [exec[e] EXCEPT !.pc = "unresolved", !.managed = m, !.disabled = d, !.active = n]]
      BY <2>1, Zenon DEF CountIdentities
    <3>2. QED
      BY <1>1, <1>5, <3>1, Zenon DEF Exec
  <2>2. CASE CountUnresolved(e)
    <3>1. PICK u, m : exec' = [exec EXCEPT ![e] =
            [exec[e] EXCEPT !.pc = "snapshot", !.unresolved = u, !.manual = m]]
      BY <2>2, Zenon DEF CountUnresolved
    <3>2. QED
      BY <1>1, <1>5, <3>1, Zenon DEF Exec
  <2>3. QED
    BY <1>13, <2>1, <2>2, SMTT(30)
<1>14. \A f \in Executors \ {e} : exec'[f] = exec[f]
  BY <1>1, <1>3
<1>15. Moved \/ FinishCase(e)
  BY <1>6, <1>7, <1>8, <1>9, <1>10, <1>11, <1>12, <1>13, Zenon DEF ExecutionStep
<1>16. QED
  BY <1>2, <1>14, <1>15, SMTT(30)

\* The last statement ends the case.
LEMMA FinishEnds ==
  ASSUME OffInv, NEW e \in Executors, FinishCase(e)
  PROVE  /\ exec[e].pc # "idle" /\ exec[e].case \in Cases
         /\ case'[exec[e].case].status \in Finished
         /\ exec' = [exec EXCEPT ![e] = Idle]
<1>1. exec[e].pc # "idle" /\ exec[e].case \in Cases
  BY Owned DEF FinishCase
<1>2. PICK c \in Cases : c = exec[e].case
  BY <1>1
<1>3. PICK r : r = [case[c] EXCEPT !.status = FinalStatus(EvaluateVerification(exec[e])),
                                   !.result = EvaluateVerification(exec[e])]
  BY Zenon
<1>4. case' = [case EXCEPT ![c] = r] /\ exec' = [exec EXCEPT ![e] = Idle]
  BY <1>2, <1>3, Zenon DEF FinishCase
<1>5. r.status = FinalStatus(EvaluateVerification(exec[e]))
  BY <1>2, <1>3, Zenon DEF OffInv, TypeOK, Case
<1>6. FinalStatus(EvaluateVerification(exec[e])) \in Finished
  BY Zenon DEF FinalStatus, Finished
<1>7. QED
  BY <1>1, <1>2, <1>4, <1>5, <1>6, SMTT(30) DEF OffInv, TypeOK

-----------------------------------------------------------------------------
(* The steps of jobs, seen from offboarding. *)

\* A step is one of offboarding, or stops processes.
LEMMA StepsOfCases ==
  ASSUME JobsInv, [JobsNext]_jobVars
  PROVE  [Next]_vars \/ \E w \in WorkerIds : CrashProcess(w)
<1>1. ASSUME NEW e \in Executors, RunHandler(e) PROVE [Next]_vars
  <2>1. worker[e].job # NoValue => worker[e].job \in Cases
    BY DEF JobsInv, QueueSound, Queue!QueueTypeOK, Queue!Worker
  <2>2. QED
    BY <1>1, <2>1, Zenon DEF RunHandler, Next
<1>2. ASSUME NEW e \in Executors, HandlerStep(e) \/ HandlerError(e) PROVE [Next]_vars
  BY <1>2, Zenon DEF HandlerStep, HandlerError, Next, ExecutionStep
<1>3. ASSUME NEW e \in Executors, PoolFull(e) \/ SettleJob(e) \/ LoseAnswer(e) \/ RenewLease(e)
      PROVE  UNCHANGED vars
  BY <1>3, Zenon DEF PoolFull, SettleJob, LoseAnswer, RenewLease
<1>4. ASSUME NEW c \in Cases, \/ RequestExecution(c) \/ QueueTime(c)
                              \/ \E e \in Executors : ClaimJob(e, c)
      PROVE  UNCHANGED vars
  BY <1>4, Zenon DEF RequestExecution, QueueTime, ClaimJob
<1>5. CASE UNCHANGED jobVars
  BY <1>5, Zenon DEF jobVars
<1>6. ASSUME JobsNext, ~\E w \in WorkerIds : CrashProcess(w) PROVE [Next]_vars
  BY <1>1, <1>2, <1>3, <1>4, <1>6, Zenon DEF JobsNext, Next
<1>7. QED
  BY <1>5, <1>6, SMTT(30)

\* Either keeps the invariant of offboarding, and what has ended.
LEMMA JobsAreCases ==
  ASSUME JobsInv, [JobsNext]_jobVars
  PROVE  OffInv' /\ \A c \in Cases : case[c].status \in Finished => case'[c] = case[c]
<1>1. OffInv /\ exec \in [Executors -> Exec]
  BY DEF JobsInv, OffInv, TypeOK
<1>2. CASE [Next]_vars
  <2>1. \A c \in Cases : case[c].status \in Terminal => case'[c] = case[c]
    BY <1>1, <1>2, EndedStay, SMTT(30)
  <2>2. Finished \subseteq Terminal
    BY DEF Finished, Terminal
  <2>3. QED
    BY <1>1, <1>2, <2>1, <2>2, OffInvStep, SMTT(30)
<1>3. ASSUME NEW w \in WorkerIds, CrashProcess(w)
      PROVE  OffInv' /\ case' = case
  <2>1. Idle \in Exec
    BY Zenon DEF Idle, Exec, Outcome
  <2>2. /\ exec' \in [Executors -> Exec]
        /\ \A e \in Executors : exec'[e] = exec[e] \/ exec'[e] = Idle
    BY <1>1, <1>3, <2>1, SMTT(30) DEF CrashProcess
  <2>3. UNCHANGED <<recVars, case, action, cancelling>>
    BY <1>3, Zenon DEF CrashProcess
  <2>4. QED
    BY <1>1, <2>2, <2>3, StopsKeep, SMTT(30)
<1>4. QED
  BY <1>2, <1>3, StepsOfCases, SMTT(30)

-----------------------------------------------------------------------------
\* The types of the queue.
LEMMA JobsTyped ==
  ASSUME JobsInv
  PROVE  /\ Queue!QueueTypeOK
         /\ \A e \in Executors : worker[e].job # NoValue => worker[e].job \in Cases
         /\ worker \in [Executors -> [job : Cases \cup {NoValue}, attempts : Nat]]
         /\ NoValue \notin Cases /\ NoValue \notin WorkerIds
BY JobsConstants, OffboardingConstants, SMTT(30)
   DEF JobsInv, QueueSound, Queue!QueueTypeOK, Queue!Worker

\* A goroutine that a step leaves alone.
LEMMA GoroutineFrame ==
  ASSUME JobsInv, NEW e \in Executors,
         \A c \in Cases : case[c].status \in Finished => case'[c] = case[c],
         worker'[e] = worker[e], exec'[e] = exec[e], answer'[e] = answer[e]
  PROVE  GoroutineOK(e)'
<1>1. GoroutineOK(e)
  BY DEF JobsInv
<1>2. QED
  BY <1>1, Zenon DEF GoroutineOK

\* A goroutine that executes nothing, and whose handler has not succeeded.
LEMMA GoroutineRests ==
  ASSUME NEW e \in Executors, exec'[e].pc = "idle", answer'[e] # "OK"
  PROVE  GoroutineOK(e)'
BY Zenon DEF GoroutineOK

\* Requests, claims and time.
LEMMA GoroutineClaims ==
  ASSUME JobsInv, [JobsNext]_jobVars, NEW e \in Executors, NEW c \in Cases,
         RequestExecution(c) \/ QueueTime(c) \/ \E g \in Executors : ClaimJob(g, c)
  PROVE  GoroutineOK(e)'
<1>1. UNCHANGED <<exec, answer>>
  BY Zenon DEF RequestExecution, QueueTime, ClaimJob, vars, offVars
<1>2. CASE RequestExecution(c) \/ QueueTime(c)
  <2>1. worker' = worker
    BY <1>2, Zenon DEF RequestExecution, QueueTime, Queue!Enqueue, Queue!BackoffEnds,
       Queue!LeaseEnds, Queue!LoseLease
  <2>2. QED
    BY <1>1, <2>1, JobsAreCases, GoroutineFrame, SMTT(30)
<1>3. ASSUME NEW g \in Executors, ClaimJob(g, c) PROVE GoroutineOK(e)'
  <2>1. \A h \in Executors \ {g} : worker'[h] = worker[h]
    <3>1. \E r : worker' = [worker EXCEPT ![g] = r]
      BY <1>3, Zenon DEF ClaimJob, Queue!Claim
    <3>2. QED
      BY <3>1, JobsTyped
  <2>2. worker[g].job = NoValue
    <3>1. worker[g] = [job |-> NoValue, attempts |-> 0]
      BY <1>3, Zenon DEF ClaimJob, Queue!Claim, Queue!Free
    <3>2. QED
      BY <3>1
  <2>3. exec[g].pc = "idle" /\ answer[g] # "OK"
    <3>1. GoroutineOK(g) /\ (exec[g].pc # "idle" => exec[g].case \in Cases)
      BY Owned DEF JobsInv
    <3>2. QED
      BY <2>2, <3>1, JobsTyped, Zenon DEF GoroutineOK
  <2>4. CASE e = g
    BY <1>1, <2>3, <2>4, GoroutineRests, SMTT(30)
  <2>5. CASE e # g
    BY <1>1, <2>1, <2>5, JobsAreCases, GoroutineFrame, SMTT(30)
  <2>6. QED
    BY <2>4, <2>5, SMTT(30)
<1>4. QED
  BY <1>2, <1>3, SMTT(30)

\* The handler, from its call to its return.
LEMMA GoroutineHandles ==
  ASSUME JobsInv, [JobsNext]_jobVars, NEW e \in Executors, NEW g \in Executors,
         RunHandler(g) \/ PoolFull(g) \/ HandlerStep(g) \/ HandlerError(g)
  PROVE  GoroutineOK(e)'
<1>1. /\ OffInv /\ GoroutineOK(g) /\ answer \in [Executors -> Answer]
      /\ exec \in [Executors -> Exec] /\ Idle.pc = "idle"
  BY DEF JobsInv, OffInv, TypeOK, Idle
<1>2. worker' = worker
  BY Zenon DEF RunHandler, PoolFull, HandlerStep, HandlerError
<1>3. \A h \in Executors \ {g} : answer'[h] = answer[h]
  <2>1. \E v : answer' \in {answer, [answer EXCEPT ![g] = v]}
    BY Zenon DEF RunHandler, PoolFull, HandlerStep, HandlerError
  <2>2. QED
    BY <1>1, <2>1
<1>4. \A h \in Executors \ {g} : exec'[h] = exec[h]
  <2>1. CASE RunHandler(g) \/ PoolFull(g)
    <3>1. \E r : exec' \in {exec, [exec EXCEPT ![g] = r]}
      BY <2>1, Zenon DEF RunHandler, PoolFull, BeginExecution, vars, offVars
    <3>2. QED
      BY <1>1, <3>1
  <2>2. CASE HandlerStep(g)
    BY <1>1, <2>2, ExecutionMoves, Zenon DEF HandlerStep
  <2>3. CASE HandlerError(g)
    BY <1>1, <2>3, SMTT(30) DEF HandlerError, StopExecution, FinishCase
  <2>4. QED
    BY <2>1, <2>2, <2>3, SMTT(30)
<1>5. CASE e # g
  BY <1>2, <1>3, <1>4, <1>5, JobsAreCases, GoroutineFrame, SMTT(30)
<1>6. ASSUME RunHandler(g) \/ PoolFull(g) PROVE GoroutineOK(g)'
  <2>1. PICK c \in Cases : c = worker[g].job
    BY <1>6, JobsTyped, SMTT(30) DEF RunHandler, PoolFull
  <2>2. CASE BeginExecution(g, c) /\ UNCHANGED answer /\ answer[g] = "NONE"
    <3>1. exec'[g] = [Idle EXCEPT !.pc = "load", !.case = c]
      BY <1>1, <2>2, Zenon DEF BeginExecution
    <3>2. exec'[g].case = c
      BY <3>1, Zenon DEF Idle
    <3>3. QED
      BY <1>2, <2>1, <2>2, <3>2, SMTT(30) DEF GoroutineOK
  <2>3. CASE /\ answer' = [answer EXCEPT ![g] = "ERROR"] /\ exec' = exec
             /\ exec[g].pc = "idle"
    BY <1>1, <2>3, GoroutineRests, ZenonT(60)
  <2>4. QED
    BY <1>6, <2>1, <2>2, <2>3, ZenonT(60) DEF RunHandler, PoolFull, vars, offVars
<1>7. ASSUME HandlerStep(g) PROVE GoroutineOK(g)'
  <2>1. exec[g].pc # "idle" /\ worker[g].job = exec[g].case /\ answer[g] = "NONE"
    BY <1>1, <1>7, ExecutionMoves, ZenonT(60) DEF HandlerStep, GoroutineOK
  <2>2. CASE exec'[g].pc # "idle" /\ exec'[g].case = exec[g].case
    <3>1. answer' = answer
      BY <1>7, <2>2, SMTT(30) DEF HandlerStep
    <3>2. QED
      BY <1>2, <2>1, <2>2, <3>1, SMTT(30) DEF GoroutineOK
  <2>3. CASE FinishCase(g)
    <3>1. /\ exec'[g] = Idle /\ exec[g].case \in Cases
          /\ case'[exec[g].case].status \in Finished
      BY <1>1, <2>3, FinishEnds, SMTT(30)
    <3>2. QED
      BY <1>1, <1>2, <2>1, <3>1, SMTT(30) DEF GoroutineOK
  <2>4. QED
    BY <1>1, <1>7, <2>2, <2>3, ExecutionMoves, SMTT(30) DEF HandlerStep
<1>8. ASSUME HandlerError(g) PROVE GoroutineOK(g)'
  <2>1. exec'[g] = Idle /\ answer'[g] = "ERROR"
    BY <1>1, <1>8 DEF HandlerError, StopExecution, FinishCase
  <2>2. QED
    BY <1>1, <2>1, GoroutineRests, Zenon
<1>9. QED
  BY <1>5, <1>6, <1>7, <1>8, SMTT(30)

\* The end of execute, heartbeats and crashes.
LEMMA GoroutineSettles ==
  ASSUME JobsInv, [JobsNext]_jobVars, NEW e \in Executors,
         \/ \E g \in Executors : SettleJob(g) \/ LoseAnswer(g) \/ RenewLease(g)
         \/ \E w \in WorkerIds : CrashProcess(w)
  PROVE  GoroutineOK(e)'
<1>1. /\ \A g \in Executors : GoroutineOK(g)
      /\ answer \in [Executors -> Answer]
      /\ Idle.pc = "idle"
  BY DEF JobsInv, Idle
<1>2. ASSUME NEW g \in Executors, SettleJob(g) \/ LoseAnswer(g) PROVE GoroutineOK(e)'
  <2>1. exec' = exec /\ answer' = [answer EXCEPT ![g] = "NONE"] /\ answer[g] # "NONE"
    BY <1>2, Zenon DEF SettleJob, LoseAnswer, vars, offVars
  <2>2. exec[g].pc = "idle"
    BY <1>1, <2>1, SMTT(30) DEF GoroutineOK
  <2>3. \A h \in Executors \ {g} : worker'[h] = worker[h]
    <3>1. worker' = [worker EXCEPT ![g] = Queue!Free]
      BY <1>2, Zenon DEF SettleJob, LoseAnswer, Queue!Succeed, Queue!Fail, Queue!Settle,
         Queue!LoseOutcome
    <3>2. QED
      BY <3>1, JobsTyped
  <2>4. CASE e = g
    BY <1>1, <2>1, <2>2, <2>4, GoroutineRests, SMTT(30)
  <2>5. CASE e # g
    BY <1>1, <2>1, <2>3, <2>5, JobsAreCases, GoroutineFrame, SMTT(30)
  <2>6. QED
    BY <2>4, <2>5
<1>3. ASSUME NEW g \in Executors, RenewLease(g) PROVE GoroutineOK(e)'
  <2>1. UNCHANGED <<worker, exec, answer>>
    BY <1>3, Zenon DEF RenewLease, Queue!Heartbeat, vars, offVars
  <2>2. QED
    BY <2>1, JobsAreCases, GoroutineFrame, SMTT(30)
<1>4. ASSUME NEW w \in WorkerIds, CrashProcess(w) PROVE GoroutineOK(e)'
  <2>1. CASE WorkerId[e] = w
    <3>1. exec'[e] = Idle /\ answer'[e] = "NONE"
      BY <1>4, <2>1, Zenon DEF CrashProcess
    <3>2. QED
      BY <1>1, <3>1, GoroutineRests, SMTT(30)
  <2>2. CASE WorkerId[e] # w
    <3>1. exec'[e] = exec[e] /\ answer'[e] = answer[e] /\ worker'[e] = worker[e]
      BY <1>4, <2>2, Zenon DEF CrashProcess, Queue!Crash
    <3>2. QED
      BY <3>1, JobsAreCases, GoroutineFrame
  <2>3. QED
    BY <2>1, <2>2, SMTT(30)
<1>5. QED
  BY <1>2, <1>3, <1>4, Zenon

\* Every step keeps what is known of a goroutine.
LEMMA GoroutinesKeep ==
  ASSUME JobsInv, [JobsNext]_jobVars, NEW e \in Executors
  PROVE  GoroutineOK(e)'
<1>1. CASE /\ (RecNext /\ UNCHANGED offVars) \/ \E c \in Cases : CaseHandler(c)
           /\ UNCHANGED <<job, worker, faults, answer>>
  <2>1. exec' = exec
    BY <1>1, Zenon DEF offVars, CaseHandler, CreateCase, PlanCase, ApproveCase, CancelCase,
       SkipActions
  <2>2. UNCHANGED <<worker, answer>>
    BY <1>1, Zenon
  <2>3. QED
    BY <2>1, <2>2, JobsAreCases, GoroutineFrame, SMTT(30)
<1>2. CASE UNCHANGED jobVars
  <2>1. UNCHANGED <<worker, exec, answer>>
    BY <1>2, Zenon DEF jobVars, vars, offVars
  <2>2. QED
    BY <2>1, JobsAreCases, GoroutineFrame, SMTT(30)
<1>3. CASE JobsNext
  BY <1>1, <1>3, GoroutineClaims, GoroutineHandles, GoroutineSettles, Zenon DEF JobsNext
<1>4. QED
  BY <1>2, <1>3, SMTT(30)

\* What the handlers have returned keeps its type.
LEMMA AnswersTyped ==
  ASSUME JobsInv, [JobsNext]_jobVars
  PROVE  answer' \in [Executors -> Answer]
<1>1. answer \in [Executors -> Answer] /\ {"NONE", "OK", "ERROR"} \subseteq Answer
  BY DEF JobsInv, Answer
<1>2. \/ answer' = answer
      \/ \E e \in Executors, v \in {"NONE", "OK", "ERROR"} : answer' = [answer EXCEPT ![e] = v]
      \/ \E w \in WorkerIds :
           answer' = [e \in Executors |-> IF WorkerId[e] = w THEN "NONE" ELSE answer[e]]
  <2>1. CASE JobsNext
    BY <2>1, Zenon DEF JobsNext, RequestExecution, QueueTime, ClaimJob, RunHandler, PoolFull,
       HandlerStep, HandlerError, SettleJob, LoseAnswer, RenewLease, CrashProcess
  <2>2. CASE UNCHANGED jobVars
    BY <2>2, Zenon DEF jobVars
  <2>3. QED
    BY <2>1, <2>2, SMTT(30)
<1>3. QED
  BY <1>1, <1>2, SMTT(30)

-----------------------------------------------------------------------------
(* Cases that nobody goes on with. *)

\* A case that is RUNNING or VERIFYING has an executor.
HalfExecutedHasExecutor ==
    \A c \in Cases : case[c].status \in {"RUNNING", "VERIFYING"} =>
      \E e \in Executors : exec[e].case = c

\* ... unless there was a fault.
OnlyFaultsStrand == faults = 0 => HalfExecutedHasExecutor

\* An executor that goes on keeps its case.
LEMMA WitnessStays ==
  ASSUME HalfExecutedHasExecutor, NEW c \in Cases,
         case'[c].status \in {"RUNNING", "VERIFYING"} =>
           case[c].status \in {"RUNNING", "VERIFYING"},
         \A e \in Executors : exec[e].case = c => exec'[e].case = c,
         case'[c].status \in {"RUNNING", "VERIFYING"}
  PROVE  \E e \in Executors : exec'[e].case = c
BY DEF HalfExecutedHasExecutor

\* Without a fault no case is left by its executor before it ends.
LEMMA HalfExecutedStep ==
  ASSUME JobsInv, JobsInv', [JobsNext]_jobVars, OnlyFaultsStrand
  PROVE  OnlyFaultsStrand'
<1> DEFINE Half == {"RUNNING", "VERIFYING"}
<1> SUFFICES ASSUME faults' = 0, NEW c \in Cases, case'[c].status \in Half
             PROVE  \E e \in Executors : exec'[e].case = c
  BY SMTT(30) DEF OnlyFaultsStrand, HalfExecutedHasExecutor
<1>1. /\ OffInv /\ exec \in [Executors -> Exec] /\ case \in [Cases -> Case]
      /\ faults \in Nat /\ NoValue \notin Cases
  BY JobsConstants, OffboardingConstants, SMTT(30)
     DEF JobsInv, OffInv, TypeOK, QueueSound, Queue!QueueTypeOK
<1>2. ~\E w \in WorkerIds : CrashProcess(w)
  BY <1>1 DEF CrashProcess, Queue!Crash
<1>3. ~\E e \in Executors : HandlerError(e)
  BY <1>1 DEF HandlerError
<1>4. faults = 0
  <2>1. CASE faults' = faults
    BY <2>1
  <2>2. ASSUME faults' = faults + 1 PROVE FALSE
    BY <1>1, <2>2, SMTT(30)
  <2>3. faults' = faults \/ faults' = faults + 1
    BY <1>2, <1>3, Zenon DEF JobsNext, jobVars, RequestExecution, QueueTime, ClaimJob,
       RunHandler, PoolFull, HandlerStep, SettleJob, LoseAnswer, RenewLease,
       Queue!Enqueue, Queue!BackoffEnds, Queue!LeaseEnds, Queue!LoseLease, Queue!Claim,
       Queue!Succeed, Queue!Fail, Queue!Settle, Queue!LoseOutcome, Queue!Heartbeat
  <2>4. QED
    BY <2>1, <2>2, <2>3, SMTT(30)
<1>5. HalfExecutedHasExecutor
  BY <1>4, SMTT(30) DEF OnlyFaultsStrand
<1>6. CASE UNCHANGED <<case, exec>>
  BY <1>5, <1>6, WitnessStays, SMTT(30)
<1>7. ASSUME NEW d \in Cases, CaseHandler(d)
      PROVE  \E e \in Executors : exec'[e].case = c
  <2>1. exec' = exec
    BY <1>7, Zenon DEF CaseHandler, CreateCase, PlanCase, ApproveCase, CancelCase, SkipActions
  <2>2. c = d => \/ case'[c] = case[c]
                 \/ case'[c].status \in {"DRAFT", "AWAITING_APPROVAL", "APPROVED", "CANCELLED"}
    <3>1. \/ case' = case
          \/ \E s \in {"AWAITING_APPROVAL", "APPROVED", "CANCELLED"} :
               case' = [case EXCEPT ![d].status = s]
          \/ \E p \in People :
               case' = [case EXCEPT ![d] = [@ EXCEPT !.status = "DRAFT", !.person = p]]
      BY <1>7, Zenon DEF CaseHandler, CreateCase, PlanCase, ApproveCase, CancelCase, SkipActions
    <3>2. QED
      BY <1>1, <3>1, ZenonT(60) DEF Case
  <2>3. c # d => case'[c] = case[c]
    BY <1>1, <1>7, Zenon DEF CaseHandler, CreateCase, PlanCase, ApproveCase, CancelCase,
       SkipActions
  <2>4. case'[c] = case[c]
    BY <2>2, <2>3, SMTT(30)
  <2>5. QED
    BY <1>5, <2>1, <2>4, WitnessStays, SMTT(30)
<1>8. ASSUME NEW e \in Executors, NEW d \in Cases, BeginExecution(e, d)
      PROVE  \E f \in Executors : exec'[f].case = c
  <2>1. exec' = [exec EXCEPT ![e] = [Idle EXCEPT !.pc = "load", !.case = d]]
    BY <1>8, Zenon DEF BeginExecution
  <2>2. exec'[e].case = d /\ \A f \in Executors \ {e} : exec'[f] = exec[f]
    BY <1>1, <2>1, Zenon DEF Idle
  <2>3. exec[e].case = NoValue
    BY <1>8, Zenon DEF BeginExecution, JobsInv, OffInv, ExecOK
  <2>4. c # d => case'[c] = case[c]
    BY <1>1, <1>8, Zenon DEF BeginExecution
  <2>5. QED
    BY <1>1, <1>5, <2>2, <2>3, <2>4, SMTT(30) DEF HalfExecutedHasExecutor
<1>9. ASSUME NEW e \in Executors, ExecutionStep(e)
      PROVE  \E f \in Executors : exec'[f].case = c
  <2>1. CASE c # exec[e].case
    <3>1. case'[c] = case[c]
      BY <1>1, <1>9, <2>1, OnlyItsCase, SMTT(30)
    <3>2. \A f \in Executors : exec[f].case = c => exec'[f].case = c
      BY <1>1, <1>9, <2>1, ExecutionMoves, SMTT(30)
    <3>3. QED
      BY <1>5, <3>1, <3>2, WitnessStays, SMTT(30)
  <2>2. CASE c = exec[e].case
    <3>1. ~FinishCase(e)
      BY <1>1, <2>2, FinishEnds, SMTT(30) DEF Finished
    <3>2. QED
      BY <1>1, <1>9, <2>2, <3>1, ExecutionMoves, SMTT(30)
  <2>3. QED
    BY <2>1, <2>2, SMTT(30)
<1>10. ASSUME NEW e \in Executors, RunHandler(e)
       PROVE  \E f \in Executors : exec'[f].case = c
  <2>1. worker[e].job \in Cases
    BY <1>10, JobsTyped, SMTT(30) DEF RunHandler
  <2>2. UNCHANGED vars \/ BeginExecution(e, worker[e].job)
    BY <1>10, Zenon DEF RunHandler
  <2>3. QED
    BY <1>6, <1>8, <2>1, <2>2, Zenon DEF vars, offVars
<1>11. \/ UNCHANGED <<case, exec>>
       \/ \E d \in Cases : CaseHandler(d)
       \/ \E e \in Executors : RunHandler(e) \/ ExecutionStep(e)
  BY <1>2, <1>3, ZenonT(60) DEF JobsNext, jobVars, vars, offVars, RequestExecution, QueueTime,
     ClaimJob, PoolFull, HandlerStep, SettleJob, LoseAnswer, RenewLease
<1>12. QED
  BY <1>6, <1>7, <1>9, <1>10, <1>11, Zenon

-----------------------------------------------------------------------------
(* The invariant, with what is proved of the queue on its own. *)
QueueFacts == INSTANCE DistributedQueueProofs
                WITH Jobs <- Cases, Goroutines <- Executors, NoOwner <- NoValue

\* The same invariant, in the terms of the proofs of the queue.
LEMMA QueueAsProved ==
  (QueueSound <=> QueueFacts!QueueInv) /\ (QueueSound' <=> QueueFacts!QueueInv')
BY Zenon DEF QueueSound, Queue!QueueTypeOK, Queue!JobRow, Queue!Worker,
   Queue!OwnedIffRunning, Queue!DeadIsExhausted, QueueFacts!QueueInv,
   QueueFacts!QueueTypeOK, QueueFacts!JobRow, QueueFacts!Worker,
   QueueFacts!OwnedIffRunning, QueueFacts!DeadIsExhausted, QueueFacts!ClaimsAreOld

\* A step is one of the queue, or a statement of the handler fails.
LEMMA StepsOfQueue ==
  ASSUME JobsInv, [JobsNext]_jobVars
  PROVE  \/ [QueueFacts!QueueNext]_(QueueFacts!queueVars)
         \/ UNCHANGED <<job, worker>> /\ faults' = faults + 1 /\ faults' \in 0 .. MaxFaults
<1>1. ASSUME QueueFacts!QueueNext \/ UNCHANGED <<job, worker, faults>>
      PROVE  [QueueFacts!QueueNext]_(QueueFacts!queueVars)
  BY <1>1, Zenon DEF QueueFacts!queueVars
<1>2. ASSUME NEW e \in Executors, HandlerError(e)
      PROVE  UNCHANGED <<job, worker>> /\ faults' = faults + 1 /\ faults' \in 0 .. MaxFaults
  <2>1. UNCHANGED <<job, worker>> /\ faults' = faults + 1 /\ faults < MaxFaults
    BY <1>2, Zenon DEF HandlerError
  <2>2. faults' \in 0 .. MaxFaults
    BY <2>1, JobsConstants, JobsTyped, SMTT(30) DEF Queue!QueueTypeOK
  <2>3. QED
    BY <2>1, <2>2, SMTT(30)
<1>3. ASSUME NEW c \in Cases, \/ RequestExecution(c) \/ QueueTime(c)
                              \/ \E e \in Executors : ClaimJob(e, c)
      PROVE  QueueFacts!QueueNext
  BY <1>3, Zenon DEF RequestExecution, QueueTime, ClaimJob, QueueFacts!QueueNext,
     Queue!Enqueue, Queue!BackoffEnds, Queue!LeaseEnds, Queue!LoseLease, Queue!Claim,
     QueueFacts!Enqueue, QueueFacts!BackoffEnds, QueueFacts!LeaseEnds, QueueFacts!LoseLease,
     QueueFacts!Claim, Queue!Attended, QueueFacts!Attended, Queue!Claimable,
     QueueFacts!Claimable, Queue!Free, QueueFacts!Free
<1>4. ASSUME NEW e \in Executors, SettleJob(e) \/ LoseAnswer(e) \/ RenewLease(e)
      PROVE  QueueFacts!QueueNext
  BY <1>4, Zenon DEF SettleJob, LoseAnswer, RenewLease, QueueFacts!QueueNext,
     Queue!Succeed, Queue!Fail, Queue!Settle, Queue!LoseOutcome, Queue!Heartbeat, Queue!Free,
     QueueFacts!Succeed, QueueFacts!Fail, QueueFacts!Settle, QueueFacts!LoseOutcome,
     QueueFacts!Heartbeat, QueueFacts!Free
<1>5. ASSUME NEW w \in WorkerIds, CrashProcess(w) PROVE QueueFacts!QueueNext
  BY <1>5, Zenon DEF CrashProcess, Queue!Crash, QueueFacts!Crash, Queue!Free,
     QueueFacts!Free, QueueFacts!QueueNext
<1>6. ASSUME NEW e \in Executors, RunHandler(e) \/ PoolFull(e) \/ HandlerStep(e)
      PROVE  UNCHANGED <<job, worker, faults>>
  BY <1>6, Zenon DEF RunHandler, PoolFull, HandlerStep
<1>7. CASE UNCHANGED jobVars
  BY <1>1, <1>7, Zenon DEF jobVars
<1>8. CASE JobsNext
  BY <1>1, <1>2, <1>3, <1>4, <1>5, <1>6, <1>8, Zenon DEF JobsNext
<1>9. QED
  BY <1>7, <1>8, SMTT(30)

\* Either keeps the invariant of the queue.
LEMMA JobsAreQueued ==
  ASSUME JobsInv, [JobsNext]_jobVars
  PROVE  QueueSound'
<1>1. QueueFacts!QueueInv /\ NoValue \notin WorkerIds \cup Cases
  BY JobsConstants, OffboardingConstants, QueueAsProved, SMTT(30) DEF JobsInv
<1>2. CASE [QueueFacts!QueueNext]_(QueueFacts!queueVars)
  BY <1>1, <1>2, JobsConstants, QueueAsProved, QueueFacts!QueueInvStep, SMTT(30)
<1>3. CASE UNCHANGED <<job, worker>> /\ faults' \in 0 .. MaxFaults
  BY <1>1, <1>3, JobsConstants, QueueAsProved, QueueFacts!OtherFaultKeepsInv, SMTT(30)
<1>4. QED
  BY <1>2, <1>3, StepsOfQueue, Zenon

\* A job succeeds when its handler has: the case has ended, and stays so.
LEMMA SuccessKeeps ==
  ASSUME JobsInv, [JobsNext]_jobVars
  PROVE  SucceededJobEndedCase'
<1> SUFFICES ASSUME NEW c \in Cases, job'[c].status = "SUCCEEDED"
             PROVE  case'[c].status \in Finished
  BY DEF SucceededJobEndedCase, Finished
<1>1. case[c].status \in Finished => case'[c].status \in Finished
  BY JobsAreCases, SMTT(30)
<1>2. QueueFacts!QueueTypeOK
  BY QueueAsProved, SMTT(30) DEF JobsInv, QueueFacts!QueueInv
<1>3. CASE job[c].status = "SUCCEEDED"
  BY <1>1, <1>3, SMTT(30) DEF JobsInv, SucceededJobEndedCase, Finished
<1>4. ASSUME NEW e \in Executors, SettleJob(e), job[c].status # "SUCCEEDED"
      PROVE  case[c].status \in Finished
  <2>1. QueueFacts!Succeed(e) \/ QueueFacts!Fail(e)
    BY <1>4, ZenonT(60) DEF SettleJob, Queue!Succeed, Queue!Fail, Queue!Settle, Queue!Free,
       QueueFacts!Succeed, QueueFacts!Fail, QueueFacts!Settle, QueueFacts!Free
  <2>2. worker[e].job = c
    BY <1>2, <1>4, <2>1, JobsConstants, JobsTyped, QueueFacts!SettlesOne, SMTT(30)
  <2>3. CASE answer[e] = "OK"
    <3>1. GoroutineOK(e)
      BY SMTT(30) DEF JobsInv
    <3>2. QED
      BY <2>2, <2>3, <3>1, Zenon DEF GoroutineOK
  <2>4. CASE answer[e] # "OK"
    <3>1. QueueFacts!Fail(e)
      BY <1>4, <2>4, Zenon DEF SettleJob, Queue!Fail, Queue!Settle, Queue!Free,
         QueueFacts!Fail, QueueFacts!Settle, QueueFacts!Free
    <3>2. QED
      BY <1>2, <1>4, <3>1, JobsConstants, JobsTyped, QueueFacts!OnlySuccessSucceeds, SMTT(30)
  <2>5. QED
    BY <2>3, <2>4, SMTT(30)
<1>5. ASSUME NEW d \in Cases, \/ RequestExecution(d) \/ QueueTime(d)
                              \/ \E e \in Executors : ClaimJob(e, d)
      PROVE  job[c].status = "SUCCEEDED"
  <2>1. \/ QueueFacts!Enqueue(d) \/ QueueFacts!BackoffEnds(d) \/ QueueFacts!LeaseEnds(d)
        \/ QueueFacts!LoseLease(d) \/ \E e \in Executors : QueueFacts!Claim(e, d)
    BY <1>5, ZenonT(60) DEF RequestExecution, QueueTime, ClaimJob,
       Queue!Enqueue, Queue!BackoffEnds, Queue!LeaseEnds, Queue!LoseLease, Queue!Claim,
       QueueFacts!Enqueue, QueueFacts!BackoffEnds, QueueFacts!LeaseEnds,
       QueueFacts!LoseLease, QueueFacts!Claim, Queue!Attended, QueueFacts!Attended,
       Queue!Claimable, QueueFacts!Claimable, Queue!Free, QueueFacts!Free
  <2>2. QED
    BY <1>2, <2>1, JobsConstants, JobsTyped, QueueFacts!OnlySuccessSucceeds, SMTT(30)
<1>6. ASSUME NEW e \in Executors, RenewLease(e) PROVE job[c].status = "SUCCEEDED"
  <2>1. QueueFacts!Heartbeat(e)
    BY <1>6, Zenon DEF RenewLease, Queue!Heartbeat, QueueFacts!Heartbeat
  <2>2. QED
    BY <1>2, <2>1, JobsConstants, JobsTyped, QueueFacts!OnlySuccessSucceeds, SMTT(30)
<1>7. CASE job' = job
  BY <1>3, <1>7, SMTT(30)
<1>8. ASSUME JobsNext, ~\E e \in Executors : SettleJob(e) \/ RenewLease(e),
             ~\E d \in Cases : RequestExecution(d) \/ QueueTime(d),
             ~\E e \in Executors, d \in Cases : ClaimJob(e, d)
      PROVE  job' = job
  BY <1>8, Zenon DEF JobsNext, RunHandler, PoolFull, HandlerStep, HandlerError, LoseAnswer,
     CrashProcess, Queue!LoseOutcome, Queue!Crash
<1>9. CASE JobsNext
  BY <1>1, <1>3, <1>4, <1>5, <1>6, <1>7, <1>8, <1>9, Zenon
<1>10. CASE UNCHANGED jobVars
  BY <1>7, <1>10, Zenon DEF jobVars
<1>11. QED
  BY <1>9, <1>10, SMTT(30)

\* The inductive invariant holds in every behaviour.
LEMMA JobsInvHolds == JobsSpec => []JobsInv
<1>1. JobsInit => JobsInv
  <2> SUFFICES ASSUME JobsInit PROVE JobsInv
    OBVIOUS
  <2>1. OffInv
    BY OffInvInit, SMTT(30) DEF JobsInit
  <2>2. QueueFacts!QueueInit
    BY Zenon DEF JobsInit, Queue!QueueInit, Queue!NoJob, Queue!Free, QueueFacts!QueueInit,
       QueueFacts!NoJob, QueueFacts!Free
  <2>3. QueueSound
    BY <2>2, JobsConstants, OffboardingConstants, QueueAsProved, QueueFacts!QueueInvInit, SMTT(30)
  <2>4. answer \in [Executors -> Answer] /\ \A e \in Executors : answer[e] = "NONE"
    BY SMTT(30) DEF JobsInit, Answer
  <2>5. \A e \in Executors : exec[e].pc = "idle"
    BY SMTT(30) DEF JobsInit, Init, OffInit, Idle
  <2>6. SucceededJobEndedCase
    BY <2>2, SMTT(30) DEF QueueFacts!QueueInit, QueueFacts!NoJob, SucceededJobEndedCase
  <2>7. QED
    BY <2>1, <2>3, <2>4, <2>5, <2>6, SMTT(30) DEF JobsInv, GoroutineOK
<1>2. JobsInv /\ [JobsNext]_jobVars => JobsInv'
  BY JobsAreCases, JobsAreQueued, GoroutinesKeep, SuccessKeeps, AnswersTyped, Zenon DEF JobsInv
<1>3. QED
  BY <1>1, <1>2, PTL DEF JobsSpec

\* Offboarding and the queue keep their types together.
THEOREM JobsTypeCorrect == JobsSpec => []JobsTypeOK
<1>1. JobsInv => JobsTypeOK
  <2> SUFFICES ASSUME JobsInv PROVE JobsTypeOK
    OBVIOUS
  <2>1. Queue!QueueTypeOK
    BY JobsTyped, SMTT(30)
  <2>2. QED
    BY <2>1, SMTT(30) DEF JobsInv, OffInv, JobsTypeOK
<1>2. QED
  BY <1>1, JobsInvHolds, PTL

\* A job that SUCCEEDED has ended its case, for any schedule of claims,
\* reclaims and late updates (DistributedQueue.execute, ExecuteAndVerify).
THEOREM SucceededJobsEndCases == JobsSpec => []SucceededJobEndedCase
<1>1. JobsInv => SucceededJobEndedCase
  BY SMTT(30) DEF JobsInv
<1>2. QED
  BY <1>1, JobsInvHolds, PTL

\* However often a job is delivered, and to however many processes at once, an
\* action of its case runs at most once, by one executor that has the job.
THEOREM RedeliveriesAreHarmless == JobsSpec => []RedeliveryIsHarmless
<1>1. JobsInv => RedeliveryIsHarmless
  <2> SUFFICES ASSUME JobsInv PROVE RedeliveryIsHarmless
    OBVIOUS
  <2>1. ExecutorOwnsCase /\ ActionsRunOnceApproved
    BY OffInvImplies, SMTT(30) DEF JobsInv
  <2>2. \A e \in Executors : exec[e].pc # "idle" => worker[e].job = exec[e].case
    BY DEF JobsInv, GoroutineOK
  <2>3. QED
    BY <2>1, <2>2, Zenon DEF RedeliveryIsHarmless
<1>2. QED
  BY <1>1, JobsInvHolds, PTL

\* What offboarding guarantees of writes and verdicts, it guarantees when jobs
\* execute the cases: deliveries twice or late, and processes that stop with all
\* their goroutines, included.
THEOREM JobsKeepVerdicts ==
  JobsSpec => [](WritesAreApproved /\ FinishedIsAccountedFor /\ VerifiedHasNoDoubt)
<1>1. JobsInv => WritesAreApproved /\ FinishedIsAccountedFor /\ VerifiedHasNoDoubt
  BY OffInvImplies, SMTT(30) DEF JobsInv
<1>2. QED
  BY <1>1, JobsInvHolds, PTL

\* Cases that jobs execute follow the lifecycle of the domain package, too.
THEOREM JobsFollowLifecycle == JobsSpec => FollowsLifecycle
<1>1. JobsInit => Lifecycle!LifecycleInit
  BY StartFollows, SMTT(30) DEF JobsInit
<1>2. ASSUME JobsInv, [JobsNext]_jobVars
      PROVE  [Lifecycle!LifecycleNext]_StatusOf
  <2>1. CASE [Next]_vars
    BY <1>2, <2>1, StepFollows, SMTT(30) DEF JobsInv
  <2>2. ASSUME NEW w \in WorkerIds, CrashProcess(w) PROVE UNCHANGED StatusOf
    BY <2>2, Zenon DEF CrashProcess, StatusOf
  <2>3. QED
    BY <1>2, <2>1, <2>2, StepsOfCases, Zenon
<1>3. QED
  BY <1>1, <1>2, JobsInvHolds, PTL
     DEF JobsSpec, FollowsLifecycle, Lifecycle!LifecycleSpec, StatusOf

-----------------------------------------------------------------------------
(* What the queue guarantees, of jobs whose handlers execute cases. *)

\* The jobs stay within their budgets; a statement of a handler that fails is a
\* fault like the others.
LEMMA JobsBudgetHolds == JobsSpec => []QueueFacts!InBudget
<1>1. JobsInit => QueueFacts!InBudget
  <2>1. JobsInit => QueueFacts!QueueInit
    BY Zenon DEF JobsInit, Queue!QueueInit, Queue!NoJob, Queue!Free, QueueFacts!QueueInit,
       QueueFacts!NoJob, QueueFacts!Free
  <2>2. QED
    BY <2>1, JobsConstants, OffboardingConstants, QueueFacts!BudgetInit, SMTT(30)
<1>2. ASSUME JobsInv, JobsInv', QueueFacts!InBudget, [JobsNext]_jobVars
      PROVE  QueueFacts!InBudget'
  <2>1. /\ QueueFacts!QueueInv /\ QueueFacts!QueueInv'
        /\ NoValue \notin WorkerIds \cup Cases
    BY <1>2, JobsConstants, OffboardingConstants, QueueAsProved, SMTT(30) DEF JobsInv
  <2>2. CASE [QueueFacts!QueueNext]_(QueueFacts!queueVars)
    BY <1>2, <2>1, <2>2, JobsConstants, QueueFacts!BudgetStep, SMTT(30)
  <2>3. CASE UNCHANGED <<job, worker>> /\ faults' = faults + 1
    <3>1. faults' >= faults
      BY <2>1, <2>3, SMTT(30) DEF QueueFacts!QueueInv, QueueFacts!QueueTypeOK
    <3>2. QED
      BY <1>2, <2>1, <2>3, <3>1, JobsConstants, QueueFacts!OtherFaultKeepsBudget, SMTT(30)
  <2>4. QED
    BY <1>2, <2>2, <2>3, StepsOfQueue, Zenon
<1>3. QED
  BY <1>1, <1>2, JobsInvHolds, PTL DEF JobsSpec

\* What the queue guarantees of owners, of DEAD jobs and of the number of
\* attempts, it guarantees of the jobs that execute cases: a failed statement of
\* ExecuteAndVerify costs no more than another fault.
THEOREM JobsKeepQueue ==
  JobsSpec => [](Queue!OwnedIffRunning /\ Queue!DeadIsExhausted /\ Queue!AttemptsBounded)
<1>1. ASSUME JobsInv, QueueFacts!InBudget
      PROVE  Queue!OwnedIffRunning /\ Queue!DeadIsExhausted /\ Queue!AttemptsBounded
  <2>1. QueueFacts!QueueInv /\ NoValue \notin WorkerIds \cup Cases
    BY <1>1, JobsConstants, OffboardingConstants, QueueAsProved, SMTT(30) DEF JobsInv
  <2>2. QueueFacts!AttemptsBounded
    BY <1>1, <2>1, JobsConstants, QueueFacts!BudgetBounds, SMTT(30)
  <2>3. QED
    BY <1>1, <2>2, Zenon DEF JobsInv, QueueSound, QueueFacts!AttemptsBounded,
       Queue!AttemptsBounded
<1>2. QED
  BY <1>1, JobsInvHolds, JobsBudgetHolds, PTL

\* A job that has SUCCEEDED or is DEAD is never touched again, whichever
\* goroutines still execute its case.
THEOREM JobsSettleOnce == JobsSpec => Queue!SettledIsFinal
<1>1. ASSUME JobsInv, [JobsNext]_jobVars
      PROVE  [\A j \in Cases : job[j].status \in {"SUCCEEDED", "DEAD"} =>
                job'[j] = job[j]]_<<job, worker, faults>>
  <2>1. QueueFacts!QueueInv /\ NoValue \notin WorkerIds \cup Cases
    BY <1>1, JobsConstants, OffboardingConstants, QueueAsProved, SMTT(30) DEF JobsInv
  <2>2. ASSUME NEW j \in Cases, job[j].status \in {"SUCCEEDED", "DEAD"}
        PROVE  job'[j] = job[j]
    <3>1. CASE [QueueFacts!QueueNext]_(QueueFacts!queueVars)
      BY <2>1, <2>2, <3>1, JobsConstants, QueueFacts!SettledStay, SMTT(30)
    <3>2. CASE job' = job
      BY <3>2, SMTT(30)
    <3>3. QED
      BY <1>1, <3>1, <3>2, StepsOfQueue, Zenon
  <2>3. QED
    BY <2>2, SMTT(30)
<1>2. QED
  BY <1>1, JobsInvHolds, PTL DEF JobsSpec, Queue!SettledIsFinal, Queue!queueVars

-----------------------------------------------------------------------------
\* As long as no process stops and no statement fails, a case that is RUNNING or
\* VERIFYING has an executor, and no job is DEAD while its case is half
\* executed: what docs/threat-model.md says of crashes holds without them.
THEOREM StrandingNeedsFault ==
  JobsSpec => [](faults = 0 => HalfExecutedHasExecutor /\ ReclaimedCasesAreVerified)
<1>1. JobsInit => OnlyFaultsStrand
  BY SMTT(30) DEF JobsInit, Init, OffInit, NoCase, OnlyFaultsStrand, HalfExecutedHasExecutor
<1>2. OnlyFaultsStrand =>
        (faults = 0 => HalfExecutedHasExecutor /\ ReclaimedCasesAreVerified)
  BY DEF OnlyFaultsStrand, HalfExecutedHasExecutor, ReclaimedCasesAreVerified
<1>3. QED
  BY <1>1, <1>2, HalfExecutedStep, JobsInvHolds, PTL DEF JobsSpec

-----------------------------------------------------------------------------
\* A case that has ended stays as it ended, and an approved plan as it is, also
\* when jobs execute it and processes stop.
THEOREM JobsKeepEndedCases == JobsSpec => EndedIsFinal
<1>1. ASSUME JobsInv, [JobsNext]_jobVars
      PROVE  [\A c \in Cases :
                /\ case[c].status \in Terminal => case'[c] = case[c]
                /\ case[c].status \in CaseStatus \ {"NONE", "DRAFT"} =>
                     \A a \in Accounts : action'[c][a].type = action[c][a].type]_vars
  <2>1. CASE [Next]_vars
    BY <1>1, <2>1, EndedStay, SMTT(30) DEF JobsInv
  <2>2. ASSUME NEW w \in WorkerIds, CrashProcess(w) PROVE UNCHANGED <<case, action>>
    BY <2>2, Zenon DEF CrashProcess
  <2>3. QED
    BY <1>1, <2>1, <2>2, StepsOfCases, SMTT(30)
<1>2. QED
  BY <1>1, JobsInvHolds, PTL DEF JobsSpec, EndedIsFinal
=============================================================================

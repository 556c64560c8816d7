------------------------ MODULE DistributedQueueProofs ------------------------
(* Safety of the job queue, for any number of jobs, goroutines and faults. *)
EXTENDS DistributedQueue, TLAPS

\* The row that Succeed or Fail writes, if it still has its owner.
LEMMA OutcomeRow ==
  ASSUME QueueTypeOK, NEW g \in Goroutines, Succeed(g) \/ Fail(g)
  PROVE  /\ worker[g].job \in Jobs
         /\ \E row \in JobRow :
              /\ Settle(g, row)
              /\ row.owner = NoOwner
              /\ row.attempts = job[worker[g].job].attempts
              /\ \/ row.status = "SUCCEEDED"
                 \/ row.status = IF worker[g].attempts >= MaxAttempts
                                 THEN "DEAD" ELSE "QUEUED"
<1>1. worker[g].job \in Jobs
  BY DEF Succeed, Fail, Settle, QueueTypeOK, Worker
<1>2. job[worker[g].job] \in JobRow
  BY <1>1 DEF QueueTypeOK
<1>3. CASE Succeed(g)
  <2> DEFINE row == [job[worker[g].job] EXCEPT !.status = "SUCCEEDED",
                       !.owner = NoOwner, !.expired = FALSE]
  <2>1. /\ row \in JobRow /\ row.owner = NoOwner /\ row.status = "SUCCEEDED"
        /\ row.attempts = job[worker[g].job].attempts
    BY <1>2, Zenon DEF JobRow
  <2>2. Settle(g, row)
    BY <1>3 DEF Succeed
  <2> HIDE DEF row
  <2>3. QED
    BY <1>1, <2>1, <2>2
<1>4. CASE Fail(g)
  <2> DEFINE row == [job[worker[g].job] EXCEPT
               !.status = IF worker[g].attempts >= MaxAttempts THEN "DEAD"
                                                               ELSE "QUEUED",
               !.available = FALSE, !.owner = NoOwner, !.expired = FALSE]
  <2>1. /\ row \in JobRow /\ row.owner = NoOwner
        /\ row.attempts = job[worker[g].job].attempts
        /\ row.status = IF worker[g].attempts >= MaxAttempts THEN "DEAD"
                                                             ELSE "QUEUED"
    BY <1>2, Zenon DEF JobRow
  <2>2. Settle(g, row)
    BY <1>4 DEF Fail
  <2> HIDE DEF row
  <2>3. QED
    BY <1>1, <2>1, <2>2
<1>5. QED
  BY <1>3, <1>4

\* The update at the end of execute keeps the types if the row has one.
LEMMA SettleTyped ==
  ASSUME QueueTypeOK, NEW g \in Goroutines, NEW row \in JobRow, Settle(g, row)
  PROVE  QueueTypeOK'
<1>1. worker[g].job \in Jobs
  BY DEF Settle, QueueTypeOK, Worker
<1>2. job' \in [Jobs -> JobRow]
  BY <1>1 DEF Settle, QueueTypeOK
<1>3. worker' \in [Goroutines -> Worker] /\ faults' = faults
  BY DEF Settle, QueueTypeOK, Worker, Free
<1>4. QED
  BY <1>2, <1>3 DEF QueueTypeOK

\* A row of which one column changes.
LEMMA ColumnUpdates ==
  ASSUME NEW x \in JobRow
  PROVE  /\ [x EXCEPT !.status = "QUEUED"] \in JobRow
         /\ [x EXCEPT !.available = TRUE] \in JobRow
         /\ [x EXCEPT !.expired = TRUE] \in JobRow
         /\ [x EXCEPT !.expired = FALSE] \in JobRow
<1>1. [x EXCEPT !.status = "QUEUED"] \in JobRow
  BY Zenon DEF JobRow
<1>2. [x EXCEPT !.available = TRUE] \in JobRow
  BY Zenon DEF JobRow
<1>3. [x EXCEPT !.expired = TRUE] \in JobRow
  BY Zenon DEF JobRow
<1>4. [x EXCEPT !.expired = FALSE] \in JobRow
  BY Zenon DEF JobRow
<1>5. QED
  BY <1>1, <1>2, <1>3, <1>4

\* A step that writes one row and nothing else.
LEMMA RowTyped ==
  ASSUME QueueTypeOK, NEW j \in Jobs, NEW row \in JobRow,
         job' = [job EXCEPT ![j] = row], UNCHANGED <<worker, faults>>
  PROVE  QueueTypeOK'
BY DEF QueueTypeOK

\* Every statement keeps the domains of the columns and local variables.
LEMMA QueueTypeStep == QueueTypeOK /\ [QueueNext]_queueVars => QueueTypeOK'
<1> SUFFICES ASSUME QueueTypeOK, [QueueNext]_queueVars PROVE QueueTypeOK'
  OBVIOUS
<1>1. ASSUME NEW j \in Jobs, Enqueue(j) PROVE QueueTypeOK'
  <2>1. PICK row \in JobRow : row = [job[j] EXCEPT !.status = "QUEUED"]
    BY ColumnUpdates, Zenon DEF QueueTypeOK
  <2>2. job' = [job EXCEPT ![j] = row] /\ UNCHANGED <<worker, faults>>
    BY <1>1, <2>1 DEF Enqueue
  <2>3. QED
    BY <2>2, RowTyped, Zenon
<1>2. ASSUME NEW j \in Jobs, BackoffEnds(j) PROVE QueueTypeOK'
  <2>1. PICK row \in JobRow : row = [job[j] EXCEPT !.available = TRUE]
    BY ColumnUpdates, Zenon DEF QueueTypeOK
  <2>2. job' = [job EXCEPT ![j] = row] /\ UNCHANGED <<worker, faults>>
    BY <1>2, <2>1 DEF BackoffEnds
  <2>3. QED
    BY <2>2, RowTyped, Zenon
<1>3. ASSUME NEW j \in Jobs, LeaseEnds(j) PROVE QueueTypeOK'
  <2>1. PICK row \in JobRow : row = [job[j] EXCEPT !.expired = TRUE]
    BY ColumnUpdates, Zenon DEF QueueTypeOK
  <2>2. job' = [job EXCEPT ![j] = row] /\ UNCHANGED <<worker, faults>>
    BY <1>3, <2>1 DEF LeaseEnds
  <2>3. QED
    BY <2>2, RowTyped, Zenon
<1>4. ASSUME NEW j \in Jobs, LoseLease(j) PROVE QueueTypeOK'
  <2>1. PICK row \in JobRow : row = [job[j] EXCEPT !.expired = TRUE]
    BY ColumnUpdates, Zenon DEF QueueTypeOK
  <2>2. job' = [job EXCEPT ![j] = row] /\ worker' = worker
    BY <1>4, <2>1 DEF LoseLease
  <2>3. faults' \in 0 .. MaxFaults
    BY <1>4, QueueConstants DEF LoseLease, QueueTypeOK
  <2>4. QED
    BY <2>2, <2>3 DEF QueueTypeOK
<1>5. ASSUME NEW g \in Goroutines, NEW j \in Jobs, Claim(g, j)
      PROVE  QueueTypeOK'
  BY <1>5, QueueConstants DEF Claim, QueueTypeOK, JobRow, Worker
<1>6. ASSUME NEW g \in Goroutines, Heartbeat(g) PROVE QueueTypeOK'
  <2>1. PICK j \in Jobs : j = worker[g].job
    BY <1>6 DEF Heartbeat, QueueTypeOK, Worker
  <2>2. PICK row \in JobRow : row = [job[j] EXCEPT !.expired = FALSE]
    BY ColumnUpdates, Zenon DEF QueueTypeOK
  <2>3. job' = [job EXCEPT ![j] = row] /\ UNCHANGED <<worker, faults>>
    BY <1>6, <2>1, <2>2 DEF Heartbeat
  <2>4. QED
    BY <2>3, RowTyped, Zenon
<1>7. ASSUME NEW g \in Goroutines, Succeed(g) \/ Fail(g) PROVE QueueTypeOK'
  BY <1>7, OutcomeRow, SettleTyped
<1>8. ASSUME NEW g \in Goroutines, LoseOutcome(g) PROVE QueueTypeOK'
  BY <1>8, QueueConstants DEF LoseOutcome, Free, QueueTypeOK, Worker
<1>9. ASSUME NEW w \in WorkerIds, Crash(w) PROVE QueueTypeOK'
  BY <1>9, QueueConstants DEF Crash, Free, QueueTypeOK, Worker
<1>10. CASE UNCHANGED queueVars
  BY <1>10 DEF queueVars, QueueTypeOK
<1>11. QED
  BY <1>1, <1>2, <1>3, <1>4, <1>5, <1>6, <1>7, <1>8, <1>9, <1>10
     DEF QueueNext

\* The domains of the columns and local variables, for every number of jobs.
THEOREM QueueTypeCorrect == QueueSpec => []QueueTypeOK
<1>1. QueueInit => QueueTypeOK
  BY QueueConstants DEF QueueInit, QueueTypeOK, JobRow, NoJob, Worker, Free
<1>2. QED
  BY <1>1, QueueTypeStep, PTL DEF QueueSpec
-----------------------------------------------------------------------------
\* The attempts that claim returned are never more than those of the row: the
\* strengthening that DeadIsExhausted needs.
ClaimsAreOld ==
    \A g \in Goroutines, j \in Jobs :
      worker[g].job = j => worker[g].attempts <= job[j].attempts

QueueInv == QueueTypeOK /\ OwnedIffRunning /\ DeadIsExhausted /\ ClaimsAreOld

\* One update at the end of execute keeps the invariant if the row it writes
\* has no owner, keeps the attempts and is DEAD only when exhausted.
LEMMA SettleKeepsInv ==
  ASSUME QueueInv, QueueTypeOK', NEW g \in Goroutines, NEW row \in JobRow,
         Settle(g, row), row.owner = NoOwner, row.status # "RUNNING",
         worker[g].job # NoOwner => row.attempts = job[worker[g].job].attempts,
         row.status = "DEAD" => row.attempts >= MaxAttempts
  PROVE  QueueInv'
<1>1. worker[g].job \in Jobs
  BY DEF Settle, QueueInv, QueueTypeOK, Worker
<1>2. OwnedIffRunning'
  BY <1>1 DEF Settle, QueueInv, QueueTypeOK, OwnedIffRunning
<1>3. DeadIsExhausted'
  BY <1>1 DEF Settle, QueueInv, QueueTypeOK, DeadIsExhausted
<1>4. \A j \in Jobs : job'[j].attempts = job[j].attempts
  BY <1>1 DEF Settle, QueueInv, QueueTypeOK
<1>5. ClaimsAreOld'
  BY <1>1, <1>4, QueueConstants
     DEF Settle, QueueInv, QueueTypeOK, ClaimsAreOld, Free
<1>6. QED
  BY <1>2, <1>3, <1>5 DEF QueueInv

\* The invariant of the queue is inductive.
LEMMA QueueInvStep == QueueInv /\ [QueueNext]_queueVars => QueueInv'
<1> SUFFICES ASSUME QueueInv, QueueTypeOK', [QueueNext]_queueVars
             PROVE  QueueInv'
  BY QueueTypeStep DEF QueueInv
<1> USE QueueConstants
<1>1. ASSUME NEW j \in Jobs,
             Enqueue(j) \/ BackoffEnds(j) \/ LeaseEnds(j) \/ LoseLease(j)
      PROVE  QueueInv'
  <2>1. /\ worker' = worker
        /\ \A k \in Jobs : /\ job'[k].owner = job[k].owner
                          /\ job'[k].attempts = job[k].attempts
    BY <1>1 DEF Enqueue, BackoffEnds, LeaseEnds, LoseLease, QueueInv,
                QueueTypeOK, JobRow
  <2>2. \A k \in Jobs : \/ job'[k].status = job[k].status
                        \/ job[k].status = "NONE" /\ job'[k].status = "QUEUED"
    BY <1>1 DEF Enqueue, BackoffEnds, LeaseEnds, LoseLease, QueueInv,
                QueueTypeOK, JobRow
  <2>3. QED
    BY <2>1, <2>2 DEF QueueInv, OwnedIffRunning, DeadIsExhausted, ClaimsAreOld
<1>2. ASSUME NEW g \in Goroutines, NEW j \in Jobs, Claim(g, j) PROVE QueueInv'
  <2>1. OwnedIffRunning'
    BY <1>2 DEF Claim, QueueInv, QueueTypeOK, OwnedIffRunning
  <2>2. DeadIsExhausted'
    BY <1>2 DEF Claim, QueueInv, QueueTypeOK, DeadIsExhausted
  <2>3. ClaimsAreOld'
    <3>1. /\ worker'[g].job = j /\ worker'[g].attempts = job'[j].attempts
          /\ job'[j].attempts = job[j].attempts + 1 /\ job[j].attempts \in Nat
      BY <1>2 DEF Claim, QueueInv, QueueTypeOK, JobRow
    <3>2. \A h \in Goroutines \ {g} : worker'[h] = worker[h] /\ worker[h].attempts \in Nat
      BY <1>2 DEF Claim, QueueInv, QueueTypeOK, Worker
    <3>3. \A i \in Jobs \ {j} : job'[i] = job[i]
      BY <1>2 DEF Claim, QueueInv, QueueTypeOK
    <3>4. QED
      BY <3>1, <3>2, <3>3 DEF QueueInv, ClaimsAreOld
  <2>4. QED
    BY <2>1, <2>2, <2>3 DEF QueueInv
<1>3. ASSUME NEW g \in Goroutines, Heartbeat(g) PROVE QueueInv'
  BY <1>3 DEF Heartbeat, QueueInv, QueueTypeOK, Worker, JobRow,
              OwnedIffRunning, DeadIsExhausted, ClaimsAreOld
<1>4. ASSUME NEW g \in Goroutines, Succeed(g) \/ Fail(g) PROVE QueueInv'
  <2>1. worker[g].job \in Jobs
    BY <1>4, OutcomeRow DEF QueueInv
  <2>2. worker[g].attempts <= job[worker[g].job].attempts
        /\ worker[g].attempts \in Nat /\ job[worker[g].job].attempts \in Nat
    BY <2>1 DEF QueueInv, ClaimsAreOld, QueueTypeOK, Worker, JobRow
  <2>3. PICK row \in JobRow :
          /\ Settle(g, row)
          /\ row.owner = NoOwner
          /\ row.attempts = job[worker[g].job].attempts
          /\ \/ row.status = "SUCCEEDED"
             \/ row.status = IF worker[g].attempts >= MaxAttempts
                             THEN "DEAD" ELSE "QUEUED"
    BY <1>4, OutcomeRow DEF QueueInv
  <2>4. row.status = "DEAD" => row.attempts >= MaxAttempts
    BY <2>2, <2>3
  <2>5. QED
    BY <2>3, <2>4, SettleKeepsInv
<1>5. ASSUME NEW g \in Goroutines, LoseOutcome(g) PROVE QueueInv'
  BY <1>5 DEF LoseOutcome, QueueInv, QueueTypeOK, Worker, Free,
              OwnedIffRunning, DeadIsExhausted, ClaimsAreOld
<1>6. ASSUME NEW w \in WorkerIds, Crash(w) PROVE QueueInv'
  BY <1>6 DEF Crash, QueueInv, QueueTypeOK, Worker, Free,
              OwnedIffRunning, DeadIsExhausted, ClaimsAreOld
<1>7. CASE UNCHANGED queueVars
  BY <1>7 DEF queueVars, QueueInv, OwnedIffRunning, DeadIsExhausted, ClaimsAreOld
<1>8. QED
  BY <1>1, <1>2, <1>3, <1>4, <1>5, <1>6, <1>7 DEF QueueNext

\* It holds of an empty table with goroutines that are free.
LEMMA QueueInvInit == QueueInit => QueueInv
BY QueueConstants DEF QueueInit, QueueInv, QueueTypeOK, JobRow, NoJob, Worker,
   Free, OwnedIffRunning, DeadIsExhausted, ClaimsAreOld

\* A fault of something else that the goroutines share the bound with.
LEMMA OtherFaultKeepsInv ==
  ASSUME QueueInv, UNCHANGED <<job, worker>>, faults' \in 0 .. MaxFaults
  PROVE  QueueInv'
BY DEF QueueInv, QueueTypeOK, OwnedIffRunning, DeadIsExhausted, ClaimsAreOld

\* A job comes to SUCCEEDED only by Succeed, of a goroutine that has it.
LEMMA OnlySuccessSucceeds ==
  ASSUME QueueTypeOK, NEW j \in Jobs, job'[j].status = "SUCCEEDED",
         \/ \E i \in Jobs : Enqueue(i) \/ BackoffEnds(i) \/ LeaseEnds(i) \/ LoseLease(i)
         \/ \E g \in Goroutines, i \in Jobs : Claim(g, i)
         \/ \E g \in Goroutines : Heartbeat(g) \/ Fail(g) \/ LoseOutcome(g)
         \/ \E w \in WorkerIds : Crash(w)
  PROVE  job[j].status = "SUCCEEDED"
<1>1. CASE \E i \in Jobs : Enqueue(i) \/ BackoffEnds(i) \/ LeaseEnds(i) \/ LoseLease(i)
  <2>1. PICK i \in Jobs : Enqueue(i) \/ BackoffEnds(i) \/ LeaseEnds(i) \/ LoseLease(i)
    BY <1>1
  <2>2. \/ job'[j].status = job[j].status
        \/ job'[j].status = "QUEUED"
    BY <2>1 DEF Enqueue, BackoffEnds, LeaseEnds, LoseLease, QueueTypeOK, JobRow
  <2>3. QED
    BY <2>2
<1>2. CASE \E g \in Goroutines, i \in Jobs : Claim(g, i)
  <2>1. PICK g \in Goroutines, i \in Jobs : Claim(g, i)
    BY <1>2, Zenon
  <2>2. job'[i].status = "RUNNING" /\ (i # j => job'[j] = job[j])
    BY <2>1, Zenon DEF Claim, QueueTypeOK, JobRow
  <2>3. QED
    BY <2>2
<1>3. ASSUME NEW g \in Goroutines, Heartbeat(g) PROVE job[j].status = "SUCCEEDED"
  BY <1>3 DEF Heartbeat, QueueTypeOK, JobRow, Worker
<1>4. ASSUME NEW g \in Goroutines, Fail(g) PROVE job[j].status = "SUCCEEDED"
  <2>1. PICK i \in Jobs : i = worker[g].job /\ job[i] \in JobRow
    BY <1>4, OutcomeRow DEF QueueTypeOK
  <2>2. PICK row : row = [job[i] EXCEPT
               !.status = IF worker[g].attempts >= MaxAttempts THEN "DEAD"
                                                               ELSE "QUEUED",
               !.available = FALSE, !.owner = NoOwner, !.expired = FALSE]
    BY Zenon
  <2>3. Settle(g, row)
    BY <1>4, <2>1, <2>2, Zenon DEF Fail
  <2>4. row.status # "SUCCEEDED"
    BY <2>1, <2>2 DEF JobRow
  <2>5. QED
    BY <2>1, <2>3, <2>4 DEF Settle, QueueTypeOK
<1>5. CASE \/ \E g \in Goroutines : LoseOutcome(g)
           \/ \E w \in WorkerIds : Crash(w)
  BY <1>5 DEF LoseOutcome, Crash
<1>6. QED
  BY <1>1, <1>2, <1>3, <1>4, <1>5

\* Succeed and Fail touch one row and one goroutine.
LEMMA SettlesOne ==
  ASSUME QueueTypeOK, NEW g \in Goroutines, Succeed(g) \/ Fail(g)
  PROVE  /\ \A j \in Jobs \ {worker[g].job} : job'[j] = job[j]
         /\ \A h \in Goroutines \ {g} : worker'[h] = worker[h]
<1>1. PICK row : Settle(g, row)
  BY OutcomeRow
<1>2. QED
  BY <1>1 DEF Settle, QueueTypeOK

\* The invariant holds in every behaviour.
LEMMA QueueInvHolds == QueueSpec => []QueueInv
BY QueueInvInit, QueueInvStep, PTL DEF QueueSpec

\* Under any schedule and any assignment of WorkerIDs, RUNNING jobs and only
\* those are owned.
THEOREM RunningJobsAreOwned == QueueSpec => []OwnedIffRunning
<1>1. QueueInv => OwnedIffRunning
  BY DEF QueueInv
<1>2. QED
  BY <1>1, QueueInvHolds, PTL

\* No job is DEAD before max_attempts claims, although execute decides by the
\* attempts its own claim returned, of a row that may have been claimed since.
THEOREM DeadJobsAreExhausted == QueueSpec => []DeadIsExhausted
<1>1. QueueInv => DeadIsExhausted
  BY DEF QueueInv
<1>2. QED
  BY <1>1, QueueInvHolds, PTL

\* A settled job has no owner, so that no update of execute matches it.
LEMMA SettledStay ==
  ASSUME QueueInv, [QueueNext]_queueVars, NEW j \in Jobs,
         job[j].status \in {"SUCCEEDED", "DEAD"}
  PROVE  job'[j] = job[j]
<1> USE DEF QueueInv
<1>1. ASSUME NEW k \in Jobs,
             Enqueue(k) \/ BackoffEnds(k) \/ LeaseEnds(k) \/ LoseLease(k)
      PROVE  job'[j] = job[j]
  BY <1>1 DEF Enqueue, BackoffEnds, LeaseEnds, LoseLease, QueueTypeOK
<1>2. ASSUME NEW g \in Goroutines, NEW k \in Jobs, Claim(g, k)
      PROVE  job'[j] = job[j]
  BY <1>2 DEF Claim, Claimable, QueueTypeOK
<1>3. ASSUME NEW g \in Goroutines, Heartbeat(g)
      PROVE  job'[j] = job[j]
  BY <1>3 DEF Heartbeat, QueueTypeOK
<1>4. ASSUME NEW g \in Goroutines, NEW row, Settle(g, row)
      PROVE  job'[j] = job[j]
  <2>1. job[j].owner = NoOwner /\ WorkerId[g] # NoOwner
    BY QueueConstants DEF OwnedIffRunning
  <2>2. QED
    BY <1>4, <2>1 DEF Settle, QueueTypeOK
<1>5. ASSUME NEW g \in Goroutines, Succeed(g) \/ Fail(g)
      PROVE  job'[j] = job[j]
  BY <1>4, <1>5 DEF Succeed, Fail
<1>6. ASSUME NEW g \in Goroutines, LoseOutcome(g)
      PROVE  job'[j] = job[j]
  BY <1>6 DEF LoseOutcome
<1>7. ASSUME NEW w \in WorkerIds, Crash(w)
      PROVE  job'[j] = job[j]
  BY <1>7 DEF Crash
<1>8. CASE UNCHANGED queueVars
  BY <1>8 DEF queueVars
<1>9. QED
  BY <1>1, <1>2, <1>3, <1>5, <1>6, <1>7, <1>8 DEF QueueNext

\* SUCCEEDED and DEAD jobs are never touched again (DistributedQueue.execute).
THEOREM SettledJobsAreFinal == QueueSpec => SettledIsFinal
<1>1. ASSUME QueueInv, [QueueNext]_queueVars
      PROVE  [\A j \in Jobs : job[j].status \in {"SUCCEEDED", "DEAD"} =>
                job'[j] = job[j]]_queueVars
  BY <1>1, SettledStay
<1>2. QED
  BY <1>1, QueueInvHolds, PTL DEF QueueSpec, SettledIsFinal

-----------------------------------------------------------------------------
(* The number of attempts.  Nothing compares a claim with max_attempts: a job  *)
(* comes to an end because a goroutine that fails counts its own attempts.     *)

\* The goroutines that would put the job back rather than give it up.
Early(j) == {g \in Goroutines : worker[g].job = j /\ worker[g].attempts < MaxAttempts}

\* The job may be claimed without a further fault: it waits, or its lease has
\* run out or will, as nobody renews it.
Open(j) ==
    \/ job[j].status \in {"NONE", "QUEUED"}
    \/ job[j].status = "RUNNING" /\ (job[j].expired \/ ~Attended(j))

\* The attempts from max_attempts on.
Excess(j) ==
    IF job[j].attempts >= MaxAttempts THEN job[j].attempts - MaxAttempts + 1 ELSE 0

\* A set of at most n elements: each has a number of its own.
AtMost(S, n) ==
    n \in Nat /\ \E f \in [S -> 1 .. n] : \A x, y \in S : f[x] = f[y] => x = y

\* Each fault leaves behind one goroutine that may put the job back, one lease
\* that runs out, or one attempt too many.
Spare(j) == faults + 1 - (IF Open(j) THEN 1 ELSE 0) - Excess(j)

Budget(j) == AtMost(Early(j), Spare(j))

InBudget == \A j \in Jobs : Budget(j)

\* A smaller set fits within a larger number.
LEMMA AtMostFewer ==
  ASSUME NEW S, NEW T, NEW n, NEW m \in Nat, AtMost(S, n), T \subseteq S, n <= m
  PROVE  AtMost(T, m)
<1>1. n \in Nat
  BY DEF AtMost
<1>2. PICK f \in [S -> 1 .. n] : \A x, y \in S : f[x] = f[y] => x = y
  BY DEF AtMost
<1>3. [x \in T |-> f[x]] \in [T -> 1 .. m]
  BY <1>1, <1>2
<1>4. QED
  BY <1>2, <1>3, Zenon DEF AtMost

\* One element more takes the next number.
LEMMA AtMostMore ==
  ASSUME NEW S, NEW n, NEW e, AtMost(S, n)
  PROVE  AtMost(S \cup {e}, n + 1)
<1>1. n \in Nat
  BY DEF AtMost
<1>2. PICK f \in [S -> 1 .. n] : \A x, y \in S : f[x] = f[y] => x = y
  BY DEF AtMost
<1>3. PICK g : g = [x \in S \cup {e} |-> IF x = e THEN n + 1 ELSE f[x]]
  BY Zenon
<1>4. g \in [S \cup {e} -> 1 .. (n + 1)]
  BY <1>1, <1>2, <1>3
<1>5. ASSUME NEW x \in S \cup {e}, NEW y \in S \cup {e}, g[x] = g[y] PROVE x = y
  BY <1>1, <1>2, <1>3, <1>5
<1>6. QED
  BY <1>1, <1>4, <1>5 DEF AtMost

\* One element less gives a number back: its own goes to whoever has the last.
LEMMA AtMostLess ==
  ASSUME NEW S, NEW n, NEW e \in S, AtMost(S, n)
  PROVE  AtMost(S \ {e}, n - 1)
<1>1. n \in Nat
  BY DEF AtMost
<1>2. PICK f \in [S -> 1 .. n] : \A x, y \in S : f[x] = f[y] => x = y
  BY DEF AtMost
<1>3. PICK g : g = [x \in S \ {e} |-> IF f[x] = n THEN f[e] ELSE f[x]]
  BY Zenon
<1>4. n - 1 \in Nat /\ g \in [S \ {e} -> 1 .. (n - 1)]
  BY <1>1, <1>2, <1>3
<1>5. ASSUME NEW x \in S \ {e}, NEW y \in S \ {e}, g[x] = g[y] PROVE x = y
  BY <1>1, <1>2, <1>3, <1>5
<1>6. QED
  BY <1>4, <1>5 DEF AtMost

\* The numbers a budget adds up.
LEMMA BudgetTyped ==
  ASSUME QueueTypeOK, NEW j \in Jobs
  PROVE  /\ job[j].attempts \in Nat /\ Excess(j) \in Nat
         /\ faults \in Nat /\ MaxAttempts \in Nat
         /\ \A g \in Goroutines : worker[g].attempts \in Nat
BY QueueConstants DEF QueueTypeOK, JobRow, Worker, Excess

\* A step that adds no goroutine and no attempt, and makes the job claimable
\* only by a fault.
LEMMA BudgetFrame ==
  ASSUME QueueTypeOK, QueueTypeOK', NEW j \in Jobs, Budget(j),
         Early(j)' \subseteq Early(j), job'[j].attempts = job[j].attempts,
         faults' >= faults, Open(j)' => Open(j) \/ faults' > faults
  PROVE  Budget(j)'
<1>1. Excess(j) \in Nat /\ faults \in Nat /\ faults' \in Nat
  BY BudgetTyped, QueueConstants DEF QueueTypeOK
<1>2. Excess(j)' = Excess(j)
  BY DEF Excess
<1>3. Spare(j) \in Nat
  BY DEF Budget, AtMost
<1>4. Spare(j)' \in Nat /\ Spare(j) <= Spare(j)'
  BY <1>1, <1>2, <1>3 DEF Spare
<1>5. QED
  BY <1>4, AtMostFewer, Zenon DEF Budget

\* A goroutine that gives back a job it would not give up.
LEMMA BudgetReturned ==
  ASSUME QueueTypeOK, QueueTypeOK', NEW j \in Jobs, Budget(j), ~Open(j),
         NEW g \in Early(j), Early(j)' = Early(j) \ {g},
         job'[j].attempts = job[j].attempts, faults' = faults
  PROVE  Budget(j)'
<1>1. Excess(j) \in Nat /\ faults \in Nat
  BY BudgetTyped
<1>2. Excess(j)' = Excess(j)
  BY DEF Excess
<1>3. AtMost(Early(j)', Spare(j) - 1)
  BY AtMostLess, ZenonT(60) DEF Budget
<1>4. Spare(j) - 1 \in Nat
  BY <1>3 DEF AtMost
<1>5. Spare(j)' \in Nat /\ Spare(j) - 1 <= Spare(j)'
  BY <1>1, <1>2, <1>4 DEF Spare
<1>6. QED
  BY <1>3, <1>5, AtMostFewer, Zenon DEF Budget

\* A claim spends what the job is open for: on the goroutine, or on an attempt
\* too many.
LEMMA BudgetClaimed ==
  ASSUME QueueTypeOK, QueueTypeOK', NEW j \in Jobs, Budget(j), Open(j), ~Open(j)',
         NEW g \in Goroutines, job'[j].attempts = job[j].attempts + 1, faults' = faults,
         Early(j)' = IF job'[j].attempts < MaxAttempts THEN Early(j) \cup {g}
                                                       ELSE Early(j)
  PROVE  Budget(j)'
<1>1. /\ Excess(j) \in Nat /\ faults \in Nat
      /\ job[j].attempts \in Nat /\ MaxAttempts \in Nat
  BY BudgetTyped
<1>2. CASE job'[j].attempts < MaxAttempts
  <2>1. Excess(j)' = 0 /\ Excess(j) = 0
    BY <1>1, <1>2 DEF Excess
  <2>2. Spare(j)' = Spare(j) + 1
    BY <1>1, <2>1 DEF Spare
  <2>3. QED
    BY <1>2, <2>2, AtMostMore, Zenon DEF Budget
<1>3. CASE ~(job'[j].attempts < MaxAttempts)
  <2>1. Excess(j)' = Excess(j) + 1
    BY <1>1, <1>3 DEF Excess
  <2>2. Spare(j)' = Spare(j)
    BY <1>1, <2>1 DEF Spare
  <2>3. QED
    BY <1>3, <2>2, Zenon DEF Budget
<1>4. QED
  BY <1>2, <1>3

\* A job the step does not write, of which no goroutine that attends it lets go.
LEMMA BudgetUntouched ==
  ASSUME QueueTypeOK, QueueTypeOK', NEW j \in Jobs, Budget(j),
         Early(j)' \subseteq Early(j), job'[j] = job[j], faults' >= faults,
         Attended(j) => Attended(j)' \/ faults' > faults
  PROVE  Budget(j)'
<1>1. Open(j)' => Open(j) \/ faults' > faults
  BY DEF Open
<1>2. QED
  BY <1>1, BudgetFrame

\* Every step stays within the budget of every job, whoever shares a WorkerID.
LEMMA BudgetStep ==
  ASSUME QueueInv, QueueInv', InBudget, [QueueNext]_queueVars
  PROVE  InBudget'
<1> SUFFICES ASSUME NEW j \in Jobs PROVE Budget(j)'
  BY DEF InBudget
<1>0. QueueTypeOK /\ QueueTypeOK' /\ Budget(j)
  BY DEF QueueInv, InBudget
<1>a. faults \in Nat /\ faults' \in Nat
  BY <1>0, QueueConstants DEF QueueTypeOK
<1>1. ASSUME NEW k \in Jobs,
             Enqueue(k) \/ BackoffEnds(k) \/ LeaseEnds(k) \/ LoseLease(k)
      PROVE  Budget(j)'
  <2>1. worker' = worker /\ (faults' = faults \/ faults' = faults + 1)
    BY <1>1 DEF Enqueue, BackoffEnds, LeaseEnds, LoseLease
  <2>2. job'[j].attempts = job[j].attempts /\ job'[j].owner = job[j].owner
    BY <1>0, <1>1 DEF Enqueue, BackoffEnds, LeaseEnds, LoseLease, QueueTypeOK, JobRow
  <2>3. Open(j)' => Open(j) \/ faults' > faults
    <3>1. Attended(j)' <=> Attended(j)
      BY <2>1, <2>2 DEF Attended
    <3>2. CASE j # k
      BY <1>0, <1>1, <3>1, <3>2 DEF Enqueue, BackoffEnds, LeaseEnds, LoseLease, Open, QueueTypeOK
    <3>3. CASE j = k /\ LoseLease(k)
      BY <1>a, <3>3 DEF LoseLease
    <3>4. CASE j = k /\ (Enqueue(k) \/ BackoffEnds(k) \/ LeaseEnds(k))
      BY <3>4 DEF Enqueue, BackoffEnds, LeaseEnds, Open
    <3>5. QED
      BY <1>1, <3>2, <3>3, <3>4
  <2>4. Early(j)' \subseteq Early(j)
    BY <2>1 DEF Early
  <2>5. faults' >= faults
    BY <1>a, <2>1
  <2>6. QED
    BY <1>0, <2>2, <2>3, <2>4, <2>5, BudgetFrame, Zenon
<1>2. ASSUME NEW g \in Goroutines, NEW k \in Jobs, Claim(g, k) PROVE Budget(j)'
  <2>1. /\ worker[g].job = NoOwner /\ j # NoOwner /\ k # NoOwner /\ faults' = faults
        /\ worker'[g].job = k /\ worker'[g].attempts = job[k].attempts + 1
        /\ \A h \in Goroutines \ {g} : worker'[h] = worker[h]
    BY <1>0, <1>2, QueueConstants DEF Claim, Free, QueueTypeOK
  <2>2. CASE j # k
    <3>1. job'[j] = job[j]
      BY <1>0, <1>2, <2>2 DEF Claim, QueueTypeOK
    <3>2. Early(j)' \subseteq Early(j)
      BY <2>1, <2>2 DEF Early
    <3>3. Attended(j) => Attended(j)'
      BY <2>1, <3>1 DEF Attended
    <3>4. faults' >= faults
      BY <1>a, <2>1
    <3>5. QED
      BY <1>0, <3>1, <3>2, <3>3, <3>4, BudgetUntouched, Zenon
  <2>3. CASE j = k
    <3>1. /\ job'[j].attempts = job[j].attempts + 1 /\ job'[j].owner = WorkerId[g]
          /\ job'[j].status = "RUNNING" /\ ~job'[j].expired
      BY <1>0, <1>2, <2>3 DEF Claim, QueueTypeOK, JobRow
    <3>2. Open(j)
      BY <1>2, <2>3, Zenon DEF Claim, Claimable, Open
    <3>3. ~Open(j)'
      BY <2>1, <2>3, <3>1 DEF Open, Attended
    <3>4. Early(j)' = IF job'[j].attempts < MaxAttempts THEN Early(j) \cup {g}
                                                        ELSE Early(j)
      BY <2>1, <2>3, <3>1 DEF Early
    <3>5. QED
      BY <1>0, <2>1, <3>1, <3>2, <3>3, <3>4, BudgetClaimed
  <2>4. QED
    BY <2>2, <2>3
<1>3. ASSUME NEW g \in Goroutines, Heartbeat(g) PROVE Budget(j)'
  <2>1. UNCHANGED <<worker, faults>> /\ job'[j].attempts = job[j].attempts
        /\ job'[j].owner = job[j].owner /\ job'[j].status = job[j].status
    BY <1>0, <1>3 DEF Heartbeat, QueueTypeOK, JobRow, Worker
  <2>2. Attended(j)' <=> Attended(j)
    BY <2>1 DEF Attended
  <2>3. job'[j] = job[j] \/ (j = worker[g].job /\ job[j].expired)
    BY <1>0, <1>3 DEF Heartbeat, QueueTypeOK
  <2>4. Open(j)' => Open(j)
    BY <2>1, <2>2, <2>3 DEF Open
  <2>5. Early(j)' \subseteq Early(j) /\ faults' >= faults
    BY <1>a, <2>1 DEF Early
  <2>6. QED
    BY <1>0, <2>1, <2>4, <2>5, BudgetFrame, Zenon
<1>4. ASSUME NEW g \in Goroutines, Succeed(g) \/ Fail(g) PROVE Budget(j)'
  <2>1. PICK k \in Jobs : k = worker[g].job
    BY <1>0, <1>4, OutcomeRow
  <2>2. PICK row \in JobRow :
          /\ Settle(g, row)
          /\ row.owner = NoOwner
          /\ row.attempts = job[k].attempts
          /\ \/ row.status = "SUCCEEDED"
             \/ row.status = IF worker[g].attempts >= MaxAttempts
                             THEN "DEAD" ELSE "QUEUED"
    BY <1>0, <1>4, <2>1, OutcomeRow
  <2>3. /\ faults' = faults /\ worker'[g].job = NoOwner /\ j # NoOwner
        /\ \A h \in Goroutines \ {g} : worker'[h] = worker[h]
    BY <1>0, <2>2, QueueConstants DEF Settle, Free, QueueTypeOK
  <2>4. Early(j)' = Early(j) \ {g} /\ faults' >= faults
    BY <1>a, <2>3 DEF Early
  <2>5. CASE j # k \/ job[k].owner # WorkerId[g]
    <3>1. job'[j] = job[j]
      BY <1>0, <2>1, <2>2, <2>5 DEF Settle, QueueTypeOK
    <3>2. Attended(j) => Attended(j)'
      BY <2>1, <2>3, <2>5, <3>1 DEF Attended
    <3>3. Early(j)' \subseteq Early(j)
      BY <2>4
    <3>4. QED
      BY <1>0, <2>4, <3>1, <3>2, <3>3, BudgetUntouched, Zenon
  <2>6. CASE j = k /\ job[k].owner = WorkerId[g]
    <3>1. job'[j] = row /\ job'[j].attempts = job[j].attempts
      BY <1>0, <2>1, <2>2, <2>6 DEF Settle, QueueTypeOK
    <3>2. job[j].status = "RUNNING" /\ Attended(j)
      BY <2>1, <2>6, QueueConstants DEF QueueInv, OwnedIffRunning, Attended
    <3>3. CASE Open(j)' /\ ~Open(j)
      <4>1. row.status = "QUEUED"
        BY <2>2, <3>1, <3>3 DEF Open
      <4>2. ~(worker[g].attempts >= MaxAttempts)
        BY <2>2, <4>1
      <4>3. worker[g].attempts \in Nat /\ MaxAttempts \in Nat
        BY <1>0, QueueConstants DEF QueueTypeOK, Worker
      <4>4. g \in Early(j)
        BY <2>1, <2>6, <4>2, <4>3 DEF Early
      <4>5. QED
        BY <1>0, <2>3, <2>4, <3>1, <3>3, <4>4, BudgetReturned, Zenon
    <3>4. CASE Open(j)' => Open(j)
      <4>1. Early(j)' \subseteq Early(j)
        BY <2>4
      <4>2. QED
        BY <1>0, <2>4, <3>1, <3>4, <4>1, BudgetFrame, Zenon
    <3>5. QED
      BY <3>3, <3>4
  <2>7. QED
    BY <2>5, <2>6
<1>5. ASSUME job' = job, faults' = faults + 1,
             \A g \in Goroutines : worker'[g] = worker[g] \/ worker'[g] = Free
      PROVE  Budget(j)'
  <2>1. Early(j)' \subseteq Early(j)
    BY <1>5, QueueConstants DEF Early, Free
  <2>2. faults' >= faults /\ faults' > faults /\ job'[j] = job[j]
    BY <1>a, <1>5
  <2>3. QED
    BY <1>0, <2>1, <2>2, BudgetUntouched, Zenon
<1>6. ASSUME NEW g \in Goroutines, LoseOutcome(g) PROVE Budget(j)'
  BY <1>0, <1>5, <1>6 DEF LoseOutcome, QueueTypeOK
<1>7. ASSUME NEW w \in WorkerIds, Crash(w) PROVE Budget(j)'
  BY <1>5, <1>7 DEF Crash
<1>8. CASE UNCHANGED queueVars
  BY <1>0, <1>8 DEF queueVars, Budget, Spare, Early, Open, Excess, Attended
<1>9. QED
  BY <1>1, <1>2, <1>3, <1>4, <1>6, <1>7, <1>8 DEF QueueNext

\* A fault of something else adds to the budget.
LEMMA OtherFaultKeepsBudget ==
  ASSUME QueueInv, QueueInv', UNCHANGED <<job, worker>>, faults' >= faults,
         InBudget
  PROVE  InBudget'
BY BudgetUntouched DEF QueueInv, InBudget, Early, Attended

\* An empty table owes nothing but its first attempt.
LEMMA BudgetInit == QueueInit => InBudget
<1> SUFFICES ASSUME QueueInit, NEW j \in Jobs PROVE Budget(j)
  BY DEF InBudget
<1>1. Early(j) = {}
  BY QueueConstants DEF QueueInit, Early, Free
<1>2. job[j].attempts = 0 /\ faults = 0
  BY DEF QueueInit, NoJob
<1>3. Excess(j) = 0
  BY <1>2, QueueConstants DEF Excess
<1>4. PICK n \in Nat : n = Spare(j)
  BY <1>2, <1>3 DEF Spare
<1>5. [x \in {} |-> n] \in [{} -> 1 .. n]
  OBVIOUS
<1>6. QED
  BY <1>1, <1>4, <1>5, Zenon DEF Budget, AtMost

\* What stays within the budget has no more attempts than max_attempts and
\* one for each fault.
LEMMA BudgetBounds == ASSUME QueueInv, InBudget PROVE AttemptsBounded
<1> SUFFICES ASSUME NEW j \in Jobs PROVE job[j].attempts <= MaxAttempts + faults
  BY DEF AttemptsBounded
<1>1. /\ Excess(j) \in Nat /\ faults \in Nat
      /\ job[j].attempts \in Nat /\ MaxAttempts \in Nat
  BY BudgetTyped DEF QueueInv
<1>2. Excess(j) <= faults + 1
  BY <1>1 DEF InBudget, Budget, AtMost, Spare
<1>3. QED
  BY <1>1, <1>2 DEF Excess

\* Each fault costs a job at most one attempt beyond max_attempts, although
\* claim never looks at max_attempts and the goroutines of a process share its
\* WorkerID.
THEOREM FaultsBoundAttempts == QueueSpec => []AttemptsBounded
BY BudgetInit, BudgetStep, BudgetBounds, QueueInvHolds, PTL DEF QueueSpec

-----------------------------------------------------------------------------
(* A WorkerID for each goroutine.  The goroutines of one process share one   *)
(* in the code; what follows is what that costs.                             *)

DistinctIds ==
    \A g, h \in Goroutines : WorkerId[g] = WorkerId[h] => g = h

\* Whoever still owns the lease made the latest claim.
OwnerIsLatest ==
    \A g \in Goroutines, j \in Jobs :
      worker[g].job = j /\ job[j].owner = WorkerId[g] =>
        worker[g].attempts = job[j].attempts

\* With distinct WorkerIDs every step keeps OwnerIsLatest.
LEMMA LatestStep ==
  ASSUME DistinctIds, QueueInv, QueueInv', OwnerIsLatest, [QueueNext]_queueVars
  PROVE  OwnerIsLatest'
<1> USE QueueConstants DEF QueueInv, QueueTypeOK, Worker
<1>1. ASSUME NEW j \in Jobs,
             Enqueue(j) \/ BackoffEnds(j) \/ LeaseEnds(j) \/ LoseLease(j)
      PROVE  OwnerIsLatest'
  BY <1>1 DEF Enqueue, BackoffEnds, LeaseEnds, LoseLease, OwnerIsLatest, JobRow
<1>2. ASSUME NEW g \in Goroutines, NEW j \in Jobs, Claim(g, j)
      PROVE  OwnerIsLatest'
  BY <1>2 DEF Claim, OwnerIsLatest, DistinctIds, JobRow
<1>3. ASSUME NEW g \in Goroutines, Heartbeat(g) PROVE OwnerIsLatest'
  BY <1>3 DEF Heartbeat, OwnerIsLatest, JobRow
<1>4. ASSUME NEW g \in Goroutines, Succeed(g) \/ Fail(g) PROVE OwnerIsLatest'
  <2>1. \A k \in Jobs : job'[k] = job[k] \/ job'[k].owner = NoOwner
    BY <1>4, OutcomeRow DEF Settle
  <2>2. \A h \in Goroutines : worker'[h] = worker[h] \/ worker'[h].job = NoOwner
    BY <1>4 DEF Succeed, Fail, Settle, Free
  <2>3. QED
    BY <2>1, <2>2 DEF OwnerIsLatest
<1>5. ASSUME NEW g \in Goroutines, LoseOutcome(g) PROVE OwnerIsLatest'
  BY <1>5 DEF LoseOutcome, OwnerIsLatest, Free
<1>6. ASSUME NEW w \in WorkerIds, Crash(w) PROVE OwnerIsLatest'
  BY <1>6 DEF Crash, OwnerIsLatest, Free
<1>7. CASE UNCHANGED queueVars
  BY <1>7 DEF queueVars, OwnerIsLatest
<1>8. QED
  BY <1>1, <1>2, <1>3, <1>4, <1>5, <1>6, <1>7 DEF QueueNext

\* If no two goroutines share a WorkerID, a job is settled only by the goroutine
\* that made its latest claim.
THEOREM LatestClaimSettles ==
  ASSUME DistinctIds PROVE QueueSpec => OutcomeFromLatestClaim
<1>1. QueueInit => OwnerIsLatest
  BY QueueConstants DEF QueueInit, OwnerIsLatest, Free
<1>2. ASSUME QueueInv, OwnerIsLatest, [QueueNext]_queueVars
      PROVE  [\A j \in Jobs :
                job[j].status = "RUNNING" /\ job'[j].status # "RUNNING" =>
                  \E g \in Goroutines :
                    /\ worker[g].job = j /\ worker'[g] = Free
                    /\ worker[g].attempts = job[j].attempts]_queueVars
  <2> SUFFICES ASSUME QueueNext, NEW j \in Jobs,
                      job[j].status = "RUNNING", job'[j].status # "RUNNING"
               PROVE  \E g \in Goroutines :
                        /\ worker[g].job = j /\ worker'[g] = Free
                        /\ worker[g].attempts = job[j].attempts
    BY <1>2
  <2>1. PICK g \in Goroutines : Succeed(g) \/ Fail(g)
    <3> USE <1>2 DEF QueueInv, QueueTypeOK, JobRow
    <3>1. ASSUME NEW k \in Jobs,
                 Enqueue(k) \/ BackoffEnds(k) \/ LeaseEnds(k) \/ LoseLease(k)
          PROVE  FALSE
      BY <3>1 DEF Enqueue, BackoffEnds, LeaseEnds, LoseLease
    <3>2. ASSUME NEW g \in Goroutines, NEW k \in Jobs, Claim(g, k) PROVE FALSE
      BY <3>2 DEF Claim
    <3>3. ASSUME NEW g \in Goroutines, Heartbeat(g) PROVE FALSE
      BY <3>3 DEF Heartbeat
    <3>4. job' # job
      OBVIOUS
    <3>5. QED
      BY <3>1, <3>2, <3>3, <3>4 DEF QueueNext, LoseOutcome, Crash
  <2>2. worker[g].job = j /\ job[j].owner = WorkerId[g] /\ worker'[g] = Free
    BY <1>2, <2>1, OutcomeRow DEF Settle, QueueInv, QueueTypeOK
  <2>3. QED
    BY <1>2, <2>2 DEF OwnerIsLatest
<1>3. QED
  BY <1>1, <1>2, QueueInvHolds, LatestStep, PTL
     DEF QueueSpec, OutcomeFromLatestClaim
=============================================================================

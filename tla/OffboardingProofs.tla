-------------------------- MODULE OffboardingProofs --------------------------
(***************************************************************************)
(* Offboarding cases, for any cases, accounts, executors and               *)
(* synchronization runs: the steps of verification, with which the         *)
(* invariant of IdentityProofs is inductive, what it implies, the          *)
(* lifecycle the cases follow, and what links, decisions and verdicts      *)
(* keep while executors and synchronization runs overlap.                  *)
(***************************************************************************)
EXTENDS IdentityProofs, FiniteSetTheorems

(* The steps of verification. *)

\* Counting as many members of a set as it has counts all of them.
LEMMA CountAll ==
  ASSUME NEW S \in SUBSET Accounts, NEW T \in SUBSET S
  PROVE  /\ Cardinality(S) \in Nat /\ Cardinality(T) \in Nat
         /\ Cardinality(S) <= Cardinality(T) => S = T
         /\ Cardinality(S) = 0 => S = {}
<1>1. IsFiniteSet(S) /\ IsFiniteSet(T)
  BY OffboardingConstants, FS_Subset
<1>2. /\ Cardinality(S) \in Nat /\ Cardinality(T) \in Nat
      /\ Cardinality(T) <= Cardinality(S)
      /\ Cardinality(S) = Cardinality(T) => S = T
  BY <1>1, FS_Subset, FS_CardinalityType
<1>3. Cardinality(S) = 0 => S = {}
  BY <1>1, FS_EmptySet
<1>4. QED
  BY <1>2, <1>3

\* The query over identity_accounts.
LEMMA CountKeeps ==
  ASSUME OffInv, NEW e \in Executors, CountIdentities(e)
  PROVE  Kept'
<1>1. exec[e].pc = "count" /\ exec[e].pc # "idle" /\ exec[e].pc \in Verifying
  BY DEF CountIdentities, Verifying
<1>2. PICK c \in Cases : c = exec[e].case
  BY <1>1, Owned
<1>3. /\ exec[e] \in Exec /\ ExecOK(e) /\ CaseOK(c) /\ case[c].status = "VERIFYING"
  BY <1>1, <1>2, Owned
<1>4. PICK S \in SUBSET Accounts : S = LinkedTo(case[c].person)
  BY Zenon DEF LinkedTo
<1>5. PICK D \in SUBSET S : D = {a \in S : status[a] = "DISABLED"}
  BY Zenon
<1>6. PICK A \in SUBSET S : A = {a \in S : status[a] = "ACTIVE"}
  BY Zenon
<1>7. /\ Cardinality(S) \in Nat /\ Cardinality(D) \in Nat /\ Cardinality(A) \in Nat
      /\ Cardinality(S) <= Cardinality(D) => S = D
  BY CountAll
<1>8. PICK row \in Exec :
        row = [exec[e] EXCEPT !.pc = "unresolved", !.managed = Cardinality(S),
                 !.disabled = Cardinality(D), !.active = Cardinality(A)]
  BY <1>3, <1>7, Zenon DEF Exec
<1>9. /\ row.case = c /\ row.todo = exec[e].todo /\ row.account = exec[e].account
      /\ row.pc = "unresolved" /\ row.failed = exec[e].failed
      /\ row.managed = Cardinality(S) /\ row.disabled = Cardinality(D)
  BY <1>2, <1>3, <1>8 DEF Exec
<1>10. exec' = [exec EXCEPT ![e] = row]
  BY <1>2, <1>4, <1>5, <1>6, <1>8, ZenonT(60) DEF CountIdentities
<1>11. /\ exec'[e] = row /\ case' = case /\ action' = action
       /\ cancelling' = cancelling /\ everOff' = everOff /\ link' = link
  BY <1>10 DEF OffInv, TypeOK, CountIdentities, recVars
<1>12. row.managed <= row.disabled =>
         \A a \in Accounts : action[c][a].type # "NONE" => a \in everOff
  <2> SUFFICES ASSUME S = D, NEW a \in Accounts, action[c][a].type # "NONE"
               PROVE  a \in everOff
    BY <1>7, <1>9
  <2>1. a \in S
    BY <1>3, <1>4, Zenon DEF CaseOK, LinkedTo
  <2>2. QED
    BY <1>5, <2>1 DEF OffInv, DisabledWasObserved
<1>13. ExecOK(e)'
  BY <1>1, <1>2, <1>3, <1>9, <1>11, <1>12, ZenonT(60) DEF ExecOK, Verifying, Acting
<1>14. QED
  BY <1>1, <1>2, <1>9, <1>10, <1>11, <1>13, QuietStep, Zenon DEF Monotone

\* The queries over correlation_candidates and lifecycle_actions.
LEMMA UnresolvedKeeps ==
  ASSUME OffInv, NEW e \in Executors, CountUnresolved(e)
  PROVE  Kept'
<1>1. /\ exec[e].pc = "unresolved" /\ exec[e].pc # "idle"
      /\ exec[e].pc \in Verifying
  BY DEF CountUnresolved, Verifying
<1>2. PICK c \in Cases : c = exec[e].case
  BY <1>1, Owned, SMTT(30)
<1>3. /\ exec[e] \in Exec /\ ExecOK(e) /\ case[c].status = "VERIFYING"
  BY <1>1, <1>2, Owned
<1>4. PICK P \in SUBSET Accounts :
        P = {a \in Accounts : candidate[<<case[c].person, a>>] = "PENDING"}
  BY Zenon
<1>5. PICK M \in SUBSET Accounts :
        M = {a \in Accounts : action[c][a].type = "MANUAL_REVIEW"}
  BY Zenon
<1>6. /\ Cardinality(P) \in Nat /\ Cardinality(M) \in Nat
      /\ Cardinality(M) = 0 => M = {}
  <2>1. P \in SUBSET P /\ M \in SUBSET M
    OBVIOUS
  <2>2. QED
    BY <2>1, CountAll
<1>7. PICK row \in Exec :
        row = [exec[e] EXCEPT !.pc = "snapshot", !.unresolved = Cardinality(P),
                 !.manual = Cardinality(M)]
  BY <1>3, <1>6, Zenon DEF Exec
<1>8. /\ row.case = c /\ row.todo = exec[e].todo /\ row.account = exec[e].account
      /\ row.pc = "snapshot" /\ row.failed = exec[e].failed
      /\ row.managed = exec[e].managed /\ row.disabled = exec[e].disabled
      /\ row.manual = Cardinality(M)
  BY <1>2, <1>3, <1>7 DEF Exec
<1>9. exec' = [exec EXCEPT ![e] = row]
  BY <1>2, <1>4, <1>5, <1>7, Zenon DEF CountUnresolved
<1>10. /\ exec'[e] = row /\ case' = case /\ action' = action
       /\ cancelling' = cancelling /\ everOff' = everOff /\ link' = link
  BY <1>9 DEF OffInv, TypeOK, CountUnresolved, recVars
<1>11. row.manual = 0 => \A a \in Accounts : action[c][a].type # "MANUAL_REVIEW"
  BY <1>5, <1>6, <1>8
<1>12. ExecOK(e)'
  BY <1>1, <1>2, <1>3, <1>8, <1>10, <1>11, ZenonT(60) DEF ExecOK, Verifying, Acting
<1>13. QED
  BY <1>1, <1>2, <1>8, <1>9, <1>10, <1>12, QuietStep, Zenon DEF Monotone

\* A statement of an executor on the row of its case.
LEMMA CaseStep ==
  ASSUME OffInv, NEW e \in Executors, exec[e].pc # "idle",
         NEW c \in Cases, c = exec[e].case, NEW y \in Case, NEW row \in Exec,
         case' = [case EXCEPT ![c] = y],
         exec' = [exec EXCEPT ![e] = row], row.case \in {c, NoValue},
         UNCHANGED <<recVars, action, cancelling>>, CaseOK(c)', ExecOK(e)'
  PROVE  Kept'
<1>1. OffTypeOK'
  BY DEF OffTypeOK, OffInv, TypeOK
<1>2. /\ exec'[e] = row
      /\ \A f \in Executors \ {e} : exec'[f] = exec[f]
      /\ \A f \in Executors \ {e} : exec[f].case # c
      /\ \A d \in Cases \ {c} : case'[d] = case[d] /\ action'[d] = action[d]
  BY Owned DEF OffInv, TypeOK
<1>3. Monotone
  BY ZenonT(60) DEF Monotone, recVars
<1>4. QED
  BY <1>1, <1>2, <1>3, OwnStep, Zenon DEF Kept

\* Actions of a case that is being executed, when the case is written to.
LEMMA RunningActions ==
  ASSUME OffInv, NEW c \in Cases, case[c].status \in {"RUNNING", "VERIFYING"}
  PROVE  /\ c \notin cancelling
         /\ case[c].person \in People
         /\ case[c].result = "NONE"
         /\ \A a \in Accounts :
              /\ action[c][a].type = "NONE" <=> action[c][a].status = "NONE"
              /\ action[c][a].type # "NONE" => link[a] = case[c].person
              /\ action[c][a].attempts <= 1
BY DEF OffInv, CaseOK, Finished

\* The update of the case to VERIFYING.
LEMMA VerifyKeeps ==
  ASSUME OffInv, NEW e \in Executors, BeginVerification(e)
  PROVE  Kept'
<1>1. /\ exec[e].pc = "next" /\ exec[e].pc # "idle"
      /\ exec[e].pc \notin Verifying /\ exec[e].todo = {}
  BY DEF BeginVerification, Verifying
<1>2. PICK c \in Cases : c = exec[e].case
  BY <1>1, Owned, Zenon
<1>3. exec[e] \in Exec /\ ExecOK(e) /\ case[c].status = "RUNNING"
  BY <1>1, <1>2, Owned
<1>4. PICK y \in Case : y = [case[c] EXCEPT !.status = "VERIFYING"]
  BY RowsTyped, Zenon DEF OffInv, CaseStatus
<1>5. PICK row \in Exec : row = [exec[e] EXCEPT !.pc = "count"]
  BY <1>3, Zenon DEF Exec
<1>6. /\ case' = [case EXCEPT ![c] = y] /\ exec' = [exec EXCEPT ![e] = row]
      /\ UNCHANGED <<recVars, action, cancelling>>
  BY <1>2, <1>4, <1>5 DEF BeginVerification
<1>7. /\ case'[c] = y /\ y.status = "VERIFYING" /\ y.person = case[c].person
      /\ y.result = case[c].result
  BY <1>4, <1>6 DEF OffInv, TypeOK, Case
<1>8. /\ exec'[e] = row /\ row.case = c /\ row.todo = {} /\ row.pc = "count"
      /\ row.account = exec[e].account /\ row.failed = exec[e].failed
  BY <1>1, <1>2, <1>3, <1>5, <1>6, SMTT(30) DEF OffInv, TypeOK, Exec
<1>9. action' = action /\ link' = link /\ everOff' = everOff
      /\ cancelling' = cancelling
  BY <1>6, SMTT(60) DEF recVars
<1>10. CaseOK(c)'
  BY <1>3, <1>7, <1>9, RunningActions, SMTT(30) DEF CaseOK, Finished
<1>11. ExecOK(e)'
  BY <1>1, <1>2, <1>3, <1>7, <1>8, <1>9, Zenon DEF ExecOK, Verifying, Acting
<1>12. QED
  BY <1>1, <1>2, <1>6, <1>8, <1>10, <1>11, CaseStep, Zenon

\* The verdict is one of four.
LEMMA VerdictTyped ==
  ASSUME NEW x
  PROVE  /\ EvaluateVerification(x) \in Result
         /\ FinalStatus(EvaluateVerification(x)) \in Finished
BY DEF EvaluateVerification, Result, FinalStatus, Finished

\* The insert of the verification snapshot.
LEMMA SnapshotKeeps ==
  ASSUME OffInv, NEW e \in Executors, InsertSnapshot(e)
  PROVE  Kept'
<1>1. /\ exec[e].pc = "snapshot" /\ exec[e].pc # "idle"
      /\ exec[e].pc \in Verifying
  BY DEF InsertSnapshot, Verifying
<1>2. PICK c \in Cases : c = exec[e].case
  BY <1>1, Owned, Zenon
<1>3. /\ exec[e] \in Exec /\ ExecOK(e) /\ case[c].status = "VERIFYING"
      /\ case[c] \in Case
  BY <1>1, <1>2, Owned DEF OffInv, TypeOK
<1>4. PICK v \in Result \cup {"NONE"} : v = EvaluateVerification(exec[e])
  BY VerdictTyped
<1>5. PICK y \in Case : y = [case[c] EXCEPT !.snapshot = v]
  BY <1>3, Zenon DEF Case
<1>6. PICK row \in Exec : row = [exec[e] EXCEPT !.pc = "finish"]
  BY <1>3, Zenon DEF Exec
<1>7. /\ case' = [case EXCEPT ![c] = y] /\ exec' = [exec EXCEPT ![e] = row]
      /\ UNCHANGED <<recVars, action, cancelling>>
  BY <1>2, <1>4, <1>5, <1>6, SMTT(30) DEF InsertSnapshot
<1>8. /\ case'[c] = y /\ y.status = case[c].status /\ y.person = case[c].person
      /\ y.result = case[c].result /\ y.snapshot = v
  BY <1>3, <1>5, <1>7, SMTT(30) DEF OffInv, TypeOK, Case
<1>9. /\ exec'[e] = row /\ row.case = c /\ row.todo = exec[e].todo
      /\ row.pc = "finish" /\ row.account = exec[e].account
      /\ row.failed = exec[e].failed /\ row.managed = exec[e].managed
      /\ row.disabled = exec[e].disabled /\ row.active = exec[e].active
      /\ row.unresolved = exec[e].unresolved /\ row.manual = exec[e].manual
  BY <1>2, <1>3, <1>6, <1>7, SMTT(30) DEF OffInv, TypeOK, Exec
<1>10. EvaluateVerification(row) = v
  BY <1>4, <1>9 DEF EvaluateVerification
<1>11. action' = action /\ link' = link /\ everOff' = everOff
       /\ cancelling' = cancelling
  BY <1>7 DEF recVars
<1>12. CaseOK(c)'
  BY <1>3, <1>8, <1>11, RunningActions, Zenon DEF CaseOK, Finished
<1>13. ExecOK(e)'
  <2>1. /\ exec[e].todo = {} /\ exec[e].account = NoValue
        /\ \A a \in Accounts : action[c][a].type = "NONE" \/ Accounted(action[c][a])
        /\ \A a \in Accounts : action[c][a].evidence = "NO_ANSWER" =>
             ConnectorOf[a] \in exec[e].failed
        /\ exec[e].managed <= exec[e].disabled =>
             \A a \in Accounts : action[c][a].type # "NONE" => a \in everOff
        /\ exec[e].manual = 0 =>
             \A a \in Accounts : action[c][a].type # "MANUAL_REVIEW"
    BY <1>1, <1>2, <1>3, Zenon DEF ExecOK, Verifying, Acting
  <2>2. case'[c].snapshot = EvaluateVerification(exec'[e])
    BY <1>8, <1>9, <1>10, Zenon
  <2>3. QED
    BY <1>3, <1>8, <1>9, <1>11, <2>1, <2>2, ZenonT(60) DEF ExecOK, Verifying, Acting
<1>14. QED
  BY <1>1, <1>2, <1>7, <1>9, <1>12, <1>13, CaseStep, Zenon

\* The last update of the case.
LEMMA FinishKeeps ==
  ASSUME OffInv, NEW e \in Executors, FinishCase(e)
  PROVE  Kept'
<1>1. /\ exec[e].pc = "finish" /\ exec[e].pc # "idle"
      /\ exec[e].pc \in Verifying
  BY DEF FinishCase, Verifying
<1>2. PICK c \in Cases : c = exec[e].case
  BY <1>1, Owned, SMTT(30)
<1>3. /\ exec[e] \in Exec /\ ExecOK(e) /\ case[c].status = "VERIFYING"
      /\ case[c] \in Case
  BY <1>1, <1>2, Owned, SMTT(30) DEF OffInv, TypeOK
<1>4. PICK v \in Result \cup {"NONE"} : v = EvaluateVerification(exec[e])
  BY VerdictTyped
<1>5. FinalStatus(v) \in Finished /\ FinalStatus(v) \in CaseStatus /\ v # "NONE"
  BY <1>4, VerdictTyped DEF Finished, CaseStatus, Terminal, Result
<1>6. PICK y \in Case : y = [case[c] EXCEPT !.status = FinalStatus(v), !.result = v]
  BY <1>3, <1>5, ZenonT(60) DEF Case
<1>7. Idle \in Exec
  BY DEF Idle, Exec, Outcome
<1>8. /\ case' = [case EXCEPT ![c] = y] /\ exec' = [exec EXCEPT ![e] = Idle]
      /\ UNCHANGED <<recVars, action, cancelling>>
  BY <1>2, <1>4, <1>6, SMTT(30) DEF FinishCase
<1>9. /\ case'[c] = y /\ y.status = FinalStatus(v) /\ y.person = case[c].person
      /\ y.result = v /\ y.snapshot = case[c].snapshot
  BY <1>3, <1>6, <1>8, SMTT(30) DEF OffInv, TypeOK, Case
<1>10. action' = action /\ link' = link /\ everOff' = everOff
       /\ cancelling' = cancelling
  BY <1>8 DEF recVars
<1>11. /\ case[c].snapshot = v
       /\ \A a \in Accounts : action[c][a].type = "NONE" \/ Accounted(action[c][a])
       /\ \A a \in Accounts : action[c][a].evidence = "NO_ANSWER" =>
            ConnectorOf[a] \in exec[e].failed
       /\ exec[e].managed <= exec[e].disabled =>
            \A a \in Accounts : action[c][a].type # "NONE" => a \in everOff
       /\ exec[e].manual = 0 =>
            \A a \in Accounts : action[c][a].type # "MANUAL_REVIEW"
  BY <1>1, <1>2, <1>3, <1>4, ZenonT(60) DEF ExecOK, Verifying
<1>12. v = "VERIFIED" =>
         /\ exec[e].failed = {} /\ exec[e].manual = 0
         /\ exec[e].managed <= exec[e].disabled
  BY <1>3, <1>4 DEF EvaluateVerification, Exec
<1>13. CaseOK(c)'
  <2>1. ASSUME NEW a \in Accounts, v = "VERIFIED", action[c][a].type # "NONE"
        PROVE  /\ action[c][a].type # "MANUAL_REVIEW"
               /\ action[c][a].evidence # "NO_ANSWER"
               /\ a \in everOff
    BY <1>11, <1>12, <2>1, Zenon
  <2>2. y.status \notin {"NONE", "DRAFT", "AWAITING_APPROVAL", "APPROVED",
                         "CANCELLED"}
    BY <1>5, <1>9 DEF Finished
  <2>3. QED
    BY <1>3, <1>5, <1>9, <1>10, <1>11, <2>1, <2>2, RunningActions, ZenonT(60) DEF CaseOK
<1>14. ExecOK(e)'
  BY <1>8, Zenon DEF ExecOK, Idle, OffInv, TypeOK
<1>15. QED
  BY <1>1, <1>2, <1>7, <1>8, <1>13, <1>14, CaseStep, Zenon DEF Idle

-----------------------------------------------------------------------------
\* What reconciliation knows is consistent.
RecOK == RecTypeOK /\ ReadsAreObservations /\ DisabledWasObserved

\* A write to a provider, and the update after the read that followed it.
LEMMA WriteObserved ==
  ASSUME OffInv, NEW e \in Executors,
         \/ \E applied, ok \in BOOLEAN : WriteProvider(e, applied, ok)
         \/ StoreDisabled(e)
  PROVE  RecOK'
<1>1. exec[e].pc \in Acting
  BY ZenonT(60) DEF WriteProvider, StoreDisabled, Acting
<1>2. exec[e].account \in Accounts
  BY <1>1, Zenon DEF OffInv, ExecOK, TypeOK, Exec, Acting
<1>3. ASSUME NEW applied \in BOOLEAN, NEW ok \in BOOLEAN,
             WriteProvider(e, applied, ok)
      PROVE  RecOK'
  <2>1. PICK effect \in {"ABSENT", "DISABLED"} :
          /\ remote' = IF applied THEN [remote EXCEPT ![exec[e].account] = effect]
                       ELSE remote
          /\ everOff' = IF applied /\ effect = "DISABLED"
                        THEN everOff \cup {exec[e].account} ELSE everOff
    BY <1>3, Zenon DEF WriteProvider, WriteEffect
  <2>2. /\ remote' \in Listing /\ everOff' \subseteq Accounts
        /\ \A a \in Accounts : remote'[a] = "DISABLED" => a \in everOff'
        /\ everOff \subseteq everOff'
    BY <1>2, <2>1, Zenon
       DEF OffInv, TypeOK, RecTypeOK, Listing, RemoteState, ReadsAreObservations
  <2>3. UNCHANGED <<people, status, link, candidate, orphan, duplicate, grant,
                    connector, run>>
    BY <1>3, Zenon DEF WriteProvider
  <2>4. QED
    BY <2>2, <2>3, Zenon DEF RecOK, OffInv, TypeOK, RecTypeOK, ReadsAreObservations,
                      DisabledWasObserved
<1>4. CASE StoreDisabled(e)
  <2>1. exec[e].account \in everOff
    BY <1>4, Zenon DEF StoreDisabled, OffInv, ExecOK
  <2>2. /\ status' = [status EXCEPT ![exec[e].account] = "DISABLED"]
        /\ UNCHANGED <<people, remote, everOff, link, candidate, orphan,
                       duplicate, grant, connector, run>>
    BY <1>4, SMTT(60) DEF StoreDisabled
  <2>3. status' \in [Accounts -> LocalState] /\ DisabledWasObserved'
    BY <1>2, <2>1, <2>2, SMTT(30)
       DEF OffInv, TypeOK, RecTypeOK, LocalState, DisabledWasObserved
  <2>4. QED
    BY <2>2, <2>3, Zenon DEF RecOK, OffInv, TypeOK, RecTypeOK, ReadsAreObservations
<1>5. QED
  BY <1>3, <1>4, SMTT(60)

\* A step of reconciliation while cases are being handled.
LEMMA RecKeeps ==
  ASSUME OffInv, [RecNext]_recVars, UNCHANGED offVars
  PROVE  RecOK' /\ Kept'
<1>1. RecOK'
  BY RecTypeStep, ObservedStep DEF OffInv, TypeOK, RecOK
<1>2. Monotone
  BY RecMonotone DEF OffInv, TypeOK
<1>3. UNCHANGED <<case, action, cancelling, exec>>
  BY DEF offVars
<1>4. \A d \in Cases : CaseOK(d)'
  BY <1>2, <1>3, CaseFrame, ConstantTypes, SMTT(30) DEF OffInv, TypeOK
<1>5. \A f \in Executors : ExecOK(f)'
  BY <1>2, <1>3, ExecFrame, Zenon DEF OffInv
<1>6. OffTypeOK' /\ Apart'
  BY <1>3 DEF OffTypeOK, OffInv, TypeOK, Apart
<1>7. QED
  BY <1>1, <1>4, <1>5, <1>6, SMTT(30) DEF Kept

\* Every step keeps the inductive invariant.
LEMMA OffInvStep == OffInv /\ [Next]_vars => OffInv'
<1> SUFFICES ASSUME OffInv, [Next]_vars PROVE OffInv'
  OBVIOUS
<1>1. RecOK' /\ Kept' => OffInv'
  BY DEF RecOK, Kept, OffInv, TypeOK, OffTypeOK
<1>2. UNCHANGED recVars => RecOK'
  BY Zenon DEF recVars, RecOK, OffInv, TypeOK, RecTypeOK, ReadsAreObservations,
         DisabledWasObserved
<1>3. CASE RecNext /\ UNCHANGED offVars
  BY <1>1, <1>3, RecKeeps
<1>4. CASE UNCHANGED vars
  BY <1>1, <1>4, RecKeeps DEF vars
<1>5. ASSUME NEW c \in Cases, CaseHandler(c) PROVE OffInv'
  <2>1. UNCHANGED recVars
    BY <1>5, Zenon DEF CaseHandler, CreateCase, PlanCase, ApproveCase, CancelCase,
                SkipActions
  <2>2. Kept'
    BY <1>5, CreateKeeps, PlanKeeps, ApproveKeeps, CancelKeeps, SkipKeeps, ZenonT(60)
       DEF CaseHandler
  <2>3. QED
    BY <1>1, <1>2, <2>1, <2>2, SMTT(30)
<1>6. ASSUME NEW e \in Executors, NEW c \in Cases, BeginExecution(e, c)
      PROVE  OffInv'
  BY <1>1, <1>2, <1>6, BeginKeeps, Zenon DEF BeginExecution
<1>7. ASSUME NEW e \in Executors, StopExecution(e) PROVE OffInv'
  BY <1>1, <1>2, <1>7, StopKeeps, Zenon DEF StopExecution
<1>8. ASSUME NEW e \in Executors, ExecutionStep(e) PROVE OffInv'
  <2>1. RecOK'
    BY <1>2, <1>8, WriteObserved, ZenonT(60)
       DEF ExecutionStep, LoadActions, StartAction, RereadProvider,
           VerifyLocally, RecordOutcome, InsertEvidence, BeginVerification,
           CountIdentities, CountUnresolved, InsertSnapshot, FinishCase
  <2>2. Kept'
    BY <1>8, LoadKeeps, StartKeeps, WriteKeeps, RereadKeeps, StoreKeeps,
       LocalKeeps, RecordKeeps, EvidenceKeeps, VerifyKeeps, CountKeeps,
       UnresolvedKeeps, SnapshotKeeps, FinishKeeps, ZenonT(60)
       DEF ExecutionStep
  <2>3. QED
    BY <1>1, <2>1, <2>2, SMTT(30)
<1>9. QED
  BY <1>3, <1>4, <1>5, <1>6, <1>7, <1>8, SMTT(30) DEF Next

\* The inductive invariant holds when there is no case yet.
LEMMA OffInvInit == Init => OffInv
<1> SUFFICES ASSUME Init PROVE OffInv
  OBVIOUS
<1>1. RecTypeOK
  BY RecInitTyped DEF Init
<1>2. ReadsAreObservations /\ DisabledWasObserved
  BY DEF Init, RecInit, ReadsAreObservations, DisabledWasObserved, NoRun,
         NoListing
<1>3. NoCase \in Case /\ NoAction \in Action /\ Idle \in Exec
  BY Zenon DEF NoCase, Case, CaseStatus, NoAction, Action, ActionType, ActionStatus,
         Idle, Exec, Outcome
<1>4. TypeOK
  BY <1>1, <1>3, SMTT(60) DEF TypeOK, Init, OffInit
<1>5. \A c \in Cases : CaseOK(c)
  BY DEF Init, OffInit, CaseOK, NoCase, NoAction, Finished
<1>6. \A e \in Executors : ExecOK(e)
  BY ZenonT(60) DEF Init, OffInit, ExecOK, Idle
<1>7. Apart
  BY DEF Init, OffInit, Apart, Idle
<1>8. QED
  BY <1>2, <1>4, <1>5, <1>6, <1>7, SMTT(30) DEF OffInv

\* ... and in every reachable state.
LEMMA OffInvHolds == Spec => []OffInv
BY OffInvInit, OffInvStep, PTL DEF Spec

-----------------------------------------------------------------------------
\* The invariants the runs check follow from the inductive one.
LEMMA OffInvImplies ==
  ASSUME OffInv
  PROVE  /\ ExecutorOwnsCase
         /\ WritesAreApproved
         /\ ActionsRunOnceApproved
         /\ FinishedIsAccountedFor
         /\ VerifiedHasNoDoubt
<1>1. ExecutorOwnsCase
  BY Owned DEF ExecutorOwnsCase, Verifying
<1>2. WritesAreApproved
  <2> SUFFICES ASSUME NEW e \in Executors, exec[e].pc = "write"
               PROVE  /\ case[exec[e].case].status = "RUNNING"
                      /\ link[exec[e].account] = case[exec[e].case].person
                      /\ LET y == action[exec[e].case][exec[e].account] IN
                         /\ y.type \in WritingTypes
                         /\ y.status = "RUNNING" /\ y.attempts = 1
    BY Zenon DEF WritesAreApproved
  <2>1. PICK c \in Cases : c = exec[e].case
    BY Owned, Zenon
  <2>2. ExecOK(e) /\ CaseOK(c) /\ case[c].status = "RUNNING" /\ exec[e] \in Exec
    BY <2>1, Owned DEF Verifying
  <2>3. PICK a \in Accounts : a = exec[e].account
    BY <2>2, Zenon DEF ExecOK, Acting, Exec
  <2>4. /\ action[c][a].type \in WritingTypes /\ action[c][a].type # "NONE"
        /\ action[c][a].status = "RUNNING" /\ action[c][a].attempts = 1
    BY <2>1, <2>2, <2>3, ZenonT(60) DEF ExecOK, Acting
  <2>5. QED
    BY <2>1, <2>2, <2>3, <2>4, Zenon DEF CaseOK
<1>3. ActionsRunOnceApproved
  <2> SUFFICES ASSUME NEW c \in Cases, NEW a \in Accounts
               PROVE  /\ action[c][a].attempts <= 1
                      /\ action[c][a].attempts = 1 =>
                           case[c].status \in {"RUNNING", "VERIFYING",
                                               "COMPLETED", "FAILED", "PARTIAL"}
    BY DEF ActionsRunOnceApproved
  <2>1. CaseOK(c) /\ case[c].status \in CaseStatus
    BY DEF OffInv, TypeOK, Case
  <2>2. action[c][a].attempts <= 1
    BY <2>1, Zenon DEF CaseOK
  <2>3. CASE case[c].status \in {"NONE", "DRAFT"}
    <3>1. action[c][a] = NoAction
      BY <2>1, <2>3, Zenon DEF CaseOK
    <3>2. QED
      BY <2>2, <3>1 DEF NoAction
  <2>4. CASE case[c].status \in {"AWAITING_APPROVAL", "APPROVED", "CANCELLED"}
    <3>1. action[c][a].attempts = 0
      BY <2>1, <2>4, Zenon DEF CaseOK, Untouched
    <3>2. QED
      BY <2>2, <3>1
  <2>5. QED
    BY <2>1, <2>2, <2>3, <2>4, SMTT(30) DEF CaseStatus, Terminal
<1>4. FinishedIsAccountedFor
  <2> SUFFICES ASSUME NEW c \in Cases,
                      case[c].status \in {"COMPLETED", "FAILED", "PARTIAL"}
               PROVE  /\ case[c].result = case[c].snapshot
                      /\ case[c].status = FinalStatus(case[c].result)
                      /\ \A a \in Accounts : action[c][a].type # "NONE" =>
                           /\ action[c][a].status \in Settled
                           /\ action[c][a].status = StatusFor(action[c][a].evidence)
    BY DEF FinishedIsAccountedFor
  <2>1. CaseOK(c) /\ case[c].status \in Finished
    BY DEF OffInv, Finished
  <2>2. case[c].result = case[c].snapshot /\ case[c].status = FinalStatus(case[c].result)
    BY <2>1, Zenon DEF CaseOK
  <2>3. \A a \in Accounts : action[c][a].type # "NONE" => Accounted(action[c][a])
    BY <2>1, ZenonT(60) DEF CaseOK
  <2>4. QED
    BY <2>2, <2>3, SMTT(30) DEF Accounted
<1>5. VerifiedHasNoDoubt
  <2>1. \A c \in Cases : CaseOK(c)
    BY DEF OffInv
  <2>2. QED
    BY <2>1, ZenonT(60) DEF CaseOK, VerifiedHasNoDoubt
<1>6. QED
  BY <1>1, <1>2, <1>3, <1>4, <1>5, SMTT(60)

\* The tables and the local variables of ExecuteAndVerify keep their types.
THEOREM TypeCorrect == Spec => []TypeOK
BY OffInvHolds, PTL DEF OffInv

\* A stored DISABLED was read from the provider also when ExecuteAndVerify
\* stores it, and when runs overlap with writes (executeRemoteAction).
THEOREM DisabledIsObservedByExecutors == Spec => []DisabledWasObserved
BY OffInvHolds, PTL DEF OffInv

\* The compare-and-set of ExecuteAndVerify gives a case one executor, and
\* protects all the unguarded updates that follow it.
THEOREM CaseHasOneExecutor == Spec => []ExecutorOwnsCase
BY OffInvHolds, OffInvImplies, PTL

\* No provider is written to without approval, outside the links of the
\* person, or again for the same action (executeRemoteAction).
THEOREM WritesNeedApproval == Spec => []WritesAreApproved
BY OffInvHolds, OffInvImplies, PTL

\* No action runs twice, or in a case that was cancelled or never approved
\* (cancelCase, ExecuteAndVerify).
THEOREM ActionsNeedApproval == Spec => []ActionsRunOnceApproved
BY OffInvHolds, OffInvImplies, PTL

\* Finished cases carry the verdict of their snapshot and are accounted for,
\* action by action (ExecuteAndVerify).
THEOREM VerdictsAreAccountedFor == Spec => []FinishedIsAccountedFor
BY OffInvHolds, OffInvImplies, PTL

\* VERIFIED means that no doubt was left: no manual action, no provider without
\* an answer, every account disabled at some time (domain.EvaluateVerification).
THEOREM VerdictsAreEarned == Spec => []VerifiedHasNoDoubt
BY OffInvHolds, OffInvImplies, PTL

\* An executor changes no case but its own.
LEMMA OnlyItsCase ==
  ASSUME OffInv, NEW e \in Executors, ExecutionStep(e),
         NEW c \in Cases, c # exec[e].case
  PROVE  case'[c] = case[c]
BY ZenonT(60)
   DEF ExecutionStep, LoadActions, StartAction, WriteProvider, RereadProvider,
       StoreDisabled, VerifyLocally, RecordOutcome, InsertEvidence,
       BeginVerification, CountIdentities, CountUnresolved, InsertSnapshot,
       FinishCase, OffInv, TypeOK

\* No step changes a case that has ended, or the plan of one that is approved.
LEMMA EndedStay ==
  ASSUME OffInv, [Next]_vars, NEW c \in Cases
  PROVE  /\ case[c].status \in Terminal => case'[c] = case[c]
         /\ case[c].status \in CaseStatus \ {"NONE", "DRAFT"} =>
              \A a \in Accounts : action'[c][a].type = action[c][a].type
<1>1. CASE UNCHANGED <<case, action>>
  BY <1>1
<1>2. ASSUME NEW d \in Cases, CaseHandler(d)
      PROVE  /\ case[c].status \in Terminal => case'[c] = case[c]
             /\ case[c].status \in CaseStatus \ {"NONE", "DRAFT"} =>
                  \A a \in Accounts : action'[c][a].type = action[c][a].type
  <2>1. \A a \in Accounts : action[c][a] \in Action
    BY DEF OffInv, TypeOK
  <2>2. case[c].status \in Terminal => case'[c] = case[c]
    BY <1>2, Zenon DEF CaseHandler, CreateCase, PlanCase, ApproveCase,
                      CancelCase, SkipActions, OffInv, TypeOK, Terminal
  <2>3. ASSUME NEW from, NEW to \in ActionStatus,
               action' = Restatus(d, from, to), NEW a \in Accounts
        PROVE  action'[c][a].type = action[c][a].type
    <3>1. \/ action'[c][a] = action[c][a]
          \/ action'[c][a] = [action[c][a] EXCEPT !.status = to]
      BY <2>3, RestatusTyped DEF OffInv
    <3>2. QED
      BY <2>1, <3>1, SMTT(30) DEF Action
  <2>4. "APPROVED" \in ActionStatus /\ "SKIPPED" \in ActionStatus
    BY DEF ActionStatus
  <2>5. case[c].status \notin {"NONE", "DRAFT"} =>
          \A a \in Accounts : action'[c][a].type = action[c][a].type
    BY <1>2, <2>3, <2>4, Zenon
       DEF CaseHandler, CreateCase, PlanCase, ApproveCase, CancelCase,
           SkipActions, OffInv, TypeOK
  <2>6. QED
    BY <2>2, <2>5, Zenon
<1>3. ASSUME NEW e \in Executors, NEW d \in Cases, BeginExecution(e, d)
      PROVE  /\ case[c].status \in Terminal => case'[c] = case[c]
             /\ action' = action
  BY <1>3 DEF BeginExecution, OffInv, TypeOK, Terminal
<1>4. ASSUME NEW e \in Executors, ExecutionStep(e)
      PROVE  /\ case[c].status \in Terminal => case'[c] = case[c]
             /\ \A a \in Accounts : action'[c][a].type = action[c][a].type
  <2>1. exec[e].pc # "idle"
    BY <1>4, ZenonT(60) DEF ExecutionStep, LoadActions, StartAction, WriteProvider,
                RereadProvider, StoreDisabled, VerifyLocally, RecordOutcome,
                InsertEvidence, BeginVerification, CountIdentities,
                CountUnresolved, InsertSnapshot, FinishCase
  <2>2. PICK d \in Cases : d = exec[e].case /\ case[d].status \notin Terminal
    BY <2>1, Owned DEF Terminal
  <2>3. \A x \in Cases \ {d} : case'[x] = case[x]
    BY <1>4, <2>2, OnlyItsCase, Zenon
  <2>4. ASSUME NEW a \in Accounts
        PROVE  action'[c][a].type = action[c][a].type
    <3>1. action[c][a] \in Action
      BY DEF OffInv, TypeOK
    <3>2. CASE action' = action
      BY <3>2
    <3>3. CASE \E b \in Accounts : StartAction(e, b)
      <4>1. PICK b \in Accounts : StartAction(e, b)
        BY <3>3
      <4>2. CASE a = b /\ c = d
        BY <2>2, <3>1, <4>1, <4>2, ZenonT(60)
           DEF StartAction, OffInv, TypeOK, Action
      <4>3. CASE ~(a = b /\ c = d)
        BY <2>2, <4>1, <4>3, ZenonT(60) DEF StartAction, OffInv, TypeOK
      <4>4. QED
        BY <4>2, <4>3, SMTT(30)
    <3>4. CASE RecordOutcome(e) \/ InsertEvidence(e)
      <4>1. CASE a = exec[e].account /\ c = d
        <5>1. PICK y : /\ action' = [action EXCEPT ![c][a] = y]
                       /\ y.type = action[c][a].type
          <6>1. CASE RecordOutcome(e)
            <7>1. PICK y : y = [action[c][a] EXCEPT
                                  !.status = StatusFor(exec[e].outcome)]
              BY Zenon
            <7>2. action' = [action EXCEPT ![c][a] = y]
              BY <2>2, <4>1, <6>1, <7>1, ZenonT(60) DEF RecordOutcome
            <7>3. y.type = action[c][a].type
              BY <3>1, <7>1, SMTT(30) DEF Action
            <7>4. QED
              BY <7>2, <7>3, Zenon
          <6>2. CASE InsertEvidence(e)
            <7>1. PICK y : y = [action[c][a] EXCEPT
                                  !.evidence = exec[e].outcome]
              BY Zenon
            <7>2. action' = [action EXCEPT ![c][a] = y]
              BY <2>2, <4>1, <6>2, <7>1, ZenonT(60) DEF InsertEvidence
            <7>3. y.type = action[c][a].type
              BY <3>1, <7>1, SMTT(30) DEF Action
            <7>4. QED
              BY <7>2, <7>3, Zenon
          <6>3. QED
            BY <3>4, <6>1, <6>2, SMTT(30)
        <5>2. QED
          BY <5>1, SMTT(30) DEF OffInv, TypeOK
      <4>2. CASE ~(a = exec[e].account /\ c = d)
        BY <2>2, <3>4, <4>2, SMTT(60)
           DEF RecordOutcome, InsertEvidence, OffInv, TypeOK
      <4>3. QED
        BY <4>1, <4>2, SMTT(30)
    <3>5. QED
      BY <1>4, <3>2, <3>3, <3>4, ZenonT(60)
         DEF ExecutionStep, LoadActions, WriteProvider, RereadProvider,
             StoreDisabled, VerifyLocally, BeginVerification,
             CountIdentities, CountUnresolved, InsertSnapshot, FinishCase
  <2>5. QED
    BY <2>2, <2>3, <2>4, SMTT(30)
<1>5. QED
  BY <1>1, <1>2, <1>3, <1>4, ZenonT(60)
     DEF Next, vars, offVars, StopExecution

\* Nothing changes a case that has ended, and no approved plan changes
\* (PlanCase, cancelCase, ExecuteAndVerify).
THEOREM EndedCasesStay == Spec => EndedIsFinal
<1>1. ASSUME OffInv, [Next]_vars
      PROVE  [\A c \in Cases :
               /\ case[c].status \in Terminal => case'[c] = case[c]
               /\ case[c].status \in CaseStatus \ {"NONE", "DRAFT"} =>
                    \A a \in Accounts :
                      action'[c][a].type = action[c][a].type]_vars
  BY <1>1, EndedStay
<1>2. QED
  BY <1>1, OffInvHolds, PTL DEF Spec, EndedIsFinal

-----------------------------------------------------------------------------
(* The handlers and the executors implement CaseLifecycle. *)

\* A step that gives case c the row y is a transition of c when the status of y
\* may follow, and a stutter when the status stays.
LEMMA RowStep ==
  ASSUME case \in [Cases -> Case], NEW c \in Cases, NEW y \in Case,
         case' = [case EXCEPT ![c] = y],
         \/ y.status = case[c].status
         \/ y.status \in Lifecycle!Statuses
              /\ Lifecycle!Follows(case[c].status, y.status)
  PROVE  \/ Lifecycle!LifecycleNext
         \/ [d \in Cases |-> case[d].status]' = [d \in Cases |-> case[d].status]
<1>1. \A d \in Cases : case'[d] = IF d = c THEN y ELSE case[d]
  OBVIOUS
<1>2. CASE y.status = case[c].status
  BY <1>1, <1>2
<1>3. CASE y.status \in Lifecycle!Statuses
             /\ Lifecycle!Follows(case[c].status, y.status)
  <2>1. [d \in Cases |-> case[d].status][c] = case[c].status
    OBVIOUS
  <2>2. [d \in Cases |-> case[d].status]'
          = [[d \in Cases |-> case[d].status] EXCEPT ![c] = y.status]
    BY <1>1, Zenon
  <2>3. Lifecycle!Transition(c, y.status)
    BY <1>3, <2>1, <2>2, Zenon DEF Lifecycle!Transition
  <2>4. QED
    BY <1>3, <2>3, Zenon DEF Lifecycle!LifecycleNext
<1>4. QED
  BY <1>2, <1>3, Zenon

\* The abstract state, and what a step may do to it.
StatusOf == [c \in Cases |-> case[c].status]
Implemented == Lifecycle!LifecycleNext \/ UNCHANGED StatusOf

\* Handlers write a status under a guard that CanTransitionCase allows.
LEMMA HandlerFollows ==
  ASSUME OffInv, NEW c \in Cases, CaseHandler(c)
  PROVE  Implemented
<1>1. case \in [Cases -> Case] /\ case[c] \in Case
  BY DEF OffInv, TypeOK
<1>2. ASSUME NEW to \in Lifecycle!Statuses \cap CaseStatus,
             Lifecycle!Follows(case[c].status, to),
             case' = [case EXCEPT ![c].status = to]
      PROVE  Implemented
  <2>1. PICK y : y = [case[c] EXCEPT !.status = to]
    BY Zenon
  <2>2. y \in Case /\ y.status = to
    BY <1>1, <2>1 DEF Case
  <2>3. case' = [case EXCEPT ![c] = y]
    BY <1>2, <2>1, Zenon
  <2>4. QED
    BY <1>1, <1>2, <2>2, <2>3, RowStep, Zenon DEF Implemented, StatusOf
<1>3. ASSUME NEW p \in People, CreateCase(c, p)
      PROVE  Implemented
  <2>1. PICK y : y = [case[c] EXCEPT !.status = "DRAFT", !.person = p]
    BY Zenon
  <2>2. y \in Case /\ y.status = "DRAFT"
    BY <1>1, <2>1, Zenon DEF Case, CaseStatus
  <2>3. case' = [case EXCEPT ![c] = y]
    BY <1>3, <2>1, Zenon DEF CreateCase
  <2>4. Lifecycle!Follows(case[c].status, y.status) /\ y.status \in Lifecycle!Statuses
    BY <1>3, <2>2 DEF CreateCase, Lifecycle!Follows, Lifecycle!Statuses
  <2>5. QED
    BY <1>1, <2>2, <2>3, <2>4, RowStep, Zenon DEF Implemented, StatusOf
<1>4. CASE PlanCase(c)
  <2>1. Lifecycle!Follows(case[c].status, "AWAITING_APPROVAL")
    BY <1>4, Zenon DEF PlanCase, Lifecycle!Follows, Lifecycle!CanTransitionCase
  <2>2. "AWAITING_APPROVAL" \in Lifecycle!Statuses \cap CaseStatus
    BY DEF Lifecycle!Statuses, CaseStatus
  <2>3. QED
    BY <1>2, <1>4, <2>1, <2>2, Zenon DEF PlanCase
<1>5. CASE ApproveCase(c)
  <2>1. Lifecycle!Follows(case[c].status, "APPROVED")
    BY <1>5, Zenon DEF ApproveCase, Lifecycle!Follows, Lifecycle!CanTransitionCase
  <2>2. "APPROVED" \in Lifecycle!Statuses \cap CaseStatus
    BY DEF Lifecycle!Statuses, CaseStatus
  <2>3. QED
    BY <1>2, <1>5, <2>1, <2>2, Zenon DEF ApproveCase
<1>6. CASE CancelCase(c)
  <2>1. Lifecycle!Follows(case[c].status, "CANCELLED")
    BY <1>6, Zenon DEF CancelCase, Lifecycle!Follows, Lifecycle!CanTransitionCase
  <2>2. "CANCELLED" \in Lifecycle!Statuses \cap CaseStatus
    BY DEF Lifecycle!Statuses, CaseStatus, Terminal
  <2>3. QED
    BY <1>2, <1>6, <2>1, <2>2, Zenon DEF CancelCase
<1>7. ASSUME NEW ok \in BOOLEAN, SkipActions(c, ok)
      PROVE  Implemented
  BY <1>7 DEF SkipActions, Implemented, StatusOf
<1>8. QED
  BY <1>3, <1>4, <1>5, <1>6, <1>7, Zenon DEF CaseHandler

\* ExecuteAndVerify begins with an APPROVED case.
LEMMA BeginFollows ==
  ASSUME OffInv, NEW e \in Executors, NEW c \in Cases, BeginExecution(e, c)
  PROVE  Implemented
<1>1. case \in [Cases -> Case] /\ case[c] \in Case
  BY DEF OffInv, TypeOK
<1>2. PICK y : y = [case[c] EXCEPT !.status = "RUNNING"]
  BY Zenon
<1>3. y \in Case /\ y.status = "RUNNING"
  BY <1>1, <1>2, SMTT(30) DEF Case, CaseStatus
<1>4. case' = [case EXCEPT ![c] = y]
  BY <1>2, Zenon DEF BeginExecution
<1>5. Lifecycle!Follows(case[c].status, y.status) /\ y.status \in Lifecycle!Statuses
  BY <1>3 DEF BeginExecution, Lifecycle!Follows, Lifecycle!CanTransitionCase,
              Lifecycle!Statuses
<1>6. QED
  BY <1>1, <1>3, <1>4, <1>5, RowStep, Zenon DEF Implemented, StatusOf

\* The unguarded updates of ExecuteAndVerify: nobody else has changed the status
\* of the case since the executor wrote it.
LEMMA ExecutionFollows ==
  ASSUME OffInv, NEW e \in Executors, ExecutionStep(e)
  PROVE  Implemented
<1>1. CASE case' = case
  BY <1>1 DEF Implemented, StatusOf
<1>2. ASSUME exec[e].pc # "idle", NEW y \in Case,
             case' = [case EXCEPT ![exec[e].case] = y],
             \/ y.status = case[exec[e].case].status
             \/ y.status \in Lifecycle!Statuses
                  /\ Lifecycle!Follows(case[exec[e].case].status, y.status)
      PROVE  Implemented
  <2>1. case \in [Cases -> Case] /\ exec[e].case \in Cases
    BY <1>2, Owned DEF OffInv, TypeOK
  <2>2. QED
    BY <1>2, <2>1, RowStep, ZenonT(60) DEF Implemented, StatusOf
<1>3. CASE BeginVerification(e)
  <2>1. exec[e].pc # "idle" /\ exec[e].pc \notin Verifying
    BY <1>3, SMTT(30) DEF BeginVerification, Verifying
  <2>2. case[exec[e].case] \in Case /\ case[exec[e].case].status = "RUNNING"
    BY <2>1, Owned, SMTT(30) DEF OffInv, TypeOK
  <2>3. PICK y : y = [case[exec[e].case] EXCEPT !.status = "VERIFYING"]
    BY Zenon
  <2>4. y \in Case /\ y.status = "VERIFYING"
    BY <2>2, <2>3, SMTT(30) DEF Case, CaseStatus
  <2>5. case' = [case EXCEPT ![exec[e].case] = y]
    BY <1>3, <2>3, ZenonT(60) DEF BeginVerification
  <2>6. /\ Lifecycle!Follows(case[exec[e].case].status, y.status)
        /\ y.status \in Lifecycle!Statuses
    BY <2>2, <2>4 DEF Lifecycle!Follows, Lifecycle!CanTransitionCase,
                      Lifecycle!Statuses
  <2>7. QED
    BY <1>2, <2>1, <2>4, <2>5, <2>6, Zenon
<1>4. CASE InsertSnapshot(e)
  <2>1. exec[e].pc # "idle"
    BY <1>4, SMTT(30) DEF InsertSnapshot
  <2>2. case[exec[e].case] \in Case
    BY <2>1, Owned, SMTT(30) DEF OffInv, TypeOK
  <2>3. PICK y : y = [case[exec[e].case] EXCEPT
                        !.snapshot = EvaluateVerification(exec[e])]
    BY Zenon
  <2>4. y \in Case /\ y.status = case[exec[e].case].status
    BY <2>2, <2>3, VerdictTyped, SMTT(30) DEF Case
  <2>5. case' = [case EXCEPT ![exec[e].case] = y]
    BY <1>4, <2>3, Zenon DEF InsertSnapshot
  <2>6. QED
    BY <1>2, <2>1, <2>4, <2>5, Zenon
<1>5. CASE FinishCase(e)
  <2>1. exec[e].pc # "idle" /\ exec[e].pc \in Verifying
    BY <1>5, SMTT(30) DEF FinishCase, Verifying
  <2>2. case[exec[e].case] \in Case /\ case[exec[e].case].status = "VERIFYING"
    BY <2>1, Owned DEF OffInv, TypeOK
  <2>3. PICK y : y = [case[exec[e].case] EXCEPT
                        !.status = FinalStatus(EvaluateVerification(exec[e])),
                        !.result = EvaluateVerification(exec[e])]
    BY Zenon
  <2>4. y \in Case /\ y.status \in Finished
    BY <2>2, <2>3, VerdictTyped, ZenonT(30) DEF Case, CaseStatus, Terminal, Finished
  <2>5. case' = [case EXCEPT ![exec[e].case] = y]
    BY <1>5, <2>3, ZenonT(60) DEF FinishCase
  <2>6. /\ Lifecycle!Follows(case[exec[e].case].status, y.status)
        /\ y.status \in Lifecycle!Statuses
    BY <2>2, <2>4 DEF Lifecycle!Follows, Lifecycle!CanTransitionCase,
                      Lifecycle!Statuses, Finished
  <2>7. QED
    BY <1>2, <2>1, <2>4, <2>5, <2>6, Zenon
<1>6. QED
  BY <1>1, <1>3, <1>4, <1>5, ZenonT(60)
     DEF ExecutionStep, LoadActions, StartAction, WriteProvider, RereadProvider,
         StoreDisabled, VerifyLocally, RecordOutcome, InsertEvidence,
         CountIdentities, CountUnresolved

\* A step of offboarding is one of the lifecycle, or leaves the statuses alone.
LEMMA StepFollows ==
  ASSUME OffInv, [Next]_vars
  PROVE  [Lifecycle!LifecycleNext]_StatusOf
<1>1. CASE UNCHANGED case
  BY <1>1, SMTT(30) DEF StatusOf
<1>2. ASSUME NEW c \in Cases, CaseHandler(c)
      PROVE  Implemented
  BY <1>2, HandlerFollows, SMTT(30)
<1>3. ASSUME NEW e \in Executors, NEW c \in Cases, BeginExecution(e, c)
      PROVE  Implemented
  BY <1>3, BeginFollows, SMTT(30)
<1>4. ASSUME NEW e \in Executors, ExecutionStep(e)
      PROVE  Implemented
  BY <1>4, ExecutionFollows
<1>5. QED
  BY <1>1, <1>2, <1>3, <1>4, ZenonT(60)
     DEF Implemented, Next, vars, offVars, StopExecution

\* No case has been created at the start.
LEMMA StartFollows == Init => Lifecycle!LifecycleInit
BY DEF Init, OffInit, NoCase, Lifecycle!LifecycleInit

\* The handlers of all replicas, the executors and the crashes between their
\* statements implement the lifecycle the domain package defines, although no
\* handler consults CanTransitionCase.
THEOREM CasesFollowLifecycle == Spec => FollowsLifecycle
BY StartFollows, StepFollows, OffInvHolds, PTL
   DEF Spec, FollowsLifecycle, Lifecycle!LifecycleSpec, StatusOf

-----------------------------------------------------------------------------
(* Links and decisions while cases are executed. *)

\* Offboarding itself neither links an account nor decides a candidate.
LEMMA OffboardingLinksNothing ==
  ASSUME [Next]_vars
  PROVE  [RecNext]_recVars \/ UNCHANGED <<link, candidate>>
<1>1. ASSUME NEW c \in Cases, CaseHandler(c) PROVE UNCHANGED recVars
  BY <1>1, Zenon DEF CaseHandler, CreateCase, PlanCase, ApproveCase, CancelCase, SkipActions
<1>2. ASSUME NEW e \in Executors, ExecutionStep(e) PROVE UNCHANGED <<link, candidate>>
  BY <1>2, ZenonT(60)
     DEF ExecutionStep, LoadActions, StartAction, WriteProvider, RereadProvider,
         StoreDisabled, VerifyLocally, RecordOutcome, InsertEvidence, BeginVerification,
         CountIdentities, CountUnresolved, InsertSnapshot, FinishCase, recVars
<1>3. ASSUME NEW e \in Executors, StopExecution(e) \/ \E c \in Cases : BeginExecution(e, c)
      PROVE  UNCHANGED recVars
  BY <1>3, Zenon DEF StopExecution, BeginExecution
<1>4. CASE UNCHANGED vars
  BY <1>4, Zenon DEF vars
<1>5. CASE Next
  BY <1>1, <1>2, <1>3, <1>5, Zenon DEF Next
<1>6. QED
  BY <1>4, <1>5

\* What holds of links and decisions without offboarding holds with it.
LEMMA LinksKept ==
  ASSUME RecTypeOK, [RecNext]_recVars \/ UNCHANGED <<link, candidate>>
  PROVE  /\ LinksAreJustified /\ AcceptedIsLinked => LinksAreJustified' /\ AcceptedIsLinked'
         /\ \A a \in Accounts : link[a] # NoValue => link'[a] = link[a]
         /\ \A pa \in People \X Accounts :
              candidate[pa] \in {"ACCEPTED", "REJECTED"} => candidate'[pa] = candidate[pa]
<1>1. CASE UNCHANGED <<link, candidate>>
  BY <1>1, SMTT(30) DEF LinksAreJustified, AcceptedIsLinked, Deterministic
<1>2. CASE [RecNext]_recVars
  BY <1>2, LinksStep, DecisionsStay, SMTT(30)
<1>3. QED
  BY <1>1, <1>2, SMTT(30)

\* A provider is only ever written to for an account that an identifier or a
\* trusted address gives to the person of the case, or a reviewer did: never on
\* the likeness of a name (ADR 005), although PlanCase reads identity_links
\* only, and executeRemoteAction not even these.
WritesAreJustified ==
    \A e \in Executors : exec[e].pc = "write" =>
      LET p == case[exec[e].case].person
          a == exec[e].account
      IN  Deterministic(p, a) \/ candidate[<<p, a>>] = "ACCEPTED"

\* From the links and from what has been approved.
LEMMA JustifiedWrites ==
  ASSUME OffInv, LinksAreJustified PROVE WritesAreJustified
<1> SUFFICES ASSUME NEW e \in Executors, exec[e].pc = "write",
                    NEW p, p = case[exec[e].case].person, NEW a, a = exec[e].account
             PROVE  Deterministic(p, a) \/ candidate[<<p, a>>] = "ACCEPTED"
  BY ZenonT(60) DEF WritesAreJustified
<1>1. link[a] = p
  BY OffInvImplies, Zenon DEF WritesAreApproved
<1>2. a \in Accounts /\ p # NoValue
  <2>1. ExecOK(e) /\ exec[e] \in Exec /\ exec[e].pc \in Acting
    BY DEF OffInv, TypeOK, Acting
  <2>2. a \in Accounts
    BY <2>1, Zenon DEF ExecOK, Exec, Acting
  <2>3. PICK c \in Cases : c = exec[e].case /\ case[c].status = "RUNNING"
    BY Owned DEF Verifying
  <2>4. p \in People
    BY <2>3, Zenon DEF OffInv, CaseOK
  <2>5. QED
    BY <2>2, <2>4, ConstantTypes
<1>3. QED
  BY <1>1, <1>2, SMTT(30) DEF LinksAreJustified

\* The links stay justified, and acceptances linked, while cases are executed.
LEMMA LinksHold == Spec => [](LinksAreJustified /\ AcceptedIsLinked)
<1>1. Init => LinksAreJustified /\ AcceptedIsLinked
  BY SMTT(30) DEF Init, RecInit, LinksAreJustified, AcceptedIsLinked
<1>2. ASSUME OffInv, LinksAreJustified /\ AcceptedIsLinked, [Next]_vars
      PROVE  (LinksAreJustified /\ AcceptedIsLinked)'
  BY <1>2, OffboardingLinksNothing, LinksKept, SMTT(30) DEF OffInv, TypeOK
<1>3. QED
  BY <1>1, <1>2, OffInvHolds, PTL DEF Spec

\* No link, and so no write to a provider, rests on the likeness of a name, and
\* no acceptance is separated from its link, while cases are planned and
\* executed (correlate, acceptOrRejectCandidate, PlanCase, executeRemoteAction).
THEOREM ExecutorsRespectLinks ==
  Spec => [](LinksAreJustified /\ AcceptedIsLinked /\ WritesAreJustified)
BY OffInvHolds, LinksHold, JustifiedWrites, PTL

\* Links and decisions survive every later step, of offboarding too.
THEOREM DecisionsSurviveOffboarding == Spec => DecisionsAreFinal
<1>1. ASSUME OffInv, [Next]_vars
      PROVE  [/\ \A a \in Accounts : link[a] # NoValue => link'[a] = link[a]
              /\ \A pa \in People \X Accounts :
                   candidate[pa] \in {"ACCEPTED", "REJECTED"} =>
                     candidate'[pa] = candidate[pa]]_recVars
  BY <1>1, OffboardingLinksNothing, LinksKept, SMTT(30) DEF OffInv, TypeOK
<1>2. QED
  BY <1>1, OffInvHolds, PTL DEF Spec, DecisionsAreFinal

-----------------------------------------------------------------------------
(* What a verdict says of the accounts of the person, those that no action of *)
(* the case is about included.                                                *)

Counted == {"unresolved", "snapshot", "finish"}

\* The accounts that were counted are still linked; if all of them were stored
\* as DISABLED, all of them have been disabled.
CountHolds(e) ==
    exec[e].pc \in Counted =>
      \E S \in SUBSET LinkedTo(case[exec[e].case].person) :
        /\ Cardinality(S) = exec[e].managed
        /\ exec[e].managed <= exec[e].disabled => S \subseteq everOff

CountsHold == \A e \in Executors : CountHolds(e)

\* No step takes back a link, or that an account has been disabled.
LEMMA OffMonotone == ASSUME OffInv, [Next]_vars PROVE Monotone
<1>1. CASE RecNext \/ UNCHANGED recVars
  BY <1>1, RecMonotone, SMTT(30) DEF OffInv, TypeOK
<1>2. ASSUME NEW e \in Executors, ExecutionStep(e) PROVE everOff \subseteq everOff'
  BY <1>2, ZenonT(60)
     DEF ExecutionStep, LoadActions, StartAction, WriteProvider, RereadProvider,
         StoreDisabled, VerifyLocally, RecordOutcome, InsertEvidence, BeginVerification,
         CountIdentities, CountUnresolved, InsertSnapshot, FinishCase, recVars
<1>3. \A a \in Accounts : link[a] # NoValue => link'[a] = link[a]
  BY OffboardingLinksNothing, LinksKept, SMTT(30) DEF OffInv, TypeOK
<1>4. ASSUME NEW c \in Cases, CaseHandler(c) PROVE UNCHANGED recVars
  BY <1>4, Zenon DEF CaseHandler, CreateCase, PlanCase, ApproveCase, CancelCase, SkipActions
<1>5. ASSUME NEW e \in Executors, StopExecution(e) \/ \E c \in Cases : BeginExecution(e, c)
      PROVE  UNCHANGED recVars
  BY <1>5, Zenon DEF StopExecution, BeginExecution
<1>6. CASE UNCHANGED vars
  BY <1>1, <1>6, Zenon DEF vars
<1>7. CASE Next
  BY <1>1, <1>2, <1>3, <1>4, <1>5, <1>7, Zenon DEF Next, Monotone
<1>8. QED
  BY <1>6, <1>7, SMTT(30)

\* A case never changes its person.
LEMMA PersonStays ==
  ASSUME OffInv, [Next]_vars, NEW c \in Cases, case[c].status # "NONE"
  PROVE  case'[c].person = case[c].person
<1>1. case \in [Cases -> Case] /\ case[c] \in Case
  BY DEF OffInv, TypeOK
<1>2. CASE case' = case
  BY <1>2
<1>3. ASSUME NEW d \in Cases, CaseHandler(d) \/ \E e \in Executors : BeginExecution(e, d)
      PROVE  case'[c].person = case[c].person
  <2>1. \/ case' = case
        \/ \E s : case' = [case EXCEPT ![d].status = s]
        \/ \E p \in People : CreateCase(d, p)
    BY <1>3, Zenon DEF CaseHandler, PlanCase, ApproveCase, CancelCase, SkipActions,
       BeginExecution
  <2>2. ASSUME NEW s, case' = [case EXCEPT ![d].status = s]
        PROVE  case'[c].person = case[c].person
    BY <1>1, <2>2, SMTT(30) DEF Case
  <2>3. ASSUME NEW p \in People, CreateCase(d, p)
        PROVE  case'[c].person = case[c].person
    BY <1>1, <2>3, SMTT(30) DEF CreateCase
  <2>4. QED
    BY <2>1, <2>2, <2>3, SMTT(30)
<1>4. ASSUME NEW e \in Executors, ExecutionStep(e)
      PROVE  case'[c].person = case[c].person
  <2>1. CASE c # exec[e].case
    BY <2>1, <1>4, OnlyItsCase, SMTT(30)
  <2>2. CASE c = exec[e].case
    <3>1. \/ case' = case
          \/ \E s : case' = [case EXCEPT ![c].status = s]
          \/ \E s : case' = [case EXCEPT ![c].snapshot = s]
          \/ \E s, v : case' = [case EXCEPT ![c] = [@ EXCEPT !.status = s, !.result = v]]
      BY <1>4, <2>2, ZenonT(60)
         DEF ExecutionStep, LoadActions, StartAction, WriteProvider, RereadProvider,
             StoreDisabled, VerifyLocally, RecordOutcome, InsertEvidence,
             BeginVerification, CountIdentities, CountUnresolved, InsertSnapshot, FinishCase
    <3>2. QED
      BY <1>1, <3>1, ZenonT(60) DEF Case
  <2>3. QED
    BY <2>1, <2>2, SMTT(30)
<1>5. ASSUME \/ RecNext /\ UNCHANGED offVars
             \/ UNCHANGED vars
             \/ \E e \in Executors : StopExecution(e)
      PROVE  case' = case
  BY <1>5, Zenon DEF offVars, vars, StopExecution
<1>6. QED
  BY <1>2, <1>3, <1>4, <1>5, ZenonT(60) DEF Next

\* The accounts that were counted go on holding while their executor waits.
LEMMA CountStays ==
  ASSUME OffInv, CountsHold, NEW e \in Executors, Monotone,
         exec[e].pc \in Counted, exec'[e].case = exec[e].case,
         exec'[e].managed = exec[e].managed, exec'[e].disabled = exec[e].disabled,
         case'[exec[e].case].person = case[exec[e].case].person
  PROVE  CountHolds(e)'
<1>1. PICK S \in SUBSET LinkedTo(case[exec[e].case].person) :
        /\ Cardinality(S) = exec[e].managed
        /\ exec[e].managed <= exec[e].disabled => S \subseteq everOff
  BY DEF CountsHold, CountHolds
<1>2. PICK p : p = case[exec[e].case].person
  BY Zenon
<1>3. exec[e].pc # "idle"
  BY SMTT(30) DEF Counted
<1>4. PICK c \in Cases : c = exec[e].case
  BY <1>3, Owned, SMTT(30)
<1>5. case[c].status \in {"RUNNING", "VERIFYING"} /\ CaseOK(c)
  BY <1>3, <1>4, Owned, SMTT(30)
<1>6. p \in People /\ p # NoValue
  BY <1>2, <1>4, <1>5, ConstantTypes, ZenonT(60) DEF CaseOK
<1>7. S \in SUBSET LinkedTo(p)'
  BY <1>1, <1>2, <1>6, SMTT(30) DEF LinkedTo, Monotone
<1>8. exec'[e].managed <= exec'[e].disabled => S \subseteq everOff'
  BY <1>1, Zenon DEF Monotone
<1>9. case'[exec'[e].case].person = p
  BY <1>2, SMTT(30)
<1>10. QED
  BY <1>1, <1>7, <1>8, <1>9, ZenonT(60) DEF CountHolds, LinkedTo

\* The three statements after the count, and the count itself.
LEMMA CountMoves ==
  ASSUME OffInv, CountsHold, NEW e \in Executors, ExecutionStep(e), Monotone,
         exec'[e].pc \in Counted,
         exec[e].pc # "idle" =>
           case'[exec[e].case].person = case[exec[e].case].person
  PROVE  CountHolds(e)'
<1>1. exec \in [Executors -> Exec] /\ exec[e] \in Exec
  BY DEF OffInv, TypeOK
<1>2. exec[e].pc # "idle" /\ exec[e].case \in Cases
  BY Owned, ZenonT(60) DEF ExecutionStep, LoadActions, StartAction, WriteProvider,
     RereadProvider, StoreDisabled, VerifyLocally, RecordOutcome, InsertEvidence,
     BeginVerification, CountIdentities, CountUnresolved, InsertSnapshot, FinishCase
<1>3. CASE CountIdentities(e)
  <2>1. PICK S : S = LinkedTo(case[exec[e].case].person)
    BY Zenon
  <2>2. PICK D : D = {a \in S : status[a] = "DISABLED"}
    BY Zenon
  <2>3. S \in SUBSET Accounts /\ D \in SUBSET S
    BY <2>1, <2>2, SMTT(30) DEF LinkedTo
  <2>4. PICK n : exec' = [exec EXCEPT ![e] =
          [exec[e] EXCEPT !.pc = "unresolved", !.managed = Cardinality(S),
             !.disabled = Cardinality(D), !.active = n]]
    BY <1>3, <2>1, <2>2, ZenonT(60) DEF CountIdentities
  <2>5. /\ exec'[e].managed = Cardinality(S) /\ exec'[e].disabled = Cardinality(D)
        /\ exec'[e].case = exec[e].case
    BY <1>1, <2>4, Zenon DEF Exec
  <2>6. D \subseteq everOff
    BY <2>2, <2>3, SMTT(30) DEF OffInv, DisabledWasObserved
  <2>7. UNCHANGED <<link, everOff, case>>
    BY <1>3, ZenonT(60) DEF CountIdentities, recVars
  <2>8. Cardinality(S) <= Cardinality(D) => S \subseteq everOff'
    BY <2>3, <2>6, <2>7, CountAll, SMTT(30)
  <2>9. S \in SUBSET LinkedTo(case[exec[e].case].person)'
    BY <2>1, <2>5, <2>7, ZenonT(60) DEF LinkedTo
  <2>10. QED
    BY <2>5, <2>8, <2>9, Zenon DEF CountHolds
<1>4. CASE CountUnresolved(e) \/ InsertSnapshot(e)
  <2>1. exec[e].pc \in Counted
    BY <1>4, Zenon DEF CountUnresolved, InsertSnapshot, Counted
  <2>2. /\ exec'[e].case = exec[e].case /\ exec'[e].managed = exec[e].managed
        /\ exec'[e].disabled = exec[e].disabled
    <3>1. \/ \E u, m : exec' = [exec EXCEPT ![e] =
               [exec[e] EXCEPT !.pc = "snapshot", !.unresolved = u, !.manual = m]]
          \/ exec' = [exec EXCEPT ![e].pc = "finish"]
      BY <1>4, Zenon DEF CountUnresolved, InsertSnapshot
    <3>2. QED
      BY <1>1, <3>1, ZenonT(60) DEF Exec
  <2>3. QED
    BY <1>2, <2>1, <2>2, CountStays, SMTT(30)
<1>5. ASSUME ~CountIdentities(e), ~CountUnresolved(e), ~InsertSnapshot(e) PROVE FALSE
  <2>1. \E v : v \notin Counted /\ exec'[e].pc = v
    <3>1. NoAnswer(exec[e]).pc = "record"
      BY <1>1 DEF NoAnswer, Exec
    <3>2. CASE LoadActions(e) \/ (\E a \in Accounts : StartAction(e, a)) \/ InsertEvidence(e)
      <4>1. CASE LoadActions(e)
        BY <1>1, <4>1, Zenon DEF LoadActions, Exec, Counted
      <4>2. ASSUME NEW a \in Accounts, StartAction(e, a) PROVE exec'[e].pc \notin Counted
        BY <1>1, <4>2, ZenonT(60) DEF StartAction, Exec, Counted
      <4>3. CASE InsertEvidence(e)
        BY <1>1, <4>3, Zenon DEF InsertEvidence, Exec, Counted
      <4>4. QED
        BY <3>2, <4>1, <4>2, <4>3
    <3>3. ASSUME NEW applied \in BOOLEAN, NEW ok \in BOOLEAN, WriteProvider(e, applied, ok)
          PROVE  exec'[e].pc \notin Counted
      BY <1>1, <3>1, <3>3, ZenonT(60) DEF WriteProvider, Exec, Counted
    <3>4. ASSUME NEW answers \in BOOLEAN, RereadProvider(e, answers)
          PROVE  exec'[e].pc \notin Counted
      BY <1>1, <3>1, <3>4, ZenonT(60) DEF RereadProvider, Exec, Counted
    <3>5. CASE StoreDisabled(e) \/ RecordOutcome(e) \/ BeginVerification(e)
      BY <1>1, <3>5, ZenonT(60)
         DEF StoreDisabled, RecordOutcome, BeginVerification, Exec, Counted
    <3>6. ASSUME NEW ok \in BOOLEAN, VerifyLocally(e, ok) PROVE exec'[e].pc \notin Counted
      BY <1>1, <3>6, ZenonT(60) DEF VerifyLocally, Exec, Counted
    <3>7. CASE FinishCase(e)
      BY <1>1, <3>7, Zenon DEF FinishCase, Idle, Counted
    <3>8. QED
      BY <1>5, <3>2, <3>3, <3>4, <3>5, <3>6, <3>7, Zenon DEF ExecutionStep
  <2>2. QED
    BY <2>1
<1>6. QED
  BY <1>3, <1>4, <1>5, SMTT(30)

\* Every step keeps the accounts that were counted.
LEMMA CountStep ==
  ASSUME OffInv, CountsHold, [Next]_vars PROVE CountsHold'
<1> SUFFICES ASSUME NEW e \in Executors PROVE CountHolds(e)'
  BY DEF CountsHold
<1>1. Monotone /\ exec \in [Executors -> Exec]
  BY OffMonotone DEF OffInv, TypeOK
<1>2. ASSUME NEW f \in Executors, exec[f].pc # "idle"
      PROVE  case'[exec[f].case].person = case[exec[f].case].person
  <2>1. PICK c \in Cases : c = exec[f].case
    BY <1>2, Owned, SMTT(30)
  <2>2. case[c].status # "NONE"
    BY <1>2, <2>1, Owned, SMTT(30)
  <2>3. QED
    BY <2>1, <2>2, PersonStays
<1>3. CASE exec'[e] = exec[e]
  <2>1. CASE exec[e].pc \in Counted
    <3>1. exec[e].pc # "idle"
      BY <2>1 DEF Counted
    <3>2. QED
      BY <1>1, <1>2, <1>3, <2>1, <3>1, CountStays, SMTT(30)
  <2>2. CASE exec[e].pc \notin Counted
    BY <1>3, <2>2, Zenon DEF CountHolds
  <2>3. QED
    BY <2>1, <2>2, SMTT(30)
<1>4. CASE exec'[e].pc \notin Counted
  BY <1>4, Zenon DEF CountHolds
<1>5. ASSUME ExecutionStep(e), exec'[e].pc \in Counted PROVE CountHolds(e)'
  BY <1>1, <1>2, <1>5, CountMoves, SMTT(30)
<1>6. ASSUME ~ExecutionStep(e) PROVE exec'[e] = exec[e] \/ exec'[e].pc \notin Counted
  <2>1. ASSUME NEW f \in Executors, ExecutionStep(f), f # e PROVE exec'[e] = exec[e]
    <3>1. \E r : exec' = [exec EXCEPT ![f] = r]
      BY <2>1, ZenonT(60) DEF ExecutionStep, LoadActions, StartAction, WriteProvider,
         RereadProvider, StoreDisabled, VerifyLocally, RecordOutcome, InsertEvidence,
         BeginVerification, CountIdentities, CountUnresolved, InsertSnapshot, FinishCase
    <3>2. QED
      BY <1>1, <2>1, <3>1, SMTT(30)
  <2>2. ASSUME NEW f \in Executors, StopExecution(f) \/ \E c \in Cases : BeginExecution(f, c)
        PROVE  exec'[e] = exec[e] \/ exec'[e].pc \notin Counted
    <3>1. \/ exec' = [exec EXCEPT ![f] = Idle]
          \/ \E c \in Cases : exec' = [exec EXCEPT ![f] = [Idle EXCEPT !.pc = "load", !.case = c]]
      BY <2>2, Zenon DEF StopExecution, BeginExecution
    <3>2. e # f => exec'[e] = exec[e]
      BY <1>1, <3>1, Zenon
    <3>3. CASE exec' = [exec EXCEPT ![f] = Idle]
      <4>1. exec'[f].pc = "idle"
        BY <1>1, <3>3, Zenon DEF Idle
      <4>2. QED
        BY <3>2, <4>1, SMTT(30) DEF Counted
    <3>4. ASSUME NEW c, exec' = [exec EXCEPT ![f] = [Idle EXCEPT !.pc = "load", !.case = c]]
          PROVE  exec'[e] = exec[e] \/ exec'[e].pc \notin Counted
      <4>1. exec'[f].pc = "load"
        BY <1>1, <3>4, Zenon DEF Idle
      <4>2. QED
        BY <3>2, <4>1, SMTT(30) DEF Counted
    <3>5. QED
      BY <3>1, <3>3, <3>4, Zenon
  <2>3. ASSUME \/ RecNext /\ UNCHANGED offVars
               \/ UNCHANGED vars
               \/ \E c \in Cases : CaseHandler(c)
        PROVE  exec' = exec
    BY <2>3, Zenon DEF offVars, vars, CaseHandler, CreateCase, PlanCase, ApproveCase,
       CancelCase, SkipActions
  <2>4. QED
    BY <1>6, <2>1, <2>2, <2>3, Zenon DEF Next
<1>7. QED
  BY <1>3, <1>4, <1>5, <1>6

\* When a case is about to end VERIFIED, every account linked to the person has
\* been disabled at its provider, also one that no action of the case is about;
\* or an account has been linked since ExecuteAndVerify counted.
VerifiedCoversLinks ==
    \A e \in Executors :
      exec[e].pc = "finish" /\ EvaluateVerification(exec[e]) = "VERIFIED" =>
        LET linked == LinkedTo(case[exec[e].case].person) IN
        linked \subseteq everOff \/ Cardinality(linked) > exec[e].managed

\* A link that comes too late is all that a VERIFIED case can miss: the reads
\* of ExecuteAndVerify are separate statements, which is why README's "all
\* relevant managed identities" does not hold without the second alternative.
THEOREM VerdictsCoverLinks == Spec => []VerifiedCoversLinks
<1>1. Init => CountsHold
  BY SMTT(30) DEF Init, OffInit, Idle, CountsHold, CountHolds, Counted
<1>2. ASSUME OffInv, CountsHold PROVE VerifiedCoversLinks
  <2> SUFFICES ASSUME NEW e \in Executors, exec[e].pc = "finish",
                      EvaluateVerification(exec[e]) = "VERIFIED",
                      NEW L, L = LinkedTo(case[exec[e].case].person)
               PROVE  L \subseteq everOff \/ Cardinality(L) > exec[e].managed
    BY Zenon DEF VerifiedCoversLinks
  <2>1. exec[e] \in Exec /\ exec[e].managed \in Nat /\ exec[e].disabled \in Nat
    BY <1>2, SMTT(30) DEF OffInv, TypeOK, Exec
  <2>2. ~(exec[e].disabled < exec[e].managed)
    BY <2>1 DEF EvaluateVerification, Exec
  <2>3. PICK S \in SUBSET L :
          /\ Cardinality(S) = exec[e].managed
          /\ exec[e].managed <= exec[e].disabled => S \subseteq everOff
    BY <1>2, Zenon DEF CountsHold, CountHolds, Counted
  <2>4. S \subseteq everOff
    BY <2>1, <2>2, <2>3, SMTT(30)
  <2>5. L \in SUBSET Accounts
    BY SMTT(30) DEF LinkedTo
  <2>6. /\ Cardinality(L) \in Nat /\ Cardinality(S) \in Nat
        /\ Cardinality(L) <= Cardinality(S) => L = S
    BY <2>5, CountAll, SMTT(30)
  <2>7. Cardinality(L) <= exec[e].managed => L = S
    BY <2>3, <2>6, Zenon
  <2>8. CASE L = S
    BY <2>4, <2>8, ZenonT(60)
  <2>9. CASE ~(Cardinality(L) <= exec[e].managed)
    BY <2>1, <2>6, <2>9
  <2>10. QED
    BY <2>7, <2>8, <2>9, SMTT(30)
<1>3. QED
  BY <1>1, <1>2, OffInvHolds, CountStep, PTL DEF Spec
=============================================================================

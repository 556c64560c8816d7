----------------------------- MODULE Offboarding -----------------------------
(***************************************************************************)
(* Offboarding cases: created, planned, approved, cancelled, executed and  *)
(* verified against what Reconciliation knows.                             *)
(*                                                                         *)
(* CreateCase, PlanCase and ApproveCase are transactions.  cancelCase and  *)
(* ExecuteAndVerify are not: every statement and every provider call of    *)
(* theirs is an action, and everything else may happen in between.         *)
(***************************************************************************)
EXTENDS Reconciliation

CONSTANTS
    Cases,      \* identifiers of lifecycle cases
    Executors   \* goroutines that run ExecuteAndVerify, over all replicas

ASSUME OffboardingConstants ==
    /\ IsFiniteSet(Accounts)
    /\ NoValue \notin Accounts \cup Cases

VARIABLES
    case,       \* lifecycle_cases, with the verification snapshot of a case
    action,     \* lifecycle_actions: of each case, one per planned account
    cancelling, \* cases whose cancelCase is between its two statements
    exec        \* the local variables of each executor

offVars == <<case, action, cancelling, exec>>
vars == <<recVars, offVars>>

Result == {"VERIFIED", "PARTIALLY_VERIFIED", "FAILED", "INCONCLUSIVE"}
Terminal == {"COMPLETED", "FAILED", "PARTIAL", "CANCELLED"}
CaseStatus == Terminal \cup {"NONE", "DRAFT", "AWAITING_APPROVAL", "APPROVED",
                             "RUNNING", "VERIFYING"}
WritingTypes == {"DISABLE_ACCOUNT", "REMOVE_MEMBERSHIP"}
ActionType == WritingTypes \cup {"NONE", "VERIFY_DISABLED", "MANUAL_REVIEW"}
\* What the evidence of an action says; NO_ANSWER is a provider error.
Outcome == {"SUCCEEDED", "FAILED", "NO_ANSWER", "INCONCLUSIVE"}
Settled == {"SUCCEEDED", "FAILED", "INCONCLUSIVE"}
\* Mutant: the outcome is stored as it is.
StatusForRaw(outcome) == outcome

StatusFor(outcome) == IF outcome = "NO_ANSWER" THEN "FAILED" ELSE outcome
ActionStatus == Settled \cup {"NONE", "PLANNED", "APPROVED", "RUNNING",
                              "SKIPPED"}
Case == [status : CaseStatus, person : People \cup {NoValue},
         result : Result \cup {"NONE"}, snapshot : Result \cup {"NONE"}]
Action == [type : ActionType, status : ActionStatus, attempts : Nat,
           evidence : Outcome \cup {"NONE"}]
NoCase == [status |-> "NONE", person |-> NoValue, result |-> "NONE",
           snapshot |-> "NONE"]
NoAction == [type |-> "NONE", status |-> "NONE", attempts |-> 0,
             evidence |-> "NONE"]

\* An executor: the statement it is at, its case, the actions it has read and
\* not finished, the one it works on, its outcome, the systems that failed and
\* the counts it has read.
Exec == [pc : {"idle", "load", "next", "write", "reread", "store", "local",
               "record", "evidence", "count", "unresolved", "snapshot",
               "finish"},
         case : Cases \cup {NoValue}, todo : SUBSET Accounts,
         account : Accounts \cup {NoValue},
         outcome : Outcome, failed : SUBSET Connectors,
         managed : Nat, disabled : Nat, active : Nat,
         unresolved : Nat, manual : Nat]
Idle == [pc |-> "idle", case |-> NoValue, todo |-> {}, account |-> NoValue,
         outcome |-> "INCONCLUSIVE", failed |-> {}, managed |-> 0,
         disabled |-> 0, active |-> 0, unresolved |-> 0, manual |-> 0]

-----------------------------------------------------------------------------
(* Handlers of the case API. *)

CreateCase(c, p) ==
    /\ case[c].status = "NONE"
    /\ people[p] # NoValue
    /\ case' = [case EXCEPT ![c] = [@ EXCEPT !.status = "DRAFT", !.person = p]]
    /\ UNCHANGED <<recVars, action, cancelling, exec>>

\* Mutant: a pending candidate counts as a link.
LinkedOrPending(p) ==
    {a \in Accounts : link[a] = p \/ candidate[<<p, a>>] = "PENDING"}

LinkedTo(p) == {a \in Accounts : link[a] = p}

\* The action PlanCase chooses for an account.
PlannedType(a) ==
    LET k == ConnectorOf[a] IN
    CASE status[a] = "DISABLED" -> "VERIFY_DISABLED"
      [] /\ status[a] # "DISABLED" /\ Type[k] \in WriteTypes
         /\ connector[k].write
         /\ "DISABLE_ACCOUNT" \in connector[k].capabilities -> "DISABLE_ACCOUNT"
      [] /\ status[a] # "DISABLED" /\ Type[k] = "GITHUB"
         /\ connector[k].write
         /\ "REMOVE_MEMBERSHIP" \in connector[k].capabilities ->
            "REMOVE_MEMBERSHIP"
      [] OTHER -> "MANUAL_REVIEW"

PlanCase(c) ==
    /\ case[c].status = "DRAFT"
    /\ LinkedTo(case[c].person) # {}
    /\ action' = [action EXCEPT ![c] =
                    [a \in Accounts |->
                       IF a \in LinkedTo(case[c].person)
                       THEN [NoAction EXCEPT !.type = PlannedType(a),
                                             !.status = "PLANNED"]
                       ELSE NoAction]]
    /\ case' = [case EXCEPT ![c].status = "AWAITING_APPROVAL"]
    /\ UNCHANGED <<recVars, cancelling, exec>>

\* Every action of case c whose status is in from gets the status to.
Restatus(c, from, to) ==
    [action EXCEPT ![c] =
       [a \in Accounts |-> IF action[c][a].status \in from
                           THEN [action[c][a] EXCEPT !.status = to]
                           ELSE action[c][a]]]

\* Mutant: a case that was cancelled in the meantime is approved.
ApproveCancelledCase(c) ==
    /\ case[c].status \in {"AWAITING_APPROVAL", "CANCELLED"}
    /\ case' = [case EXCEPT ![c].status = "APPROVED"]
    /\ action' = Restatus(c, {"PLANNED"}, "APPROVED")
    /\ UNCHANGED <<recVars, cancelling, exec>>

ApproveCase(c) ==
    /\ case[c].status = "AWAITING_APPROVAL"
    /\ case' = [case EXCEPT ![c].status = "APPROVED"]
    /\ action' = Restatus(c, {"PLANNED"}, "APPROVED")
    /\ UNCHANGED <<recVars, cancelling, exec>>

\* Mutant: a case that ended PARTIAL can be cancelled.
CancelPartialCase(c) ==
    /\ case[c].status \in {"DRAFT", "AWAITING_APPROVAL", "APPROVED", "PARTIAL"}
    /\ case' = [case EXCEPT ![c].status = "CANCELLED"]
    /\ cancelling' = cancelling \cup {c}
    /\ UNCHANGED <<recVars, action, exec>>

CancelCase(c) ==
    /\ case[c].status \in {"DRAFT", "AWAITING_APPROVAL", "APPROVED"}
    /\ case' = [case EXCEPT ![c].status = "CANCELLED"]
    /\ cancelling' = cancelling \cup {c}
    /\ UNCHANGED <<recVars, action, exec>>

\* The second statement of cancelCase; its error is ignored.
SkipActions(c, ok) ==
    /\ c \in cancelling
    /\ cancelling' = cancelling \ {c}
    /\ action' = IF ok THEN Restatus(c, {"PLANNED", "APPROVED"}, "SKIPPED")
                       ELSE action
    /\ UNCHANGED <<recVars, case, exec>>

-----------------------------------------------------------------------------
(* ExecuteAndVerify. *)

\* Mutant: a case that is already RUNNING is executed again.
BeginOrResume(e, c) ==
    /\ exec[e].pc = "idle"
    /\ case[c].status \in {"APPROVED", "RUNNING"}
    /\ case' = [case EXCEPT ![c].status = "RUNNING"]
    /\ exec' = [exec EXCEPT ![e] = [Idle EXCEPT !.pc = "load", !.case = c]]
    /\ UNCHANGED <<recVars, action, cancelling>>

\* Mutant: a case that ended PARTIAL is executed again.
BeginOrRepeat(e, c) ==
    /\ exec[e].pc = "idle"
    /\ case[c].status \in {"APPROVED", "PARTIAL"}
    /\ case' = [case EXCEPT ![c].status = "RUNNING"]
    /\ exec' = [exec EXCEPT ![e] = [Idle EXCEPT !.pc = "load", !.case = c]]
    /\ UNCHANGED <<recVars, action, cancelling>>

\* The compare-and-set on the status of the case.
BeginExecution(e, c) ==
    /\ exec[e].pc = "idle"
    /\ case[c].status = "APPROVED"
    /\ case' = [case EXCEPT ![c].status = "RUNNING"]
    /\ exec' = [exec EXCEPT ![e] = [Idle EXCEPT !.pc = "load", !.case = c]]
    /\ UNCHANGED <<recVars, action, cancelling>>

\* Reads the actions and passes over those that have already SUCCEEDED.
LoadActions(e) ==
    /\ exec[e].pc = "load"
    /\ exec' = [exec EXCEPT ![e] = [@ EXCEPT
         !.pc = "next",
         !.todo = {a \in Accounts :
           action[exec[e].case][a].status \notin {"NONE", "SUCCEEDED"}}]]
    /\ UNCHANGED <<recVars, case, action, cancelling>>

\* Marks one action RUNNING.  The actions of a case are ordered by creation
\* time, which one transaction gives them all, and then by a random identifier.
StartAction(e, a) ==
    LET c == exec[e].case
        type == action[c][a].type
    IN
    /\ exec[e].pc = "next"
    /\ a \in exec[e].todo
    /\ action' = IF action[c][a].status \in {"APPROVED", "FAILED"}
                 THEN [action EXCEPT ![c][a] =
                         [@ EXCEPT !.status = "RUNNING",
                                   !.attempts = action[c][a].attempts + 1]]
                 ELSE action
    /\ exec' = [exec EXCEPT ![e] = [@ EXCEPT
         !.account = a,
         !.outcome = "INCONCLUSIVE",
         !.pc = CASE type \in WritingTypes -> "write"
                  [] type = "VERIFY_DISABLED" -> "local"
                  [] OTHER -> "record"]]
    /\ UNCHANGED <<recVars, case, cancelling>>

\* The state a provider gives an account on a successful write.
WriteEffect(type) == IF type = "REMOVE_MEMBERSHIP" THEN "ABSENT" ELSE "DISABLED"

\* An executor whose provider gave no answer.
NoAnswer(x) ==
    [x EXCEPT !.pc = "record", !.outcome = "NO_ANSWER",
              !.failed = x.failed \cup {ConnectorOf[x.account]}]

\* executeRemoteAction, up to the answer to the write: the provider may apply
\* the change or not, and the answer may be lost either way.  A provider that
\* was found inactive beforehand is the case in which nothing is applied.
WriteProvider(e, applied, ok) ==
    LET a == exec[e].account
        effect == WriteEffect(action[exec[e].case][a].type)
    IN
    /\ exec[e].pc = "write"
    /\ applied => remote[a] # "ABSENT"
    /\ remote' = IF applied THEN [remote EXCEPT ![a] = effect] ELSE remote
    /\ everOff' = IF applied /\ effect = "DISABLED" THEN everOff \cup {a}
                                                    ELSE everOff
    /\ exec' = IF ok THEN [exec EXCEPT ![e].pc = "reread"]
               ELSE [exec EXCEPT ![e] = NoAnswer(@)]
    /\ UNCHANGED <<people, status, link, candidate, orphan, duplicate, grant,
                   connector, run, case, action, cancelling>>

\* Mutant: the answer to the write is enough.
TrustTheWrite(e, answers) ==
    /\ exec[e].pc = "reread"
    /\ exec' = [exec EXCEPT ![e] =
                  [@ EXCEPT !.pc = "store", !.outcome = "SUCCEEDED"]]
    /\ UNCHANGED <<recVars, case, action, cancelling>>

\* GetUser after the write.  The lookup of an account the provider no longer
\* has is an error, for GitHub's membership lookup too.
RereadProvider(e, answers) ==
    LET a == exec[e].account IN
    /\ exec[e].pc = "reread"
    /\ answers => remote[a] # "ABSENT"
    /\ exec' = [exec EXCEPT ![e] =
         CASE ~answers -> NoAnswer(@)
           [] answers /\ remote[a] = "DISABLED" ->
                [@ EXCEPT !.pc = "store", !.outcome = "SUCCEEDED"]
           [] OTHER -> [@ EXCEPT !.pc = "record", !.outcome = "FAILED"]]
    /\ UNCHANGED <<recVars, case, action, cancelling>>

\* identity_accounts.active_status after a re-read that found it disabled.
StoreDisabled(e) ==
    /\ exec[e].pc = "store"
    /\ status' = [status EXCEPT ![exec[e].account] = "DISABLED"]
    /\ exec' = [exec EXCEPT ![e].pc = "record"]
    /\ UNCHANGED <<people, remote, everOff, link, candidate, orphan, duplicate,
                   grant, connector, run, case, action, cancelling>>

\* VERIFY_DISABLED looks at the stored status only; an error of that read is
\* not an error of ExecuteAndVerify.
VerifyLocally(e, ok) ==
    /\ exec[e].pc = "local"
    /\ exec' = [exec EXCEPT ![e] = [@ EXCEPT
         !.pc = "record",
         !.outcome = IF ok /\ status[exec[e].account] = "DISABLED"
                     THEN "SUCCEEDED" ELSE "INCONCLUSIVE"]]
    /\ UNCHANGED <<recVars, case, action, cancelling>>

RecordOutcome(e) ==
    /\ exec[e].pc = "record"
    /\ action' = [action EXCEPT
                    ![exec[e].case][exec[e].account].status =
                      StatusFor(exec[e].outcome)]
    /\ exec' = [exec EXCEPT ![e].pc = "evidence"]
    /\ UNCHANGED <<recVars, case, cancelling>>

InsertEvidence(e) ==
    /\ exec[e].pc = "evidence"
    /\ action' = [action EXCEPT
                    ![exec[e].case][exec[e].account].evidence = exec[e].outcome]
    /\ exec' = [exec EXCEPT ![e] = [@ EXCEPT
         !.pc = "next",
         !.account = NoValue,
         !.outcome = "INCONCLUSIVE",
         !.todo = exec[e].todo \ {exec[e].account}]]
    /\ UNCHANGED <<recVars, case, cancelling>>

\* Mutant: verification does not wait for the remaining actions.
BeginVerificationEarly(e) ==
    /\ exec[e].pc = "next"
    /\ case' = [case EXCEPT ![exec[e].case].status = "VERIFYING"]
    /\ exec' = [exec EXCEPT ![e].pc = "count"]
    /\ UNCHANGED <<recVars, action, cancelling>>

BeginVerification(e) ==
    /\ exec[e].pc = "next"
    /\ exec[e].todo = {}
    /\ case' = [case EXCEPT ![exec[e].case].status = "VERIFYING"]
    /\ exec' = [exec EXCEPT ![e].pc = "count"]
    /\ UNCHANGED <<recVars, action, cancelling>>

CountIdentities(e) ==
    LET mine == LinkedTo(case[exec[e].case].person) IN
    /\ exec[e].pc = "count"
    /\ exec' = [exec EXCEPT ![e] = [@ EXCEPT
         !.pc = "unresolved",
         !.managed = Cardinality(mine),
         !.disabled = Cardinality({a \in mine : status[a] = "DISABLED"}),
         !.active = Cardinality({a \in mine : status[a] = "ACTIVE"})]]
    /\ UNCHANGED <<recVars, case, action, cancelling>>

\* The pending candidates, and the manual actions, which no longer change.
CountUnresolved(e) ==
    LET c == exec[e].case IN
    /\ exec[e].pc = "unresolved"
    /\ exec' = [exec EXCEPT ![e] = [@ EXCEPT
         !.pc = "snapshot",
         !.unresolved = Cardinality({a \in Accounts :
           candidate[<<case[c].person, a>>] = "PENDING"}),
         !.manual = Cardinality({a \in Accounts :
           action[c][a].type = "MANUAL_REVIEW"})]]
    /\ UNCHANGED <<recVars, case, action, cancelling>>

\* Mutant: manual actions are not counted.
EvaluateWithoutManual(x) ==
    CASE x.failed # {} -> "INCONCLUSIVE"
      [] x.failed = {} /\ x.active > 0 -> "FAILED"
      [] /\ x.failed = {} /\ x.active = 0
         /\ x.unresolved > 0 \/ x.disabled < x.managed -> "PARTIALLY_VERIFIED"
      [] OTHER -> "VERIFIED"

EvaluateVerification(x) ==
    CASE x.failed # {} -> "INCONCLUSIVE"
      [] x.failed = {} /\ x.active > 0 -> "FAILED"
      [] /\ x.failed = {} /\ x.active = 0
         /\ x.unresolved > 0 \/ x.manual > 0 \/ x.disabled < x.managed ->
           "PARTIALLY_VERIFIED"
      [] OTHER -> "VERIFIED"

FinalStatus(result) ==
    CASE result = "VERIFIED" -> "COMPLETED"
      [] result = "FAILED" -> "FAILED"
      [] OTHER -> "PARTIAL"

InsertSnapshot(e) ==
    /\ exec[e].pc = "snapshot"
    /\ case' = [case EXCEPT ![exec[e].case].snapshot =
                                EvaluateVerification(exec[e])]
    /\ exec' = [exec EXCEPT ![e].pc = "finish"]
    /\ UNCHANGED <<recVars, action, cancelling>>

FinishCase(e) ==
    LET result == EvaluateVerification(exec[e]) IN
    /\ exec[e].pc = "finish"
    /\ case' = [case EXCEPT ![exec[e].case] =
                   [@ EXCEPT !.status = FinalStatus(result), !.result = result]]
    /\ exec' = [exec EXCEPT ![e] = Idle]
    /\ UNCHANGED <<recVars, action, cancelling>>

\* The process stops or a statement fails: ExecuteAndVerify returns where it is.
StopExecution(e) ==
    /\ exec[e].pc # "idle"
    /\ exec' = [exec EXCEPT ![e] = Idle]
    /\ UNCHANGED <<recVars, case, action, cancelling>>

-----------------------------------------------------------------------------
OffInit ==
    /\ case = [c \in Cases |-> NoCase]
    /\ action = [c \in Cases |-> [a \in Accounts |-> NoAction]]
    /\ cancelling = {}
    /\ exec = [e \in Executors |-> Idle]

Init == RecInit /\ OffInit

CaseHandler(c) ==
    \/ \E p \in People : CreateCase(c, p)
    \/ PlanCase(c)
    \/ ApproveCase(c)
    \/ CancelCase(c)
    \/ \E ok \in BOOLEAN : SkipActions(c, ok)

\* One statement or provider call of an ExecuteAndVerify that has begun.
ExecutionStep(e) ==
    \/ LoadActions(e)
    \/ \E a \in Accounts : StartAction(e, a)
    \/ \E applied, ok \in BOOLEAN : WriteProvider(e, applied, ok)
    \/ \E answers \in BOOLEAN : RereadProvider(e, answers)
    \/ StoreDisabled(e)
    \/ \E ok \in BOOLEAN : VerifyLocally(e, ok)
    \/ RecordOutcome(e)
    \/ InsertEvidence(e)
    \/ BeginVerification(e)
    \/ CountIdentities(e)
    \/ CountUnresolved(e)
    \/ InsertSnapshot(e)
    \/ FinishCase(e)

Next ==
    \/ RecNext /\ UNCHANGED offVars
    \/ \E c \in Cases : CaseHandler(c)
    \/ \E e \in Executors, c \in Cases : BeginExecution(e, c)
    \/ \E e \in Executors : ExecutionStep(e)
    \/ \E e \in Executors : StopExecution(e)

Spec == Init /\ [][Next]_vars

-----------------------------------------------------------------------------
(* Properties. *)

\* The values the columns and local variables range over.
TypeOK ==
    /\ RecTypeOK
    /\ case \in [Cases -> Case]
    /\ action \in [Cases -> [Accounts -> Action]]
    /\ cancelling \subseteq Cases
    /\ exec \in [Executors -> Exec]

\* At most one ExecuteAndVerify works on a case, over all replicas, and while
\* it does, the case is RUNNING or VERIFYING: none of the unguarded updates of
\* ExecuteAndVerify can overwrite a status somebody else gave the case.
ExecutorOwnsCase ==
    \A e \in Executors : exec[e].pc # "idle" =>
      /\ case[exec[e].case].status =
           IF exec[e].pc \in {"count", "unresolved", "snapshot", "finish"}
           THEN "VERIFYING" ELSE "RUNNING"
      /\ \A f \in Executors \ {e} : exec[f].case # exec[e].case

\* A provider is only ever written to for an account linked to the person of
\* an approved, running case, under an action that planned a write and that is
\* running for the first time (ADR 006, ADR 007), also when the connector's
\* settings or the links of the person changed after approval.
WritesAreApproved ==
    \A e \in Executors : exec[e].pc = "write" =>
      LET c == exec[e].case
          a == exec[e].account
      IN  /\ case[c].status = "RUNNING"
          /\ link[a] = case[c].person
          /\ action[c][a].type \in WritingTypes
          /\ action[c][a].status = "RUNNING" /\ action[c][a].attempts = 1

\* No action runs twice, and none runs in a case that was cancelled or was
\* never approved, whatever stops and whoever cancels in between.
ActionsRunOnceApproved ==
    \A c \in Cases, a \in Accounts :
      /\ action[c][a].attempts <= 1
      /\ action[c][a].attempts = 1 =>
           case[c].status \in {"RUNNING", "VERIFYING", "COMPLETED", "FAILED",
                               "PARTIAL"}

\* A finished case carries the verdict of its snapshot, and every action it
\* planned has been settled with evidence that says the same.
FinishedIsAccountedFor ==
    \A c \in Cases : case[c].status \in {"COMPLETED", "FAILED", "PARTIAL"} =>
      /\ case[c].result = case[c].snapshot
      /\ case[c].status = FinalStatus(case[c].result)
      /\ \A a \in Accounts : action[c][a].type # "NONE" =>
           /\ action[c][a].status \in Settled
           /\ action[c][a].status = StatusFor(action[c][a].evidence)

\* A VERIFIED case had no manual action and no provider that failed to answer,
\* and each of its accounts has been disabled at its provider at some time:
\* "A provider 200 or 204 response alone is never verification" (README).
VerifiedHasNoDoubt ==
    \A c \in Cases, a \in Accounts :
      case[c].result = "VERIFIED" /\ action[c][a].type # "NONE" =>
        /\ action[c][a].type # "MANUAL_REVIEW"
        /\ action[c][a].evidence # "NO_ANSWER"
        /\ a \in everOff

\* A case that has ended stays as it ended, and the plan of a case never
\* changes once it has been approved.
EndedIsFinal ==
    [][\A c \in Cases :
         /\ case[c].status \in Terminal => case'[c] = case[c]
         /\ case[c].status \in CaseStatus \ {"NONE", "DRAFT"} =>
              \A a \in Accounts : action'[c][a].type = action[c][a].type]_vars

Lifecycle == INSTANCE CaseLifecycle WITH caseStatus <- [c \in Cases |-> case[c].status]

\* Whatever the handlers and the executors of all replicas do at the same time,
\* a case goes through the statuses the way the domain package allows
\* (CanTransitionCase), which no handler consults: each writes the status under
\* a guard of its own, and ExecuteAndVerify under none.
FollowsLifecycle == Lifecycle!LifecycleSpec
=============================================================================

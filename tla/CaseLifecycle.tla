---------------------------- MODULE CaseLifecycle ----------------------------
(***************************************************************************)
(* What the domain package promises of a lifecycle case: which status may  *)
(* follow which.                                                           *)
(***************************************************************************)
CONSTANT Cases

VARIABLE caseStatus   \* the status of each case

\* The pairs of the map; PARTIAL, FAILED, COMPLETED and CANCELLED lead nowhere.
CanTransitionCase(from, to) ==
    \/ from = "DRAFT" /\ to \in {"PLANNED", "CANCELLED"}
    \/ from = "PLANNED" /\ to \in {"AWAITING_APPROVAL", "CANCELLED"}
    \/ from = "AWAITING_APPROVAL" /\ to \in {"APPROVED", "CANCELLED"}
    \/ from = "APPROVED" /\ to \in {"RUNNING", "CANCELLED"}
    \/ from = "RUNNING" /\ to \in {"VERIFYING", "FAILED", "PARTIAL"}
    \/ from = "VERIFYING" /\ to \in {"COMPLETED", "FAILED", "PARTIAL"}

\* A case is created as DRAFT.  A transaction may plan a case and submit the
\* plan, so that nobody sees it PLANNED.
Follows(from, to) ==
    \/ from = "NONE" /\ to = "DRAFT"
    \/ CanTransitionCase(from, to)
    \/ CanTransitionCase(from, "PLANNED") /\ CanTransitionCase("PLANNED", to)

LifecycleInit == caseStatus = [c \in Cases |-> "NONE"]

\* One case changes its status.
Transition(c, to) ==
    /\ Follows(caseStatus[c], to)
    /\ caseStatus' = [caseStatus EXCEPT ![c] = to]

Statuses == {"DRAFT", "PLANNED", "AWAITING_APPROVAL", "APPROVED", "RUNNING", "VERIFYING",
             "COMPLETED", "FAILED", "PARTIAL", "CANCELLED"}

LifecycleNext == \E c \in Cases, to \in Statuses : Transition(c, to)

LifecycleSpec == LifecycleInit /\ [][LifecycleNext]_caseStatus
=============================================================================

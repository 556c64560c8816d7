---------------------------- MODULE IdentityProofs ----------------------------
(***************************************************************************)
(* Identities and the cases that end them, for any people, accounts,       *)
(* connectors, cases, executors and overlapping synchronization runs:      *)
(* first the safety of synchronization, correlation and candidate review,  *)
(* then the inductive invariant of offboarding cases and its preservation  *)
(* by the handlers and by the steps an executor makes on one action.       *)
(* OffboardingProofs goes on from there.                                   *)
(***************************************************************************)
EXTENDS Offboarding, TLAPS

\* A new link goes to a person, an old one stays.
LEMMA NewLinksTyped ==
  ASSUME RecTypeOK, NEW ord, NEW scope
  PROVE  /\ NewLinks(ord, scope) \in [Accounts -> People \cup {NoValue}]
         /\ \A a \in Accounts :
              \/ NewLinks(ord, scope)[a] = link[a]
              \/ /\ link[a] = NoValue
                 /\ NewLinks(ord, scope)[a] \in Known
                 /\ Strong(NewLinks(ord, scope)[a], a)
<1>1. ASSUME NEW a \in Accounts
      PROVE  \/ NewLinks(ord, scope)[a] = link[a]
             \/ /\ link[a] = NoValue
                /\ NewLinks(ord, scope)[a] \in Known
                /\ Strong(NewLinks(ord, scope)[a], a)
  BY <1>1 DEF NewLinks
<1>2. Known \subseteq People
  BY DEF Known
<1>3. QED
  BY <1>1, <1>2 DEF NewLinks, RecTypeOK

\* A decided candidate stays as it is, and none is accepted by correlation.
LEMMA NewCandidatesTyped ==
  ASSUME RecTypeOK, NEW ord, NEW scope
  PROVE  /\ NewCandidates(ord, scope) \in [People \X Accounts -> CandidateState]
         /\ \A pa \in People \X Accounts :
              \/ NewCandidates(ord, scope)[pa] = candidate[pa]
              \/ candidate[pa] = "NONE" /\ NewCandidates(ord, scope)[pa] = "PENDING"
BY DEF NewCandidates, RecTypeOK, CandidateState

\* The correlation pass of a run, whatever order it takes the people in.
LEMMA CommitCorrelates ==
  ASSUME RecTypeOK, NEW r \in Runs, CommitSync(r)
  PROVE  /\ link' \in [Accounts -> People \cup {NoValue}]
         /\ candidate' \in [People \X Accounts -> CandidateState]
         /\ \A a \in Accounts :
              \/ link'[a] = link[a]
              \/ /\ link[a] = NoValue
                 /\ link'[a] \in Known
                 /\ Strong(link'[a], a)
         /\ \A pa \in People \X Accounts :
              \/ candidate'[pa] = candidate[pa]
              \/ candidate[pa] = "NONE" /\ candidate'[pa] = "PENDING"
<1>1. PICK ord, scope : /\ link' = NewLinks(ord, scope)
                        /\ candidate' = NewCandidates(ord, scope)
  BY Zenon DEF CommitSync
<1>2. /\ link' \in [Accounts -> People \cup {NoValue}]
      /\ \A a \in Accounts :
           \/ link'[a] = link[a]
           \/ /\ link[a] = NoValue
              /\ link'[a] \in Known
              /\ Strong(link'[a], a)
  BY <1>1, NewLinksTyped, Zenon
<1>3. /\ candidate' \in [People \X Accounts -> CandidateState]
      /\ \A pa \in People \X Accounts :
           \/ candidate'[pa] = candidate[pa]
           \/ candidate[pa] = "NONE" /\ candidate'[pa] = "PENDING"
  <2>1. /\ NewCandidates(ord, scope) \in [People \X Accounts -> CandidateState]
        /\ \A pa \in People \X Accounts :
             \/ NewCandidates(ord, scope)[pa] = candidate[pa]
             \/ /\ candidate[pa] = "NONE"
                /\ NewCandidates(ord, scope)[pa] = "PENDING"
    BY NewCandidatesTyped
  <2>2. QED
    BY <1>1, <2>1
<1>4. QED
  BY <1>2, <1>3, Zenon

\* What links an account without review is deterministic.
LEMMA StrongIsDeterministic ==
  ASSUME RecTypeOK, NEW p \in Known, NEW a \in Accounts, Strong(p, a)
  PROVE  Deterministic(p, a)
<1>1. p \in People /\ people[p] \in RowsOf(p)
  BY DEF Known, RecTypeOK
<1>2. CASE Evaluate(p, a) = "TRUSTED_EMAIL"
  <2>1. EmailMatch(p, a) /\ people[p].email \in TrustedEmails
    BY <1>2 DEF Evaluate
  <2>2. QED
    BY <1>1, <2>1 DEF EmailMatch, Deterministic
<1>3. CASE Evaluate(p, a) = "EMPLOYEE_ID"
  <2>1. EmployeeMatch(p, a)
    BY <1>3 DEF Evaluate
  <2>2. QED
    BY <2>1 DEF EmployeeMatch, Deterministic
<1>4. QED
  BY <1>2, <1>3 DEF Strong, Deterministic

\* The row of a connector after an administrator changed it.
LEMMA ConnectorTyped ==
  ASSUME RecTypeOK, NEW k \in Connectors, NEW s \in Settings
  PROVE  [connector EXCEPT ![k] = [@ EXCEPT
            !.readable = s.readable, !.write = s.write,
            !.capabilities = s.capabilities]] \in [Connectors -> ConnectorRow]
<1>1. connector \in [Connectors -> ConnectorRow]
  BY DEF RecTypeOK
<1>2. connector[k] \in ConnectorRow
  BY <1>1
<1>3. s \in [readable : BOOLEAN, write : BOOLEAN, capabilities : SUBSET Capabilities]
  BY ConstantTypes
<1>4. [connector[k] EXCEPT !.readable = s.readable, !.write = s.write,
         !.capabilities = s.capabilities] \in ConnectorRow
  BY <1>2, <1>3, Zenon DEF ConnectorRow
<1>5. QED
  BY <1>1, <1>4, Zenon

\* The new status of an account in a transaction of a run.
LEMMA StoredTyped ==
  ASSUME NEW k, NEW s \in RemoteState, s # "ABSENT"
  PROVE  StoredState(k, s) \in LocalState
BY DEF StoredState, RemoteState, LocalState

\* The outcome of a run, stored in the row of its connector.
LEMMA LastSyncTyped ==
  ASSUME RecTypeOK, NEW k \in Connectors \cup {NoValue},
         NEW v \in {"UNKNOWN", "SUCCEEDED", "FAILED"}
  PROVE  [connector EXCEPT ![k].lastSync = v] \in [Connectors -> ConnectorRow]
<1>1. connector \in [Connectors -> ConnectorRow]
  BY DEF RecTypeOK
<1>2. CASE k \in Connectors
  <2>1. connector[k] \in ConnectorRow
    BY <1>1, <1>2
  <2>2. [connector[k] EXCEPT !.lastSync = v] \in ConnectorRow
    BY <2>1, Zenon DEF ConnectorRow
  <2>3. QED
    BY <1>1, <1>2, <2>2, Zenon
<1>3. CASE k \notin Connectors
  BY <1>1, <1>3, Zenon
<1>4. QED
  BY <1>2, <1>3

\* The rows a run goes through.
LEMMA RunTyped ==
  ASSUME RecTypeOK, NEW r \in Runs
  PROVE  /\ \A k \in Connectors :
              [run[r] EXCEPT !.pc = "users", !.row = "RUNNING", !.connector = k]
                \in Run
         /\ \A l \in Listing : [run[r] EXCEPT !.pc = "groups", !.listed = l] \in Run
         /\ \A m \in SUBSET Accounts :
              [run[r] EXCEPT !.pc = "commit", !.members = m] \in Run
         /\ [run[r] EXCEPT !.pc = "done", !.row = "FAILED",
                           !.listed = NoListing] \in Run
         /\ [run[r] EXCEPT !.pc = "done", !.listed = NoListing,
                           !.members = {}] \in Run
         /\ [run[r] EXCEPT !.pc = "done", !.row = "SUCCEEDED",
                           !.listed = NoListing, !.members = {}] \in Run
<1>1. run[r] \in Run
  BY DEF RecTypeOK
<1>2. {} \in SUBSET Accounts /\ NoListing \in Listing
  BY DEF NoListing, Listing, RemoteState
<1>3. ASSUME NEW k \in Connectors
      PROVE  [run[r] EXCEPT !.pc = "users", !.row = "RUNNING", !.connector = k]
               \in Run
  BY <1>1, Zenon DEF Run
<1>4. ASSUME NEW l \in Listing
      PROVE  [run[r] EXCEPT !.pc = "groups", !.listed = l] \in Run
  BY <1>1, Zenon DEF Run
<1>5. ASSUME NEW m \in SUBSET Accounts
      PROVE  [run[r] EXCEPT !.pc = "commit", !.members = m] \in Run
  BY <1>1, Zenon DEF Run
<1>6. [run[r] EXCEPT !.pc = "done", !.row = "FAILED", !.listed = NoListing] \in Run
  BY <1>1, <1>2, Zenon DEF Run
<1>7. [run[r] EXCEPT !.pc = "done", !.listed = NoListing, !.members = {}] \in Run
  BY <1>1, <1>2, Zenon DEF Run
<1>8. [run[r] EXCEPT !.pc = "done", !.row = "SUCCEEDED", !.listed = NoListing,
                     !.members = {}] \in Run
  BY <1>1, <1>2, Zenon DEF Run
<1>9. QED
  BY <1>3, <1>4, <1>5, <1>6, <1>7, <1>8, Zenon

\* Every step keeps the types.
LEMMA RecTypeStep == RecTypeOK /\ [RecNext]_recVars => RecTypeOK'
<1> SUFFICES ASSUME RecTypeOK, [RecNext]_recVars PROVE RecTypeOK'
  OBVIOUS
<1>1. ASSUME NEW a \in Accounts, NEW s \in RemoteState, ProviderChange(a, s)
      PROVE  RecTypeOK'
  BY <1>1 DEF ProviderChange, RecTypeOK, Listing
<1>2. ASSUME NEW f \in Files, ImportPeople(f) PROVE RecTypeOK'
  <2>1. \A p \in People : p \in DOMAIN f => f[p] \in RowsOf(p)
    BY DEF RowsOf
  <2>2. \A p \in People : people'[p] \in RowsOf(p) \cup {NoValue}
    BY <1>2, <2>1 DEF ImportPeople, RecTypeOK
  <2>3. people' \in [People -> AnyRow \cup {NoValue}]
    BY <1>2, <2>2 DEF ImportPeople, AnyRow
  <2>4. QED
    BY <1>2, <2>2, <2>3 DEF ImportPeople, RecTypeOK
<1>3. ASSUME NEW r \in Runs, NEW k \in Connectors, StartSync(r, k)
      PROVE  RecTypeOK'
  <2>1. run' \in [Runs -> Run]
    BY <1>3, RunTyped, Zenon DEF StartSync, RecTypeOK
  <2>2. QED
    BY <1>3, <2>1 DEF StartSync, RecTypeOK
<1>4. ASSUME NEW r \in Runs, ListUsers(r) PROVE RecTypeOK'
  <2>1. [a \in Accounts |-> IF ConnectorOf[a] = run[r].connector THEN remote[a]
                                                          ELSE "ABSENT"]
          \in Listing
    BY DEF RecTypeOK, Listing, RemoteState
  <2>2. run' \in [Runs -> Run]
    BY <1>4, <2>1, RunTyped, Zenon DEF ListUsers, RecTypeOK
  <2>3. QED
    BY <1>4, <2>2 DEF ListUsers, RecTypeOK
<1>5. ASSUME NEW r \in Runs, NEW m \in Memberships, ListGroups(r, m)
      PROVE  RecTypeOK'
  <2>1. m \in SUBSET Accounts
    BY ConstantTypes
  <2>2. run' \in [Runs -> Run]
    BY <1>5, <2>1, RunTyped, Zenon DEF ListGroups, RecTypeOK
  <2>3. QED
    BY <1>5, <2>2 DEF ListGroups, RecTypeOK
<1>6. ASSUME NEW r \in Runs, FailSync(r) PROVE RecTypeOK'
  <2>1. run' \in [Runs -> Run]
    BY <1>6, RunTyped, Zenon DEF FailSync, RecTypeOK
  <2>2. run[r].connector \in Connectors \cup {NoValue}
    BY DEF RecTypeOK, Run
  <2>3. connector' \in [Connectors -> ConnectorRow]
    BY <1>6, <2>2, LastSyncTyped, Zenon DEF FailSync
  <2>4. QED
    BY <1>6, <2>1, <2>3 DEF FailSync, RecTypeOK
<1>7. ASSUME NEW r \in Runs, AbandonSync(r) PROVE RecTypeOK'
  <2>1. run' \in [Runs -> Run]
    BY <1>7, RunTyped, Zenon DEF AbandonSync, RecTypeOK
  <2>2. QED
    BY <1>7, <2>1 DEF AbandonSync, RecTypeOK
<1>8. ASSUME NEW r \in Runs, CommitSync(r) PROVE RecTypeOK'
  <2>1. run' \in [Runs -> Run]
    BY <1>8, RunTyped, Zenon DEF CommitSync, RecTypeOK
  <2>2. /\ run[r].connector \in Connectors \cup {NoValue}
        /\ run[r].listed \in Listing
    BY DEF RecTypeOK, Run
  <2>3. connector' \in [Connectors -> ConnectorRow]
    BY <1>8, <2>2, LastSyncTyped, ZenonT(60) DEF CommitSync
  <2>4. status' \in [Accounts -> LocalState]
    <3>1. \A a \in Accounts : run[r].listed[a] # "ABSENT" =>
            StoredState(run[r].connector, run[r].listed[a]) \in LocalState
      BY <2>2, StoredTyped DEF Listing
    <3>2. QED
      BY <1>8, <3>1 DEF CommitSync, RecTypeOK, LocalState
  <2>5. /\ link' \in [Accounts -> People \cup {NoValue}]
        /\ candidate' \in [People \X Accounts -> CandidateState]
    BY <1>8, CommitCorrelates, SMTT(30)
  <2>6. duplicate' \in [People \X Connectors -> Nat]
    BY <1>8, SMTT(30) DEF CommitSync, NewDuplicates, RecTypeOK
  <2>7. orphan' \subseteq Accounts /\ grant' \subseteq Accounts
    BY <1>8, SMTT(30) DEF CommitSync, NewOrphans, RecTypeOK
  <2>8. people' = people /\ remote' = remote /\ everOff' = everOff
    BY <1>8 DEF CommitSync
  <2>9. QED
    BY <2>1, <2>3, <2>4, <2>5, <2>6, <2>7, <2>8, Zenon DEF RecTypeOK
<1>9. ASSUME NEW p \in People, NEW a \in Accounts, AcceptCandidate(p, a)
      PROVE  RecTypeOK'
  BY <1>9 DEF AcceptCandidate, RecTypeOK, CandidateState
<1>10. ASSUME NEW p \in People, NEW a \in Accounts, RejectCandidate(p, a)
      PROVE  RecTypeOK'
  BY <1>10 DEF RejectCandidate, RecTypeOK, CandidateState
<1>11. ASSUME NEW k \in Connectors, NEW s \in Settings, UpdateConnector(k, s)
      PROVE  RecTypeOK'
  BY <1>11, ConnectorTyped, Zenon DEF UpdateConnector, RecTypeOK
<1>12. CASE UNCHANGED recVars
  BY <1>12 DEF recVars, RecTypeOK
<1>13. QED
  BY <1>1, <1>2, <1>3, <1>4, <1>5, <1>6, <1>7, <1>8, <1>9, <1>10, <1>11,
     <1>12 DEF RecNext

\* The initial state has the types.
LEMMA RecInitTyped == RecInit => RecTypeOK
<1> SUFFICES ASSUME RecInit PROVE RecTypeOK
  OBVIOUS
<1>1. NoRun \in Run
  <2>1. NoListing \in Listing
    BY DEF NoListing, Listing, RemoteState
  <2>2. QED
    BY <2>1 DEF NoRun, Run
<1>2. connector \in [Connectors -> ConnectorRow]
  <2>1. PICK setting \in [Connectors -> Settings] :
          connector = [k \in Connectors |->
              [readable |-> setting[k].readable, write |-> setting[k].write,
               capabilities |-> setting[k].capabilities,
               lastSync |-> "UNKNOWN"]]
    BY DEF RecInit
  <2>2. ASSUME NEW k \in Connectors PROVE connector[k] \in ConnectorRow
    <3>1. setting[k] \in [readable : BOOLEAN, write : BOOLEAN,
                          capabilities : SUBSET Capabilities]
      BY ConstantTypes
    <3>2. [readable |-> setting[k].readable, write |-> setting[k].write,
           capabilities |-> setting[k].capabilities, lastSync |-> "UNKNOWN"]
            \in ConnectorRow
      BY <3>1, Zenon DEF ConnectorRow
    <3>3. QED
      BY <2>1, <3>2
  <2>3. QED
    BY <2>1, <2>2
<1>3. QED
  BY <1>1, <1>2
     DEF RecInit, RecTypeOK, Listing, LocalState, CandidateState, Known

\* What a run has read stays true of the past, however late it commits.
ReadsAreObservations ==
    /\ \A a \in Accounts : remote[a] = "DISABLED" => a \in everOff
    /\ \A r \in Runs, a \in Accounts :
         run[r].listed[a] = "DISABLED" => a \in everOff

\* Every step keeps the observations apart from the wishes.
LEMMA ObservedStep ==
  ASSUME RecTypeOK, ReadsAreObservations, DisabledWasObserved, [RecNext]_recVars
  PROVE  ReadsAreObservations' /\ DisabledWasObserved'
<1> USE DEF ReadsAreObservations, DisabledWasObserved
<1>1. ASSUME NEW a \in Accounts, NEW s \in RemoteState, ProviderChange(a, s)
      PROVE  ReadsAreObservations' /\ DisabledWasObserved'
  BY <1>1 DEF ProviderChange, RecTypeOK, Listing
<1>2. ASSUME UNCHANGED <<remote, everOff, status, run>>
      PROVE  ReadsAreObservations' /\ DisabledWasObserved'
  BY <1>2
<1>3. ASSUME NEW r \in Runs, NEW k \in Connectors, StartSync(r, k)
      PROVE  ReadsAreObservations' /\ DisabledWasObserved'
  BY <1>3 DEF StartSync, RecTypeOK, Run
<1>4. ASSUME NEW r \in Runs, ListUsers(r)
      PROVE  ReadsAreObservations' /\ DisabledWasObserved'
  BY <1>4 DEF ListUsers, RecTypeOK, Run
<1>5. ASSUME NEW r \in Runs, NEW m \in Memberships, ListGroups(r, m)
      PROVE  ReadsAreObservations' /\ DisabledWasObserved'
  BY <1>5 DEF ListGroups, RecTypeOK, Run
<1>6. ASSUME NEW r \in Runs, FailSync(r)
      PROVE  ReadsAreObservations' /\ DisabledWasObserved'
  BY <1>6 DEF FailSync, RecTypeOK, Run, NoListing
<1>7. ASSUME NEW r \in Runs, AbandonSync(r)
      PROVE  ReadsAreObservations' /\ DisabledWasObserved'
  BY <1>7 DEF AbandonSync, RecTypeOK, Run, NoListing
<1>8. ASSUME NEW r \in Runs, CommitSync(r)
      PROVE  ReadsAreObservations' /\ DisabledWasObserved'
  <2>1. ReadsAreObservations'
    BY <1>8, SMTT(30) DEF CommitSync, RecTypeOK, Run, NoListing
  <2>2. \A a \in Accounts : status'[a] = "DISABLED" =>
          run[r].listed[a] = "DISABLED" \/ status[a] = "DISABLED"
    BY <1>8 DEF CommitSync, StoredState
  <2>3. QED
    BY <1>8, <2>1, <2>2, Zenon DEF CommitSync
<1>9. QED
  BY <1>1, <1>2, <1>3, <1>4, <1>5, <1>6, <1>7, <1>8, Zenon
     DEF RecNext, ImportPeople, AcceptCandidate, RejectCandidate,
         UpdateConnector, recVars

\* Every step keeps each link justified and each acceptance linked.
LEMMA LinksStep ==
  ASSUME RecTypeOK, LinksAreJustified, AcceptedIsLinked, [RecNext]_recVars
  PROVE  LinksAreJustified' /\ AcceptedIsLinked'
<1>1. ASSUME UNCHANGED <<link, candidate>>
      PROVE  LinksAreJustified' /\ AcceptedIsLinked'
  BY <1>1 DEF LinksAreJustified, AcceptedIsLinked, Deterministic
<1>2. ASSUME NEW r \in Runs, CommitSync(r)
      PROVE  LinksAreJustified' /\ AcceptedIsLinked'
  <2>1. \A a \in Accounts : link'[a] # link[a] => Deterministic(link'[a], a)
    BY <1>2, CommitCorrelates, StrongIsDeterministic
  <2>2. \A pa \in People \X Accounts :
          candidate'[pa] = "ACCEPTED" <=> candidate[pa] = "ACCEPTED"
    BY <1>2, CommitCorrelates
  <2>3. \A a \in Accounts : link[a] # NoValue => link'[a] = link[a]
    BY <1>2, CommitCorrelates
  <2>4. LinksAreJustified'
    <3> SUFFICES ASSUME NEW a \in Accounts, link'[a] # NoValue
                 PROVE  \/ Deterministic(link'[a], a)
                        \/ candidate'[<<link'[a], a>>] = "ACCEPTED"
      BY DEF LinksAreJustified, Deterministic
    <3>1. CASE link'[a] # link[a]
      BY <2>1, <3>1
    <3>2. CASE link'[a] = link[a]
      <4>1. <<link[a], a>> \in People \X Accounts
        BY <3>2 DEF RecTypeOK
      <4>2. QED
        BY <2>2, <3>2, <4>1 DEF LinksAreJustified
    <3>3. QED
      BY <3>1, <3>2
  <2>5. AcceptedIsLinked'
    BY <2>2, <2>3, ConstantTypes DEF AcceptedIsLinked
  <2>6. QED
    BY <2>4, <2>5
<1>3. ASSUME NEW p \in People, NEW a \in Accounts, AcceptCandidate(p, a)
      PROVE  LinksAreJustified' /\ AcceptedIsLinked'
  <2>1. \A q \in People : candidate[<<q, a>>] # "ACCEPTED"
    BY <1>3, ConstantTypes DEF AcceptCandidate, AcceptedIsLinked
  <2>2. /\ link' = [link EXCEPT ![a] = p]
        /\ candidate' = [candidate EXCEPT ![<<p, a>>] = "ACCEPTED"]
    BY <1>3 DEF AcceptCandidate
  <2>3. LinksAreJustified'
    BY <2>2 DEF LinksAreJustified, Deterministic, RecTypeOK
  <2>4. AcceptedIsLinked'
    BY <2>1, <2>2, SMTT(30) DEF AcceptedIsLinked, RecTypeOK
  <2>5. QED
    BY <2>3, <2>4
<1>4. ASSUME NEW p \in People, NEW a \in Accounts, RejectCandidate(p, a)
      PROVE  LinksAreJustified' /\ AcceptedIsLinked'
  BY <1>4 DEF RejectCandidate, LinksAreJustified, AcceptedIsLinked,
              Deterministic, RecTypeOK
<1>5. QED
  BY <1>1, <1>2, <1>3, <1>4, Zenon
     DEF RecNext, recVars, ProviderChange, ImportPeople, StartSync, ListUsers,
         ListGroups, FailSync, AbandonSync, UpdateConnector

-----------------------------------------------------------------------------
\* A run that has started and not ended has its connector and its row.
RunsAreOpen ==
    \A r \in Runs : run[r].pc \in {"users", "groups", "commit"} =>
      run[r].connector \in Connectors /\ run[r].row = "RUNNING"

\* Every step keeps the rows of the runs that work open.
LEMMA OpenStep ==
  ASSUME RecTypeOK, RunsAreOpen, [RecNext]_recVars
  PROVE  RunsAreOpen'
<1>1. ASSUME run' = run PROVE RunsAreOpen'
  BY <1>1 DEF RunsAreOpen
<1>2. ASSUME NEW r \in Runs, NEW k \in Connectors, StartSync(r, k)
      PROVE  RunsAreOpen'
  BY <1>2 DEF StartSync, RunsAreOpen, RecTypeOK, Run
<1>3. ASSUME NEW r \in Runs, ListUsers(r) PROVE RunsAreOpen'
  BY <1>3 DEF ListUsers, RunsAreOpen, RecTypeOK, Run
<1>4. ASSUME NEW r \in Runs, NEW m \in Memberships, ListGroups(r, m)
      PROVE  RunsAreOpen'
  BY <1>4 DEF ListGroups, RunsAreOpen, RecTypeOK, Run
<1>5. ASSUME NEW r \in Runs, FailSync(r) PROVE RunsAreOpen'
  BY <1>5 DEF FailSync, RunsAreOpen, RecTypeOK, Run
<1>6. ASSUME NEW r \in Runs, AbandonSync(r) PROVE RunsAreOpen'
  BY <1>6, SMTT(30) DEF AbandonSync, RunsAreOpen, RecTypeOK, Run
<1>7. ASSUME NEW r \in Runs, CommitSync(r) PROVE RunsAreOpen'
  BY <1>7 DEF CommitSync, RunsAreOpen, RecTypeOK, Run
<1>8. QED
  BY <1>1, <1>2, <1>3, <1>4, <1>5, <1>6, <1>7, Zenon
     DEF RecNext, recVars, ProviderChange, ImportPeople, AcceptCandidate,
         RejectCandidate, UpdateConnector

\* The inductive invariant of synchronization and correlation.
RecInv ==
    /\ RecTypeOK
    /\ ReadsAreObservations
    /\ DisabledWasObserved
    /\ LinksAreJustified
    /\ AcceptedIsLinked
    /\ RunsAreOpen

\* The inductive invariant holds in every reachable state.
LEMMA RecInvHolds == RecSpec => []RecInv
<1>1. RecInit => RecInv
  <2> SUFFICES ASSUME RecInit PROVE RecInv
    OBVIOUS
  <2>1. RecTypeOK
    BY RecInitTyped
  <2>2. ReadsAreObservations /\ DisabledWasObserved
    BY DEF RecInit, ReadsAreObservations, DisabledWasObserved, NoRun, NoListing
  <2>3. LinksAreJustified /\ AcceptedIsLinked
    BY DEF RecInit, LinksAreJustified, AcceptedIsLinked
  <2>4. RunsAreOpen
    BY DEF RecInit, RunsAreOpen, NoRun
  <2>5. QED
    BY <2>1, <2>2, <2>3, <2>4 DEF RecInv
<1>2. RecInv /\ [RecNext]_recVars => RecInv'
  BY RecTypeStep, ObservedStep, LinksStep, OpenStep DEF RecInv
<1>3. QED
  BY <1>1, <1>2, PTL DEF RecSpec

\* The tables and the local variables of the runs keep their types
\* (SyncSCIM, SyncLDAP, SyncNative, acceptOrRejectCandidate, ImportPeople).
THEOREM RecTypeCorrect == RecSpec => []RecTypeOK
BY RecInvHolds, PTL DEF RecInv

\* A stored DISABLED was read from the provider, with any number of runs of
\* any connectors overlapping with changes at the providers (SyncConnector).
THEOREM DisabledIsObserved == RecSpec => []DisabledWasObserved
BY RecInvHolds, PTL DEF RecInv

\* No account is linked on the likeness of a name (correlate,
\* acceptOrRejectCandidate).
THEOREM LinksAreSafe == RecSpec => []LinksAreJustified
BY RecInvHolds, PTL DEF RecInv

\* No acceptance is separated from its link, whatever is synchronized or
\* imported after it (acceptOrRejectCandidate, correlate).
THEOREM AcceptancesAreLinks == RecSpec => []AcceptedIsLinked
BY RecInvHolds, PTL DEF RecInv

\* No step moves or removes a link, or decides a candidate again.
LEMMA DecisionsStay ==
  ASSUME RecTypeOK, [RecNext]_recVars
  PROVE  /\ \A a \in Accounts : link[a] # NoValue => link'[a] = link[a]
         /\ \A pa \in People \X Accounts :
              candidate[pa] \in {"ACCEPTED", "REJECTED"} =>
                candidate'[pa] = candidate[pa]
<1>1. CASE UNCHANGED <<link, candidate>>
  BY <1>1
<1>2. ASSUME NEW r \in Runs, CommitSync(r)
      PROVE  /\ \A a \in Accounts : link[a] # NoValue => link'[a] = link[a]
             /\ \A pa \in People \X Accounts :
                  candidate[pa] \in {"ACCEPTED", "REJECTED"} =>
                    candidate'[pa] = candidate[pa]
  BY <1>2, CommitCorrelates
<1>3. ASSUME NEW p \in People, NEW a \in Accounts,
             AcceptCandidate(p, a) \/ RejectCandidate(p, a)
      PROVE  /\ \A b \in Accounts : link[b] # NoValue => link'[b] = link[b]
             /\ \A pa \in People \X Accounts :
                  candidate[pa] \in {"ACCEPTED", "REJECTED"} =>
                    candidate'[pa] = candidate[pa]
  BY <1>3, Zenon DEF RecTypeOK, AcceptCandidate, RejectCandidate
<1>4. QED
  BY <1>1, <1>2, <1>3, Zenon
     DEF RecNext, recVars, ProviderChange, ImportPeople, StartSync,
         ListUsers, ListGroups, FailSync, AbandonSync, UpdateConnector

\* Links and decisions survive every later step (correlate, ON CONFLICT DO
\* NOTHING; acceptOrRejectCandidate, status = 'PENDING').
THEOREM DecisionsSurvive == RecSpec => DecisionsAreFinal
<1>1. ASSUME RecInv, [RecNext]_recVars
      PROVE  [/\ \A a \in Accounts : link[a] # NoValue => link'[a] = link[a]
              /\ \A pa \in People \X Accounts :
                   candidate[pa] \in {"ACCEPTED", "REJECTED"} =>
                     candidate'[pa] = candidate[pa]]_recVars
  BY <1>1, DecisionsStay DEF RecInv
<1>2. QED
  BY <1>1, RecInvHolds, PTL DEF RecSpec, DecisionsAreFinal

\* Observations change only in the transaction of a run of their connector
\* that had its complete listing (SyncSCIM, SyncLDAP, SyncNative, failSync).
THEOREM OnlyCommitsObserve == RecSpec => OnlyCommittedRunsObserve
<1>1. ASSUME RecInv, [RecNext]_recVars
      PROVE  [\A a \in Accounts : status'[a] # status[a] =>
                \E r \in Runs :
                  /\ run[r].row = "RUNNING" /\ run'[r].row = "SUCCEEDED"
                  /\ run[r].connector = ConnectorOf[a]
                  /\ status'[a] = "MISSING" <=> run[r].listed[a] = "ABSENT"]_recVars
  <2>1. CASE UNCHANGED status
    BY <2>1
  <2>2. ASSUME NEW r \in Runs, CommitSync(r), NEW a \in Accounts,
               status'[a] # status[a]
        PROVE  /\ run[r].row = "RUNNING" /\ run'[r].row = "SUCCEEDED"
               /\ run[r].connector = ConnectorOf[a]
               /\ status'[a] = "MISSING" <=> run[r].listed[a] = "ABSENT"
    <3>1. run[r].row = "RUNNING"
      BY <1>1, <2>2, Zenon DEF RecInv, RunsAreOpen, CommitSync
    <3>2. run'[r].row = "SUCCEEDED"
      BY <1>1, <2>2, SMTT(30) DEF RecInv, RecTypeOK, Run, CommitSync
    <3>3. run[r].connector = ConnectorOf[a]
      BY <2>2 DEF CommitSync, RecInv, RecTypeOK
    <3>4. run[r].listed[a] \in RemoteState
      BY <1>1 DEF RecInv, RecTypeOK, Run, Listing
    <3>5. status'[a] = "MISSING" <=> run[r].listed[a] = "ABSENT"
      BY <2>2, <3>3, <3>4, Zenon DEF CommitSync, StoredState, RemoteState
    <3>6. QED
      BY <3>1, <3>2, <3>3, <3>5
  <2>3. QED
    BY <1>1, <2>1, <2>2, ZenonT(20)
       DEF RecNext, recVars, ProviderChange, ImportPeople, StartSync,
           ListUsers, ListGroups, FailSync, AbandonSync, UpdateConnector,
           AcceptCandidate, RejectCandidate
<1>2. QED
  BY <1>1, RecInvHolds, PTL DEF RecSpec, OnlyCommittedRunsObserve

-----------------------------------------------------------------------------
(* When a finding can be false.                                            *)

\* Links and candidates name people whose row is there (the foreign keys of
\* identity_links and correlation_candidates).
ReferencesHold ==
    /\ \A a \in Accounts : link[a] # NoValue => link[a] \in Known
    /\ \A p \in People, a \in Accounts :
         candidate[<<p, a>>] # "NONE" => p \in Known

\* No step deletes a person.
LEMMA KnownStays ==
  ASSUME RecTypeOK, [RecNext]_recVars
  PROVE  \A p \in Known : p \in Known'
<1>1. CASE UNCHANGED people
  BY <1>1 DEF Known
<1>2. ASSUME NEW f \in Files, ImportPeople(f), NEW p \in Known
      PROVE  p \in Known'
  <2>1. p \in People /\ people[p] # NoValue
    BY DEF Known
  <2>2. p \in DOMAIN f => f[p] # NoValue
    BY <2>1, ConstantTypes DEF RowsOf
  <2>3. people'[p] = IF p \in DOMAIN f THEN f[p] ELSE people[p]
    BY <1>2, <2>1 DEF ImportPeople
  <2>4. QED
    BY <2>1, <2>2, <2>3 DEF Known
<1>3. QED
  BY <1>1, <1>2, Zenon
     DEF RecNext, recVars, ProviderChange, StartSync, ListUsers, ListGroups,
         FailSync, AbandonSync, CommitSync, AcceptCandidate, RejectCandidate,
         UpdateConnector

\* Every step keeps the references.
LEMMA ReferencesStep ==
  ASSUME RecTypeOK, ReferencesHold, [RecNext]_recVars
  PROVE  ReferencesHold'
<1>1. \A p \in Known : p \in Known'
  BY KnownStays
<1>2. CASE UNCHANGED <<link, candidate>>
  BY <1>1, <1>2, Zenon DEF ReferencesHold
<1>3. ASSUME NEW r \in Runs, CommitSync(r) PROVE ReferencesHold'
  <2>1. PICK ord, scope : candidate' = NewCandidates(ord, scope)
    BY <1>3, Zenon DEF CommitSync
  <2>2. \A p \in People, a \in Accounts :
          candidate'[<<p, a>>] = candidate[<<p, a>>] \/ p \in Known
    BY <2>1 DEF NewCandidates
  <2>3. \A a \in Accounts : link'[a] = link[a] \/ link'[a] \in Known
    BY <1>3, CommitCorrelates
  <2>4. QED
    BY <1>1, <2>2, <2>3, Zenon DEF ReferencesHold
<1>4. ASSUME NEW p \in People, NEW a \in Accounts, AcceptCandidate(p, a)
      PROVE  ReferencesHold'
  <2>1. p \in Known
    BY <1>4 DEF ReferencesHold, AcceptCandidate
  <2>2. \A b \in Accounts : link'[b] = link[b] \/ link'[b] = p
    BY <1>4 DEF AcceptCandidate, RecTypeOK
  <2>3. \A q \in People, b \in Accounts :
          candidate'[<<q, b>>] = candidate[<<q, b>>] \/ q = p
    BY <1>4 DEF AcceptCandidate, RecTypeOK
  <2>4. QED
    BY <1>1, <2>1, <2>2, <2>3, Zenon DEF ReferencesHold
<1>5. ASSUME NEW p \in People, NEW a \in Accounts, RejectCandidate(p, a)
      PROVE  ReferencesHold'
  <2>1. p \in Known
    BY <1>5 DEF ReferencesHold, RejectCandidate
  <2>2. link' = link
    BY <1>5 DEF RejectCandidate
  <2>3. \A q \in People, b \in Accounts :
          candidate'[<<q, b>>] = candidate[<<q, b>>] \/ q = p
    BY <1>5 DEF RejectCandidate, RecTypeOK
  <2>4. QED
    BY <1>1, <2>1, <2>2, <2>3, Zenon DEF ReferencesHold
<1>6. QED
  BY <1>2, <1>3, <1>4, <1>5, Zenon
     DEF RecNext, recVars, ProviderChange, ImportPeople, StartSync, ListUsers,
         ListGroups, FailSync, AbandonSync, UpdateConnector

\* A pass reports only accounts that it does not link, and no identifier or
\* trusted address leads from such an account to a person.
LEMMA ReportedAreUnmatched ==
  ASSUME RecTypeOK, [RecNext]_recVars, NEW a \in orphan' \ orphan
  PROVE  /\ a \in Accounts
         /\ link'[a] = link[a]
         /\ \A p \in Known : ~Strong(p, a)
<1>1. PICK r \in Runs : CommitSync(r)
  BY Zenon DEF RecNext, recVars, ProviderChange, ImportPeople, StartSync,
       ListUsers, ListGroups, FailSync, AbandonSync, AcceptCandidate,
       RejectCandidate, UpdateConnector
<1>2. a \in Accounts /\ \A p \in Known : ~Strong(p, a)
  BY <1>1 DEF CommitSync, NewOrphans
<1>3. QED
  BY <1>1, <1>2, CommitCorrelates

\* A finding that is false when it is written is about an account that was
\* linked before the pass, with no identifier to its person: a reviewer linked
\* it, or a trusted address did that its person has lost or now shares.
WrongOrphansWereLinked ==
    [][\A a \in orphan' \ orphan : link'[a] # NoValue =>
         /\ link[a] = link'[a]
         /\ Attr[a].external # link[a] /\ Attr[a].employee # link[a]
         /\ \/ candidate[<<link[a], a>>] = "ACCEPTED"
            \/ Attr[a].email \in TrustedEmails /\ ~EmailMatch(link[a], a)]_recVars

\* The accounts OrphanFindingsAreTrue can fail for are exactly of that kind:
\* a correlation pass never reports an account that it links itself, nor one
\* that an identifier leads to its person (correlate).
THEOREM FalseFindingsAreStale == RecSpec => WrongOrphansWereLinked
<1>1. RecInit => ReferencesHold
  BY DEF RecInit, ReferencesHold
<1>2. RecInv /\ ReferencesHold /\ [RecNext]_recVars => ReferencesHold'
  BY ReferencesStep DEF RecInv
<1>3. ASSUME RecInv, ReferencesHold, [RecNext]_recVars
      PROVE  [\A a \in orphan' \ orphan : link'[a] # NoValue =>
                /\ link[a] = link'[a]
                /\ Attr[a].external # link[a] /\ Attr[a].employee # link[a]
                /\ \/ candidate[<<link[a], a>>] = "ACCEPTED"
                   \/ Attr[a].email \in TrustedEmails /\ ~EmailMatch(link[a], a)]_recVars
  <2> SUFFICES ASSUME NEW a \in orphan' \ orphan, link'[a] # NoValue
               PROVE  /\ link[a] = link'[a]
                      /\ Attr[a].external # link[a]
                      /\ Attr[a].employee # link[a]
                      /\ \/ candidate[<<link[a], a>>] = "ACCEPTED"
                         \/ /\ Attr[a].email \in TrustedEmails
                            /\ ~EmailMatch(link[a], a)
    OBVIOUS
  <2>1. /\ a \in Accounts
        /\ link'[a] = link[a]
        /\ \A p \in Known : ~Strong(p, a)
    BY <1>3, ReportedAreUnmatched DEF RecInv
  <2>2. ~Strong(link[a], a)
    BY <1>3, <2>1 DEF ReferencesHold
  <2>3. Attr[a].external # link[a] /\ Attr[a].employee # link[a]
    BY <2>2 DEF Strong, Evaluate, EmployeeMatch
  <2>4. ~(EmailMatch(link[a], a) /\ Attr[a].email \in TrustedEmails)
    BY <2>2, <2>3 DEF Strong, Evaluate, EmployeeMatch, EmailMatch
  <2>5. Deterministic(link[a], a) \/ candidate[<<link[a], a>>] = "ACCEPTED"
    BY <1>3, <2>1 DEF RecInv, LinksAreJustified
  <2>6. QED
    BY <2>1, <2>3, <2>4, <2>5 DEF Deterministic
<1>4. QED
  BY <1>1, <1>2, <1>3, RecInvHolds, PTL DEF RecSpec, WrongOrphansWereLinked
-----------------------------------------------------------------------------
(* Offboarding cases: what the tables and the executors' locals satisfy. *)

Finished == {"COMPLETED", "FAILED", "PARTIAL"}
Verifying == {"count", "unresolved", "snapshot", "finish"}
Acting == {"write", "reread", "store", "local", "record", "evidence"}

\* An action that has an outcome and the evidence of it.
Accounted(x) == x.status \in Settled /\ x.status = StatusFor(x.evidence)

\* An action nobody has started.
Untouched(x, s) == x.status = s /\ x.attempts = 0 /\ x.evidence = "NONE"

\* What the tables say of a case, whether or not somebody executes it.
CaseOK(c) ==
    LET s == case[c].status IN
    /\ c \in cancelling => s = "CANCELLED"
    /\ s # "NONE" => case[c].person \in People
    /\ case[c].result # "NONE" => s \in Finished
    /\ s \in Finished => /\ case[c].result = case[c].snapshot
                         /\ s = FinalStatus(case[c].result)
    /\ \A a \in Accounts : LET x == action[c][a] IN
         /\ x.type = "NONE" <=> x.status = "NONE"
         /\ x.type # "NONE" => link[a] = case[c].person
         /\ x.attempts <= 1
         /\ s \in {"NONE", "DRAFT"} => x = NoAction
         /\ s = "AWAITING_APPROVAL" =>
              Untouched(x, "PLANNED") \/ Untouched(x, "NONE")
         /\ s = "APPROVED" => Untouched(x, "APPROVED") \/ Untouched(x, "NONE")
         /\ s = "CANCELLED" => x.attempts = 0
         /\ s \in Finished /\ x.type # "NONE" => Accounted(x)
         /\ case[c].result = "VERIFIED" /\ x.type # "NONE" =>
              /\ x.type # "MANUAL_REVIEW"
              /\ x.evidence # "NO_ANSWER"
              /\ a \in everOff

\* What an executor has made of the actions of its case so far.
ExecOK(e) ==
    LET x == exec[e]
        c == x.case
    IN
    /\ x.pc = "idle" => c = NoValue
    /\ x.pc # "idle" =>
         /\ c \in Cases
         /\ case[c].status = IF x.pc \in Verifying THEN "VERIFYING" ELSE "RUNNING"
         /\ x.pc = "load" =>
              \A a \in Accounts : \/ Untouched(action[c][a], "APPROVED")
                                  \/ Untouched(action[c][a], "NONE")
         /\ x.pc # "load" =>
              /\ \A a \in x.todo \ {x.account} : Untouched(action[c][a], "APPROVED")
              /\ \A a \in Accounts \ x.todo :
                   action[c][a].type = "NONE" \/ Accounted(action[c][a])
         /\ \A a \in Accounts : action[c][a].evidence = "NO_ANSWER" =>
              ConnectorOf[a] \in x.failed
         /\ x.pc \notin Acting => x.account = NoValue
         /\ x.pc \in Acting =>
              /\ x.account \in x.todo
              /\ LET y == action[c][x.account] IN
                 /\ y.type # "NONE" /\ y.attempts = 1 /\ y.evidence = "NONE"
                 /\ y.status = IF x.pc = "evidence" THEN StatusFor(x.outcome)
                                                    ELSE "RUNNING"
                 /\ x.pc \in {"write", "reread", "store"} => y.type \in WritingTypes
              /\ x.outcome = "NO_ANSWER" => ConnectorOf[x.account] \in x.failed
         /\ x.pc = "store" => x.account \in everOff
         /\ x.pc \in Verifying => x.todo = {}
         /\ x.pc \in Verifying \ {"count"} /\ x.managed <= x.disabled =>
              \A a \in Accounts : action[c][a].type # "NONE" => a \in everOff
         /\ x.pc \in {"snapshot", "finish"} /\ x.manual = 0 =>
              \A a \in Accounts : action[c][a].type # "MANUAL_REVIEW"
         /\ x.pc = "finish" => case[c].snapshot = EvaluateVerification(x)

\* No two executors have the same case.
Apart ==
    \A e, f \in Executors :
      e # f /\ exec[e].case # NoValue => exec[f].case # exec[e].case

\* The inductive invariant of offboarding.
OffInv ==
    /\ TypeOK
    /\ ReadsAreObservations
    /\ DisabledWasObserved
    /\ \A c \in Cases : CaseOK(c)
    /\ \A e \in Executors : ExecOK(e)
    /\ Apart

-----------------------------------------------------------------------------
\* What no step takes back: a link, and that an account has been disabled.
Monotone ==
    /\ everOff \subseteq everOff'
    /\ \A a \in Accounts : link[a] # NoValue => link'[a] = link[a]

\* A step of synchronization, correlation, review or configuration.
LEMMA RecMonotone ==
  ASSUME RecTypeOK, [RecNext]_recVars
  PROVE  Monotone
<1>1. ASSUME NEW r \in Runs, CommitSync(r) PROVE Monotone
  BY <1>1, CommitCorrelates, Zenon DEF Monotone, CommitSync
<1>2. ASSUME NEW p \in People, NEW a \in Accounts, AcceptCandidate(p, a)
      PROVE  Monotone
  BY <1>2, SMTT(30) DEF AcceptCandidate, Monotone, RecTypeOK
<1>3. QED
  BY <1>1, <1>2, Zenon
     DEF RecNext, recVars, ProviderChange, ImportPeople, StartSync, ListUsers,
         ListGroups, FailSync, AbandonSync, RejectCandidate, UpdateConnector,
         Monotone

\* A case whose rows a step leaves alone.
LEMMA CaseFrame ==
  ASSUME NEW c \in Cases, CaseOK(c), Monotone, ConstantTypes,
         case'[c] = case[c], action'[c] = action[c],
         c \in cancelling' => c \in cancelling,
         action \in [Cases -> [Accounts -> Action]], case \in [Cases -> Case]
  PROVE  CaseOK(c)'
<1>1. ASSUME NEW a \in Accounts, action[c][a].type # "NONE"
      PROVE  link'[a] = case[c].person
  <2>1. case[c].status \notin {"NONE", "DRAFT"}
    BY <1>1, SMTT(30) DEF CaseOK, NoAction
  <2>2. link[a] = case[c].person /\ case[c].person \in People
    BY <1>1, <2>1 DEF CaseOK
  <2>3. QED
    BY <2>2, ConstantTypes, Zenon DEF Monotone
<1>2. QED
  BY <1>1, SMTT(30) DEF CaseOK, Monotone

\* An executor whose variables and case a step leaves alone.
LEMMA ExecFrame ==
  ASSUME NEW e \in Executors, ExecOK(e), Monotone,
         exec'[e] = exec[e],
         exec[e].case \in Cases =>
           /\ case'[exec[e].case] = case[exec[e].case]
           /\ action'[exec[e].case] = action[exec[e].case]
  PROVE  ExecOK(e)'
<1>1. CASE exec[e].pc = "idle"
  BY <1>1, Zenon DEF ExecOK
<1>2. CASE exec[e].pc # "idle"
  <2>1. exec[e].case \in Cases
    BY <1>2, Zenon DEF ExecOK
  <2>2. QED
    BY <1>2, <2>1, ZenonT(60) DEF ExecOK, Monotone
<1>3. QED
  BY <1>1, <1>2, SMTT(30)

\* A step of executor e on its case c keeps the invariant of all the others.
LEMMA OwnStep ==
  ASSUME OffInv, NEW e \in Executors, NEW c \in Cases, Monotone,
         \A f \in Executors \ {e} : exec[f].case # c,
         \A f \in Executors \ {e} : exec'[f] = exec[f],
         \A d \in Cases \ {c} : case'[d] = case[d] /\ action'[d] = action[d],
         cancelling' = cancelling,
         exec'[e].case \in {c, NoValue},
         CaseOK(c)', ExecOK(e)'
  PROVE  /\ \A d \in Cases : CaseOK(d)'
         /\ \A f \in Executors : ExecOK(f)'
         /\ Apart'
<1>1. ASSUME NEW d \in Cases PROVE CaseOK(d)'
  <2>1. CASE d = c
    BY <2>1
  <2>2. CASE d # c
    BY <2>2, CaseFrame, ConstantTypes, SMTT(30) DEF OffInv, TypeOK
  <2>3. QED
    BY <2>1, <2>2
<1>2. ASSUME NEW f \in Executors PROVE ExecOK(f)'
  <2>1. CASE f = e
    BY <2>1
  <2>2. CASE f # e
    BY <2>2, ExecFrame DEF OffInv
  <2>3. QED
    BY <2>1, <2>2
<1>3. Apart'
  BY DEF OffInv, Apart
<1>4. QED
  BY <1>1, <1>2, <1>3

\* A handler of case c, which nobody executes, keeps the invariant of all the
\* others.
LEMMA HandlerFrame ==
  ASSUME OffInv, NEW c \in Cases, Monotone,
         case[c].status \notin {"RUNNING", "VERIFYING"},
         exec' = exec,
         \A d \in Cases \ {c} : case'[d] = case[d] /\ action'[d] = action[d],
         cancelling' \ {c} \subseteq cancelling,
         CaseOK(c)'
  PROVE  /\ \A d \in Cases : CaseOK(d)'
         /\ \A f \in Executors : ExecOK(f)'
         /\ Apart'
<1>1. ASSUME NEW d \in Cases PROVE CaseOK(d)'
  <2>1. CASE d = c
    BY <2>1, SMTT(30)
  <2>2. CASE d # c
    BY <2>2, CaseFrame, ConstantTypes, SMTT(30) DEF OffInv, TypeOK
  <2>3. QED
    BY <2>1, <2>2
<1>2. ASSUME NEW f \in Executors PROVE ExecOK(f)'
  <2>1. exec[f].case # c
    BY OffboardingConstants, ZenonT(60) DEF OffInv, ExecOK
  <2>2. QED
    BY <2>1, ExecFrame DEF OffInv
<1>3. Apart'
  BY DEF OffInv, Apart
<1>4. QED
  BY <1>1, <1>2, <1>3

\* The rows of a case and an action a handler writes.
LEMMA RowsTyped ==
  ASSUME TypeOK, NEW c \in Cases
  PROVE  /\ \A s \in CaseStatus : [case[c] EXCEPT !.status = s] \in Case
         /\ \A p \in People :
              [case[c] EXCEPT !.status = "DRAFT", !.person = p] \in Case
         /\ \A s \in ActionStatus, a \in Accounts :
              [action[c][a] EXCEPT !.status = s] \in Action
         /\ \A t \in ActionType :
              [NoAction EXCEPT !.type = t, !.status = "PLANNED"] \in Action
         /\ NoAction \in Action
<1>1. case[c] \in Case /\ \A a \in Accounts : action[c][a] \in Action
  BY DEF TypeOK
<1>2. NoAction \in Action
  BY DEF NoAction, Action, ActionType, ActionStatus
<1>3. ASSUME NEW s \in CaseStatus PROVE [case[c] EXCEPT !.status = s] \in Case
  BY <1>1, Zenon DEF Case
<1>4. ASSUME NEW p \in People
      PROVE  [case[c] EXCEPT !.status = "DRAFT", !.person = p] \in Case
  <2>1. "DRAFT" \in CaseStatus /\ p \in People \cup {NoValue}
    BY DEF CaseStatus
  <2>2. QED
    BY <1>1, <2>1, Zenon DEF Case
<1>5. ASSUME NEW s \in ActionStatus, NEW a \in Accounts
      PROVE  [action[c][a] EXCEPT !.status = s] \in Action
  BY <1>1, Zenon DEF Action
<1>6. ASSUME NEW t \in ActionType
      PROVE  [NoAction EXCEPT !.type = t, !.status = "PLANNED"] \in Action
  <2>1. "PLANNED" \in ActionStatus
    BY DEF ActionStatus
  <2>2. QED
    BY <1>2, <2>1, Zenon DEF Action
<1>7. QED
  BY <1>2, <1>3, <1>4, <1>5, <1>6, Zenon

\* Restatus keeps the types, and changes nothing but statuses of its case.
LEMMA RestatusTyped ==
  ASSUME TypeOK, NEW c \in Cases, NEW from, NEW to \in ActionStatus
  PROVE  /\ Restatus(c, from, to) \in [Cases -> [Accounts -> Action]]
         /\ \A d \in Cases \ {c} : Restatus(c, from, to)[d] = action[d]
         /\ \A a \in Accounts :
              Restatus(c, from, to)[c][a] =
                IF action[c][a].status \in from
                THEN [action[c][a] EXCEPT !.status = to] ELSE action[c][a]
<1>1. [a \in Accounts |-> IF action[c][a].status \in from
                          THEN [action[c][a] EXCEPT !.status = to]
                          ELSE action[c][a]] \in [Accounts -> Action]
  BY RowsTyped, Zenon DEF TypeOK
<1>2. QED
  BY <1>1 DEF Restatus, TypeOK

\* The types of what offboarding adds to Reconciliation.
OffTypeOK ==
    /\ case \in [Cases -> Case]
    /\ action \in [Cases -> [Accounts -> Action]]
    /\ cancelling \subseteq Cases
    /\ exec \in [Executors -> Exec]

\* What every handler and every step of an executor has to establish.
Kept ==
    /\ OffTypeOK
    /\ \A d \in Cases : CaseOK(d)
    /\ \A f \in Executors : ExecOK(f)
    /\ Apart

\* createCase.
LEMMA CreateKeeps ==
  ASSUME OffInv, NEW c \in Cases, NEW p \in People, CreateCase(c, p)
  PROVE  Kept'
<1>1. [case[c] EXCEPT !.status = "DRAFT", !.person = p] \in Case
  BY RowsTyped, Zenon DEF OffInv
<1>2. OffTypeOK'
  BY <1>1 DEF OffInv, TypeOK, OffTypeOK, CreateCase
<1>3. Monotone
  BY DEF CreateCase, recVars, Monotone
<1>4. case'[c].status = "DRAFT" /\ case'[c].person = p
      /\ case'[c].result = case[c].result
  BY <1>1, SMTT(30) DEF CreateCase, OffInv, TypeOK, Case
<1>5. CaseOK(c)'
  <2>1. \A a \in Accounts : action'[c][a] = NoAction
    BY DEF OffInv, CaseOK, CreateCase
  <2>2. c \notin cancelling' /\ case[c].result = "NONE"
    BY DEF OffInv, CaseOK, CreateCase, Finished
  <2>3. QED
    BY <1>4, <2>1, <2>2 DEF CaseOK, NoAction, Finished
<1>6. QED
  BY <1>2, <1>3, <1>5, HandlerFrame, Zenon DEF Kept, CreateCase, OffInv, TypeOK

\* PlanCase.
LEMMA PlanKeeps ==
  ASSUME OffInv, NEW c \in Cases, PlanCase(c)
  PROVE  Kept'
<1>1. \A a \in Accounts :
        PlannedType(a) \in ActionType /\ PlannedType(a) # "NONE"
  BY DEF PlannedType, ActionType, WritingTypes
<1>2. /\ [case[c] EXCEPT !.status = "AWAITING_APPROVAL"] \in Case
      /\ \A t \in ActionType :
           [NoAction EXCEPT !.type = t, !.status = "PLANNED"] \in Action
      /\ NoAction \in Action
  BY RowsTyped, Zenon DEF OffInv, CaseStatus
<1>3. ASSUME NEW a \in Accounts
      PROVE  /\ action'[c][a] \in Action
             /\ IF a \in LinkedTo(case[c].person)
                THEN /\ Untouched(action'[c][a], "PLANNED")
                     /\ action'[c][a].type # "NONE"
                ELSE action'[c][a] = NoAction
  BY <1>1, <1>2, Zenon DEF PlanCase, OffInv, TypeOK, NoAction, Untouched
<1>4. action' \in [Cases -> [Accounts -> Action]]
  BY <1>1, <1>2, Zenon DEF PlanCase, OffInv, TypeOK
<1>5. OffTypeOK'
  BY <1>2, <1>4, Zenon DEF OffInv, TypeOK, OffTypeOK, PlanCase
<1>6. Monotone
  BY Zenon DEF PlanCase, recVars, Monotone
<1>7. /\ case'[c].status = "AWAITING_APPROVAL"
      /\ case'[c].person = case[c].person
      /\ case'[c].result = case[c].result
  BY <1>2, ZenonT(60) DEF PlanCase, OffInv, TypeOK, Case
<1>8. CaseOK(c)'
  <2>1. /\ c \notin cancelling' /\ case[c].result = "NONE"
        /\ case[c].person \in People
    BY Zenon DEF OffInv, CaseOK, PlanCase, Finished
  <2>2. link' = link
    BY Zenon DEF PlanCase, recVars
  <2>3. QED
    BY <1>3, <1>7, <2>1, <2>2, SMTT(60)
       DEF CaseOK, NoAction, Finished, LinkedTo, Untouched
<1>9. \A d \in Cases \ {c} : case'[d] = case[d] /\ action'[d] = action[d]
  BY Zenon DEF PlanCase, OffInv, TypeOK
<1>10. QED
  BY <1>5, <1>6, <1>8, <1>9, HandlerFrame, Zenon DEF Kept, PlanCase

\* ApproveCase.
LEMMA ApproveKeeps ==
  ASSUME OffInv, NEW c \in Cases, ApproveCase(c)
  PROVE  Kept'
<1>1. [case[c] EXCEPT !.status = "APPROVED"] \in Case
  BY RowsTyped, Zenon DEF OffInv, CaseStatus
<1>2. /\ action' \in [Cases -> [Accounts -> Action]]
      /\ \A d \in Cases \ {c} : action'[d] = action[d]
      /\ \A a \in Accounts :
           action'[c][a] = IF action[c][a].status \in {"PLANNED"}
                           THEN [action[c][a] EXCEPT !.status = "APPROVED"]
                           ELSE action[c][a]
  <2>1. "APPROVED" \in ActionStatus
    BY DEF ActionStatus
  <2>2. QED
    BY <2>1, RestatusTyped DEF OffInv, ApproveCase
<1>3. OffTypeOK'
  BY <1>1, <1>2 DEF OffInv, TypeOK, OffTypeOK, ApproveCase
<1>4. Monotone
  BY DEF ApproveCase, recVars, Monotone
<1>5. /\ case'[c].status = "APPROVED"
      /\ case'[c].person = case[c].person
      /\ case'[c].result = case[c].result
  BY <1>1, SMTT(30) DEF ApproveCase, OffInv, TypeOK, Case
<1>6. CaseOK(c)'
  <2>1. /\ c \notin cancelling' /\ case[c].result = "NONE"
        /\ case[c].person \in People
    BY DEF OffInv, CaseOK, ApproveCase, Finished
  <2>2. link' = link
    BY DEF ApproveCase, recVars
  <2>3. ASSUME NEW a \in Accounts
        PROVE  /\ action'[c][a].type = action[c][a].type
               /\ \/ /\ Untouched(action[c][a], "PLANNED")
                     /\ Untouched(action'[c][a], "APPROVED")
                  \/ /\ Untouched(action[c][a], "NONE")
                     /\ Untouched(action'[c][a], "NONE")
    <3>1. action[c][a] \in Action
      BY DEF OffInv, TypeOK
    <3>2. Untouched(action[c][a], "PLANNED") \/ Untouched(action[c][a], "NONE")
      BY ZenonT(60) DEF OffInv, CaseOK, ApproveCase
    <3>3. QED
      BY <1>2, <3>1, <3>2, Zenon DEF Untouched, Action
  <2>4. \A a \in Accounts :
          /\ action[c][a].type = "NONE" <=> action[c][a].status = "NONE"
          /\ action[c][a].type # "NONE" => link[a] = case[c].person
    <3>1. CaseOK(c)
      BY DEF OffInv
    <3>2. QED
      BY <3>1, Zenon DEF CaseOK
  <2>5. QED
    BY <1>5, <2>1, <2>2, <2>3, <2>4, SMTT(30) DEF CaseOK, Finished, Untouched
<1>7. \A d \in Cases \ {c} : case'[d] = case[d] /\ action'[d] = action[d]
  BY <1>2 DEF ApproveCase, OffInv, TypeOK
<1>8. QED
  BY <1>3, <1>4, <1>6, <1>7, HandlerFrame DEF Kept, ApproveCase

\* cancelCase, its first statement.
LEMMA CancelKeeps ==
  ASSUME OffInv, NEW c \in Cases, CancelCase(c)
  PROVE  Kept'
<1>1. [case[c] EXCEPT !.status = "CANCELLED"] \in Case
  BY RowsTyped, Zenon DEF OffInv, CaseStatus, Terminal
<1>2. OffTypeOK'
  BY <1>1 DEF OffInv, TypeOK, OffTypeOK, CancelCase
<1>3. Monotone
  BY DEF CancelCase, recVars, Monotone
<1>4. /\ case'[c].status = "CANCELLED"
      /\ case'[c].person = case[c].person
      /\ case'[c].result = case[c].result
  BY <1>1, SMTT(30) DEF CancelCase, OffInv, TypeOK, Case
<1>5. CaseOK(c)'
  <2>1. case[c].result = "NONE" /\ case[c].person \in People
    BY DEF OffInv, CaseOK, CancelCase, Finished
  <2>2. link' = link /\ action' = action
    BY DEF CancelCase, recVars
  <2>3. \A a \in Accounts :
          /\ action[c][a].type = "NONE" <=> action[c][a].status = "NONE"
          /\ action[c][a].type # "NONE" => link[a] = case[c].person
          /\ action[c][a].attempts = 0
    BY SMTT(30) DEF OffInv, CaseOK, CancelCase, NoAction, Untouched
  <2>4. QED
    BY <1>4, <2>1, <2>2, <2>3, SMTT(60) DEF CaseOK, Finished
<1>6. QED
  BY <1>2, <1>3, <1>5, HandlerFrame DEF Kept, CancelCase, OffInv, TypeOK

\* cancelCase, its second statement.
LEMMA SkipKeeps ==
  ASSUME OffInv, NEW c \in Cases, NEW ok \in BOOLEAN, SkipActions(c, ok)
  PROVE  Kept'
<1>1. case[c].status = "CANCELLED"
  BY DEF OffInv, CaseOK, SkipActions
<1>2. /\ action' \in [Cases -> [Accounts -> Action]]
      /\ \A d \in Cases \ {c} : action'[d] = action[d]
      /\ \A a \in Accounts :
           \/ action'[c][a] = action[c][a]
           \/ /\ action'[c][a] = [action[c][a] EXCEPT !.status = "SKIPPED"]
              /\ action[c][a].status \in {"PLANNED", "APPROVED"}
  <2>1. "SKIPPED" \in ActionStatus
    BY DEF ActionStatus
  <2>2. CASE ok
    BY <2>1, <2>2, RestatusTyped DEF OffInv, SkipActions
  <2>3. CASE ~ok
    BY <2>3 DEF OffInv, TypeOK, SkipActions
  <2>4. QED
    BY <2>2, <2>3
<1>3. OffTypeOK'
  BY <1>2 DEF OffInv, TypeOK, OffTypeOK, SkipActions
<1>4. Monotone
  BY SMTT(30) DEF SkipActions, recVars, Monotone
<1>5. CaseOK(c)'
  <2>1. ASSUME NEW a \in Accounts
        PROVE  /\ action'[c][a].type = action[c][a].type
               /\ action'[c][a].attempts = action[c][a].attempts
               /\ action'[c][a].status = "NONE" <=> action[c][a].status = "NONE"
    <3>1. action[c][a] \in Action
      BY DEF OffInv, TypeOK
    <3>2. QED
      BY <1>2, <3>1, Zenon DEF Action
  <2>2. link' = link /\ case' = case
    BY DEF SkipActions, recVars
  <2>3. CaseOK(c)
    BY SMTT(30) DEF OffInv
  <2>4. case[c].result = "NONE" /\ case[c].person \in People
    BY <1>1, <2>3 DEF CaseOK, Finished
  <2>5. \A a \in Accounts :
          /\ action[c][a].type = "NONE" <=> action[c][a].status = "NONE"
          /\ action[c][a].type # "NONE" => link[a] = case[c].person
          /\ action[c][a].attempts = 0
    BY <1>1, <2>3, Zenon DEF CaseOK
  <2>6. QED
    BY <1>1, <2>1, <2>2, <2>4, <2>5 DEF CaseOK, Finished
<1>6. \A d \in Cases \ {c} : case'[d] = case[d] /\ action'[d] = action[d]
  BY <1>2 DEF SkipActions
<1>7. cancelling' \ {c} \subseteq cancelling /\ exec' = exec
  BY DEF SkipActions
<1>8. QED
  BY <1>1, <1>3, <1>4, <1>5, <1>6, <1>7, HandlerFrame, SMTT(30) DEF Kept

\* The compare-and-set at the start of ExecuteAndVerify.
LEMMA BeginKeeps ==
  ASSUME OffInv, NEW e \in Executors, NEW c \in Cases, BeginExecution(e, c)
  PROVE  Kept'
<1>1. [case[c] EXCEPT !.status = "RUNNING"] \in Case
  BY RowsTyped, Zenon DEF OffInv, CaseStatus
<1>2. [Idle EXCEPT !.pc = "load", !.case = c] \in Exec
  BY Zenon DEF Idle, Exec, Outcome
<1>3. OffTypeOK'
  BY <1>1, <1>2 DEF OffInv, TypeOK, OffTypeOK, BeginExecution
<1>4. Monotone
  BY DEF BeginExecution, recVars, Monotone
<1>5. /\ case'[c].status = "RUNNING"
      /\ case'[c].person = case[c].person
      /\ case'[c].result = case[c].result
  BY <1>1 DEF BeginExecution, OffInv, TypeOK, Case
<1>6. /\ exec'[e].pc = "load" /\ exec'[e].case = c
      /\ exec'[e].account = NoValue
  BY DEF BeginExecution, OffInv, TypeOK, Idle
<1>7. /\ action' = action /\ link' = link /\ cancelling' = cancelling
      /\ case[c].status = "APPROVED"
  BY DEF BeginExecution, recVars
<1>8. CaseOK(c)
  BY DEF OffInv
<1>9. \A a \in Accounts : \/ Untouched(action[c][a], "APPROVED")
                          \/ Untouched(action[c][a], "NONE")
  BY <1>7, <1>8, Zenon DEF CaseOK
<1>10. CaseOK(c)'
  BY <1>5, <1>7, <1>8, ZenonT(60) DEF CaseOK, Finished
<1>11. ExecOK(e)'
  BY <1>5, <1>6, <1>7, <1>9, ZenonT(60) DEF ExecOK, Verifying, Acting, Untouched
<1>12. \A f \in Executors \ {e} : exec[f].case # c
  BY <1>7, OffboardingConstants, Zenon DEF OffInv, ExecOK
<1>13. QED
  BY <1>3, <1>4, <1>6, <1>7, <1>10, <1>11, <1>12, OwnStep, ZenonT(60)
     DEF Kept, BeginExecution, OffInv, TypeOK

-----------------------------------------------------------------------------
(* The executor's steps on one action of a case: executeRemoteAction and the
   loop of ExecuteAndVerify around it. *)

\* An executor that works has a case, and no other executor has it.
LEMMA Owned ==
  ASSUME OffInv, NEW e \in Executors, exec[e].pc # "idle"
  PROVE  /\ exec[e].case \in Cases
         /\ exec[e] \in Exec
         /\ CaseOK(exec[e].case) /\ ExecOK(e)
         /\ \A f \in Executors \ {e} : exec[f].case # exec[e].case
         /\ case[exec[e].case].status =
              IF exec[e].pc \in Verifying THEN "VERIFYING" ELSE "RUNNING"
<1>1. exec[e].case \in Cases /\ exec[e] \in Exec /\ ExecOK(e)
  BY Zenon DEF OffInv, ExecOK, TypeOK
<1>2. \A f \in Executors \ {e} : exec[f].case # exec[e].case
  BY <1>1, OffboardingConstants DEF OffInv, Apart
<1>3. QED
  BY <1>1, <1>2, Zenon DEF OffInv, ExecOK

\* A step of an executor that writes to no case and no action.
LEMMA QuietStep ==
  ASSUME OffInv, NEW e \in Executors, exec[e].pc # "idle", NEW row \in Exec,
         exec' = [exec EXCEPT ![e] = row], row.case \in {exec[e].case, NoValue},
         UNCHANGED <<case, action, cancelling>>, Monotone, ExecOK(e)'
  PROVE  Kept'
<1>1. OffTypeOK'
  BY DEF OffTypeOK, OffInv, TypeOK
<1>2. /\ exec'[e] = row
      /\ \A f \in Executors \ {e} : exec'[f] = exec[f]
  BY DEF OffInv, TypeOK
<1>3. PICK c \in Cases : c = exec[e].case
  BY Owned, SMTT(30)
<1>4. CaseOK(c) /\ \A f \in Executors \ {e} : exec[f].case # c
  BY <1>3, Owned
<1>5. CaseOK(c)'
  BY <1>4, CaseFrame, ConstantTypes, Zenon DEF OffInv, TypeOK
<1>6. QED
  BY <1>1, <1>2, <1>3, <1>4, <1>5, OwnStep, ZenonT(60) DEF Kept

\* An executor that has returned.
LEMMA NowIdle ==
  ASSUME NEW e \in Executors, exec'[e].pc = "idle", exec'[e].case = NoValue
  PROVE  ExecOK(e)'
BY Zenon DEF ExecOK

\* An executor between two actions.
LEMMA NowNext ==
  ASSUME NEW e \in Executors, NEW c \in Cases, NEW row, exec'[e] = row,
         row.pc = "next", row.case = c, row.account = NoValue,
         case'[c].status = "RUNNING",
         \A a \in row.todo : Untouched(action'[c][a], "APPROVED"),
         \A a \in Accounts \ row.todo :
           action'[c][a].type = "NONE" \/ Accounted(action'[c][a]),
         \A a \in Accounts : action'[c][a].evidence = "NO_ANSWER" =>
           ConnectorOf[a] \in row.failed
  PROVE  ExecOK(e)'
<1>1. row.pc \notin Verifying /\ row.pc \notin Acting
  BY SMTT(60) DEF Verifying, Acting
<1>2. QED
  BY <1>1, Zenon DEF ExecOK

\* An executor in the middle of an action that is RUNNING.
LEMMA NowActing ==
  ASSUME NEW e \in Executors, NEW c \in Cases, NEW row, exec'[e] = row,
         row.pc \in Acting \ {"evidence"}, row.case = c,
         row.account \in row.todo, case'[c].status = "RUNNING",
         action'[c][row.account].type # "NONE",
         action'[c][row.account].attempts = 1,
         action'[c][row.account].evidence = "NONE",
         action'[c][row.account].status = "RUNNING",
         row.pc \in {"write", "reread", "store"} =>
           action'[c][row.account].type \in WritingTypes,
         row.pc = "store" => row.account \in everOff',
         row.outcome = "NO_ANSWER" => ConnectorOf[row.account] \in row.failed,
         \A a \in row.todo \ {row.account} : Untouched(action'[c][a], "APPROVED"),
         \A a \in Accounts \ row.todo :
           action'[c][a].type = "NONE" \/ Accounted(action'[c][a]),
         \A a \in Accounts : action'[c][a].evidence = "NO_ANSWER" =>
           ConnectorOf[a] \in row.failed
  PROVE  ExecOK(e)'
<1>1. /\ row.pc \notin Verifying /\ row.pc \in Acting
      /\ row.pc \notin {"idle", "load", "snapshot", "finish", "evidence"}
  BY Zenon DEF Verifying, Acting
<1>2. QED
  BY <1>1, Zenon DEF ExecOK

\* StopExecution, at any statement.
LEMMA StopKeeps ==
  ASSUME OffInv, NEW e \in Executors, StopExecution(e)
  PROVE  Kept'
<1>1. Idle \in Exec
  BY Zenon DEF Idle, Exec, Outcome
<1>2. exec' = [exec EXCEPT ![e] = Idle] /\ exec'[e] = Idle
  BY DEF StopExecution, OffInv, TypeOK
<1>3. ExecOK(e)'
  <2>1. exec'[e].pc = "idle" /\ exec'[e].case = NoValue
    BY <1>2 DEF Idle
  <2>2. QED
    BY <2>1, NowIdle, SMTT(60)
<1>4. Monotone
  BY DEF StopExecution, recVars, Monotone
<1>5. QED
  BY <1>1, <1>2, <1>3, <1>4, QuietStep, Zenon DEF StopExecution, Idle

\* The query for the actions of the case.
LEMMA LoadKeeps ==
  ASSUME OffInv, NEW e \in Executors, LoadActions(e)
  PROVE  Kept'
<1> DEFINE c == exec[e].case
           todo == {a \in Accounts : action[c][a].status \notin {"NONE", "SUCCEEDED"}}
<1>1. exec[e].pc = "load" /\ exec[e].pc # "idle"
  BY SMTT(30) DEF LoadActions
<1>2. /\ c \in Cases /\ exec[e] \in Exec /\ CaseOK(c) /\ ExecOK(e)
      /\ case[c].status = "RUNNING"
  BY <1>1, Owned, SMTT(30) DEF Verifying
<1> HIDE DEF c, todo
<1>3. todo \in SUBSET Accounts
  BY DEF todo
<1>4. PICK row \in Exec : row = [exec[e] EXCEPT !.pc = "next", !.todo = todo]
  BY <1>2, <1>3, Zenon DEF Exec
<1>5. exec' = [exec EXCEPT ![e] = row]
  BY <1>4, Zenon DEF LoadActions, todo, c
<1>6. /\ exec'[e] = row /\ row.pc = "next" /\ row.todo = todo /\ row.case = c
      /\ row.account = exec[e].account /\ row.failed = exec[e].failed
  BY <1>2, <1>4, <1>5, ZenonT(60) DEF OffInv, TypeOK, Exec, c
<1>7. /\ case' = case /\ action' = action /\ everOff' = everOff
      /\ link' = link /\ cancelling' = cancelling
  BY DEF LoadActions, recVars
<1>8. /\ exec[e].account = NoValue
      /\ \A a \in Accounts : \/ Untouched(action[c][a], "APPROVED")
                             \/ Untouched(action[c][a], "NONE")
  BY <1>1, <1>2, ZenonT(60) DEF ExecOK, c, Acting
<1>9. \A a \in Accounts :
        /\ a \in todo => Untouched(action[c][a], "APPROVED")
        /\ a \notin todo => action[c][a].type = "NONE"
  BY <1>2, <1>8, Zenon DEF todo, Untouched, CaseOK
<1>10. ExecOK(e)'
  <2>1. \A a \in Accounts : action'[c][a].evidence # "NO_ANSWER"
    BY <1>7, <1>8 DEF Untouched
  <2>2. /\ \A a \in row.todo : Untouched(action'[c][a], "APPROVED")
        /\ \A a \in Accounts \ row.todo : action'[c][a].type = "NONE"
    BY <1>3, <1>6, <1>7, <1>9, Zenon
  <2>3. case'[c].status = "RUNNING" /\ row.account = NoValue
    BY <1>2, <1>6, <1>7, <1>8, Zenon
  <2>4. QED
    BY <1>2, <1>6, <2>1, <2>2, <2>3, NowNext, ZenonT(60)
<1>11. QED
  BY <1>1, <1>5, <1>6, <1>7, <1>10, QuietStep, Zenon DEF Monotone, c

\* A statement or provider call in the middle of an action.
LEMMA MidAction ==
  ASSUME OffInv, NEW e \in Executors, NEW row \in Exec,
         exec[e].pc \in {"write", "reread", "store", "local"},
         exec' = [exec EXCEPT ![e] = row],
         row.case = exec[e].case, row.todo = exec[e].todo,
         row.account = exec[e].account, exec[e].failed \subseteq row.failed,
         row.pc \in {"reread", "store", "record"},
         row.pc # "record" => exec[e].pc \in {"write", "reread", "store"},
         row.pc = "store" => row.account \in everOff',
         row.outcome = "NO_ANSWER" /\ row.outcome # exec[e].outcome =>
           ConnectorOf[row.account] \in row.failed,
         UNCHANGED <<case, action, cancelling>>, Monotone
  PROVE  Kept'
<1>1. exec[e].pc # "idle" /\ exec[e].pc \in Acting /\ exec[e].pc \notin Verifying
  BY DEF Acting, Verifying
<1>2. /\ exec[e].case \in Cases /\ ExecOK(e)
      /\ case[exec[e].case].status = "RUNNING"
  BY <1>1, Owned, Zenon
<1>3. exec'[e] = row
  BY DEF OffInv, TypeOK
<1>4. row.pc # "idle" /\ row.pc \in Acting /\ row.pc \notin Verifying
  BY SMTT(30) DEF Acting, Verifying
<1>5. PICK c \in Cases : c = exec[e].case
  BY <1>2
<1>6. /\ exec[e].account \in exec[e].todo
      /\ action[c][exec[e].account].type # "NONE"
      /\ action[c][exec[e].account].attempts = 1
      /\ action[c][exec[e].account].evidence = "NONE"
      /\ action[c][exec[e].account].status = "RUNNING"
      /\ exec[e].pc \in {"write", "reread", "store"} =>
           action[c][exec[e].account].type \in WritingTypes
      /\ exec[e].outcome = "NO_ANSWER" =>
           ConnectorOf[exec[e].account] \in exec[e].failed
      /\ \A a \in exec[e].todo \ {exec[e].account} :
           Untouched(action[c][a], "APPROVED")
      /\ \A a \in Accounts \ exec[e].todo :
           action[c][a].type = "NONE" \/ Accounted(action[c][a])
      /\ \A a \in Accounts : action[c][a].evidence = "NO_ANSWER" =>
           ConnectorOf[a] \in exec[e].failed
  BY <1>1, <1>2, <1>5, ZenonT(60) DEF ExecOK
<1>7. ExecOK(e)'
  <2>1. /\ row.case = c /\ row.account \in row.todo
        /\ row.pc \in Acting \ {"evidence"}
        /\ action' = action /\ case'[c].status = "RUNNING"
    BY <1>2, <1>4, <1>5, <1>6, ZenonT(60)
  <2>2. row.outcome = "NO_ANSWER" => ConnectorOf[row.account] \in row.failed
    BY <1>6, Zenon
  <2>3. \A a \in Accounts : action'[c][a].evidence = "NO_ANSWER" =>
          ConnectorOf[a] \in row.failed
    BY <1>6, <2>1, Zenon
  <2>4. /\ action'[c][row.account].type # "NONE"
        /\ action'[c][row.account].attempts = 1
        /\ action'[c][row.account].evidence = "NONE"
        /\ action'[c][row.account].status = "RUNNING"
        /\ row.pc \in {"write", "reread", "store"} =>
             action'[c][row.account].type \in WritingTypes
    BY <1>6, <2>1, ZenonT(60)
  <2>5. /\ \A a \in row.todo \ {row.account} : Untouched(action'[c][a], "APPROVED")
        /\ \A a \in Accounts \ row.todo :
             action'[c][a].type = "NONE" \/ Accounted(action'[c][a])
    BY <1>6, <2>1, Zenon
  <2>6. QED
    BY <1>3, <2>1, <2>2, <2>3, <2>4, <2>5, NowActing, ZenonT(60)
<1>8. QED
  BY <1>1, <1>7, QuietStep, Zenon

\* The provider that gave no answer is among the failed ones.
LEMMA NoAnswerRow ==
  ASSUME NEW x \in Exec, x.account \in Accounts
  PROVE  /\ NoAnswer(x) \in Exec
         /\ NoAnswer(x).case = x.case /\ NoAnswer(x).todo = x.todo
         /\ NoAnswer(x).account = x.account /\ NoAnswer(x).pc = "record"
         /\ NoAnswer(x).failed = x.failed \cup {ConnectorOf[x.account]}
<1>1. PICK fs \in SUBSET Connectors : fs = x.failed \cup {ConnectorOf[x.account]}
  <2>1. x.failed \in SUBSET Connectors
    BY Zenon DEF Exec
  <2>2. ConnectorOf[x.account] \in Connectors
    BY ConstantTypes, Zenon
  <2>3. QED
    BY <2>1, <2>2, ZenonT(60)
<1>2. NoAnswer(x) = [x EXCEPT !.pc = "record", !.outcome = "NO_ANSWER",
                              !.failed = fs]
  BY <1>1 DEF NoAnswer
<1>3. "NO_ANSWER" \in Outcome
  BY DEF Outcome
<1>4. [x EXCEPT !.pc = "record", !.outcome = "NO_ANSWER", !.failed = fs] \in Exec
  BY <1>3, Zenon DEF Exec
<1>5. QED
  BY <1>1, <1>2, <1>4, ZenonT(60) DEF Exec

\* executeRemoteAction, the write.
LEMMA WriteKeeps ==
  ASSUME OffInv, NEW e \in Executors, NEW applied \in BOOLEAN,
         NEW ok \in BOOLEAN, WriteProvider(e, applied, ok)
  PROVE  Kept'
<1>1. exec[e].pc = "write" /\ exec[e] \in Exec
  BY Zenon DEF WriteProvider, OffInv, TypeOK
<1>2. Monotone /\ UNCHANGED <<case, action, cancelling>>
  BY Zenon DEF WriteProvider, Monotone
<1>3. CASE ok
  <2>1. PICK row \in Exec : row = [exec[e] EXCEPT !.pc = "reread"]
    BY <1>1, Zenon DEF Exec
  <2>2. exec' = [exec EXCEPT ![e] = row]
    BY <1>3, <2>1, Zenon DEF WriteProvider
  <2>3. /\ row.case = exec[e].case /\ row.todo = exec[e].todo
        /\ row.account = exec[e].account /\ row.failed = exec[e].failed
        /\ row.outcome = exec[e].outcome /\ row.pc = "reread"
    BY <1>1, <2>1, Zenon DEF Exec
  <2>4. QED
    BY <1>1, <1>2, <2>2, <2>3, MidAction, Zenon
<1>4. CASE ~ok
  <2>1. exec[e].account \in Accounts
    BY <1>1, Zenon DEF OffInv, ExecOK, Acting, TypeOK, Exec
  <2>2. exec' = [exec EXCEPT ![e] = NoAnswer(exec[e])]
    BY <1>4, ZenonT(60) DEF WriteProvider
  <2>3. PICK row \in Exec :
          /\ row = NoAnswer(exec[e])
          /\ row.case = exec[e].case /\ row.todo = exec[e].todo
          /\ row.account = exec[e].account /\ row.pc = "record"
          /\ row.failed = exec[e].failed \cup {ConnectorOf[exec[e].account]}
    BY <1>1, <2>1, NoAnswerRow, SMTT(30)
  <2>4. QED
    BY <1>1, <1>2, <2>2, <2>3, MidAction, Zenon
<1>5. QED
  BY <1>3, <1>4

\* executeRemoteAction, the read after the write.
LEMMA RereadKeeps ==
  ASSUME OffInv, NEW e \in Executors, NEW answers \in BOOLEAN,
         RereadProvider(e, answers)
  PROVE  Kept'
<1>1. exec[e].pc = "reread" /\ exec[e] \in Exec
  BY DEF RereadProvider, OffInv, TypeOK
<1>2. Monotone /\ UNCHANGED <<case, action, cancelling, everOff>>
  BY DEF RereadProvider, Monotone, recVars
<1>3. exec[e].account \in Accounts
  BY <1>1, Zenon DEF OffInv, ExecOK, Acting, TypeOK, Exec
<1>4. CASE ~answers
  <2>1. exec' = [exec EXCEPT ![e] = NoAnswer(exec[e])]
    BY <1>4, ZenonT(60) DEF RereadProvider
  <2>2. PICK row \in Exec :
          /\ row = NoAnswer(exec[e])
          /\ row.case = exec[e].case /\ row.todo = exec[e].todo
          /\ row.account = exec[e].account /\ row.pc = "record"
          /\ row.failed = exec[e].failed \cup {ConnectorOf[exec[e].account]}
    BY <1>1, <1>3, NoAnswerRow
  <2>3. QED
    BY <1>1, <1>2, <2>1, <2>2, MidAction, Zenon
<1>5. CASE answers /\ remote[exec[e].account] = "DISABLED"
  <2>1. PICK row \in Exec :
          row = [exec[e] EXCEPT !.pc = "store", !.outcome = "SUCCEEDED"]
    BY <1>1, Zenon DEF Exec, Outcome
  <2>2. exec' = [exec EXCEPT ![e] = row]
    BY <1>5, <2>1 DEF RereadProvider
  <2>3. /\ row.case = exec[e].case /\ row.todo = exec[e].todo
        /\ row.account = exec[e].account /\ row.failed = exec[e].failed
        /\ row.outcome = "SUCCEEDED" /\ row.pc = "store"
    BY <1>1, <2>1, SMTT(30) DEF Exec
  <2>4. exec[e].account \in everOff'
    BY <1>2, <1>3, <1>5 DEF OffInv, ReadsAreObservations
  <2>5. QED
    BY <1>1, <1>2, <2>2, <2>3, <2>4, MidAction, Zenon
<1>6. CASE answers /\ remote[exec[e].account] # "DISABLED"
  <2>1. PICK row \in Exec :
          row = [exec[e] EXCEPT !.pc = "record", !.outcome = "FAILED"]
    BY <1>1, Zenon DEF Exec, Outcome
  <2>2. exec' = [exec EXCEPT ![e] = row]
    BY <1>6, <2>1 DEF RereadProvider
  <2>3. /\ row.case = exec[e].case /\ row.todo = exec[e].todo
        /\ row.account = exec[e].account /\ row.failed = exec[e].failed
        /\ row.outcome = "FAILED" /\ row.pc = "record"
    BY <1>1, <2>1 DEF Exec
  <2>4. QED
    BY <1>1, <1>2, <2>2, <2>3, MidAction, Zenon
<1>7. QED
  BY <1>4, <1>5, <1>6

\* The update of identity_accounts after the read.
LEMMA StoreKeeps ==
  ASSUME OffInv, NEW e \in Executors, StoreDisabled(e)
  PROVE  Kept'
<1>1. exec[e].pc = "store" /\ exec[e] \in Exec
  BY DEF StoreDisabled, OffInv, TypeOK
<1>2. Monotone /\ UNCHANGED <<case, action, cancelling>>
  BY DEF StoreDisabled, Monotone
<1>3. PICK row \in Exec : row = [exec[e] EXCEPT !.pc = "record"]
  BY <1>1, Zenon DEF Exec
<1>4. exec' = [exec EXCEPT ![e] = row]
  BY <1>3 DEF StoreDisabled
<1>5. /\ row.case = exec[e].case /\ row.todo = exec[e].todo
      /\ row.account = exec[e].account /\ row.failed = exec[e].failed
      /\ row.outcome = exec[e].outcome /\ row.pc = "record"
  BY <1>1, <1>3 DEF Exec
<1>6. QED
  BY <1>1, <1>2, <1>4, <1>5, MidAction, Zenon

\* VERIFY_DISABLED.
LEMMA LocalKeeps ==
  ASSUME OffInv, NEW e \in Executors, NEW ok \in BOOLEAN, VerifyLocally(e, ok)
  PROVE  Kept'
<1>1. exec[e].pc = "local" /\ exec[e] \in Exec
  BY DEF VerifyLocally, OffInv, TypeOK
<1>2. Monotone /\ UNCHANGED <<case, action, cancelling>>
  BY DEF VerifyLocally, Monotone, recVars
<1>3. PICK o \in {"SUCCEEDED", "INCONCLUSIVE"} :
        exec' = [exec EXCEPT ![e] =
                   [exec[e] EXCEPT !.pc = "record", !.outcome = o]]
  BY Zenon DEF VerifyLocally
<1>4. o \in Outcome /\ o # "NO_ANSWER"
  BY <1>3 DEF Outcome
<1>5. PICK row \in Exec : row = [exec[e] EXCEPT !.pc = "record", !.outcome = o]
  BY <1>1, <1>4, Zenon DEF Exec
<1>6. /\ row.case = exec[e].case /\ row.todo = exec[e].todo
      /\ row.account = exec[e].account /\ row.failed = exec[e].failed
      /\ row.outcome = o /\ row.pc = "record"
  BY <1>1, <1>5, ZenonT(60) DEF Exec
<1>7. QED
  BY <1>1, <1>2, <1>3, <1>4, <1>5, <1>6, MidAction, Zenon

\* A statement of an executor on the action for account a of its case.
LEMMA ActionStep ==
  ASSUME OffInv, NEW e \in Executors, exec[e].pc # "idle",
         exec[e].pc \notin Verifying, NEW c \in Cases, c = exec[e].case,
         NEW a \in Accounts, NEW y \in Action, NEW row \in Exec,
         action' = [action EXCEPT ![c][a] = y],
         y.type = action[c][a].type, y.type # "NONE", y.status # "NONE",
         y.attempts <= 1,
         exec' = [exec EXCEPT ![e] = row], row.case = c,
         UNCHANGED <<recVars, case, cancelling>>, ExecOK(e)'
  PROVE  Kept'
<1>1. OffTypeOK'
  BY DEF OffTypeOK, OffInv, TypeOK
<1>2. /\ exec'[e] = row
      /\ \A f \in Executors \ {e} : exec'[f] = exec[f]
      /\ \A f \in Executors \ {e} : exec[f].case # c
      /\ CaseOK(c) /\ case[c].status = "RUNNING"
  BY Owned, Zenon DEF OffInv, TypeOK
<1>3. /\ action'[c][a] = y
      /\ \A b \in Accounts \ {a} : action'[c][b] = action[c][b]
      /\ \A d \in Cases \ {c} : action'[d] = action[d]
  BY Zenon DEF OffInv, TypeOK
<1>4. link' = link /\ everOff' = everOff /\ case' = case
  BY Zenon DEF recVars
<1>5. CaseOK(c)'
  <2>1. case[c].result = "NONE" /\ case[c].person \in People
    BY <1>2, Zenon DEF CaseOK, Finished
  <2>2. ASSUME NEW b \in Accounts
        PROVE  /\ action'[c][b].type = "NONE" <=> action'[c][b].status = "NONE"
               /\ action'[c][b].type # "NONE" => link[b] = case[c].person
               /\ action'[c][b].attempts <= 1
    <3>1. CASE b = a
      BY <1>2, <1>3, <3>1, Zenon DEF CaseOK
    <3>2. CASE b # a
      BY <1>2, <1>3, <3>2, ZenonT(60) DEF CaseOK
    <3>3. QED
      BY <3>1, <3>2, ZenonT(60)
  <2>3. c \notin cancelling'
    BY <1>2, Zenon DEF CaseOK
  <2>4. QED
    BY <1>2, <1>4, <2>1, <2>2, <2>3, ZenonT(60) DEF CaseOK, Finished
<1>6. QED
  BY <1>1, <1>2, <1>3, <1>4, <1>5, OwnStep, ZenonT(60) DEF Kept, Monotone

\* The update that marks an action RUNNING.
LEMMA StartKeeps ==
  ASSUME OffInv, NEW e \in Executors, NEW a \in Accounts, StartAction(e, a)
  PROVE  Kept'
<1>1. /\ exec[e].pc = "next" /\ exec[e].pc # "idle" /\ exec[e].pc \notin Verifying
      /\ a \in exec[e].todo
  BY Zenon DEF StartAction, Verifying
<1>2. PICK c \in Cases : c = exec[e].case
  BY <1>1, Owned
<1>3. /\ exec[e] \in Exec /\ CaseOK(c) /\ ExecOK(e) /\ case[c].status = "RUNNING"
      /\ action[c][a] \in Action
  BY <1>1, <1>2, Owned, Zenon DEF OffInv, TypeOK
<1>4. /\ exec[e].account = NoValue /\ a # NoValue
      /\ Untouched(action[c][a], "APPROVED")
  BY <1>1, <1>2, <1>3, OffboardingConstants, Zenon DEF ExecOK, Acting
<1>5. action[c][a].type # "NONE"
  BY <1>3, <1>4, Zenon DEF CaseOK, Untouched
<1>6. PICK y \in Action :
        y = [action[c][a] EXCEPT !.status = "RUNNING",
                                 !.attempts = action[c][a].attempts + 1]
  <2>1. action[c][a].attempts \in Nat
    BY <1>3, ZenonT(60) DEF Action
  <2>2. "RUNNING" \in ActionStatus /\ action[c][a].attempts + 1 \in Nat
    BY <2>1 DEF ActionStatus
  <2>3. QED
    BY <1>3, <2>2, Zenon DEF Action
<1>7. /\ y.type = action[c][a].type /\ y.status = "RUNNING" /\ y.attempts = 1
      /\ y.evidence = "NONE"
  BY <1>3, <1>4, <1>6 DEF Action, Untouched
<1>8. action' = [action EXCEPT ![c][a] = y]
  BY <1>2, <1>4, <1>6, Zenon DEF StartAction, Untouched
<1>9. PICK pc \in {"write", "local", "record"} :
        /\ exec' = [exec EXCEPT ![e] = [exec[e] EXCEPT
                      !.account = a, !.outcome = "INCONCLUSIVE", !.pc = pc]]
        /\ pc = "write" => action[c][a].type \in WritingTypes
  <2>1. CASE action[c][a].type \in WritingTypes
    BY <1>2, <2>1, Zenon DEF StartAction, WritingTypes
  <2>2. CASE action[c][a].type = "VERIFY_DISABLED"
    BY <1>2, <2>2 DEF StartAction, WritingTypes
  <2>3. CASE action[c][a].type \notin WritingTypes \cup {"VERIFY_DISABLED"}
    BY <1>2, <2>3, Zenon DEF StartAction
  <2>4. QED
    BY <2>1, <2>2, <2>3
<1>10. PICK row \in Exec :
         row = [exec[e] EXCEPT !.account = a, !.outcome = "INCONCLUSIVE",
                               !.pc = pc]
  <2>1. /\ pc \in {"idle", "load", "next", "write", "reread", "store", "local",
                   "record", "evidence", "count", "unresolved", "snapshot",
                   "finish"}
        /\ a \in Accounts \cup {NoValue} /\ "INCONCLUSIVE" \in Outcome
    BY <1>9 DEF Outcome
  <2>2. QED
    BY <1>3, <2>1, Zenon DEF Exec
<1>11. /\ row.case = c /\ row.todo = exec[e].todo /\ row.account = a
       /\ row.pc = pc /\ row.outcome = "INCONCLUSIVE"
       /\ row.failed = exec[e].failed
  BY <1>2, <1>3, <1>10 DEF Exec
<1>12. /\ exec' = [exec EXCEPT ![e] = row] /\ exec'[e] = row
       /\ UNCHANGED <<recVars, case, cancelling>>
       /\ row.pc \in Acting /\ row.pc \notin Verifying
       /\ row.pc \notin {"idle", "load", "reread", "store", "evidence"}
  BY <1>9, <1>10, <1>11, Zenon DEF OffInv, TypeOK, StartAction, Acting, Verifying
<1>13. /\ action'[c][a] = y
       /\ \A b \in Accounts \ {a} : action'[c][b] = action[c][b]
  BY <1>8 DEF OffInv, TypeOK
<1>14. /\ \A b \in exec[e].todo \ {a} : Untouched(action[c][b], "APPROVED")
       /\ \A b \in Accounts \ exec[e].todo :
            action[c][b].type = "NONE" \/ Accounted(action[c][b])
       /\ \A b \in Accounts : action[c][b].evidence = "NO_ANSWER" =>
            ConnectorOf[b] \in exec[e].failed
       /\ exec[e].todo \subseteq Accounts
  BY <1>1, <1>2, <1>3, <1>4, OffboardingConstants, ZenonT(60) DEF ExecOK, Exec
<1>15. ExecOK(e)'
  <2>1. \A b \in Accounts : action'[c][b].evidence = "NO_ANSWER" =>
          ConnectorOf[b] \in row.failed
    BY <1>7, <1>11, <1>13, <1>14, Zenon
  <2>2. /\ \A b \in row.todo \ {row.account} : Untouched(action'[c][b], "APPROVED")
        /\ \A b \in Accounts \ row.todo :
             action'[c][b].type = "NONE" \/ Accounted(action'[c][b])
    BY <1>1, <1>11, <1>13, <1>14, Zenon
  <2>3. /\ row.account \in row.todo
        /\ action'[c][row.account].type # "NONE"
        /\ action'[c][row.account].attempts = 1
        /\ action'[c][row.account].evidence = "NONE"
        /\ action'[c][row.account].status = "RUNNING"
        /\ row.pc = "write" => action'[c][row.account].type \in WritingTypes
        /\ row.outcome # "NO_ANSWER"
    BY <1>1, <1>5, <1>7, <1>9, <1>11, <1>13, SMTT(30)
  <2>4. case'[c].status = "RUNNING" /\ exec'[e] = row /\ row.case = c
    BY <1>3, <1>11, <1>12, ZenonT(60)
  <2>5. QED
    BY <1>12, <2>1, <2>2, <2>3, <2>4, Zenon DEF ExecOK, Verifying
<1>16. y.type # "NONE" /\ y.status # "NONE" /\ y.attempts <= 1
  BY <1>5, <1>7
<1>17. QED
  BY <1>1, <1>2, <1>7, <1>8, <1>11, <1>12, <1>15, <1>16, ActionStep, Zenon

\* The update of an action's status.
LEMMA RecordKeeps ==
  ASSUME OffInv, NEW e \in Executors, RecordOutcome(e)
  PROVE  Kept'
<1>1. exec[e].pc = "record" /\ exec[e].pc # "idle" /\ exec[e].pc \notin Verifying
  BY DEF RecordOutcome, Verifying
<1>2. PICK c \in Cases : c = exec[e].case
  BY <1>1, Owned, ZenonT(60)
<1>3. /\ exec[e] \in Exec /\ ExecOK(e) /\ case[c].status = "RUNNING"
      /\ exec[e].todo \subseteq Accounts
  BY <1>1, <1>2, Owned DEF Exec
<1>4. PICK a \in Accounts : a = exec[e].account /\ a \in exec[e].todo
  BY <1>1, <1>3, Zenon DEF ExecOK, Acting
<1>5. /\ action[c][a].type # "NONE" /\ action[c][a].attempts = 1
      /\ action[c][a].evidence = "NONE"
      /\ exec[e].outcome = "NO_ANSWER" => ConnectorOf[a] \in exec[e].failed
      /\ \A b \in exec[e].todo \ {a} : Untouched(action[c][b], "APPROVED")
      /\ \A b \in Accounts \ exec[e].todo :
           action[c][b].type = "NONE" \/ Accounted(action[c][b])
      /\ \A b \in Accounts : action[c][b].evidence = "NO_ANSWER" =>
           ConnectorOf[b] \in exec[e].failed
  BY <1>1, <1>2, <1>3, <1>4, Zenon DEF ExecOK, Acting
<1>6. /\ StatusFor(exec[e].outcome) \in ActionStatus
      /\ StatusFor(exec[e].outcome) # "NONE"
      /\ action[c][a] \in Action
  BY <1>3 DEF Exec, Outcome, StatusFor, ActionStatus, Settled, OffInv, TypeOK
<1>7. PICK y \in Action :
        y = [action[c][a] EXCEPT !.status = StatusFor(exec[e].outcome)]
  BY <1>6, Zenon DEF Action
<1>8. /\ y.type = action[c][a].type /\ y.attempts = action[c][a].attempts
      /\ y.evidence = action[c][a].evidence
      /\ y.status = StatusFor(exec[e].outcome)
  BY <1>6, <1>7 DEF Action
<1>9. action' = [action EXCEPT ![c][a] = y]
  BY <1>2, <1>4, <1>7, Zenon DEF RecordOutcome
<1>10. /\ action'[c][a] = y
       /\ \A b \in Accounts \ {a} : action'[c][b] = action[c][b]
  BY <1>9 DEF OffInv, TypeOK
<1>11. PICK row \in Exec : row = [exec[e] EXCEPT !.pc = "evidence"]
  BY <1>3, Zenon DEF Exec
<1>12. /\ row.case = c /\ row.todo = exec[e].todo /\ row.account = a
       /\ row.pc = "evidence" /\ row.outcome = exec[e].outcome
       /\ row.failed = exec[e].failed
  BY <1>2, <1>3, <1>4, <1>11 DEF Exec
<1>13. /\ exec' = [exec EXCEPT ![e] = row] /\ exec'[e] = row
       /\ UNCHANGED <<recVars, case, cancelling>>
  BY <1>11 DEF RecordOutcome, OffInv, TypeOK
<1>14. ExecOK(e)'
  <2>1. /\ \A b \in Accounts : action'[c][b].evidence = "NO_ANSWER" =>
             ConnectorOf[b] \in row.failed
        /\ \A b \in row.todo \ {row.account} :
             Untouched(action'[c][b], "APPROVED")
        /\ \A b \in Accounts \ row.todo :
             action'[c][b].type = "NONE" \/ Accounted(action'[c][b])
    BY <1>3, <1>4, <1>5, <1>8, <1>10, <1>12, ZenonT(60)
  <2>2. /\ row.account \in row.todo
        /\ action'[c][row.account].type # "NONE"
        /\ action'[c][row.account].attempts = 1
        /\ action'[c][row.account].evidence = "NONE"
        /\ action'[c][row.account].status = StatusFor(row.outcome)
        /\ row.outcome = "NO_ANSWER" => ConnectorOf[row.account] \in row.failed
    BY <1>4, <1>5, <1>8, <1>10, <1>12, ZenonT(60)
  <2>3. case'[c].status = "RUNNING" /\ exec'[e] = row /\ row.case = c
    BY <1>3, <1>12, <1>13, SMTT(60)
  <2>4. QED
    BY <1>12, <2>1, <2>2, <2>3, Zenon DEF ExecOK, Verifying, Acting
<1>15. y.type # "NONE" /\ y.status # "NONE" /\ y.attempts <= 1
  BY <1>5, <1>6, <1>8
<1>16. QED
  BY <1>1, <1>2, <1>8, <1>9, <1>12, <1>13, <1>14, <1>15, ActionStep, Zenon

\* The evidence of an action.
LEMMA EvidenceKeeps ==
  ASSUME OffInv, NEW e \in Executors, InsertEvidence(e)
  PROVE  Kept'
<1>1. exec[e].pc = "evidence" /\ exec[e].pc # "idle" /\ exec[e].pc \notin Verifying
  BY SMTT(30) DEF InsertEvidence, Verifying
<1>2. PICK c \in Cases : c = exec[e].case
  BY <1>1, Owned, SMTT(30)
<1>3. /\ exec[e] \in Exec /\ ExecOK(e) /\ case[c].status = "RUNNING"
      /\ exec[e].todo \subseteq Accounts /\ exec[e].outcome \in Outcome
  BY <1>1, <1>2, Owned DEF Exec
<1>4. PICK a \in Accounts : a = exec[e].account /\ a \in exec[e].todo
  BY <1>1, <1>3, Zenon DEF ExecOK, Acting
<1>5. /\ action[c][a].type # "NONE" /\ action[c][a].attempts = 1
      /\ action[c][a].status = StatusFor(exec[e].outcome)
      /\ exec[e].outcome = "NO_ANSWER" => ConnectorOf[a] \in exec[e].failed
      /\ \A b \in exec[e].todo \ {a} : Untouched(action[c][b], "APPROVED")
      /\ \A b \in Accounts \ exec[e].todo :
           action[c][b].type = "NONE" \/ Accounted(action[c][b])
      /\ \A b \in Accounts : action[c][b].evidence = "NO_ANSWER" =>
           ConnectorOf[b] \in exec[e].failed
  BY <1>1, <1>2, <1>3, <1>4, Zenon DEF ExecOK, Acting
<1>6. StatusFor(exec[e].outcome) \in Settled /\ action[c][a] \in Action
  BY <1>3, Zenon DEF Outcome, StatusFor, Settled, OffInv, TypeOK
<1>7. PICK y \in Action : y = [action[c][a] EXCEPT !.evidence = exec[e].outcome]
  <2>1. exec[e].outcome \in Outcome \cup {"NONE"}
    BY <1>3, Zenon
  <2>2. QED
    BY <1>6, <2>1, Zenon DEF Action
<1>8. /\ y.type = action[c][a].type /\ y.attempts = action[c][a].attempts
      /\ y.evidence = exec[e].outcome /\ y.status = action[c][a].status
  BY <1>6, <1>7, SMTT(60) DEF Action
<1>9. action' = [action EXCEPT ![c][a] = y]
  BY <1>2, <1>4, <1>7, Zenon DEF InsertEvidence
<1>10. /\ action'[c][a] = y
       /\ \A b \in Accounts \ {a} : action'[c][b] = action[c][b]
  BY <1>9 DEF OffInv, TypeOK
<1>11. PICK row \in Exec :
         row = [exec[e] EXCEPT !.pc = "next", !.account = NoValue,
                  !.outcome = "INCONCLUSIVE",
                  !.todo = exec[e].todo \ {exec[e].account}]
  <2>1. /\ exec[e].todo \ {exec[e].account} \in SUBSET Accounts
        /\ NoValue \in Accounts \cup {NoValue} /\ "INCONCLUSIVE" \in Outcome
    BY <1>3, SMTT(30) DEF Outcome
  <2>2. QED
    BY <1>3, <2>1, ZenonT(60) DEF Exec
<1>12. /\ row.case = c /\ row.todo = exec[e].todo \ {a} /\ row.account = NoValue
       /\ row.pc = "next" /\ row.failed = exec[e].failed
  BY <1>2, <1>3, <1>4, <1>11, SMTT(30) DEF Exec
<1>13. /\ exec' = [exec EXCEPT ![e] = row] /\ exec'[e] = row
       /\ UNCHANGED <<recVars, case, cancelling>>
  BY <1>11, SMTT(30) DEF InsertEvidence, OffInv, TypeOK
<1>14. ExecOK(e)'
  <2>1. Accounted(y)
    BY <1>5, <1>6, <1>8, SMTT(30) DEF Accounted
  <2>2. /\ \A b \in Accounts : action'[c][b].evidence = "NO_ANSWER" =>
             ConnectorOf[b] \in row.failed
        /\ \A b \in row.todo : Untouched(action'[c][b], "APPROVED")
        /\ \A b \in Accounts \ row.todo :
             action'[c][b].type = "NONE" \/ Accounted(action'[c][b])
    <3>1. ASSUME NEW b \in Accounts, action'[c][b].evidence = "NO_ANSWER"
          PROVE  ConnectorOf[b] \in row.failed
      BY <1>5, <1>8, <1>10, <1>12, <3>1
    <3>2. ASSUME NEW b \in row.todo
          PROVE  Untouched(action'[c][b], "APPROVED")
      BY <1>3, <1>5, <1>10, <1>12, <3>2, ZenonT(60)
    <3>3. ASSUME NEW b \in Accounts \ row.todo
          PROVE  action'[c][b].type = "NONE" \/ Accounted(action'[c][b])
      <4>1. CASE b = a
        BY <1>10, <2>1, <4>1, SMTT(60)
      <4>2. CASE b # a
        BY <1>5, <1>10, <1>12, <3>3, <4>2, SMTT(60)
      <4>3. QED
        BY <4>1, <4>2, SMTT(30)
    <3>4. QED
      BY <3>1, <3>2, <3>3, SMTT(60)
  <2>3. case'[c].status = "RUNNING" /\ exec'[e] = row /\ row.case = c
    BY <1>3, <1>12, <1>13, SMTT(60)
  <2>4. QED
    BY <1>12, <2>2, <2>3, NowNext, SMTT(60)
<1>15. y.type # "NONE" /\ y.status # "NONE" /\ y.attempts <= 1
  BY <1>5, <1>6, <1>8, SMTT(60) DEF Settled
<1>16. QED
  BY <1>1, <1>2, <1>8, <1>9, <1>12, <1>13, <1>14, <1>15, ActionStep, ZenonT(60)
=============================================================================

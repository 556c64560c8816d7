---------------------------- MODULE Reconciliation ----------------------------
(***************************************************************************)
(* What IdentityMesh knows about the people and accounts of one            *)
(* organisation, and how synchronization, correlation, candidate review    *)
(* and CSV import change it.                                               *)
(*                                                                         *)
(* A database transaction is one action.  A provider call is an action of  *)
(* its own, because no transaction is open while it runs: what a run has   *)
(* listed may be stale when the run commits.                               *)
(***************************************************************************)
EXTENDS Naturals, FiniteSets

CONSTANTS
    People,        \* external person identifiers the CSV source may carry
    Accounts,      \* accounts the providers may hold
    Connectors,    \* configured identity connectors
    Runs,          \* identifiers of synchronization runs, each used once
    ConnectorOf,   \* the connector an account is observed through
    Type,          \* the type of a connector
    UacConnectors, \* LDAP connectors to directories that disable an account
                   \* with a bit of userAccountControl
    Attr,          \* the correlation attributes of an account
    TrustedEmails, \* addresses whose domain is trusted
    Files,         \* the people files that may be imported
    Memberships,   \* the group memberships a provider may report
    Settings,      \* the settings administrators choose for connectors
    NoValue        \* an absent attribute, person or row

VARIABLES
    people,     \* people table: the row of a person, or NoValue
    remote,     \* the provider's own state of each account
    everOff,    \* accounts a provider has at some time held disabled
    status,     \* identity_accounts.active_status, UNSEEN without a row
    link,       \* identity_links: the person of an account, or NoValue
    candidate,  \* correlation_candidates.status of a person and an account
    orphan,     \* accounts with an OPEN ORPHAN_ACCOUNT finding
    duplicate,  \* number of DUPLICATE_ACTIVE_ACCOUNT findings
    grant,      \* accounts with an active access grant
    connector,  \* the mutable columns of identity_connectors
    run         \* a synchronization run: its row and its local variables

recVars == <<people, remote, everOff, status, link, candidate, orphan,
             duplicate, grant, connector, run>>

RemoteState == {"ABSENT", "ACTIVE", "DISABLED"}
LocalState == {"UNSEEN", "ACTIVE", "DISABLED", "MISSING"}
CandidateState == {"NONE", "PENDING", "ACCEPTED", "REJECTED"}
Listing == [Accounts -> RemoteState]
NoListing == [a \in Accounts |-> "ABSENT"]
Capabilities == {"DISABLE_ACCOUNT", "REMOVE_MEMBERSHIP"}
ConnectorRow == [readable : BOOLEAN, write : BOOLEAN,
                 capabilities : SUBSET Capabilities,
                 lastSync : {"UNKNOWN", "SUCCEEDED", "FAILED"}]
Run == [pc : {"idle", "users", "groups", "commit", "done"},
        row : {"NONE", "RUNNING", "SUCCEEDED", "FAILED"},
        connector : Connectors \cup {NoValue},
        listed : Listing, members : SUBSET Accounts]
NoRun == [pc |-> "idle", row |-> "NONE", connector |-> NoValue,
          listed |-> NoListing, members |-> {}]

\* The rows a person may ever have.
RowsOf(p) == {f[p] : f \in {g \in Files : p \in DOMAIN g}}

AnyRow == UNION {RowsOf(p) : p \in People}

WriteTypes == {"SCIM_2_0", "ENTRA_ID", "OKTA", "GOOGLE_WORKSPACE",
               "LDAP_DIRECTORY"}
ConnectorTypes == WriteTypes \cup {"GITHUB"}

ASSUME ConstantTypes ==
    /\ NoValue \notin People \cup Connectors
    /\ ConnectorOf \in [Accounts -> Connectors]
    /\ Type \in [Connectors -> ConnectorTypes]
    /\ UacConnectors \subseteq {k \in Connectors : Type[k] = "LDAP_DIRECTORY"}
    /\ Memberships \subseteq SUBSET Accounts
    /\ Settings \subseteq [readable : BOOLEAN, write : BOOLEAN,
                           capabilities : SUBSET Capabilities]
    /\ NoValue \notin TrustedEmails
    /\ \A f \in Files : DOMAIN f \subseteq People
    /\ \A p \in People : NoValue \notin RowsOf(p)

-----------------------------------------------------------------------------
(* Correlation: correlation.Evaluate and Service.correlate. *)

Known == {p \in People : people[p] # NoValue}

\* The number of people with the account's address, from correlate.
EmailUnique(a) ==
    Cardinality({p \in Known : people[p].email = Attr[a].email}) = 1

\* ImportPeople writes the external identifier of a person as the employee
\* number too, so that p stands for both.
EmployeeMatch(p, a) == Attr[a].employee = p
EmailMatch(p, a) ==
    /\ people[p].email # NoValue /\ people[p].email = Attr[a].email
    /\ EmailUnique(a)
NameMatch(p, a) ==
    people[p].name # NoValue /\ people[p].name = Attr[a].name

Evaluate(p, a) ==
    CASE EmployeeMatch(p, a) -> "EMPLOYEE_ID"
      [] ~EmployeeMatch(p, a) /\ EmailMatch(p, a) ->
           IF people[p].email \in TrustedEmails THEN "TRUSTED_EMAIL"
                                                ELSE "UNTRUSTED_EMAIL"
      [] OTHER -> IF NameMatch(p, a) THEN "NAME_ONLY" ELSE "NONE"

\* Mutant: any evidence links.
StrongOnAnyEvidence(p, a) ==
    Attr[a].external = p \/ Evaluate(p, a) # "NONE"

\* The pair is linked without review.
Strong(p, a) ==
    Attr[a].external = p \/ Evaluate(p, a) \in {"EMPLOYEE_ID", "TRUSTED_EMAIL"}

\* PostgreSQL returns the people in no particular order; the loop over them
\* stops at the first one that is linked.
Orders == {ord \in [People -> 1 .. Cardinality(People)] :
             \A p, q \in People : ord[p] = ord[q] => p = q}
Reached(ord, p, a) ==
    \A q \in Known : ord[q] < ord[p] => ~Strong(q, a)

NewLinks(ord, scope) ==
    [a \in Accounts |->
       IF /\ a \in scope /\ link[a] = NoValue
          /\ \E p \in Known : Strong(p, a) /\ Reached(ord, p, a)
       THEN CHOOSE p \in Known : Strong(p, a) /\ Reached(ord, p, a)
       ELSE link[a]]

\* Mutant: a decided candidate is proposed again.
NewCandidatesReopen(ord, scope) ==
    [pa \in People \X Accounts |->
       IF /\ pa[1] \in Known /\ pa[2] \in scope
          /\ ~Strong(pa[1], pa[2]) /\ Evaluate(pa[1], pa[2]) = "NAME_ONLY"
          /\ Reached(ord, pa[1], pa[2])
       THEN "PENDING" ELSE candidate[pa]]

NewCandidates(ord, scope) ==
    [pa \in People \X Accounts |->
       IF /\ candidate[pa] = "NONE" /\ pa[1] \in Known /\ pa[2] \in scope
          /\ ~Strong(pa[1], pa[2]) /\ Evaluate(pa[1], pa[2]) = "NAME_ONLY"
          /\ Reached(ord, pa[1], pa[2])
       THEN "PENDING" ELSE candidate[pa]]

NewOrphans(scope) == {a \in scope : \A p \in Known : ~Strong(p, a)}

\* Every person with several active accounts in a connector, counted again.
NewDuplicates(links, states) ==
    [pk \in People \X Connectors |->
       IF Cardinality({a \in Accounts : /\ links[a] = pk[1]
                                        /\ ConnectorOf[a] = pk[2]
                                        /\ states[a] = "ACTIVE"}) > 1
       THEN duplicate[pk] + 1 ELSE duplicate[pk]]

-----------------------------------------------------------------------------
(* The provider (external): an administrator of the provider creates,      *)
(* enables, disables and deletes accounts at any time.                     *)

ProviderChange(a, s) ==
    /\ remote[a] # s
    /\ remote' = [remote EXCEPT ![a] = s]
    /\ everOff' = IF s = "DISABLED" THEN everOff \cup {a} ELSE everOff
    /\ UNCHANGED <<people, status, link, candidate, orphan, duplicate, grant,
                   connector, run>>

-----------------------------------------------------------------------------
(* People import: csvApply and Service.ImportPeople, one transaction. *)

ImportPeople(f) ==
    /\ people' = [p \in People |-> IF p \in DOMAIN f THEN f[p] ELSE people[p]]
    /\ people' # people
    /\ UNCHANGED <<remote, everOff, status, link, candidate, orphan,
                   duplicate, grant, connector, run>>

-----------------------------------------------------------------------------
(* Synchronization: SyncSCIM, SyncLDAP and SyncNative. *)

\* connector_syncs and reconciliation_runs get a RUNNING row.
StartSync(r, k) ==
    /\ run[r].pc = "idle"
    /\ connector[k].readable
    /\ run' = [run EXCEPT ![r] =
                 [@ EXCEPT !.pc = "users", !.row = "RUNNING", !.connector = k]]
    /\ UNCHANGED <<people, remote, everOff, status, link, candidate, orphan,
                   duplicate, grant, connector>>

\* Mutant: an account that is not listed is taken for disabled.
ListUsersGuess(r) ==
    /\ run[r].pc = "users"
    /\ run' = [run EXCEPT ![r] = [@ EXCEPT
         !.pc = "groups",
         !.listed = [a \in Accounts |->
           IF remote[a] = "ABSENT" THEN "DISABLED" ELSE remote[a]]]]
    /\ UNCHANGED <<people, remote, everOff, status, link, candidate, orphan,
                   duplicate, grant, connector>>

\* ListUsers or SearchUsers.
ListUsers(r) ==
    /\ run[r].pc = "users"
    /\ run' = [run EXCEPT ![r] = [@ EXCEPT
         !.pc = "groups",
         !.listed = [a \in Accounts |->
           IF ConnectorOf[a] = run[r].connector THEN remote[a] ELSE "ABSENT"]]]
    /\ UNCHANGED <<people, remote, everOff, status, link, candidate, orphan,
                   duplicate, grant, connector>>

\* ListGroups or SearchGroups.
ListGroups(r, m) ==
    /\ run[r].pc = "groups"
    /\ run' = [run EXCEPT ![r] = [@ EXCEPT !.pc = "commit", !.members = m]]
    /\ UNCHANGED <<people, remote, everOff, status, link, candidate, orphan,
                   duplicate, grant, connector>>

\* Mutant: the listing of a run that fails marks accounts MISSING.
FailSyncMarksMissing(r) ==
    /\ run[r].pc = "groups"
    /\ status' = [a \in Accounts |->
                    IF status[a] # "UNSEEN" /\ run[r].listed[a] = "ABSENT"
                    THEN "MISSING" ELSE status[a]]
    /\ run' = [run EXCEPT ![r] = [@ EXCEPT !.pc = "done", !.row = "FAILED"]]
    /\ UNCHANGED <<people, remote, everOff, link, candidate, orphan, duplicate,
                   grant, connector>>

\* A credential, configuration or provider error before the transaction.
FailSync(r) ==
    /\ run[r].pc \in {"users", "groups"}
    /\ run' = [run EXCEPT ![r] =
                 [@ EXCEPT !.pc = "done", !.row = "FAILED",
                           !.listed = NoListing]]
    /\ connector' = [connector EXCEPT ![run[r].connector].lastSync = "FAILED"]
    /\ UNCHANGED <<people, remote, everOff, status, link, candidate, orphan,
                   duplicate, grant>>

\* The process stops, or a statement of the transaction fails and it is rolled
\* back: no handler runs, the rows of the run stay RUNNING.
AbandonSync(r) ==
    /\ run[r].pc \in {"users", "groups", "commit"}
    /\ run' = [run EXCEPT ![r] =
                 [@ EXCEPT !.pc = "done", !.listed = NoListing,
                           !.members = {}]]
    /\ UNCHANGED <<people, remote, everOff, status, link, candidate, orphan,
                   duplicate, grant, connector>>

\* Mutant: the provider's own word for a disabled account is stored.
StoredStateRaw(k, s) == IF s = "DISABLED" THEN "SUSPENDED" ELSE s

\* SyncLDAP reads description and pwdAccountLockedTime, not userAccountControl.
StoredState(k, s) == IF k \in UacConnectors THEN "ACTIVE" ELSE s

CommitSync(r) ==
    LET k == run[r].connector
        listed == run[r].listed
        mine == {a \in Accounts : ConnectorOf[a] = k}
        seen == {a \in mine : listed[a] # "ABSENT"}
        scope == seen \cup {a \in mine : status[a] # "UNSEEN"}
    IN
    /\ run[r].pc = "commit"
    /\ status' = [a \in Accounts |->
                    IF a \in seen THEN StoredState(k, listed[a])
                    ELSE IF a \in scope THEN "MISSING" ELSE status[a]]
    /\ grant' = grant \cup (run[r].members \cap scope)
    /\ \E ord \in Orders :
         /\ link' = NewLinks(ord, scope)
         /\ candidate' = NewCandidates(ord, scope)
    /\ orphan' = orphan \cup NewOrphans(scope)
    /\ duplicate' = NewDuplicates(link', status')
    /\ connector' = [connector EXCEPT ![k].lastSync = "SUCCEEDED"]
    /\ run' = [run EXCEPT ![r] =
                 [@ EXCEPT !.pc = "done", !.row = "SUCCEEDED",
                           !.listed = NoListing, !.members = {}]]
    /\ UNCHANGED <<people, remote, everOff>>

-----------------------------------------------------------------------------
(* Candidate review: acceptOrRejectCandidate, one transaction.  Accepting a *)
(* candidate of an account that is already linked violates the unique key   *)
(* of identity_links, and everything is rolled back.                        *)

\* Mutant: a link that exists already is silently kept.
AcceptCandidateAnyway(p, a) ==
    /\ candidate[<<p, a>>] = "PENDING"
    /\ link' = IF link[a] = NoValue THEN [link EXCEPT ![a] = p] ELSE link
    /\ candidate' = [candidate EXCEPT ![<<p, a>>] = "ACCEPTED"]
    /\ UNCHANGED <<people, remote, everOff, status, orphan, duplicate, grant,
                   connector, run>>

AcceptCandidate(p, a) ==
    /\ candidate[<<p, a>>] = "PENDING"
    /\ link[a] = NoValue
    /\ link' = [link EXCEPT ![a] = p]
    /\ orphan' = orphan \ {a}
    /\ candidate' = [candidate EXCEPT ![<<p, a>>] = "ACCEPTED"]
    /\ UNCHANGED <<people, remote, everOff, status, duplicate, grant,
                   connector, run>>

RejectCandidate(p, a) ==
    /\ candidate[<<p, a>>] = "PENDING"
    /\ candidate' = [candidate EXCEPT ![<<p, a>>] = "REJECTED"]
    /\ UNCHANGED <<people, remote, everOff, status, link, orphan, duplicate,
                   grant, connector, run>>

-----------------------------------------------------------------------------
(* Connector configuration: createConnector and updateConnector. *)

\* connectorCapabilityAllowed, for the capabilities that write.
CapabilityAllowed(type) ==
    CASE type \in {"SCIM_2_0", "LDAP_DIRECTORY"} -> Capabilities
      [] type \in {"ENTRA_ID", "OKTA", "GOOGLE_WORKSPACE"} -> {"DISABLE_ACCOUNT"}
      [] type = "GITHUB" -> {"REMOVE_MEMBERSHIP"}

CreateConnector(k, s) ==
    /\ s.readable
    /\ s.capabilities \subseteq CapabilityAllowed(Type[k])
    /\ s.write => s.capabilities # {}

\* A capability is asked for when a request enables writes, not when it
\* leaves them enabled.
UpdateConnector(k, s) ==
    /\ s.capabilities \subseteq CapabilityAllowed(Type[k])
    /\ s.write /\ ~connector[k].write => s.capabilities # {}
    /\ connector' = [connector EXCEPT ![k] = [@ EXCEPT
         !.readable = s.readable, !.write = s.write,
         !.capabilities = s.capabilities]]
    /\ connector' # connector
    /\ UNCHANGED <<people, remote, everOff, status, link, candidate, orphan,
                   duplicate, grant, run>>

-----------------------------------------------------------------------------
\* A new organisation: connectors as createConnector stores them, providers
\* in any state.
RecInit ==
    /\ people = [p \in People |-> NoValue]
    /\ remote \in Listing
    /\ everOff = {a \in Accounts : remote[a] = "DISABLED"}
    /\ status = [a \in Accounts |-> "UNSEEN"]
    /\ link = [a \in Accounts |-> NoValue]
    /\ candidate = [pa \in People \X Accounts |-> "NONE"]
    /\ orphan = {}
    /\ duplicate = [pk \in People \X Connectors |-> 0]
    /\ grant = {}
    /\ \E setting \in [Connectors -> Settings] :
         /\ \A k \in Connectors : CreateConnector(k, setting[k])
         /\ connector = [k \in Connectors |->
              [readable |-> setting[k].readable, write |-> setting[k].write,
               capabilities |-> setting[k].capabilities,
               lastSync |-> "UNKNOWN"]]
    /\ run = [r \in Runs |-> NoRun]

RecNext ==
    \/ \E a \in Accounts, s \in RemoteState : ProviderChange(a, s)
    \/ \E f \in Files : ImportPeople(f)
    \/ \E r \in Runs :
         \/ \E k \in Connectors : StartSync(r, k)
         \/ ListUsers(r)
         \/ \E m \in Memberships : ListGroups(r, m)
         \/ FailSync(r)
         \/ AbandonSync(r)
         \/ CommitSync(r)
    \/ \E p \in People, a \in Accounts :
         \/ AcceptCandidate(p, a)
         \/ RejectCandidate(p, a)
    \/ \E k \in Connectors, s \in Settings : UpdateConnector(k, s)

RecSpec == RecInit /\ [][RecNext]_recVars

-----------------------------------------------------------------------------
(* Properties. *)

\* The values the columns and local variables range over.
RecTypeOK ==
    /\ people \in [People -> AnyRow \cup {NoValue}]
    /\ \A p \in People : people[p] \in RowsOf(p) \cup {NoValue}
    /\ remote \in Listing
    /\ everOff \subseteq Accounts
    /\ status \in [Accounts -> LocalState]
    /\ link \in [Accounts -> People \cup {NoValue}]
    /\ candidate \in [People \X Accounts -> CandidateState]
    /\ orphan \subseteq Accounts
    /\ duplicate \in [People \X Connectors -> Nat]
    /\ grant \subseteq Accounts
    /\ connector \in [Connectors -> ConnectorRow]
    /\ run \in [Runs -> Run]

\* A local DISABLED status is an observation: it is stored only for an account
\* whose provider was read disabled, however late the listing it came from is
\* committed (ADR 008, "HTTP success means only that a provider accepted a
\* request").
DisabledWasObserved ==
    \A a \in Accounts : status[a] = "DISABLED" => a \in everOff

\* What links an account to a person without a reviewer: an identifier of the
\* person, or an address in a trusted domain that an imported row gave them.
Deterministic(p, a) ==
    \/ Attr[a].external = p
    \/ Attr[a].employee = p
    \/ /\ Attr[a].email \in TrustedEmails
       /\ \E row \in RowsOf(p) : row.email = Attr[a].email

\* Every link has a deterministic reason or a reviewer's acceptance of exactly
\* that pair: the similarity of names alone never links an account (ADR 005),
\* whatever the order in which files, runs and reviews arrive.
LinksAreJustified ==
    \A a \in Accounts :
      link[a] # NoValue =>
        Deterministic(link[a], a) \/ candidate[<<link[a], a>>] = "ACCEPTED"

\* An accepted candidate is the link of its account: acceptance and the link
\* it inserts are never told apart, also when a sync of another replica links
\* the account first.
AcceptedIsLinked ==
    \A p \in People, a \in Accounts :
      candidate[<<p, a>>] = "ACCEPTED" => link[a] = p

\* Only a complete listing that lacks an account marks it MISSING, and never
\* one of another connector's runs; a run that fails or is abandoned leaves
\* every observation as it was (docs/reconciliation.md).
OnlyCommittedRunsObserve ==
    [][\A a \in Accounts : status'[a] # status[a] =>
         \E r \in Runs :
           /\ run[r].row = "RUNNING" /\ run'[r].row = "SUCCEEDED"
           /\ run[r].connector = ConnectorOf[a]
           /\ status'[a] = "MISSING" <=> run[r].listed[a] = "ABSENT"]_recVars

\* A link is never moved or removed, and a decided candidate is never decided
\* again: an operator's decision survives every later correlation pass.
DecisionsAreFinal ==
    [][/\ \A a \in Accounts : link[a] # NoValue => link'[a] = link[a]
       /\ \A pa \in People \X Accounts :
            candidate[pa] \in {"ACCEPTED", "REJECTED"} =>
              candidate'[pa] = candidate[pa]]_recVars

\* A new ORPHAN_ACCOUNT finding without a candidate is true when it is
\* written: its reason says "Observed account has no linked person"
\* (service.go, correlate).
OrphanFindingsAreTrue ==
    [][\A a \in orphan' \ orphan :
         (\A p \in Known : Evaluate(p, a) # "NAME_ONLY") =>
           link'[a] = NoValue]_recVars
=============================================================================

-------------------------------- MODULE Startup --------------------------------
(***************************************************************************)
(* Replicas that start together: waiting for the database, Migrate under a *)
(* session lock, Bootstrap of the first owner under a transaction lock,    *)
(* and the two operations of administrators that Bootstrap can meet:       *)
(* createUser and the renaming of the organization in updateSettings.      *)
(*                                                                         *)
(* Replicas may come with different files, as in a rolling upgrade, and    *)
(* with different bootstrap addresses.                                     *)
(***************************************************************************)
EXTENDS Naturals

CONSTANTS
    Replicas,
    MigrationFiles,  \* replica -> its migrations are 1 .. MigrationFiles[p]
    Emails,          \* addresses of users
    BootstrapEmail,  \* replica -> the address it bootstraps
    MaxStarts,       \* bound on starts of processes
    Unheld           \* nobody

ASSUME StartupConstants ==
    /\ MigrationFiles \in [Replicas -> Nat]
    /\ BootstrapEmail \in [Replicas -> Emails]
    /\ MaxStarts \in Nat /\ Unheld \notin Replicas

VARIABLES
    applied,        \* schema_migrations, with the number of times each was run
    replica,        \* where each process is
    migrationLock,  \* pg_advisory_lock of Migrate
    bootstrapLock,  \* pg_advisory_xact_lock of Bootstrap
    user,           \* rows of users, with their organization and OWNER role
    demo,           \* organizations named 'IdentityMesh Demo', oldest first
    organizations,  \* number of organizations
    renamed,        \* an organization was renamed
    starts          \* number of starts

startupVars == <<applied, replica, migrationLock, bootstrapLock, user, demo,
                 organizations, renamed, starts>>

Versions == UNION {1 .. MigrationFiles[p] : p \in Replicas}
NoUser == [org |-> 0, owner |-> FALSE]
Down == [pc |-> "down", version |-> 0, known |-> FALSE, org |-> 0]

GotoStep(p, pc) == replica' = [replica EXCEPT ![p].pc = pc]

-----------------------------------------------------------------------------
StartProcess(p) ==
    /\ replica[p].pc = "down" /\ starts < MaxStarts
    /\ GotoStep(p, "connect")
    /\ starts' = starts + 1
    /\ UNCHANGED <<applied, migrationLock, bootstrapLock, user, demo,
                   organizations, renamed>>

\* openDatabase tries until its timeout, then the process exits.
OpenDatabase(p) ==
    /\ replica[p].pc = "connect"
    /\ GotoStep(p, "migrate") \/ replica' = [replica EXCEPT ![p] = Down]
    /\ UNCHANGED <<applied, migrationLock, bootstrapLock, user, demo,
                   organizations, renamed, starts>>

BeginMigrate(p) ==
    /\ replica[p].pc = "migrate" /\ migrationLock = Unheld
    /\ migrationLock' = p
    /\ replica' = [replica EXCEPT ![p].pc = "check", ![p].version = 1]
    /\ UNCHANGED <<applied, bootstrapLock, user, demo, organizations, renamed, starts>>

\* The next file: skipped when its version is recorded.
CheckVersion(p) ==
    LET v == replica[p].version IN
    /\ replica[p].pc = "check" /\ v <= MigrationFiles[p]
    /\ replica' = IF applied[v] > 0 THEN [replica EXCEPT ![p].version = v + 1]
                                    ELSE [replica EXCEPT ![p].pc = "apply"]
    /\ UNCHANGED <<applied, migrationLock, bootstrapLock, user, demo,
                   organizations, renamed, starts>>

\* The statements of a file are one implicit transaction, the last of which
\* records the version.
ApplyVersion(p) ==
    /\ replica[p].pc = "apply"
    /\ applied' = [applied EXCEPT ![replica[p].version] = @ + 1]
    /\ replica' = [replica EXCEPT ![p].pc = "check", ![p].version = @ + 1]
    /\ UNCHANGED <<migrationLock, bootstrapLock, user, demo, organizations, renamed, starts>>

\* Mutant: the connection goes back to the pool with the lock.
EndMigrateLocked(p) ==
    /\ replica[p].pc = "check" /\ replica[p].version > MigrationFiles[p]
    /\ GotoStep(p, "bootstrap")
    /\ UNCHANGED <<applied, migrationLock, bootstrapLock, user, demo,
                   organizations, renamed, starts>>

EndMigrate(p) ==
    /\ replica[p].pc = "check" /\ replica[p].version > MigrationFiles[p]
    /\ migrationLock' = IF migrationLock = p THEN Unheld ELSE migrationLock
    /\ GotoStep(p, "bootstrap")
    /\ UNCHANGED <<applied, bootstrapLock, user, demo, organizations, renamed, starts>>

-----------------------------------------------------------------------------
(* Bootstrap: the lock and the reads, then the inserts and the commit. *)

\* The organization Bootstrap finds by the name, 0 when there is none.
OldestDemo ==
    IF demo = {} THEN 0 ELSE CHOOSE o \in demo : \A q \in demo : o <= q

\* Mutant: two processes look for the organization at the same time.
BeginBootstrapUnlocked(p) ==
    /\ replica[p].pc = "bootstrap"
    /\ replica' = [replica EXCEPT ![p].pc = "insert",
                     ![p].known = user[BootstrapEmail[p]] # NoUser,
                     ![p].org = OldestDemo]
    /\ UNCHANGED <<applied, migrationLock, bootstrapLock, user, demo,
                   organizations, renamed, starts>>

BeginBootstrap(p) ==
    /\ replica[p].pc = "bootstrap" /\ bootstrapLock = Unheld
    /\ bootstrapLock' = p
    /\ replica' = [replica EXCEPT ![p].pc = "insert",
                     ![p].known = user[BootstrapEmail[p]] # NoUser,
                     ![p].org = OldestDemo]
    /\ UNCHANGED <<applied, migrationLock, user, demo, organizations, renamed, starts>>

\* The organization the owner is inserted into.
BootstrapOrganization(p) ==
    IF replica[p].org = 0 THEN organizations + 1 ELSE replica[p].org

\* An address that was registered in the meantime conflicts: in the same
\* organization the user becomes OWNER.
InsertOwner(p) ==
    LET e == BootstrapEmail[p]
        o == BootstrapOrganization(p) IN
    /\ user[e].org \in {0, o}
    /\ user' = [user EXCEPT ![e] = [org |-> o, owner |-> TRUE]]
    /\ organizations' = IF o > organizations THEN o ELSE organizations
    /\ demo' = IF o > organizations THEN demo \cup {o} ELSE demo

EndBootstrap(p) ==
    /\ replica[p].pc = "insert"
    /\ \/ replica[p].known /\ UNCHANGED <<user, organizations, demo>>
       \/ ~replica[p].known /\ InsertOwner(p)
    /\ bootstrapLock' = IF bootstrapLock = p THEN Unheld ELSE bootstrapLock
    /\ GotoStep(p, "serving")
    /\ UNCHANGED <<applied, migrationLock, renamed, starts>>

\* In another organization the unique index makes the insert fail.
BootstrapConflicts(p) ==
    /\ replica[p].pc = "insert" /\ ~replica[p].known
    /\ user[BootstrapEmail[p]].org \notin {0, BootstrapOrganization(p)}
    /\ bootstrapLock' = IF bootstrapLock = p THEN Unheld ELSE bootstrapLock
    /\ replica' = [replica EXCEPT ![p] = Down]
    /\ UNCHANGED <<applied, migrationLock, user, demo, organizations, renamed, starts>>

\* A statement fails and the process exits, or it is stopped: its connections
\* close, its locks are released and its open transaction is undone.
StopProcess(p) ==
    /\ replica[p].pc # "down"
    /\ replica' = [replica EXCEPT ![p] = Down]
    /\ migrationLock' = IF migrationLock = p THEN Unheld ELSE migrationLock
    /\ bootstrapLock' = IF bootstrapLock = p THEN Unheld ELSE bootstrapLock
    /\ UNCHANGED <<applied, user, demo, organizations, renamed, starts>>

-----------------------------------------------------------------------------
\* createUser, by an owner and with any roles; the addresses are unique over
\* all organizations.
CreateUser(o, e, owner) ==
    /\ \E p \in Replicas : replica[p].pc = "serving"
    /\ \E f \in Emails : user[f].org = o /\ user[f].owner
    /\ user[e] = NoUser
    /\ user' = [user EXCEPT ![e] = [org |-> o, owner |-> owner]]
    /\ UNCHANGED <<applied, replica, migrationLock, bootstrapLock, demo,
                   organizations, renamed, starts>>

\* updateSettings gives an organization another name, or the name it had.
RenameOrganization(o) ==
    /\ \E p \in Replicas : replica[p].pc = "serving"
    /\ demo' = IF o \in demo THEN demo \ {o} ELSE demo \cup {o}
    /\ renamed' = TRUE
    /\ UNCHANGED <<applied, replica, migrationLock, bootstrapLock, user, organizations,
                   starts>>

-----------------------------------------------------------------------------
StartupInit ==
    /\ applied = [v \in Versions |-> 0]
    /\ replica = [p \in Replicas |-> Down]
    /\ migrationLock = Unheld
    /\ bootstrapLock = Unheld
    /\ user = [e \in Emails |-> NoUser]
    /\ demo = {}
    /\ organizations = 0
    /\ renamed = FALSE
    /\ starts = 0

StartupStep(p) ==
    \/ OpenDatabase(p)
    \/ BeginMigrate(p) \/ CheckVersion(p) \/ ApplyVersion(p) \/ EndMigrate(p)
    \/ BeginBootstrap(p) \/ EndBootstrap(p) \/ BootstrapConflicts(p)

StartupNext ==
    \/ \E p \in Replicas : StartProcess(p) \/ StartupStep(p) \/ StopProcess(p)
    \/ \E o \in 1 .. organizations, e \in Emails, owner \in BOOLEAN : CreateUser(o, e, owner)
    \/ \E o \in 1 .. organizations : RenameOrganization(o)

StartupSpec == StartupInit /\ [][StartupNext]_startupVars

-----------------------------------------------------------------------------
(* Properties. *)

\* The values of the rows and local variables.
StartupTypeOK ==
    /\ applied \in [Versions -> Nat]
    /\ replica \in [Replicas ->
         [pc : {"down", "connect", "migrate", "check", "apply", "bootstrap",
                "insert", "serving"},
          version : Nat, known : BOOLEAN, org : Nat]]
    /\ migrationLock \in Replicas \cup {Unheld}
    /\ bootstrapLock \in Replicas \cup {Unheld}
    /\ user \in [Emails -> [org : Nat, owner : BOOLEAN]]
    /\ demo \subseteq 1 .. organizations
    /\ organizations \in Nat
    /\ renamed \in BOOLEAN
    /\ starts \in 0 .. MaxStarts

\* However replicas start, stop and start again together, migrations are run
\* once each and in their order, and a replica serves requests only when all of
\* its own are applied and the user of its bootstrap address exists; as long as
\* no organization has been renamed there is one, and each has an owner.
ServingIsPrepared ==
    /\ \A v \in Versions : /\ applied[v] <= 1
                           /\ applied[v] = 1 => \A u \in 1 .. v - 1 : applied[u] = 1
    /\ \A p \in Replicas : replica[p].pc = "serving" =>
         /\ \A v \in 1 .. MigrationFiles[p] : applied[v] = 1
         /\ user[BootstrapEmail[p]] # NoUser
    /\ ~renamed => organizations <= 1
    /\ \A o \in 1 .. organizations : \E e \in Emails : user[e].org = o /\ user[e].owner

\* When replicas start, a time comes when none is still starting: no lock is
\* held by a process that has gone on or is gone.
StartupEnds ==
    (\E p \in Replicas : replica[p].pc = "connect")
      ~> \A p \in Replicas : replica[p].pc \in {"serving", "down"}
=============================================================================

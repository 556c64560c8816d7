SPECIFICATION MCSpec

CONSTANTS
    Synced = {k1}
    Schedulers = {s1, s2}
    Minutes = 2
    SyncRequests = {q1}
    Syncers = {g1}
    SyncWorkerIds = {g1}
    SyncWorkerId <- MCSyncWorkerId
    SyncAttempts = 2
    SyncFaults = 1
    Readabilities = {FALSE}
    Nobody = Nobody

    Campaigns = {c1}
    Grants = {a1, a2}
    Deciders = {t1, t2}

    Limit = 2
    Window = 2
    Grace = 1
    MaxSkew = 1
    MaxNow = 4
    MaxCount = 3

    Calls = {b1, b2, b3}
    PoolWorkers = {w1, w2}
    QueueSize = 1

    r1 = r1
    r2 = r2
    e1 = e1
    e2 = e2
    Replicas = {r1, r2}
    MigrationFiles <- MCMigrationFiles
    Emails = {e1, e2}
    BootstrapEmail <- MCBootstrapEmail
    MaxStarts = 3
    Unheld = Unheld

    Logins = {l1, l2}
    Changes = {p1, p2}
    Confirms = {f1}
    MaxSecrets = 2
    PrivilegedMfa = FALSE

    DirectoryUsers = {1, 2, 3}
    DirectoryGroups = {1, 2}
    MembersOf <- MCMembersOf
    PageSize = 2
    MaxPages = 2
    MaxReads = 2
    DirectoryChanges = 1

    RemoteCalls = {h1, h2}
    MaxTries = 2
    AccountChanges = 1

INVARIANTS
    PlatformTypeOK
    StrandedHasCause
    CompletionFollowsItems
    RevocationsAreProposed
    WindowAdmitsLimit
    AnswersAreTrue
    
    OlderSessionsOverlapped
    EnabledSecretWasConfirmed
    
    AmbiguousWriteIsFinal
    OtherFlagsSurvive

PROPERTIES
    QueuedIsAnswered
    CallersReturn
    StartupEnds
    ListingEnds

\* The instances are bounded and come to rest.
CHECK_DEADLOCK FALSE

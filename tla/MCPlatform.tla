------------------------------ MODULE MCPlatform ------------------------------
(***************************************************************************)
(* Instances of the components around the identity data: scheduling, access *)
(* reviews, rate limiting, the worker pool, startup, sessions, and reading *)
(* and writing at a provider.  They share no state, so a behaviour is one  *)
(* of a single component, the focus, with the others at rest.  Scheduling  *)
(* is taken twice: with time and faults, and with requests and changes of  *)
(* read_enabled; so are sessions: with passwords, and with secrets.        *)
(***************************************************************************)
EXTENDS SyncScheduling, AccessReview, RateLimit, WorkerPool, Startup, Sessions, Discovery,
        RemoteDisable

CONSTANTS r1, r2, e1, e2

MCSyncWorkerId == [g \in Syncers |-> g]
MCMigrationFiles == [p \in Replicas |-> IF p = r1 THEN 1 ELSE 2]
MCBootstrapEmail == [p \in Replicas |-> IF p = r1 THEN e1 ELSE e2]
MCMembersOf == [g \in DirectoryGroups |-> IF g = 1 THEN DirectoryUsers ELSE {2}]

VARIABLE focus

platformVars == <<focus, syncVars, reviewVars, rateVars, poolVars, startupVars,
                  sessionVars, discoveryVars, remoteVars>>

MCInit ==
    /\ focus \in {"schedule", "requests", "reviews", "rate", "pool", "startup", "sessions",
                  "secrets", "discovery", "remote"}
    /\ SyncInit /\ ReviewInit /\ RateInit /\ PoolInit /\ StartupInit /\ SessionsInit
    /\ DiscoveryInit /\ RemoteInit
    /\ IF focus = "discovery"
       THEN present.groups = DirectoryGroups /\ present.users = {1, 3}
       ELSE client = "SCIM_2_0" /\ present = [users |-> {}, groups |-> {}]
    /\ focus # "remote" => writer = "SCIM_2_0" /\ account.status = "enabled"

\* One disjunct per component, with the others unchanged.
MCNext ==
    \/ /\ focus = "schedule" /\ SyncNext /\ request' = request
       /\ \A k \in Synced : source'[k].readable = source[k].readable
       /\ UNCHANGED <<focus, reviewVars, rateVars, poolVars, startupVars, sessionVars,
                      discoveryVars, remoteVars>>
    \/ /\ focus = "requests" /\ SyncNext
       /\ minute' = minute /\ syncFaultsSoFar' = syncFaultsSoFar
       /\ UNCHANGED <<focus, reviewVars, rateVars, poolVars, startupVars, sessionVars,
                      discoveryVars, remoteVars>>
    \/ /\ focus = "reviews" /\ ReviewNext
       /\ UNCHANGED <<focus, syncVars, rateVars, poolVars, startupVars, sessionVars,
                      discoveryVars, remoteVars>>
    \/ /\ focus = "rate" /\ RateNext
       /\ UNCHANGED <<focus, syncVars, reviewVars, poolVars, startupVars, sessionVars,
                      discoveryVars, remoteVars>>
    \/ /\ focus = "pool" /\ PoolNext
       /\ UNCHANGED <<focus, syncVars, reviewVars, rateVars, startupVars, sessionVars,
                      discoveryVars, remoteVars>>
    \/ /\ focus = "startup" /\ StartupNext
       /\ UNCHANGED <<focus, syncVars, reviewVars, rateVars, poolVars, sessionVars,
                      discoveryVars, remoteVars>>
    \/ /\ focus = "sessions" /\ SessionsNext
       /\ secret' = secret /\ confirm' = confirm
       /\ UNCHANGED <<focus, syncVars, reviewVars, rateVars, poolVars, startupVars,
                      discoveryVars, remoteVars>>
    \/ /\ focus = "secrets" /\ SessionsNext /\ change' = change
       /\ UNCHANGED <<focus, syncVars, reviewVars, rateVars, poolVars, startupVars,
                      discoveryVars, remoteVars>>
    \/ /\ focus = "discovery" /\ DiscoveryNext
       /\ UNCHANGED <<focus, syncVars, reviewVars, rateVars, poolVars, startupVars,
                      sessionVars, remoteVars>>
    \/ /\ focus = "remote" /\ RemoteNext
       /\ UNCHANGED <<focus, syncVars, reviewVars, rateVars, poolVars, startupVars,
                      sessionVars, discoveryVars>>

Scheduling == focus \in {"schedule", "requests"}

\* Goroutines and handlers that can go on do; the queue is polled and leases
\* run out.
MCFairness ==
    /\ \A s \in Schedulers : WF_syncVars(Scheduling /\ TaskStep(s))
    /\ WF_syncVars(Scheduling /\ \E g \in Syncers : HandlerReturns(g))
    /\ WF_syncVars(Scheduling /\ \E g \in Syncers, j \in Keys : ClaimSync(g, j))
    /\ WF_syncVars(Scheduling /\ \E j \in Keys : SyncQueueTime(j) /\ UNCHANGED syncFaultsSoFar)
    /\ \A w \in PoolWorkers : WF_poolVars(focus = "pool" /\ (WorkerStep(w) \/ Quit(w)))
    /\ WF_poolVars(focus = "pool" /\ \E c \in Calls : Answer(c))
    /\ WF_poolVars(focus = "pool" /\ EndProcess)
    /\ WF_startupVars(focus = "startup" /\ \E p \in Replicas : StartupStep(p))
    /\ WF_discoveryVars(focus = "discovery" /\ ReadStep)

MCSpec == MCInit /\ [][MCNext]_platformVars /\ MCFairness

\* The type invariants of the components.
PlatformTypeOK ==
    /\ SyncTypeOK /\ ReviewTypeOK /\ RateTypeOK /\ PoolTypeOK /\ StartupTypeOK
    /\ SessionsTypeOK /\ DiscoveryTypeOK /\ RemoteTypeOK
=============================================================================

---------------------------- MODULE ProcessProofs ----------------------------
(***************************************************************************)
(* The processes of a deployment: replicas serve a database that is        *)
(* migrated and bootstrapped, and the worker pool of one answers what is   *)
(* true, for any replicas, migration files, calls, workers and capacity.   *)
(***************************************************************************)
EXTENDS WorkerPool, Startup, WellFoundedInduction, TLAPS

(* The worker pool. *)

\* What is known of the job of call c.
JobOK(c) ==
    /\ ran[c] \in {0, 1}
    /\ call[c] \in {"none", "full"} => ran[c] = 0
    /\ call[c] = "answered" \/ c \in answered => ran[c] = 1

\* A job waits once, was accepted and has not been started; a job that a worker
\* runs has been.
PoolInv ==
    /\ PoolTypeOK
    /\ \A c \in Calls : JobOK(c)
    /\ \A i \in 1 .. Len(channel) : ran[channel[i]] = 0 /\ call[channel[i]] \notin {"none", "full"}
    /\ \A i, j \in 1 .. Len(channel) : channel[i] = channel[j] => i = j
    /\ \A w \in PoolWorkers, c \in Calls : goroutine[w] = <<c>> => ran[c] = 1

\* A submission adds a job that did not wait yet.
LEMMA SubmitKeeps ==
  ASSUME PoolInv, NEW c \in Calls, Submit(c)
  PROVE  PoolInv'
<1>1. /\ channel \in Seq(Calls) /\ call[c] = "none" /\ ran[c] = 0
      /\ call \in [Calls -> {"none", "waiting", "full", "answered", "cancelled", "dropped"}]
      /\ UNCHANGED <<gone, goroutine, answered, ran, stopping>>
      /\ \A i \in 1 .. Len(channel) : channel[i] \in Calls /\ channel[i] # c
  BY DEF PoolInv, PoolTypeOK, JobOK, Submit
<1>2. CASE Len(channel) < QueueSize
  <2>1. channel' = Append(channel, c) /\ call' = [call EXCEPT ![c] = "waiting"]
    BY <1>2 DEF Submit
  <2>2. /\ channel' \in Seq(Calls) /\ Len(channel') = Len(channel) + 1
        /\ \A i \in 1 .. Len(channel) : channel'[i] = channel[i]
        /\ channel'[Len(channel) + 1] = c /\ Len(channel) \in Nat
    BY <1>1, <2>1
  <2>3. PoolTypeOK'
    BY <1>1, <1>2, <2>1, <2>2, PoolConstants DEF PoolInv, PoolTypeOK
  <2>4. \A d \in Calls : JobOK(d)'
    BY <1>1, <2>1 DEF PoolInv, JobOK
  <2>5. \A i \in 1 .. Len(channel') :
          ran'[channel'[i]] = 0 /\ call'[channel'[i]] \notin {"none", "full"}
    <3>1. SUFFICES ASSUME NEW i \in 1 .. Len(channel')
                   PROVE  ran'[channel'[i]] = 0 /\ call'[channel'[i]] \notin {"none", "full"}
      OBVIOUS
    <3>2. CASE i \in 1 .. Len(channel)
      <4>1. ran[channel[i]] = 0 /\ call[channel[i]] \notin {"none", "full"}
        BY <3>2 DEF PoolInv
      <4>2. call'[channel[i]] = call[channel[i]] /\ channel'[i] = channel[i]
        BY <1>1, <2>1, <2>2, <3>2
      <4>3. QED
        BY <1>1, <4>1, <4>2
    <3>3. CASE i = Len(channel) + 1
      BY <1>1, <2>1, <2>2, <3>3
    <3>4. QED
      BY <2>2, <3>1, <3>2, <3>3
  <2>6. \A i, j \in 1 .. Len(channel') : channel'[i] = channel'[j] => i = j
    <3>1. SUFFICES ASSUME NEW i \in 1 .. Len(channel'), NEW j \in 1 .. Len(channel'),
                          channel'[i] = channel'[j]
                   PROVE  i = j
      OBVIOUS
    <3>2. CASE i \in 1 .. Len(channel) /\ j \in 1 .. Len(channel)
      <4>1. channel[i] = channel[j]
        BY <2>2, <3>1, <3>2
      <4>2. QED
        BY <3>2, <4>1 DEF PoolInv
    <3>3. CASE i = Len(channel) + 1 \/ j = Len(channel) + 1
      BY <1>1, <2>2, <3>1, <3>3
    <3>4. QED
      BY <2>2, <3>2, <3>3
  <2>7. \A w \in PoolWorkers, d \in Calls : goroutine'[w] = <<d>> => ran'[d] = 1
    BY <1>1 DEF PoolInv
  <2>8. QED
    BY <2>3, <2>4, <2>5, <2>6, <2>7 DEF PoolInv
<1>3. CASE ~(Len(channel) < QueueSize)
  <2>1. channel' = channel /\ call' = [call EXCEPT ![c] = "full"]
    BY <1>3 DEF Submit
  <2>2. PoolTypeOK'
    BY <1>1, <2>1 DEF PoolInv, PoolTypeOK
  <2>3. \A d \in Calls : JobOK(d)'
    BY <1>1, <2>1 DEF PoolInv, JobOK
  <2>4. QED
    BY <1>1, <2>1, <2>2, <2>3 DEF PoolInv
<1>4. QED
  BY <1>2, <1>3

\* A worker takes a job out of the channel and starts it.
LEMMA TakeKeeps ==
  ASSUME PoolInv, NEW w \in PoolWorkers, Take(w)
  PROVE  PoolInv'
<1>1. /\ channel \in Seq(Calls) /\ channel # <<>> /\ ran \in [Calls -> Nat]
      /\ goroutine \in [PoolWorkers -> {<<>>} \cup {<<d>> : d \in Calls}]
      /\ UNCHANGED <<gone, call, answered, stopping>>
  BY DEF PoolInv, PoolTypeOK, Take
<1>2. PICK c \in Calls : c = channel[1]
  BY <1>1
<1>3. /\ channel' = Tail(channel) /\ ran' = [ran EXCEPT ![c] = ran[c] + 1]
      /\ goroutine' = [goroutine EXCEPT ![w] = <<c>>]
  BY <1>1, <1>2 DEF Take
<1>4. /\ Len(channel) \in Nat \ {0} /\ channel' \in Seq(Calls)
      /\ Len(channel') = Len(channel) - 1
      /\ \A i \in 1 .. Len(channel') : channel'[i] = channel[i + 1] /\ channel[i + 1] \in Calls
  BY <1>1, <1>3
<1>5. /\ ran[c] = 0 /\ ran'[c] = 1 /\ \A d \in Calls \ {c} : ran'[d] = ran[d]
      /\ call[c] \notin {"none", "full"}
  <2>1. 1 \in 1 .. Len(channel)
    BY <1>4
  <2>2. ran[c] = 0 /\ call[c] \notin {"none", "full"}
    BY <1>2, <2>1 DEF PoolInv
  <2>3. QED
    BY <1>1, <1>3, <2>2
<1>6. \A i \in 1 .. Len(channel') : channel'[i] # c
  BY <1>2, <1>4 DEF PoolInv
<1>7. PoolTypeOK'
  <2>1. ran' \in [Calls -> Nat]
    BY <1>1, <1>3
  <2>2. goroutine' \in [PoolWorkers -> {<<>>} \cup {<<d>> : d \in Calls}]
    BY <1>1, <1>3
  <2>3. Len(channel') <= QueueSize
    BY <1>4, PoolConstants DEF PoolInv, PoolTypeOK
  <2>4. QED
    BY <1>1, <1>4, <2>1, <2>2, <2>3 DEF PoolInv, PoolTypeOK
<1>8. \A d \in Calls : JobOK(d)'
  BY <1>1, <1>5 DEF PoolInv, JobOK
<1>9. \A i \in 1 .. Len(channel') :
        ran'[channel'[i]] = 0 /\ call'[channel'[i]] \notin {"none", "full"}
  <2>1. SUFFICES ASSUME NEW i \in 1 .. Len(channel')
                 PROVE  ran'[channel'[i]] = 0 /\ call'[channel'[i]] \notin {"none", "full"}
    OBVIOUS
  <2>2. i + 1 \in 1 .. Len(channel)
    BY <1>4
  <2>3. ran[channel[i + 1]] = 0 /\ call[channel[i + 1]] \notin {"none", "full"}
    BY <2>2 DEF PoolInv
  <2>4. channel'[i] = channel[i + 1] /\ channel'[i] \in Calls \ {c}
    BY <1>4, <1>6
  <2>5. QED
    BY <1>1, <1>5, <2>3, <2>4
<1>10. \A i, j \in 1 .. Len(channel') : channel'[i] = channel'[j] => i = j
  <2>1. SUFFICES ASSUME NEW i \in 1 .. Len(channel'), NEW j \in 1 .. Len(channel'),
                        channel'[i] = channel'[j]
                 PROVE  i = j
    OBVIOUS
  <2>2. i + 1 \in 1 .. Len(channel) /\ j + 1 \in 1 .. Len(channel)
    BY <1>4
  <2>3. i + 1 = j + 1
    BY <1>4, <2>1, <2>2 DEF PoolInv
  <2>4. QED
    BY <2>3, <1>4
<1>11. \A v \in PoolWorkers, d \in Calls : goroutine'[v] = <<d>> => ran'[d] = 1
  BY <1>1, <1>3, <1>5, Zenon DEF PoolInv
<1>12. QED
  BY <1>7, <1>8, <1>9, <1>10, <1>11 DEF PoolInv

\* The steps that only end a job or move a caller or a worker.
LEMMA ReturnKeeps ==
  ASSUME PoolInv,
         \/ \E c \in Calls : Answer(c) \/ GiveUp(c)
         \/ \E w \in PoolWorkers : Finish(w) \/ Quit(w)
         \/ BeginShutdown \/ EndProcess
  PROVE  PoolInv'
<1>1. channel' = channel /\ ran' = ran
  BY DEF Answer, GiveUp, Finish, Quit, BeginShutdown, EndProcess
<1>2. /\ call' \in [Calls -> {"none", "waiting", "full", "answered", "cancelled", "dropped"}]
      /\ \A c \in Calls : \/ call'[c] = call[c]
                          \/ /\ call[c] = "waiting" /\ call'[c] \notin {"none", "full"}
                             /\ call'[c] = "answered" => c \in answered
  <2>1. CASE EndProcess
    BY <2>1 DEF EndProcess, PoolInv, PoolTypeOK
  <2>2. CASE ~EndProcess
    BY <2>2, Zenon DEF Answer, GiveUp, Finish, Quit, BeginShutdown, PoolInv, PoolTypeOK
  <2>3. QED
    BY <2>1, <2>2
<1>3. /\ goroutine' \in [PoolWorkers -> {<<>>} \cup {<<d>> : d \in Calls}]
      /\ \A w \in PoolWorkers : goroutine'[w] \in {<<>>, goroutine[w]}
  BY Zenon DEF Answer, GiveUp, Finish, Quit, BeginShutdown, EndProcess, PoolInv, PoolTypeOK
<1>4. answered' \subseteq Calls /\ \A c \in answered' : ran[c] = 1
  <2>1. CASE \E w \in PoolWorkers : Finish(w)
    <3>1. PICK w \in PoolWorkers : Finish(w)
      BY <2>1
    <3>2. PICK c \in Calls : goroutine[w] = <<c>>
      BY <3>1 DEF Finish, PoolInv, PoolTypeOK
    <3>3. answered' = answered \cup {c} /\ ran[c] = 1
      BY <3>1, <3>2 DEF Finish, PoolInv
    <3>4. QED
      BY <3>3 DEF PoolInv, PoolTypeOK, JobOK
  <2>2. CASE answered' = answered
    BY <2>2 DEF PoolInv, PoolTypeOK, JobOK
  <2>3. QED
    BY <2>1, <2>2 DEF Answer, GiveUp, Quit, BeginShutdown, EndProcess
<1>5. gone' \subseteq PoolWorkers /\ stopping' \in BOOLEAN
  BY Zenon DEF Answer, GiveUp, Finish, Quit, BeginShutdown, EndProcess, PoolInv, PoolTypeOK
<1>6. PoolTypeOK'
  BY <1>1, <1>2, <1>3, <1>4, <1>5 DEF PoolInv, PoolTypeOK
<1>7. \A c \in Calls : JobOK(c)'
  BY <1>1, <1>2, <1>4 DEF PoolInv, JobOK
<1>8. \A i \in 1 .. Len(channel') :
        ran'[channel'[i]] = 0 /\ call'[channel'[i]] \notin {"none", "full"}
  <2>1. SUFFICES ASSUME NEW i \in 1 .. Len(channel)
                 PROVE  ran[channel[i]] = 0 /\ call'[channel[i]] \notin {"none", "full"}
    BY <1>1
  <2>2. channel[i] \in Calls
    BY DEF PoolInv, PoolTypeOK
  <2>3. ran[channel[i]] = 0 /\ call[channel[i]] \notin {"none", "full"}
    BY <2>1 DEF PoolInv
  <2>4. QED
    BY <1>2, <2>2, <2>3
<1>9. \A w \in PoolWorkers, d \in Calls : goroutine'[w] = <<d>> => ran'[d] = 1
  BY <1>1, <1>3 DEF PoolInv
<1>10. \A i, j \in 1 .. Len(channel') : channel'[i] = channel'[j] => i = j
  BY <1>1 DEF PoolInv
<1>11. QED
  BY <1>6, <1>7, <1>8, <1>9, <1>10 DEF PoolInv

\* Every reachable state satisfies the invariant.
LEMMA PoolInvHolds == PoolSpec => []PoolInv
<1>1. PoolInit => PoolInv
  <2>1. SUFFICES ASSUME PoolInit PROVE PoolInv
    OBVIOUS
  <2>2. channel \in Seq(Calls) /\ Len(channel) = 0
    BY <2>1 DEF PoolInit
  <2>3. PoolTypeOK
    <3>1. /\ Len(channel) <= QueueSize /\ ran \in [Calls -> Nat]
          /\ gone \subseteq PoolWorkers /\ answered \subseteq Calls
      BY <2>1, <2>2, PoolConstants DEF PoolInit
    <3>2. QED
      BY <2>1, <2>2, <3>1, Zenon DEF PoolInit, PoolTypeOK
  <2>4. \A c \in Calls : JobOK(c)
    BY <2>1, Zenon DEF PoolInit, JobOK
  <2>5. QED
    BY <2>1, <2>2, <2>3, <2>4 DEF PoolInit, PoolInv
<1>2. PoolInv /\ [PoolNext]_poolVars => PoolInv'
  <2>1. ASSUME PoolInv, UNCHANGED poolVars PROVE PoolInv'
    BY <2>1 DEF PoolInv, PoolTypeOK, JobOK, poolVars
  <2>2. QED
    BY <2>1, SubmitKeeps, TakeKeeps, ReturnKeeps, Zenon DEF PoolNext, WorkerStep
<1>3. QED
  BY <1>1, <1>2, PTL DEF PoolSpec

\* The values of the channels and goroutines: the channel stays within its
\* capacity.
THEOREM PoolTypeCorrect == PoolSpec => []PoolTypeOK
<1>1. PoolInv => PoolTypeOK
  BY DEF PoolInv
<1>2. QED
  BY <1>1, PoolInvHolds, PTL

\* What runBounded tells its caller is true, for any number of calls and
\* workers and any capacity of the channel.
THEOREM CallersAreToldTheTruth == PoolSpec => []AnswersAreTrue
<1>1. PoolInv => AnswersAreTrue
  <2>1. SUFFICES ASSUME PoolInv, NEW c \in Calls
                 PROVE  /\ ran[c] <= 1
                        /\ call[c] = "answered" => ran[c] = 1
                        /\ call[c] \in {"none", "full"} => ran[c] = 0
    BY Zenon DEF AnswersAreTrue
  <2>2. JobOK(c)
    BY <2>1 DEF PoolInv
  <2>3. QED
    BY <2>2 DEF JobOK
<1>2. QED
  BY <1>1, PoolInvHolds, PTL

-----------------------------------------------------------------------------
(* Startup. *)

\* What replica p knows when its local variables are r: it migrates and
\* bootstraps under the locks, every version it has passed is applied, and what
\* Bootstrap read is still so.
ReplicaAt(p, r) ==
    /\ r.pc \in {"check", "apply"} =>
         /\ migrationLock = p
         /\ r.version \in 1 .. MigrationFiles[p] + 1
         /\ \A u \in 1 .. r.version - 1 : applied[u] = 1
    /\ r.pc = "apply" => r.version <= MigrationFiles[p] /\ applied[r.version] = 0
    /\ r.pc \in {"bootstrap", "insert", "serving"} =>
         \A u \in 1 .. MigrationFiles[p] : applied[u] = 1
    /\ r.pc = "insert" =>
         /\ bootstrapLock = p
         /\ r.known => user[BootstrapEmail[p]] # NoUser
         /\ r.org \in 0 .. organizations
         /\ ~renamed /\ r.org = 0 => organizations = 0
    /\ r.pc = "serving" => user[BootstrapEmail[p]] # NoUser

MigrationsOK ==
    \A v \in Versions : /\ applied[v] \in {0, 1}
                        /\ applied[v] = 1 => \A u \in 1 .. v - 1 : applied[u] = 1

OrganizationsOK ==
    /\ ~renamed => organizations <= 1 /\ demo = 1 .. organizations
    /\ \A o \in 1 .. organizations : \E e \in Emails : user[e].org = o /\ user[e].owner

\* The inductive invariant of the replicas.
StartupInv ==
    /\ StartupTypeOK
    /\ MigrationsOK
    /\ OrganizationsOK
    /\ \A p \in Replicas : ReplicaAt(p, replica[p])
-----------------------------------------------------------------------------
\* A set of natural numbers that is not empty has a least member.
LEMMA LeastNatural ==
  ASSUME NEW S \in SUBSET Nat, S # {}
  PROVE  \E n \in S : \A m \in S : n <= m
<1> DEFINE R == {ss \in Nat \X Nat : ss[1] < ss[2]}
<1>1. IsWellFoundedOn(R, Nat)
  BY NatLessThanWellFounded DEF OpToRel
<1>2. PICK n \in S : \A m \in S : ~(<<m, n>> \in R)
  <2> HIDE DEF R
  <2>1. QED
    BY <1>1, WFMin, Zenon
<1>3. ASSUME NEW m \in S PROVE n <= m
  <2>1. ~(<<m, n>> \in R) /\ m \in Nat /\ n \in Nat
    BY <1>2
  <2>2. ~(m < n)
    BY <2>1
  <2>3. QED
    BY <2>1, <2>2
<1>4. QED
  BY <1>3

\* The versions are the numbers up to the last file of any replica.
LEMMA VersionsClosed ==
  /\ \A p \in Replicas : MigrationFiles[p] \in Nat /\ 1 .. MigrationFiles[p] \subseteq Versions
  /\ \A v \in Versions : v \in Nat \ {0} /\ 1 .. v \subseteq Versions
<1>1. ASSUME NEW p \in Replicas
      PROVE  MigrationFiles[p] \in Nat /\ 1 .. MigrationFiles[p] \subseteq Versions
  BY StartupConstants DEF Versions
<1>2. ASSUME NEW v \in Versions PROVE v \in Nat \ {0} /\ 1 .. v \subseteq Versions
  <2>1. PICK p \in Replicas : v \in 1 .. MigrationFiles[p]
    BY DEF Versions
  <2>2. MigrationFiles[p] \in Nat
    BY <1>1
  <2>3. 1 .. v \subseteq 1 .. MigrationFiles[p] /\ v \in Nat \ {0}
    BY <2>1, <2>2
  <2>4. QED
    BY <1>1, <2>3
<1>3. QED
  BY <1>1, <1>2

ReplicaRow == [pc : {"down", "connect", "migrate", "check", "apply", "bootstrap",
                     "insert", "serving"},
               version : Nat, known : BOOLEAN, org : Nat]

\* A step in which p alone moves: what the others know stays true when rows are
\* only added, and what they hold or have read under a lock only the holder
\* changes.
LEMMA OthersKnow ==
  ASSUME StartupInv, NEW p \in Replicas, NEW q \in Replicas \ {p},
         replica'[q] = replica[q],
         \A v \in Versions : applied[v] = 1 => applied'[v] = 1,
         applied' = applied \/ migrationLock = p,
         \A e \in Emails : user[e] # NoUser => user'[e] # NoUser,
         organizations' = organizations \/ bootstrapLock = p,
         renamed => renamed',
         migrationLock = q => migrationLock' = q,
         bootstrapLock = q => bootstrapLock' = q
  PROVE  ReplicaAt(q, replica[q])'
<1>1. /\ ReplicaAt(q, replica[q]) /\ replica[q] \in ReplicaRow
      /\ BootstrapEmail[q] \in Emails /\ MigrationFiles[q] \in Nat
  BY StartupConstants DEF StartupInv, StartupTypeOK, ReplicaRow
<1> DEFINE r == replica[q]
<1>2. r.pc \in {"check", "apply"} =>
         /\ migrationLock' = q /\ applied' = applied
         /\ r.version \in 1 .. MigrationFiles[q] + 1
         /\ \A u \in 1 .. r.version - 1 : applied[u] = 1
  BY <1>1, Zenon DEF ReplicaAt
<1>3. r.pc = "apply" => r.version <= MigrationFiles[q] /\ applied[r.version] = 0
  BY <1>1 DEF ReplicaAt
<1>4. r.pc \in {"bootstrap", "insert", "serving"} =>
         \A u \in 1 .. MigrationFiles[q] : applied'[u] = 1
  BY <1>1, VersionsClosed DEF ReplicaAt
<1>5. r.pc = "insert" =>
         /\ bootstrapLock' = q /\ organizations' = organizations
         /\ r.known => user'[BootstrapEmail[q]] # NoUser
         /\ r.org \in 0 .. organizations
         /\ ~renamed' /\ r.org = 0 => organizations = 0
  BY <1>1, Zenon DEF ReplicaAt
<1>6. r.pc = "serving" => user'[BootstrapEmail[q]] # NoUser
  BY <1>1, Zenon DEF ReplicaAt
<1>7. r.pc = "apply" => r.pc \in {"check", "apply"}
  OBVIOUS
<1>8. QED
  BY <1>2, <1>3, <1>4, <1>5, <1>6, <1>7, Zenon DEF ReplicaAt

\* A step of p that leaves the tables alone and the others their locks.
LEMMA QuietReplica ==
  ASSUME StartupInv, NEW p \in Replicas, NEW r \in ReplicaRow,
         replica' = [replica EXCEPT ![p] = r],
         UNCHANGED <<applied, user, demo, organizations, renamed>>,
         starts' \in 0 .. MaxStarts,
         migrationLock' \in {migrationLock, p, Unheld},
         bootstrapLock' \in {bootstrapLock, p, Unheld},
         \A q \in Replicas \ {p} : /\ migrationLock = q => migrationLock' = q
                                   /\ bootstrapLock = q => bootstrapLock' = q,
         ReplicaAt(p, r)'
  PROVE  StartupInv'
<1>1. StartupTypeOK'
  BY DEF StartupInv, StartupTypeOK, ReplicaRow
<1>2. MigrationsOK' /\ OrganizationsOK'
  BY DEF StartupInv, MigrationsOK, OrganizationsOK
<1>3. /\ replica'[p] = r /\ \A q \in Replicas \ {p} : replica'[q] = replica[q]
  BY DEF StartupInv, StartupTypeOK
<1>4. ASSUME NEW q \in Replicas PROVE ReplicaAt(q, replica[q])'
  <2>1. CASE q = p
    BY <1>3, <2>1, Zenon
  <2>2. CASE q # p
    BY <1>3, <2>2, OthersKnow, Zenon
  <2>3. QED
    BY <2>1, <2>2
<1>5. QED
  BY <1>1, <1>2, <1>4, Zenon DEF StartupInv

\* The row of a replica and what it knows.
LEMMA ReplicaTyped ==
  ASSUME StartupInv, NEW p \in Replicas
  PROVE  /\ replica[p] \in ReplicaRow /\ ReplicaAt(p, replica[p])
         /\ MigrationFiles[p] \in Nat /\ BootstrapEmail[p] \in Emails
         /\ starts \in 0 .. MaxStarts /\ MaxStarts \in Nat /\ Unheld # p
         /\ migrationLock \in Replicas \cup {Unheld}
         /\ bootstrapLock \in Replicas \cup {Unheld}
         /\ organizations \in Nat /\ demo \subseteq 1 .. organizations
         /\ replica[p].version \in Nat
BY StartupConstants DEF StartupInv, StartupTypeOK, ReplicaRow

\* A process that is down, or exits, knows nothing.
LEMMA DownKnowsNothing ==
  /\ Down \in ReplicaRow /\ Down.pc = "down"
BY DEF Down, ReplicaRow

\* Starting, opening the database, and every way a process ends.
LEMMA ProcessKeeps ==
  ASSUME StartupInv, NEW p \in Replicas,
         StartProcess(p) \/ OpenDatabase(p) \/ BootstrapConflicts(p) \/ StopProcess(p)
  PROVE  StartupInv'
<1>1. PICK r \in ReplicaRow : /\ r.pc \in {"connect", "migrate", "down"}
                              /\ replica' = [replica EXCEPT ![p] = r]
  <2>1. CASE StartProcess(p) \/ GotoStep(p, "migrate")
    <3>1. PICK pc \in {"connect", "migrate"} : replica' = [replica EXCEPT ![p].pc = pc]
      BY <2>1, Zenon DEF StartProcess, GotoStep
    <3>2. PICK y : y = [replica[p] EXCEPT !.pc = pc]
      BY Zenon
    <3>3. y \in ReplicaRow /\ y.pc = pc
      BY <3>2, ReplicaTyped DEF ReplicaRow
    <3>4. replica' = [replica EXCEPT ![p] = y]
      BY <3>1, <3>2, Zenon
    <3>5. QED
      BY <3>3, <3>4, Zenon
  <2>2. CASE replica' = [replica EXCEPT ![p] = Down]
    BY <2>2, DownKnowsNothing, Zenon
  <2>3. QED
    BY <2>1, <2>2 DEF OpenDatabase, BootstrapConflicts, StopProcess
<1>2. /\ UNCHANGED <<applied, user, demo, organizations, renamed>>
      /\ migrationLock' \in {migrationLock, Unheld}
      /\ bootstrapLock' \in {bootstrapLock, Unheld}
      /\ \A q \in Replicas \ {p} : /\ migrationLock = q => migrationLock' = q
                                   /\ bootstrapLock = q => bootstrapLock' = q
  BY Zenon DEF StartProcess, OpenDatabase, BootstrapConflicts, StopProcess
<1>3. starts' \in 0 .. MaxStarts
  BY ReplicaTyped DEF StartProcess, OpenDatabase, BootstrapConflicts, StopProcess
<1>4. ReplicaAt(p, r)'
  BY <1>1 DEF ReplicaAt
<1>5. QED
  BY <1>1, <1>2, <1>3, <1>4, QuietReplica, Zenon

\* Migrate up to the statements of a file: the lock is taken, versions that are
\* recorded are passed over, the lock is given back.
LEMMA MigrateKeeps ==
  ASSUME StartupInv, NEW p \in Replicas,
         BeginMigrate(p) \/ CheckVersion(p) \/ EndMigrate(p)
  PROVE  StartupInv'
<1>1. /\ UNCHANGED <<applied, user, demo, organizations, renamed, starts, bootstrapLock>>
      /\ migrationLock' \in {migrationLock, p, Unheld}
      /\ \A q \in Replicas \ {p} : migrationLock = q => migrationLock' = q
  BY StartupConstants, Zenon DEF BeginMigrate, CheckVersion, EndMigrate
<1>2. PICK r \in ReplicaRow : /\ replica' = [replica EXCEPT ![p] = r]
                              /\ ReplicaAt(p, r)'
  <2>1. CASE BeginMigrate(p)
    <3>1. PICK r : r = [replica[p] EXCEPT !.pc = "check", !.version = 1]
      BY Zenon
    <3>2. r \in ReplicaRow /\ r.pc = "check" /\ r.version = 1
      BY <3>1, ReplicaTyped, Zenon DEF ReplicaRow
    <3>3. replica' = [replica EXCEPT ![p] = r] /\ migrationLock' = p
      BY <2>1, <3>1, Zenon DEF BeginMigrate
    <3>4. 1 \in 1 .. MigrationFiles[p] + 1 /\ 1 .. 1 - 1 = {}
      BY ReplicaTyped
    <3>5. ReplicaAt(p, r)'
      BY <3>2, <3>3, <3>4 DEF ReplicaAt
    <3>6. QED
      BY <3>2, <3>3, <3>5, Zenon
  <2>2. CASE CheckVersion(p) /\ applied[replica[p].version] > 0
    <3> DEFINE v == replica[p].version
    <3>1. PICK r : r = [replica[p] EXCEPT !.version = v + 1]
      BY Zenon
    <3>2. /\ v \in 1 .. MigrationFiles[p] /\ replica[p].pc = "check" /\ migrationLock = p
          /\ \A u \in 1 .. v - 1 : applied[u] = 1
      BY <2>2, ReplicaTyped DEF CheckVersion, ReplicaAt
    <3>3. applied[v] = 1 /\ migrationLock' = migrationLock
      BY <2>2, <3>2, VersionsClosed DEF CheckVersion, StartupInv, MigrationsOK
    <3>4. r \in ReplicaRow /\ r.pc = "check" /\ r.version = v + 1
      BY <3>1, <3>2, ReplicaTyped DEF ReplicaRow
    <3>5. replica' = [replica EXCEPT ![p] = r]
      BY <2>2, <3>1, Zenon DEF CheckVersion
    <3>6. /\ v + 1 \in 1 .. MigrationFiles[p] + 1
          /\ \A u \in 1 .. (v + 1) - 1 : applied[u] = 1
      BY <3>2, <3>3, ReplicaTyped
    <3>7. ReplicaAt(p, r)'
      BY <1>1, <3>2, <3>3, <3>4, <3>6 DEF ReplicaAt
    <3>8. QED
      BY <3>4, <3>5, <3>7, Zenon
  <2>3. CASE CheckVersion(p) /\ ~(applied[replica[p].version] > 0)
    <3>1. PICK r : r = [replica[p] EXCEPT !.pc = "apply"]
      BY Zenon
    <3>2. r \in ReplicaRow /\ r.pc = "apply" /\ r.version = replica[p].version
      BY <3>1, ReplicaTyped DEF ReplicaRow
    <3>3. replica' = [replica EXCEPT ![p] = r] /\ migrationLock' = migrationLock
      BY <2>3, <3>1, Zenon DEF CheckVersion
    <3>4. /\ r.version \in 1 .. MigrationFiles[p] /\ migrationLock = p
          /\ \A u \in 1 .. r.version - 1 : applied[u] = 1
      BY <2>3, <3>2, ReplicaTyped DEF CheckVersion, ReplicaAt
    <3>5. applied[r.version] = 0
      BY <2>3, <3>2, <3>4, VersionsClosed DEF StartupInv, MigrationsOK
    <3>6. ReplicaAt(p, r)'
      BY <1>1, <3>2, <3>3, <3>4, <3>5, ReplicaTyped DEF ReplicaAt
    <3>7. QED
      BY <3>2, <3>3, <3>6, Zenon
  <2>4. CASE EndMigrate(p)
    <3>1. PICK r : r = [replica[p] EXCEPT !.pc = "bootstrap"]
      BY Zenon
    <3>2. r \in ReplicaRow /\ r.pc = "bootstrap"
      BY <3>1, ReplicaTyped DEF ReplicaRow
    <3>3. replica' = [replica EXCEPT ![p] = r]
      BY <2>4, <3>1, Zenon DEF EndMigrate, GotoStep
    <3>4. \A u \in 1 .. MigrationFiles[p] : applied[u] = 1
      BY <2>4, ReplicaTyped DEF EndMigrate, ReplicaAt
    <3>5. ReplicaAt(p, r)'
      BY <1>1, <3>2, <3>4 DEF ReplicaAt
    <3>6. QED
      BY <3>2, <3>3, <3>5, Zenon
  <2>5. QED
    BY <2>1, <2>2, <2>3, <2>4, Zenon
<1>3. QED
  BY <1>1, <1>2, ReplicaTyped, QuietReplica, Zenon

\* The statements of a file, under the lock: the first version that is not
\* recorded.
LEMMA ApplyKeeps ==
  ASSUME StartupInv, NEW p \in Replicas, ApplyVersion(p)
  PROVE  StartupInv'
<1>1. PICK v \in Versions : v = replica[p].version
  BY ReplicaTyped, VersionsClosed DEF ApplyVersion, ReplicaAt
<1>2. /\ v \in 1 .. MigrationFiles[p] /\ migrationLock = p /\ applied[v] = 0
      /\ \A u \in 1 .. v - 1 : applied[u] = 1
  BY <1>1, ReplicaTyped DEF ApplyVersion, ReplicaAt
<1>3. /\ applied' = [applied EXCEPT ![v] = applied[v] + 1]
      /\ UNCHANGED <<migrationLock, bootstrapLock, user, demo, organizations, renamed, starts>>
  BY <1>1, Zenon DEF ApplyVersion
<1>4. /\ applied'[v] = 1 /\ \A u \in Versions \ {v} : applied'[u] = applied[u]
      /\ \A u \in Versions : applied[u] = 1 => applied'[u] = 1
      /\ applied' \in [Versions -> Nat]
  BY <1>2, <1>3 DEF StartupInv, StartupTypeOK
<1>5. PICK n \in Nat : n = v + 1
  BY VersionsClosed
<1>0. PICK r : r = [replica[p] EXCEPT !.pc = "check", !.version = n]
  BY Zenon
<1>6. r \in ReplicaRow /\ r.pc = "check" /\ r.version = v + 1
  <2>1. "check" \in {"down", "connect", "migrate", "check", "apply", "bootstrap",
                    "insert", "serving"}
    OBVIOUS
  <2>2. QED
    BY <1>0, <1>5, <2>1, ReplicaTyped, Zenon DEF ReplicaRow
<1>7. replica' = [replica EXCEPT ![p] = r]
  BY <1>0, <1>1, <1>5, Zenon DEF ApplyVersion
<1>8. StartupTypeOK'
  BY <1>3, <1>4, <1>6, <1>7 DEF StartupInv, StartupTypeOK, ReplicaRow
<1>9. MigrationsOK'
  <2>1. ASSUME NEW w \in Versions
        PROVE  /\ applied'[w] \in {0, 1}
               /\ applied'[w] = 1 => \A u \in 1 .. w - 1 : applied'[u] = 1
    <3>1. w \in Nat \ {0} /\ \A u \in 1 .. w - 1 : u \in Versions
      BY VersionsClosed
    <3>2. CASE w = v
      BY <1>2, <1>4, <3>1, <3>2
    <3>3. CASE w # v
      BY <1>4, <3>1, <3>3 DEF StartupInv, MigrationsOK
    <3>4. QED
      BY <3>2, <3>3
  <2>2. QED
    BY <2>1, Zenon DEF MigrationsOK
<1>10. OrganizationsOK'
  BY <1>3 DEF StartupInv, OrganizationsOK
<1>11. /\ replica'[p] = r /\ \A q \in Replicas \ {p} : replica'[q] = replica[q]
  BY <1>7 DEF StartupInv, StartupTypeOK
<1>12. ReplicaAt(p, r)'
  <2>1. /\ v + 1 \in 1 .. MigrationFiles[p] + 1
        /\ \A u \in 1 .. (v + 1) - 1 : applied'[u] = 1
    BY <1>2, <1>4, ReplicaTyped, VersionsClosed
  <2>2. QED
    BY <1>2, <1>3, <1>6, <2>1 DEF ReplicaAt
<1>13. ASSUME NEW q \in Replicas PROVE ReplicaAt(q, replica[q])'
  <2>1. CASE q = p
    BY <1>11, <1>12, <2>1, Zenon
  <2>2. CASE q # p
    BY <1>2, <1>3, <1>4, <1>11, <2>2, OthersKnow, Zenon
  <2>3. QED
    BY <2>1, <2>2
<1>14. QED
  BY <1>8, <1>9, <1>10, <1>13, Zenon DEF StartupInv

\* The lock of Bootstrap and its reads: the address, and the oldest organization
\* that has the name.
LEMMA BeginBootstrapKeeps ==
  ASSUME StartupInv, NEW p \in Replicas, BeginBootstrap(p)
  PROVE  StartupInv'
<1> DEFINE o == OldestDemo
           k == user[BootstrapEmail[p]] # NoUser
<1>1. o \in 0 .. organizations /\ o \in Nat /\ (~renamed /\ o = 0 => organizations = 0)
  <2>1. CASE demo = {}
    <3>1. o = 0 /\ organizations \in Nat
      BY <2>1, ReplicaTyped, Zenon DEF OldestDemo
    <3>2. ~renamed => 1 .. organizations = {}
      BY <2>1, Zenon DEF StartupInv, OrganizationsOK
    <3>3. QED
      BY <3>1, <3>2
  <2>2. CASE demo # {}
    <3>1. demo \in SUBSET Nat /\ demo \subseteq 1 .. organizations
      BY ReplicaTyped
    <3>2. \E n \in demo : \A m \in demo : n <= m
      BY <2>2, <3>1, LeastNatural, Zenon
    <3>3. o \in demo
      BY <2>2, <3>2, Zenon DEF OldestDemo
    <3>4. organizations \in Nat
      BY ReplicaTyped
    <3>5. o \in 1 .. organizations
      BY <3>1, <3>3, Zenon
    <3>6. QED
      BY <3>4, <3>5
  <2>3. QED
    BY <2>1, <2>2
<1>2. PICK r : r = [replica[p] EXCEPT !.pc = "insert", !.known = k, !.org = o]
  BY Zenon
<1>3. k \in BOOLEAN
  BY Zenon
<1>4. /\ replica' = [replica EXCEPT ![p] = r]
      /\ bootstrapLock = Unheld /\ bootstrapLock' = p
      /\ UNCHANGED <<applied, migrationLock, user, demo, organizations, renamed, starts>>
  BY <1>2, Zenon DEF BeginBootstrap
<1> HIDE DEF k, o
<1>5. r \in ReplicaRow /\ r.pc = "insert" /\ r.known = k /\ r.org = o
  <2>1. "insert" \in {"down", "connect", "migrate", "check", "apply", "bootstrap",
                     "insert", "serving"}
    OBVIOUS
  <2>2. QED
    BY <1>1, <1>2, <1>3, <2>1, ReplicaTyped, Zenon DEF ReplicaRow
<1>6. \A u \in 1 .. MigrationFiles[p] : applied[u] = 1
  BY ReplicaTyped DEF BeginBootstrap, ReplicaAt
<1>7. r.known => user[BootstrapEmail[p]] # NoUser
  BY <1>5, Zenon DEF k
<1>8. r.org \in 0 .. organizations /\ (~renamed /\ r.org = 0 => organizations = 0)
  BY <1>1, <1>5
<1>9. ReplicaAt(p, r)'
  BY <1>4, <1>5, <1>6, <1>7, <1>8 DEF ReplicaAt
<1>10. \A q \in Replicas \ {p} : /\ migrationLock = q => migrationLock' = q
                                 /\ bootstrapLock = q => bootstrapLock' = q
  BY <1>4, StartupConstants, Zenon
<1>11. QED
  BY <1>4, <1>5, <1>9, <1>10, ReplicaTyped, QuietReplica, Zenon

\* Bootstrap finds its address, or inserts the owner, with a new organization
\* when there is none of the name.
LEMMA EndBootstrapKeeps ==
  ASSUME StartupInv, NEW p \in Replicas, EndBootstrap(p)
  PROVE  StartupInv'
<1>0. PICK r : r = [replica[p] EXCEPT !.pc = "serving"]
  BY Zenon
<1>1. r \in ReplicaRow /\ r.pc = "serving"
  <2>1. "serving" \in {"down", "connect", "migrate", "check", "apply", "bootstrap",
                      "insert", "serving"}
    OBVIOUS
  <2>2. QED
    BY <1>0, <2>1, ReplicaTyped, Zenon DEF ReplicaRow
<1>2. /\ replica' = [replica EXCEPT ![p] = r]
      /\ bootstrapLock' \in {bootstrapLock, Unheld}
      /\ \A q \in Replicas \ {p} : bootstrapLock = q => bootstrapLock' = q
      /\ UNCHANGED <<applied, migrationLock, renamed, starts>>
  BY <1>0, Zenon DEF EndBootstrap, GotoStep
<1>3. /\ replica[p].pc = "insert" /\ bootstrapLock = p
      /\ replica[p].known => user[BootstrapEmail[p]] # NoUser
      /\ replica[p].org \in 0 .. organizations
      /\ ~renamed /\ replica[p].org = 0 => organizations = 0
      /\ \A u \in 1 .. MigrationFiles[p] : applied[u] = 1
  BY ReplicaTyped DEF EndBootstrap, ReplicaAt
<1>4. CASE replica[p].known /\ UNCHANGED <<user, organizations, demo>>
  <2>1. ReplicaAt(p, r)'
    BY <1>1, <1>2, <1>3, <1>4 DEF ReplicaAt
  <2>2. QED
    BY <1>1, <1>2, <1>4, <2>1, ReplicaTyped, QuietReplica, Zenon
<1>5. CASE InsertOwner(p)
  <2>1. PICK e \in Emails : e = BootstrapEmail[p]
    BY ReplicaTyped
  <2>2. PICK o : o = BootstrapOrganization(p)
    BY Zenon
  <2>3. o \in 1 .. organizations + 1 /\ organizations \in Nat
    BY <1>3, <2>2, ReplicaTyped DEF BootstrapOrganization
  <2>4. /\ user[e].org \in {0, o}
        /\ user' = [user EXCEPT ![e] = [org |-> o, owner |-> TRUE]]
        /\ organizations' = IF o > organizations THEN o ELSE organizations
        /\ demo' = IF o > organizations THEN demo \cup {o} ELSE demo
    BY <1>5, <2>1, <2>2, Zenon DEF InsertOwner
  <2>5. /\ user'[e] = [org |-> o, owner |-> TRUE] /\ user'[e] # NoUser
        /\ \A f \in Emails \ {e} : user'[f] = user[f]
        /\ user' \in [Emails -> [org : Nat, owner : BOOLEAN]]
    BY <2>3, <2>4 DEF StartupInv, StartupTypeOK, NoUser
  <2>6. /\ organizations' \in Nat /\ organizations <= organizations'
        /\ demo' \subseteq 1 .. organizations'
        /\ o \in 1 .. organizations'
        /\ \A x \in 1 .. organizations' : x = o \/ x \in 1 .. organizations
    BY <2>3, <2>4, ReplicaTyped
  <2>7. StartupTypeOK'
    BY <1>1, <1>2, <2>5, <2>6 DEF StartupInv, StartupTypeOK, ReplicaRow
  <2>8. MigrationsOK'
    BY <1>2 DEF StartupInv, MigrationsOK
  <2>9. ~renamed => organizations' <= 1 /\ demo' = 1 .. organizations'
    <3>1. CASE o > organizations
      <4>1. replica[p].org = 0 /\ o = organizations + 1
        BY <1>3, <2>2, <2>3, <3>1, ReplicaTyped DEF BootstrapOrganization
      <4>2. ~renamed => organizations = 0 /\ demo = {}
        BY <1>3, <4>1, ReplicaTyped
      <4>3. QED
        BY <2>4, <3>1, <4>1, <4>2
    <3>2. CASE ~(o > organizations)
      BY <2>4, <3>2 DEF StartupInv, OrganizationsOK
    <3>3. QED
      BY <3>1, <3>2
  <2>10. ASSUME NEW x \in 1 .. organizations'
         PROVE  \E f \in Emails : user'[f].org = x /\ user'[f].owner
    <3>1. CASE x = o
      BY <2>5, <3>1
    <3>2. CASE x # o
      <4>1. PICK f \in Emails : user[f].org = x /\ user[f].owner
        BY <2>6, <3>2, Zenon DEF StartupInv, OrganizationsOK
      <4>2. f # e
        BY <2>3, <2>4, <2>6, <3>2, <4>1
      <4>3. QED
        BY <2>5, <4>1, <4>2, Zenon
    <3>3. QED
      BY <3>1, <3>2
  <2>11. OrganizationsOK'
    BY <1>2, <2>9, <2>10, Zenon DEF OrganizationsOK
  <2>12. /\ replica'[p] = r /\ \A q \in Replicas \ {p} : replica'[q] = replica[q]
    BY <1>2 DEF StartupInv, StartupTypeOK
  <2>13. ReplicaAt(p, r)'
    BY <1>1, <1>2, <1>3, <2>1, <2>5 DEF ReplicaAt
  <2>14. ASSUME NEW q \in Replicas PROVE ReplicaAt(q, replica[q])'
    <3>1. CASE q = p
      BY <2>12, <2>13, <3>1, Zenon
    <3>2. CASE q # p
      <4>1. \A f \in Emails : user[f] # NoUser => user'[f] # NoUser
        BY <2>5, Zenon
      <4>2. QED
        BY <1>2, <1>3, <2>12, <3>2, <4>1, OthersKnow, Zenon
    <3>3. QED
      BY <3>1, <3>2
  <2>15. QED
    BY <2>7, <2>8, <2>11, <2>14, Zenon DEF StartupInv
<1>6. QED
  BY <1>4, <1>5, Zenon DEF EndBootstrap

\* The administrators: no owner is lost, and a renaming is remembered.
LEMMA AdministratorsKeep ==
  ASSUME StartupInv,
         \/ \E o \in 1 .. organizations, e \in Emails, owner \in BOOLEAN :
              CreateUser(o, e, owner)
         \/ \E o \in 1 .. organizations : RenameOrganization(o)
  PROVE  StartupInv'
<1>1. CASE \E o \in 1 .. organizations, e \in Emails, owner \in BOOLEAN :
             CreateUser(o, e, owner)
  <2>1. PICK o \in 1 .. organizations, e \in Emails, owner \in BOOLEAN :
          CreateUser(o, e, owner)
    BY <1>1
  <2>2. /\ user[e] = NoUser
        /\ user' = [user EXCEPT ![e] = [org |-> o, owner |-> owner]]
        /\ UNCHANGED <<applied, replica, migrationLock, bootstrapLock, demo,
                       organizations, renamed, starts>>
    BY <2>1, Zenon DEF CreateUser
  <2>3. /\ user'[e].org = o /\ user'[e] # NoUser
        /\ \A f \in Emails \ {e} : user'[f] = user[f]
        /\ user' \in [Emails -> [org : Nat, owner : BOOLEAN]]
    BY <2>2 DEF StartupInv, StartupTypeOK, NoUser
  <2>4. StartupTypeOK'
    BY <2>2, <2>3 DEF StartupInv, StartupTypeOK
  <2>5. MigrationsOK'
    BY <2>2 DEF StartupInv, MigrationsOK
  <2>6. ASSUME NEW x \in 1 .. organizations
        PROVE  \E f \in Emails : user'[f].org = x /\ user'[f].owner
    <3>1. PICK f \in Emails : user[f].org = x /\ user[f].owner
      BY Zenon DEF StartupInv, OrganizationsOK
    <3>2. f # e
      BY <2>2, <3>1 DEF NoUser
    <3>3. QED
      BY <2>3, <3>1, <3>2, Zenon
  <2>7. OrganizationsOK'
    BY <2>2, <2>6, Zenon DEF OrganizationsOK, StartupInv
  <2>8. \A f \in Emails : user[f] # NoUser => user'[f] # NoUser
    BY <2>3, Zenon
  <2>9. ASSUME NEW q \in Replicas PROVE ReplicaAt(q, replica[q])'
    <3>1. ReplicaAt(q, replica[q]) /\ BootstrapEmail[q] \in Emails
      BY ReplicaTyped
    <3>2. QED
      BY <2>2, <2>8, <3>1 DEF ReplicaAt
  <2>10. QED
    BY <2>4, <2>5, <2>7, <2>9, Zenon DEF StartupInv
<1>2. CASE \E o \in 1 .. organizations : RenameOrganization(o)
  <2>1. PICK o \in 1 .. organizations : RenameOrganization(o)
    BY <1>2
  <2>2. /\ demo' \subseteq demo \cup {o} /\ renamed' = TRUE
        /\ UNCHANGED <<applied, replica, migrationLock, bootstrapLock, user,
                       organizations, starts>>
    BY <2>1, Zenon DEF RenameOrganization
  <2>3. StartupTypeOK'
    BY <2>2 DEF StartupInv, StartupTypeOK
  <2>4. MigrationsOK' /\ OrganizationsOK'
    BY <2>2 DEF StartupInv, MigrationsOK, OrganizationsOK
  <2>5. \A q \in Replicas : ReplicaAt(q, replica[q])'
    BY <2>2 DEF StartupInv, ReplicaAt
  <2>6. QED
    BY <2>3, <2>4, <2>5, Zenon DEF StartupInv
<1>3. QED
  BY <1>1, <1>2

\* Stutter steps.
LEMMA StartupStutters ==
  ASSUME StartupInv, UNCHANGED startupVars
  PROVE  StartupInv'
BY DEF StartupInv, startupVars, StartupTypeOK, MigrationsOK, OrganizationsOK, ReplicaAt

\* The inductive invariant of startup holds.
LEMMA StartupInvHolds == StartupSpec => []StartupInv
<1>1. StartupInit => StartupInv
  <2> SUFFICES ASSUME StartupInit PROVE StartupInv
    OBVIOUS
  <2>1. NoUser \in [org : Nat, owner : BOOLEAN] /\ Down \in ReplicaRow /\ Down.pc = "down"
    BY DEF NoUser, Down, ReplicaRow
  <2>2. 0 \in 0 .. MaxStarts /\ 1 .. 0 = {} /\ 0 \in Nat /\ 0 <= 1
    BY StartupConstants
  <2>3. StartupTypeOK
    BY <2>1, <2>2, Zenon DEF StartupInit, StartupTypeOK, ReplicaRow
  <2>4. MigrationsOK
    BY DEF StartupInit, MigrationsOK
  <2>5. OrganizationsOK
    BY <2>2, Zenon DEF StartupInit, OrganizationsOK
  <2>6. ASSUME NEW p \in Replicas PROVE ReplicaAt(p, replica[p])
    BY <2>1 DEF StartupInit, ReplicaAt
  <2>7. QED
    BY <2>3, <2>4, <2>5, <2>6, Zenon DEF StartupInv
<1>2. StartupInv /\ [StartupNext]_startupVars => StartupInv'
  BY ProcessKeeps, MigrateKeeps, ApplyKeeps, BeginBootstrapKeeps, EndBootstrapKeeps,
     AdministratorsKeep, StartupStutters, Zenon DEF StartupNext, StartupStep
<1>3. QED
  BY <1>1, <1>2, PTL DEF StartupSpec

\* The rows, locks and local variables of the replicas keep their types.
THEOREM StartupTypeCorrect == StartupSpec => []StartupTypeOK
<1>1. StartupInv => StartupTypeOK
  BY Zenon DEF StartupInv
<1>2. QED
  BY <1>1, StartupInvHolds, PTL

\* With any number of replicas, of any versions and with any bootstrap
\* addresses, that start, crash and start again together: every migration runs
\* once and in its order, a replica serves only with its own schema and its
\* owner's account in place, and Bootstrap makes one organization, which never
\* lacks an owner.
THEOREM ReplicasServePrepared == StartupSpec => []ServingIsPrepared
<1>1. StartupInv => ServingIsPrepared
  <2> SUFFICES ASSUME StartupInv PROVE ServingIsPrepared
    OBVIOUS
  <2>1. \A v \in Versions : /\ applied[v] <= 1
                            /\ applied[v] = 1 => \A u \in 1 .. v - 1 : applied[u] = 1
    BY DEF StartupInv, MigrationsOK
  <2>2. ASSUME NEW p \in Replicas, replica[p].pc = "serving"
        PROVE  /\ \A v \in 1 .. MigrationFiles[p] : applied[v] = 1
               /\ user[BootstrapEmail[p]] # NoUser
    BY <2>2, ReplicaTyped DEF ReplicaAt
  <2>3. QED
    BY <2>1, <2>2, Zenon DEF ServingIsPrepared, StartupInv, OrganizationsOK
<1>2. QED
  BY <1>1, StartupInvHolds, PTL
=============================================================================

------------------------------- MODULE Sessions -------------------------------
(***************************************************************************)
(* The account of one user of the product: logins that authenticate, read  *)
(* the multi-factor settings and then create a session; sessions that      *)
(* expire or are revoked; the change of the password, which revokes them;  *)
(* and enrolment and confirmation of a multi-factor secret.                *)
(*                                                                         *)
(* A password and a secret are known by the number of changes before them. *)
(***************************************************************************)
EXTENDS Naturals

CONSTANTS
    Logins,      \* login requests, each with the session it may create
    Changes,     \* requests to change the password
    Confirms,    \* requests to confirm a multi-factor code
    MaxSecrets,  \* bound on enrolments
    PrivilegedMfa  \* the user is privileged and RequirePrivilegedMFA is set

ASSUME SessionConstants == MaxSecrets \in Nat /\ PrivilegedMfa \in BOOLEAN

VARIABLES
    password,    \* password_hash
    secret,      \* mfa_secret_ciphertext, 0 is NULL
    mfaEnabled,  \* mfa_enabled
    login,       \* where each login is, and the password it presented
    session,     \* rows of sessions
    change,      \* where each change of the password is
    confirm,     \* where each confirmation is, and the secret it has read
    confirmed,   \* secrets for which a code was confirmed
    crossed      \* an enrolment came between the steps of a confirmation

sessionVars == <<password, secret, mfaEnabled, login, session, change, confirm,
                 confirmed, crossed>>

Login == [pc : {"none", "authenticated", "admitted", "opened", "refused"}, password : Nat,
          overlaps : BOOLEAN]   \* with the transaction of a change
Session == [live : BOOLEAN, password : Nat, overlaps : BOOLEAN]
NoSession == [live |-> FALSE, password |-> 0, overlaps |-> FALSE]

Change == [pc : {"none", "verified", "updated", "ended"}, revokes : SUBSET Logins]

\* A transaction of a change holds the row of the user.
Changing == \E h \in Changes : change[h].pc = "updated"

\* The other requests come with a session, live when they came in.
Opened == \E l \in Logins : login[l].pc = "opened"

-----------------------------------------------------------------------------
(* login: Authenticate, the multi-factor check, CreateSession. *)

\* With another password than the current one the login ends here.
Authenticate(l) ==
    /\ login[l].pc = "none"
    /\ login' = [login EXCEPT ![l] = [pc |-> "authenticated", password |-> password,
                                      overlaps |-> Changing]]
    /\ UNCHANGED <<password, secret, mfaEnabled, session, change, confirm,
                   confirmed, crossed>>

\* A login passes without a code while multi-factor is off and not required,
\* and with a code of the stored secret while it is on.
CheckMfa(l) ==
    /\ login[l].pc = "authenticated"
    /\ IF mfaEnabled THEN secret # 0 ELSE ~PrivilegedMfa
    /\ login' = [login EXCEPT ![l].pc = "admitted"]
    /\ UNCHANGED <<password, secret, mfaEnabled, session, change, confirm,
                   confirmed, crossed>>

\* No code or a wrong one, enrolment required, or a statement fails.
RefuseLogin(l) ==
    /\ login[l].pc \in {"authenticated", "admitted"}
    /\ login' = [login EXCEPT ![l].pc = "refused"]
    /\ UNCHANGED <<password, secret, mfaEnabled, session, change, confirm,
                   confirmed, crossed>>

CreateSession(l) ==
    /\ login[l].pc = "admitted"
    /\ login' = [login EXCEPT ![l].pc = "opened"]
    /\ session' = [session EXCEPT ![l] = [live |-> TRUE, password |-> login[l].password,
                                          overlaps |-> login[l].overlaps]]
    /\ UNCHANGED <<password, secret, mfaEnabled, change, confirm, confirmed, crossed>>

\* logout, revokeSession, or eight hours.
EndSession(l) ==
    /\ session[l].live
    /\ session' = [session EXCEPT ![l].live = FALSE]
    /\ UNCHANGED <<password, secret, mfaEnabled, login, change, confirm, confirmed,
                   crossed>>

-----------------------------------------------------------------------------
(* ChangePassword: the check outside the transaction, the two updates, the  *)
(* commit. *)

VerifyCurrent(h) ==
    /\ change[h].pc = "none" /\ Opened
    /\ change' = [change EXCEPT ![h].pc = "verified"]
    /\ UNCHANGED <<password, secret, mfaEnabled, login, session, confirm, confirmed,
                   crossed>>

\* Mutant: sessions of the password that is being replaced are left alone.
RevokesOlder == {l \in Logins : session[l].live /\ session[l].password < password}

\* The sessions the second update finds: those that are committed by now.
Revokes == {l \in Logins : session[l].live}

\* The first update holds the row of the user until the commit, so that
\* another change waits.
UpdateRows(h) ==
    /\ change[h].pc = "verified" /\ ~Changing
    /\ change' = [change EXCEPT ![h] = [pc |-> "updated", revokes |-> Revokes]]
    /\ login' = [l \in Logins |-> IF login[l].pc \in {"authenticated", "admitted"}
                                 THEN [login[l] EXCEPT !.overlaps = TRUE]
                                 ELSE login[l]]
    /\ UNCHANGED <<password, secret, mfaEnabled, session, confirm, confirmed, crossed>>

CommitChange(h) ==
    /\ change[h].pc = "updated"
    /\ change' = [change EXCEPT ![h] = [pc |-> "ended", revokes |-> {}]]
    /\ password' = password + 1
    /\ session' = [l \in Logins |-> IF l \in change[h].revokes
                                   THEN [session[l] EXCEPT !.live = FALSE]
                                   ELSE session[l]]
    /\ UNCHANGED <<secret, mfaEnabled, login, confirm, confirmed, crossed>>

\* A statement fails, or the process stops.
RollBackChange(h) ==
    /\ change[h].pc \in {"verified", "updated"}
    /\ change' = [change EXCEPT ![h] = [pc |-> "ended", revokes |-> {}]]
    /\ UNCHANGED <<password, secret, mfaEnabled, login, session, confirm, confirmed,
                   crossed>>

-----------------------------------------------------------------------------
(* Multi-factor enrolment, and confirmation in two statements. *)

\* Mutant: an enabled secret is replaced and stays enabled.
MfaEnrollEnabled ==
    /\ secret < MaxSecrets /\ Opened /\ ~Changing
    /\ secret' = secret + 1
    /\ crossed' = (crossed \/ \E h \in Confirms : confirm[h] # 0)
    /\ UNCHANGED <<password, mfaEnabled, login, session, change, confirm, confirmed>>

MfaEnroll ==
    /\ secret < MaxSecrets /\ Opened /\ ~Changing
    /\ secret' = secret + 1
    /\ mfaEnabled' = FALSE
    /\ crossed' = (crossed \/ \E h \in Confirms : confirm[h] # 0)
    /\ UNCHANGED <<password, login, session, change, confirm, confirmed>>

\* The code is one of the secret that was read.
VerifyCode(h) ==
    /\ confirm[h] = 0 /\ secret # 0 /\ Opened
    /\ confirm' = [confirm EXCEPT ![h] = secret]
    /\ UNCHANGED <<password, secret, mfaEnabled, login, session, change, confirmed,
                   crossed>>

\* The update does not ask whether the secret is still the one that was read.
EnableMfa(h) ==
    /\ confirm[h] # 0 /\ ~Changing
    /\ confirm' = [confirm EXCEPT ![h] = 0]
    /\ mfaEnabled' = TRUE
    /\ confirmed' = confirmed \cup {confirm[h]}
    /\ UNCHANGED <<password, secret, login, session, change, crossed>>

-----------------------------------------------------------------------------
SessionsInit ==
    /\ password = 0
    /\ secret = 0
    /\ mfaEnabled = FALSE
    /\ login = [l \in Logins |-> [pc |-> "none", password |-> 0, overlaps |-> FALSE]]
    /\ session = [l \in Logins |-> NoSession]
    /\ change = [h \in Changes |-> [pc |-> "none", revokes |-> {}]]
    /\ confirm = [h \in Confirms |-> 0]
    /\ confirmed = {}
    /\ crossed = FALSE

SessionsNext ==
    \/ \E l \in Logins :
         Authenticate(l) \/ CheckMfa(l) \/ RefuseLogin(l) \/ CreateSession(l)
         \/ EndSession(l)
    \/ \E h \in Changes :
         VerifyCurrent(h) \/ UpdateRows(h) \/ CommitChange(h) \/ RollBackChange(h)
    \/ MfaEnroll
    \/ \E h \in Confirms : VerifyCode(h) \/ EnableMfa(h)

SessionsSpec == SessionsInit /\ [][SessionsNext]_sessionVars

-----------------------------------------------------------------------------
(* Properties. *)

\* The values of the rows and local variables.
SessionsTypeOK ==
    /\ password \in Nat
    /\ secret \in 0 .. MaxSecrets
    /\ mfaEnabled \in BOOLEAN
    /\ login \in [Logins -> Login]
    /\ session \in [Logins -> Session]
    /\ change \in [Changes -> Change]
    /\ confirm \in [Confirms -> 0 .. MaxSecrets]
    /\ confirmed \subseteq 1 .. MaxSecrets
    /\ crossed \in BOOLEAN

\* docs/authentication.md: "all of a user's sessions are revoked after password
\* change": a session that was opened with an older password is live only if
\* its login and the transaction of the change overlapped, also when two
\* changes follow each other.
OlderSessionsOverlapped ==
    \A l \in Logins : session[l].live /\ session[l].password # password =>
      session[l].overlaps

\* A secret is in force only after a code of it was confirmed, unless an
\* enrolment came between the two statements of a confirmation.
EnabledSecretWasConfirmed == mfaEnabled => secret \in confirmed \/ crossed
=============================================================================

---------------------------- MODULE RemoteDisable ----------------------------
(***************************************************************************)
(* executeRemoteAction and the clients' DisableUser and GetUser: reading   *)
(* an account, disabling it and reading it again, request by request, over *)
(* a provider that may not answer, may answer late or refuse, and whose    *)
(* administrator changes the account meanwhile.  Two cases may act on the  *)
(* account at a time.                                                      *)
(*                                                                         *)
(* GitHub's lookup of the login is one with the read of the membership.    *)
(***************************************************************************)
EXTENDS Naturals

CONSTANTS
    RemoteCalls,     \* calls of executeRemoteAction
    MaxTries,        \* maxRetries, 3 in the code
    AccountChanges   \* bound on changes by the administrator

ASSUME RemoteConstants == MaxTries \in Nat \ {0} /\ AccountChanges \in Nat

VARIABLES
    writer,          \* the connector's client, with LDAP's disable strategy
    account,         \* status of the account, and another flag of its
                     \* userAccountControl
    remoteCall,      \* where each call is, attempts of its request, the flag read
    writesSent,      \* writing requests of each call
    accountChanges,
    flagSet,         \* the flag as the administrator left it
    flagRaced        \* a flag was written that had changed after it was read

remoteVars == <<writer, account, remoteCall, writesSent, accountChanges, flagSet, flagRaced>>

Native == {"ENTRA_ID", "OKTA", "GOOGLE_WORKSPACE", "GITHUB"}
Writers == Native \cup {"SCIM_2_0", "PPOLICY_LOCK", "ACTIVE_DIRECTORY_UAC"}

StatusesOf(w) == CASE w = "OKTA" -> {"ACTIVE", "STAGED", "SUSPENDED", "DEPROVISIONED", "absent"}
                   [] w = "GITHUB" -> {"active", "pending", "absent"}
                   [] OTHER -> {"enabled", "disabled", "absent"}

Over == {"confirmed", "unconfirmed", "error"}
RemoteCall == [pc : {"none", "read", "write", "reread"} \cup Over, tries : Nat,
               flag : BOOLEAN, stale : BOOLEAN]

-----------------------------------------------------------------------------
(* What GetUser makes of a status. *)

ScimActive(s) == s = "enabled"
EntraActive(s) == s = "enabled"
OktaActive(s) == s \notin {"SUSPENDED", "DEPROVISIONED"}
GoogleActive(s) == s # "disabled"
GithubActive(s) == s = "active"
LdapActive(s) == s # "disabled"

SeenActive == CASE writer = "SCIM_2_0" -> ScimActive(account.status)
                [] writer = "ENTRA_ID" -> EntraActive(account.status)
                [] writer = "OKTA" -> OktaActive(account.status)
                [] writer = "GOOGLE_WORKSPACE" -> GoogleActive(account.status)
                [] writer = "GITHUB" -> GithubActive(account.status)
                [] OTHER -> LdapActive(account.status)

-----------------------------------------------------------------------------
(* Requests. *)

GoOn(h, pc) == remoteCall' = [remoteCall EXCEPT ![h].pc = pc, ![h].tries = 0]

\* A request fails: it is sent again, or the call returns an error.
TryAgain(h, limit) ==
    \/ /\ remoteCall[h].tries + 1 < limit
       /\ remoteCall' = [remoteCall EXCEPT ![h].tries = @ + 1]
    \/ GoOn(h, "error")

\* request retries whatever the method, Do reads only; the LDAP client nothing.
ReadTries == IF writer \in Native \cup {"SCIM_2_0"} THEN MaxTries ELSE 1

\* Mutant: requests of every method are sent again.
NativeWriteTriesAll == MaxTries

NativeWriteTries == 1

WriteTries == CASE writer = "SCIM_2_0" -> MaxTries
                [] writer \in Native -> NativeWriteTries
                [] OTHER -> 1

\* The SCIM client and LDAP's PPOLICY_LOCK write without reading.
BeginRemote(h) ==
    /\ remoteCall[h].pc = "none"
    /\ GoOn(h, IF writer \in {"SCIM_2_0", "PPOLICY_LOCK"} THEN "write" ELSE "read")
    /\ UNCHANGED <<writer, account, writesSent, accountChanges, flagSet, flagRaced>>

\* The read before the write: the native clients return when the account is
\* inactive, the LDAP client takes the value it will write.
ReadBefore(h) ==
    /\ remoteCall[h].pc = "read"
    /\ account.status # "absent"
    /\ remoteCall' = [remoteCall EXCEPT
         ![h] = [pc |-> IF writer \in Native /\ ~SeenActive THEN "reread" ELSE "write",
                 tries |-> 0, flag |-> account.flag, stale |-> FALSE]]
    /\ UNCHANGED <<writer, account, writesSent, accountChanges, flagSet, flagRaced>>

ReadAgain(h) ==
    /\ remoteCall[h].pc = "reread"
    /\ account.status # "absent"
    /\ GoOn(h, IF SeenActive THEN "unconfirmed" ELSE "confirmed")
    /\ UNCHANGED <<writer, account, writesSent, accountChanges, flagSet, flagRaced>>

\* No answer, or an error; also what a provider says of an account it does
\* not have, GitHub of a membership that was just removed.
RemoteReadFails(h) ==
    /\ remoteCall[h].pc \in {"read", "reread"}
    /\ TryAgain(h, ReadTries)
    /\ UNCHANGED <<writer, account, writesSent, accountChanges, flagSet, flagRaced>>

-----------------------------------------------------------------------------
(* The writes: what the provider makes of DisableUser's request. *)

ScimDisable == [account EXCEPT !.status = "disabled"]
EntraDisable == [account EXCEPT !.status = "disabled"]
OktaSuspend == [account EXCEPT !.status = IF @ = "ACTIVE" THEN "SUSPENDED" ELSE @]
GoogleSuspend == [account EXCEPT !.status = "disabled"]
GithubRemove == [account EXCEPT !.status = "absent"]
PpolicyLock == [account EXCEPT !.status = "disabled"]

\* Mutant: the value written is that of a disabled account without flags.
UacReplaceAll(h) == [status |-> "disabled", flag |-> FALSE]

\* The value that was read, with the bit of a disabled account.
UacReplace(h) == [status |-> "disabled", flag |-> remoteCall[h].flag]

Written(h) == CASE writer = "SCIM_2_0" -> ScimDisable
                [] writer = "ENTRA_ID" -> EntraDisable
                [] writer = "OKTA" -> OktaSuspend
                [] writer = "GOOGLE_WORKSPACE" -> GoogleSuspend
                [] writer = "GITHUB" -> GithubRemove
                [] writer = "PPOLICY_LOCK" -> PpolicyLock
                [] OTHER -> UacReplace(h)

\* The request reaches the provider, which carries it out.
Write(h) ==
    /\ remoteCall[h].pc = "write" /\ account.status # "absent"
    /\ account' = Written(h)
    /\ writesSent' = [writesSent EXCEPT ![h] = @ + 1]
    /\ flagRaced' = (flagRaced \/ (writer = "ACTIVE_DIRECTORY_UAC" /\ remoteCall[h].stale))
    /\ UNCHANGED <<writer, accountChanges, flagSet>>

WriteAnswered(h) == Write(h) /\ GoOn(h, "reread")

\* The answer is lost, or is a server's error.
WriteUnanswered(h) == Write(h) /\ TryAgain(h, WriteTries)

\* The request is lost, throttled or refused.
WriteFails(h) ==
    /\ remoteCall[h].pc = "write"
    /\ TryAgain(h, WriteTries)
    /\ writesSent' = [writesSent EXCEPT ![h] = @ + 1]
    /\ UNCHANGED <<writer, account, accountChanges, flagSet, flagRaced>>

-----------------------------------------------------------------------------
(* The administrator of the provider. *)

ChangeStatus ==
    /\ accountChanges < AccountChanges
    /\ accountChanges' = accountChanges + 1
    /\ \E s \in StatusesOf(writer) : account' = [account EXCEPT !.status = s]
    /\ UNCHANGED <<writer, remoteCall, writesSent, flagSet, flagRaced>>

ChangeFlag ==
    /\ writer = "ACTIVE_DIRECTORY_UAC" /\ accountChanges < AccountChanges
    /\ accountChanges' = accountChanges + 1
    /\ account' = [account EXCEPT !.flag = ~@]
    /\ flagSet' = account'.flag
    /\ remoteCall' = [h \in RemoteCalls |-> [remoteCall[h] EXCEPT !.stale = TRUE]]
    /\ UNCHANGED <<writer, writesSent, flagRaced>>

-----------------------------------------------------------------------------
RemoteInit ==
    /\ writer \in Writers
    /\ \E s \in StatusesOf(writer) \ {"absent"} : account = [status |-> s, flag |-> TRUE]
    /\ remoteCall = [h \in RemoteCalls |->
                       [pc |-> "none", tries |-> 0, flag |-> FALSE, stale |-> FALSE]]
    /\ writesSent = [h \in RemoteCalls |-> 0]
    /\ accountChanges = 0
    /\ flagSet = TRUE /\ flagRaced = FALSE

RemoteNext ==
    \/ \E h \in RemoteCalls :
         \/ BeginRemote(h) \/ ReadBefore(h) \/ ReadAgain(h) \/ RemoteReadFails(h)
         \/ WriteAnswered(h) \/ WriteUnanswered(h) \/ WriteFails(h)
    \/ ChangeStatus \/ ChangeFlag

RemoteSpec == RemoteInit /\ [][RemoteNext]_remoteVars

-----------------------------------------------------------------------------
(* Properties. *)

\* The values of the account and of the calls.
RemoteTypeOK ==
    /\ writer \in Writers
    /\ account \in [status : StatusesOf(writer), flag : BOOLEAN]
    /\ remoteCall \in [RemoteCalls -> RemoteCall]
    /\ writesSent \in [RemoteCalls -> 0 .. MaxTries]
    /\ accountChanges \in 0 .. AccountChanges
    /\ flagSet \in BOOLEAN /\ flagRaced \in BOOLEAN

\* docs/native-connectors.md: the four native connectors "never retry an
\* ambiguous mutation blindly": a call whose write may have been carried out
\* does not come to write again, whatever its retries and the answers.
AmbiguousWriteIsFinal ==
    writer \in Native =>
      \A h \in RemoteCalls : writesSent[h] <= IF remoteCall[h].pc = "write" THEN 0 ELSE 1

\* Disabling an Active Directory account leaves its other flags as the
\* administrator set them, unless one changed between the read of
\* userAccountControl and the write, by any of the calls.
OtherFlagsSurvive == account.flag # flagSet => flagRaced
=============================================================================

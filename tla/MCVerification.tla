---------------------------- MODULE MCVerification ----------------------------
(***************************************************************************)
(* Offboarding with two history variables, to compare a verdict with what  *)
(* was true, and with what was read, while its case was executed.          *)
(***************************************************************************)
EXTENDS MCOffboarding

VARIABLES
    wasClean,  \* cases with a moment, since RUNNING, at which every account
               \* linked to the person was DISABLED and no candidate PENDING
    readAgain  \* accounts whose provider has been read since a case is RUNNING

Clean(c) ==
    \A a \in Accounts :
      /\ link[a] = case[c].person => status[a] = "DISABLED"
      /\ candidate[<<case[c].person, a>>] # "PENDING"
Started(c) == case[c].status \in {"RUNNING", "VERIFYING"}

ReadNow ==
    {a \in Accounts :
       \/ \E e \in Executors : /\ exec[e].pc = "reread" /\ exec'[e].pc = "store"
                               /\ exec[e].account = a
       \/ \E r \in Runs : /\ run[r].pc = "users" /\ run'[r].pc = "groups"
                          /\ run[r].connector = ConnectorOf[a]}

HistoryInit == Init /\ wasClean = {} /\ readAgain = {}
HistoryNext ==
    /\ Next
    /\ wasClean' = wasClean \cup {c \in Cases : Started(c)' /\ Clean(c)'}
    /\ readAgain' = IF \E c \in Cases : Started(c) THEN readAgain \cup ReadNow
                                                   ELSE readAgain
HistorySpec == HistoryInit /\ [][HistoryNext]_<<vars, wasClean, readAgain>>

\* README: "VERIFIED is possible only when all relevant managed identities were
\* reconciled, none remains active, required connectors responded and no
\* blocking correlation uncertainty exists": it was so at some moment of the
\* execution.
VerifiedWasTrueOnce ==
    \A c \in Cases : case[c].result = "VERIFIED" => c \in wasClean

\* ADR 008: "IdentityMesh re-reads provider state before a verification snapshot
\* can conclude that the desired state was observed".
VerifiedWasReadAgain ==
    \A c \in Cases, a \in Accounts :
      case[c].snapshot = "VERIFIED" /\ action[c][a].type # "NONE" =>
        a \in readAgain
=============================================================================

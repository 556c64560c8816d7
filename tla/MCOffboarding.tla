---------------------------- MODULE MCOffboarding ----------------------------
(* One person.  In the run on one case they have an account at a SCIM       *)
(* provider and a GitHub account that only a reviewer can link to them; in  *)
(* the run on several cases, one account in an Active Directory.            *)
EXTENDS Offboarding, TLC

CONSTANTS p1, a1, a2, scim, github, ldap, n1

MCConnectorOf == [a \in Accounts |-> IF a = a1 THEN scim ELSE github]
MCDirectoryOf == [a \in Accounts |-> ldap]
MCType == [k \in Connectors |-> CASE k = scim -> "SCIM_2_0"
                                  [] k = github -> "GITHUB"
                                  [] k = ldap -> "LDAP_DIRECTORY"]

\* a1 carries the identifier of p1, a2 only their name.
MCAttr ==
    [a \in Accounts |->
       [external |-> IF a = a1 THEN p1 ELSE NoValue, employee |-> NoValue,
        email |-> NoValue, name |-> n1]]
\* A directory account carries the employee number.
MCDirectoryAttr ==
    [a \in Accounts |-> [external |-> NoValue, employee |-> p1,
                         email |-> NoValue, name |-> n1]]
MCFiles == {p1 :> [email |-> NoValue, name |-> n1]}
MCMemberships == {{}}

\* For SCIM and LDAP: an account can be disabled, or only be reviewed.
MCSettings ==
    { [readable |-> TRUE, write |-> TRUE, capabilities |-> {"DISABLE_ACCOUNT"}],
      [readable |-> TRUE, write |-> TRUE, capabilities |-> {"REMOVE_MEMBERSHIP"}] }

\* Cases, executors and runs are interchangeable among themselves.
CaseSymmetry == Permutations(Cases) \cup Permutations(Executors)
                  \cup Permutations(Runs)
=============================================================================

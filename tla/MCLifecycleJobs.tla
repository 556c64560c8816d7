--------------------------- MODULE MCLifecycleJobs ---------------------------
(* One case of one person with one account, and two processes. *)
EXTENDS LifecycleJobs, TLC

CONSTANTS p1, a1, scim, n1

MCConnectorOf == [a \in Accounts |-> scim]
MCType == [k \in Connectors |-> "SCIM_2_0"]
MCAttr == a1 :> [external |-> p1, employee |-> NoValue, email |-> NoValue,
                 name |-> n1]
MCFiles == {p1 :> [email |-> NoValue, name |-> n1]}
MCMemberships == {{}}
MCSettings ==
    {[readable |-> TRUE, write |-> TRUE, capabilities |-> {"DISABLE_ACCOUNT"}]}
\* One goroutine per process.
MCWorkerId == [e \in Executors |-> e]
=============================================================================

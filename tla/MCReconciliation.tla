--------------------------- MODULE MCReconciliation ---------------------------
(* Two people, two accounts and two overlapping runs of one connector. *)
EXTENDS Reconciliation, TLC

CONSTANTS p1, p2, a1, a2, scim, e1, e2, n1, n2

MCConnectorOf == [a \in Accounts |-> scim]
MCType == [k \in Connectors |-> "SCIM_2_0"]

\* a1 carries the identifier of p1; a2 only an address and a name.
MCAttr ==
    a1 :> [external |-> p1, employee |-> NoValue, email |-> e1, name |-> n1]
    @@ a2 :> [external |-> NoValue, employee |-> NoValue, email |-> e2, name |-> n1]

\* The name of p1 matches a2; a later file gives p1, or p1 and p2 both, the
\* address of a2.
MCFiles ==
    { p1 :> [email |-> e1, name |-> n1],
      p1 :> [email |-> e2, name |-> n2],
      p1 :> [email |-> e1, name |-> n1] @@ p2 :> [email |-> e2, name |-> n1] }

\* p1 is renamed after a2 was linked to them by a reviewer.
MCRenaming ==
    { p1 :> [email |-> e1, name |-> n1], p1 :> [email |-> e1, name |-> n2] }

MCMemberships == {{a1}}
MCSettings ==
    { [readable |-> TRUE, write |-> TRUE, capabilities |-> {"DISABLE_ACCOUNT"}],
      [readable |-> FALSE, write |-> FALSE, capabilities |-> {}] }
\* The identifiers of runs are interchangeable.
RunSymmetry == Permutations(Runs)
=============================================================================

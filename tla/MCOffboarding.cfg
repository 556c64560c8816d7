SPECIFICATION Spec
CONSTANTS
    p1 = p1  a1 = a1  a2 = a2  scim = scim  github = github  ldap = ldap  n1 = n1
    NoValue = NoValue
    People = {p1}
    Accounts = {a1, a2}
    Connectors = {scim, github}
    Runs = {r1, r2}
    Cases = {c1}
    Executors = {x1}
    UacConnectors = {}
    TrustedEmails = {}
    ConnectorOf <- MCConnectorOf
    Type <- MCType
    Attr <- MCAttr
    Files <- MCFiles
    Memberships <- MCMemberships
    Settings <- MCSettings
INVARIANTS TypeOK DisabledWasObserved WritesAreApproved 
    VerifiedHasNoDoubt
PROPERTIES EndedIsFinal
CHECK_DEADLOCK FALSE

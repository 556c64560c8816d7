SPECIFICATION Spec
CONSTANTS
    p1 = p1  a1 = a1  a2 = a2  scim = scim  github = github  ldap = ldap  n1 = n1
    NoValue = NoValue
    People = {p1}
    Accounts = {a1}
    Connectors = {ldap}
    Runs = {r1, r2}
    Cases = {c1, c2}
    Executors = {x1, x2}
    UacConnectors = {ldap}
    TrustedEmails = {}
    ConnectorOf <- MCDirectoryOf
    Type <- MCType
    Attr <- MCDirectoryAttr
    Files <- MCFiles
    Memberships <- MCMemberships
    Settings <- MCSettings
SYMMETRY CaseSymmetry
INVARIANTS ExecutorOwnsCase ActionsRunOnceApproved
PROPERTIES FollowsLifecycle
CHECK_DEADLOCK FALSE

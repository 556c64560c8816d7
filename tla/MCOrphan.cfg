SPECIFICATION RecSpec
CONSTANTS
    p1 = p1  p2 = p2  a1 = a1  a2 = a2  scim = scim
    e1 = e1  e2 = e2  n1 = n1  n2 = n2  NoValue = NoValue
    People = {p1, p2}
    Accounts = {a1, a2}
    Connectors = {scim}
    Runs = {r1, r2}
    UacConnectors = {}
    TrustedEmails = {e1, e2}
    ConnectorOf <- MCConnectorOf
    Type <- MCType
    Attr <- MCAttr
    Files <- MCRenaming
    Memberships <- MCMemberships
    Settings <- MCSettings
SYMMETRY RunSymmetry
PROPERTY OrphanFindingsAreTrue
CHECK_DEADLOCK FALSE

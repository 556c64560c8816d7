SPECIFICATION JobsSpec
CONSTANTS
    p1 = p1  a1 = a1  scim = scim  n1 = n1  NoValue = NoValue
    People = {p1}
    Accounts = {a1}
    Connectors = {scim}
    Runs = {r1}
    Cases = {c1}
    Executors = {x1, x2}
    WorkerIds = {x1, x2}
    WorkerId <- MCWorkerId
    MaxAttempts = 2
    MaxFaults = 2
    UacConnectors = {}
    TrustedEmails = {}
    ConnectorOf <- MCConnectorOf
    Type <- MCType
    Attr <- MCAttr
    Files <- MCFiles
    Memberships <- MCMemberships
    Settings <- MCSettings
INVARIANTS JobsTypeOK SucceededJobEndedCase RedeliveryIsHarmless
CHECK_DEADLOCK FALSE
